------------------------------- MODULE Session -------------------------------
(***************************************************************************)
(* The sessions of a TCP provider (TcpStandardModule): the chain of parts  *)
(* SessionInitializer, CryptographyInitializer, ClientAuthorizer and       *)
(* LogsTransmitter that talk to one client, the sinks they read from, and  *)
(* the ConnectionManager that owns the sessions.                           *)
(*                                                                         *)
(* All of it lives in the thread of the provider, so one handler runs at a *)
(* time, to its end; the signals finished, sinkClosed and readyRead are    *)
(* plain calls. Only singleShot and deleteLater post an event, and posted  *)
(* events are handled before the socket and the timer are looked at again. *)
(* One read of the socket may hold several messages: MessageFormer hands   *)
(* them up one by one, with no event in between.                           *)
(*                                                                         *)
(* The bytes of a message are left out: it is the kind of thing it asks    *)
(* for (see Kinds and Answers).                                            *)
(*                                                                         *)
(* A definition Mut... is a plausible slip in the one that follows it, for *)
(* comparison; no specification uses it.                                   *)
(***************************************************************************)
EXTENDS Integers, Sequences

CONSTANTS
    Conns,       \* the connections that clients make
    Sends        \* [Conns -> sets of sequences of Kinds]: what the client may
                 \* send in one piece

(* What the parts tell apart. Plain messages are not encrypted, those      *)
(* ByKey with the public key of the provider, those Secret with the key    *)
(* of the session, hashed and encrypted.                                   *)
Plain == {"protocol", "badProtocol"}

ByKey ==
    {"clientId", "unknownClient", "algorithm", "badAlgorithm",
     "key", "badKey",          \* a key that the algorithm takes, or refuses
     "badHash", "badLength"}   \* a good key, with a hash that does not match

AuthData == {"name", "pass", "wrong"}      \* answers to LoginPass
Modules ==
    {"allow",                  \* CHOOSEN_AUTH_MODULE of AlwaysAllow
     "login", "noData",        \* of LoginPass, configured with login and password or not
     "noModule"}               \* of a module the client may not use

(* A portion of logs, with what scheduleForWrite answers: 0, an id, or     *)
(* none (wrong format, no rights, refused).                                *)
Logs == {"logs", "logsQueued", "badLogs"}

Secret == Modules \cup AuthData \cup Logs \cup {"end"}

Kinds == Plain \cup ByKey \cup Secret

(* What a session writes. LOGIN and PASSWORD stand for AUTH_DATA that asks *)
(* for them, CONFIRMED for the ACK with the hash of a portion of logs.     *)
Answers ==
    {"HELLO", "ACK", "NACK", "CHOOSE_ALGORITHM", "CHOOSE_AUTH_MODULE",
     "LOGIN", "PASSWORD", "WAITING_FOR_LOGS", "CONFIRMED"}

ASSUME SessionAssumption ==
    /\ Sends \in [Conns -> SUBSET Seq(Kinds)]
    /\ \A c \in Conns : <<>> \notin Sends[c]

VARIABLES
    ses,         \* [Conns -> the session of the connection]
    active,      \* ConnectionManager::m_activeSessions
    server,      \* "accepting", "closing", "closed", "ended" or "crashed"
    quiet        \* the clients that fell silent, and stay connected

vars == <<ses, active, server, quiet>>

-----------------------------------------------------------------------------
(* The session record: part is m_currentSessionPart, next m_partsLeft,     *)
(* state and timer are m_state and m_timer of the current part, connected  *)
(* says that it listens to m_destination. stale says that the finished     *)
(* CryptographyInitializer still listens to the MessageFormer. sealed: the *)
(* destination is the MessageHasher. former and hasher are the unread      *)
(* messages of these sinks, rest those of the read in progress, posted the *)
(* events posted for the session, written what was written to the client   *)
(* since it last sent anything. closers counts the connections of          *)
(* sinkClosed to destinationClosed. The last five record what happened:    *)
(* the sessionFinished signals (after a bad hash there are several), what  *)
(* the client showed to the modules, whether logs were taken, whether a    *)
(* null m_currentSessionPart was used, and whether the client ever sent a  *)
(* message before it had the answer to the one before.                     *)
NoSession ==
    [part |-> "idle", next |-> <<>>, state |-> "NONE", timer |-> FALSE,
     connected |-> FALSE, stale |-> FALSE, sealed |-> FALSE, open |-> FALSE,
     former |-> <<>>, hasher |-> <<>>, rest |-> <<>>, posted |-> <<>>,
     written |-> <<>>, client |-> FALSE, authorized |-> FALSE, module |-> "none",
     closers |-> 0, reports |-> <<>>, shown |-> {},
     taken |-> FALSE, undefined |-> FALSE, early |-> FALSE]

(* Session::Session                                                        *)
NewSession ==
    [NoSession EXCEPT !.part = "none", !.next = <<"init">>, !.open = TRUE,
                      !.posted = <<"startSession">>]

Post(s, event) == [s EXCEPT !.posted = Append(@, event)]

(* MessageSink::write: a closed socket takes nothing.                      *)
Write(s, answer) ==
    IF s.open THEN [s EXCEPT !.written = Append(@, answer)] ELSE s

(* Close the destination: down to MessageEndpointTcp::close, which emits   *)
(* sinkClosed, up through the decorators to each connection of             *)
(* destinationClosed, which emits sessionFinished(m_result).               *)
CloseDestination(s, result) ==
    LET t == [s EXCEPT !.open = FALSE,
                       !.reports = @ \o [i \in 1..s.closers |-> result]]
    IN  IF s.reports = <<>> /\ t.reports # <<>> THEN Post(t, "deleteSession") ELSE t

(* Session::sessionPartFinished. A second call finds no current part.      *)
TakeNextPart(s) ==
    Post([s EXCEPT !.part = Head(s.next), !.next = Tail(@), !.state = "NONE"], "execute")

MutPartFinishedKeepsPart(s, result) ==
    LET t == IF s.part = "none" THEN [s EXCEPT !.undefined = TRUE] ELSE Post(s, "deletePart")
    IN  IF result /\ t.next # <<>> THEN TakeNextPart(t)
        ELSE CloseDestination([t EXCEPT !.next = <<>>, !.closers = @ + 1], result)

SessionPartFinished(s, result) ==
    LET t == IF s.part = "none" THEN [s EXCEPT !.undefined = TRUE]
             ELSE Post([s EXCEPT !.part = "none"], "deletePart")
    IN  IF result /\ t.next # <<>> THEN TakeNextPart(t)
        ELSE CloseDestination([t EXCEPT !.next = <<>>, !.closers = @ + 1], result)

(* Every part ends alike: disconnectAll, then the signal finished.         *)
DisconnectAll(s) == [s EXCEPT !.timer = FALSE, !.connected = FALSE]

Finished(s, result) == SessionPartFinished(DisconnectAll(s), result)

Await(s, state) == [s EXCEPT !.timer = TRUE, !.state = state]

-----------------------------------------------------------------------------
(* SessionInitializer::readNextMessage                                     *)
MutRefusesSilently(s, k) ==
    CASE k = "protocol" ->
            Finished(Write([s EXCEPT !.next = @ \o <<"crypto", "auth", "logs">>], "ACK"),
                     TRUE)
      [] k = "badProtocol" -> Await(s, s.state)
      [] OTHER -> Finished(s, FALSE)

InitReceived(s, k) ==
    CASE k = "protocol" ->
            Finished(Write([s EXCEPT !.next = @ \o <<"crypto", "auth", "logs">>], "ACK"),
                     TRUE)
      [] k = "badProtocol" -> Await(Write(s, "NACK"), s.state)
      [] OTHER -> Finished(s, FALSE)

(* CryptographyInitializer: the sinks, the client and the hash algorithm   *)
(* are set before disconnectAll, which then disconnects the part from the  *)
(* new destination and not from the one it listens to.                     *)
Seal(s) == [s EXCEPT !.sealed = TRUE, !.client = TRUE, !.stale = s.connected]

(* keyReceived. A bad length and a bad hash each emit finished(false) and  *)
(* go on. Any other message ByKey fails as a bad hash does and is then     *)
(* found to be of the wrong type. The rest cannot be decrypted.            *)
KeyReceived(s, k) ==
    CASE k = "key" -> Finished(Seal(s), TRUE)
      [] k = "badHash" -> Finished(Seal(Finished(s, FALSE)), TRUE)
      [] k = "badLength" -> Finished(Seal(Finished(Finished(s, FALSE), FALSE)), TRUE)
      [] k \in ByKey \ {"key", "badKey", "badHash", "badLength"} ->
            Finished(Finished(s, FALSE), FALSE)
      [] OTHER -> Finished(s, FALSE)

MutNackWithoutTimer(s, k) ==
    CASE s.state = "WAITING_FOR_CLIENT_ID" /\ k = "clientId" ->
            Await(Write(s, "CHOOSE_ALGORITHM"), "WAITING_FOR_ALGORITHM")
      [] s.state = "WAITING_FOR_ALGORITHM" /\ k = "algorithm" ->
            Await(Write(s, "ACK"), "WAITING_FOR_KEY")
      [] s.state = "WAITING_FOR_ALGORITHM" /\ k = "badAlgorithm" -> Write(s, "NACK")
      [] s.state = "WAITING_FOR_KEY" -> KeyReceived(s, k)
      [] OTHER -> Finished(s, FALSE)

CryptoReceived(s, k) ==
    CASE s.state = "WAITING_FOR_CLIENT_ID" /\ k = "clientId" ->
            Await(Write(s, "CHOOSE_ALGORITHM"), "WAITING_FOR_ALGORITHM")
      [] s.state = "WAITING_FOR_ALGORITHM" /\ k = "algorithm" ->
            Await(Write(s, "ACK"), "WAITING_FOR_KEY")
      [] s.state = "WAITING_FOR_ALGORITHM" /\ k = "badAlgorithm" ->
            Await(Write(s, "NACK"), s.state)
      [] s.state = "WAITING_FOR_KEY" -> KeyReceived(s, k)
      [] OTHER -> Finished(s, FALSE)

(* ClientSession::authorizationFinshedSlot, then                           *)
(* ClientAuthorizer::authorizationFinished                                 *)
AuthorizationFinished(s, result) ==
    Finished([s EXCEPT !.authorized = result, !.module = "none"], result)

(* LoginPass::newDataArrived. What it sends to the client starts the timer.*)
MutNoLoginAsked(s, k) ==
    IF s.module = "LOGIN_REQUESTED" /\ k = "name"
    THEN Await(Write([s EXCEPT !.module = "PASSWORD_REQUESTED"], "PASSWORD"), s.state)
    ELSE AuthorizationFinished(s, k = "pass")

NewDataArrived(s, k) ==
    IF s.module = "LOGIN_REQUESTED" /\ k = "name"
    THEN Await(Write([s EXCEPT !.module = "PASSWORD_REQUESTED"], "PASSWORD"), s.state)
    ELSE AuthorizationFinished(s, s.module = "PASSWORD_REQUESTED" /\ k = "pass")

(* ClientAuthorizer::moduleIdReceived and ClientSession::authorize; a      *)
(* module that cannot be used is answered NACK.                            *)
ModuleIdReceived(s, k) ==
    IF k \in Modules /\ ~s.client THEN Finished(s, FALSE)
    ELSE CASE k = "allow" -> AuthorizationFinished(s, TRUE)
           [] k = "login" ->
                 Await(Write([s EXCEPT !.module = "LOGIN_REQUESTED"], "LOGIN"),
                       "AUTH_IN_PROGRESS")
           [] k = "noData" -> AuthorizationFinished(s, FALSE)
           [] k = "noModule" -> Await(Write(s, "NACK"), s.state)
           [] OTHER -> Finished(s, FALSE)

AuthReceived(s, k) ==
    LET t == [s EXCEPT !.shown = @ \cup ({k} \cap {"allow", "login", "name", "pass"})]
    IN  CASE s.state = "WAITING_FOR_MODULE_ID" -> ModuleIdReceived(t, k)
          [] s.state = "AUTH_IN_PROGRESS" /\ k \in AuthData -> NewDataArrived(t, k)
          [] OTHER -> Finished(t, FALSE)

(* LogsTransmitter::readNextMessage and logsPortionReceived, in any state. *)
(* A portion that was queued leaves the timer off: portionWritten is to    *)
(* start it again, and nobody emits it.                                    *)
MutAckWithoutTimer(s, k) ==
    CASE k = "logs" -> Write([s EXCEPT !.taken = TRUE], "CONFIRMED")
      [] k = "logsQueued" -> [s EXCEPT !.state = "WRITTING_LOG", !.taken = TRUE]
      [] OTHER -> Finished(s, k = "end")

MutBadLogsEndWell(s, k) ==
    CASE k = "logs" -> Write([s EXCEPT !.timer = TRUE, !.taken = TRUE], "CONFIRMED")
      [] k = "logsQueued" -> [s EXCEPT !.state = "WRITTING_LOG", !.taken = TRUE]
      [] OTHER -> Finished(s, TRUE)

LogsReceived(s, k) ==
    CASE k = "logs" -> Write([s EXCEPT !.timer = TRUE, !.taken = TRUE], "CONFIRMED")
      [] k = "logsQueued" -> [s EXCEPT !.state = "WRITTING_LOG", !.taken = TRUE]
      [] OTHER -> Finished(s, k = "end")

(* readNextMessage of the current part stops the timer first.              *)
ReadNextMessage(s, k) ==
    LET t == [s EXCEPT !.timer = FALSE]
    IN  CASE s.part = "init" -> InitReceived(t, k)
          [] s.part = "crypto" -> CryptoReceived(t, k)
          [] s.part = "auth" -> AuthReceived(t, k)
          [] s.part = "logs" -> LogsReceived(t, k)

-----------------------------------------------------------------------------
(* A message in the destination, which the current part reads at once if   *)
(* it listens: the oldest one that nobody has read.                        *)
InFormer(s, k) ==
    LET q == Append(s.former, k)
    IN  IF s.connected THEN ReadNextMessage([s EXCEPT !.former = Tail(q)], Head(q))
        ELSE [s EXCEPT !.former = q]

InHasher(s, k) ==
    LET q == Append(s.hasher, k)
    IN  IF s.connected THEN ReadNextMessage([s EXCEPT !.hasher = Tail(q)], Head(q))
        ELSE [s EXCEPT !.hasher = q]

(* MessageCipher takes the oldest message of the MessageFormer; what does  *)
(* not decrypt or whose hash does not match goes no further.               *)
ThroughCipher(s, k) ==
    LET q == Append(s.former, k)
        t == [s EXCEPT !.former = Tail(q)]
    IN  IF Head(q) \in Secret THEN InHasher(t, Head(q)) ELSE t

(* Once the session is over nobody listens to any sink.                    *)
Arrived(s, k) ==
    IF ~s.open THEN s
    ELSE IF s.sealed THEN ThroughCipher(s, k) ELSE InFormer(s, k)

-----------------------------------------------------------------------------
Init ==
    /\ ses = [c \in Conns |-> NoSession]
    /\ active = {}
    /\ server = "accepting"
    /\ quiet = {}

Running == server \notin {"ended", "crashed"}

(* No read is in progress: the thread is in its event loop.                *)
InLoop == Running /\ \A c \in Conns : ses[c].rest = <<>>

(* ConnectionManager::sessionFinished for the session c, which has just    *)
(* become s.                                                               *)
MutClosedTooEarly(c, s) ==
    /\ active' = IF s.reports # <<>> THEN active \ {c} ELSE active
    /\ server' = IF server = "closing" /\ s.reports # ses[c].reports
                 THEN "closed" ELSE server

MutKeepsFailedSessions(c, s) ==
    /\ active' = IF s.reports # <<>> /\ Head(s.reports) THEN active \ {c} ELSE active
    /\ server' = IF server = "closing" /\ active' = {} /\ s.reports # ses[c].reports
                 THEN "closed" ELSE server

SessionFinished(c, s) ==
    /\ active' = IF s.reports # <<>> THEN active \ {c} ELSE active
    /\ server' = IF server = "closing" /\ active' = {} /\ s.reports # ses[c].reports
                 THEN "closed" ELSE server

Becomes(c, s) ==
    /\ ses' = [ses EXCEPT ![c] = s]
    /\ SessionFinished(c, s)
    /\ UNCHANGED quiet

Crash ==
    /\ server' = "crashed"
    /\ UNCHANGED <<ses, active, quiet>>

(***************************************************************************)
(* ConnectionManager::newConnectionArrived                                 *)
(***************************************************************************)
Arrives(c) ==
    /\ InLoop
    /\ server = "accepting"
    /\ ses[c] = NoSession

NewConnectionArrived(c) ==
    /\ Arrives(c)
    /\ ses' = [ses EXCEPT ![c] = NewSession]
    /\ active' = active \cup {c}
    /\ UNCHANGED <<server, quiet>>

NotConnectedSocket(c) ==
    /\ Arrives(c)
    /\ Becomes(c, [NoSession EXCEPT !.part = "refused"])

(***************************************************************************)
(* The posted events                                                       *)
(***************************************************************************)
Handle(c, event) ==
    /\ InLoop
    /\ ses[c].posted # <<>>
    /\ Head(ses[c].posted) = event

Handled(c) == [ses[c] EXCEPT !.posted = Tail(@)]

StartSession(c) ==
    /\ Handle(c, "startSession")
    /\ Becomes(c, TakeNextPart(Handled(c)))

Execute(c, part) == Handle(c, "execute") /\ ses[c].part = part

Listening(s) == [s EXCEPT !.connected = TRUE]

(* SessionInitializer::execute, which also puts the MessageFormer on top   *)
(* of the socket.                                                          *)
ExecuteInit(c) ==
    /\ Execute(c, "init")
    /\ Becomes(c, Await(Write(Listening(Handled(c)), "HELLO"), "NONE"))

MutListensLate(c) ==
    /\ Execute(c, "crypto")
    /\ Becomes(c, Await(Handled(c), "WAITING_FOR_CLIENT_ID"))

MutAsksAtOnce(c) ==
    /\ Execute(c, "crypto")
    /\ Becomes(c, Await(Write(Listening(Handled(c)), "CHOOSE_ALGORITHM"),
                       "WAITING_FOR_CLIENT_ID"))

ExecuteCrypto(c) ==
    /\ Execute(c, "crypto")
    /\ Becomes(c, Await(Listening(Handled(c)), "WAITING_FOR_CLIENT_ID"))

(* The codes CHOOSE_AUTH_MODULE, which the server sends, and               *)
(* CHOOSEN_AUTH_MODULE, which its client sends, are one letter apart.      *)
MutSendsClientsCode(c) ==
    /\ Execute(c, "auth")
    /\ Becomes(c, Await(Write(Listening(Handled(c)), "CHOOSEN_AUTH_MODULE"),
                       "WAITING_FOR_MODULE_ID"))

ExecuteAuth(c) ==
    /\ Execute(c, "auth")
    /\ Becomes(c, Await(Write(Listening(Handled(c)), "CHOOSE_AUTH_MODULE"),
                       "WAITING_FOR_MODULE_ID"))

(* getDataChannel throws for a client that is not authorized, and nobody   *)
(* catches it. A client with no route to this provider has no channel.     *)
ExecuteLogs(c) ==
    /\ Execute(c, "logs")
    /\ IF ~ses[c].authorized THEN Crash
       ELSE \/ Becomes(c, Await(Write(Listening(Handled(c)), "WAITING_FOR_LOGS"),
                               "WAITING_FOR_LOG"))
            \/ Becomes(c, Finished(Write(Listening(Handled(c)), "NACK"), TRUE))

DeletePart(c) ==
    /\ Handle(c, "deletePart")
    /\ Becomes(c, [Handled(c) EXCEPT !.stale = FALSE])

DeleteSession(c) ==
    /\ Handle(c, "deleteSession")
    /\ Becomes(c, [NoSession EXCEPT !.part = "deleted", !.reports = ses[c].reports])

HandlePosted(c) ==
    \/ StartSession(c)
    \/ ExecuteInit(c)
    \/ ExecuteCrypto(c)
    \/ ExecuteAuth(c)
    \/ ExecuteLogs(c)
    \/ DeletePart(c)
    \/ DeleteSession(c)

(***************************************************************************)
(* The client and the clock                                                *)
(***************************************************************************)
Ready(c) == InLoop /\ ses[c].open /\ ses[c].posted = <<>>

(* The socket has data: one or several messages of the client.             *)
Receive(c) ==
    /\ Ready(c)
    /\ c \notin quiet
    /\ \E messages \in Sends[c] :
          Becomes(c, [ses[c] EXCEPT !.rest = messages, !.written = <<>>,
                                    !.early = @ \/ Len(messages) > Len(ses[c].written)])

(* MessageFormer::transformReadData hands up the next message of the read. *)
(* A null m_currentSessionPart may end the process or be passed over. The  *)
(* CryptographyInitializer that is still connected reads an empty message, *)
(* fails, and closes a sink whose sinkClosed it still listens to: it calls *)
(* itself until the stack is exhausted.                                    *)
ReadNext(c) ==
    /\ Running
    /\ ses[c].rest # <<>>
    /\ LET s == Arrived([ses[c] EXCEPT !.rest = Tail(@)], Head(ses[c].rest))
       IN  IF ses[c].stale /\ ses[c].open THEN Crash
           ELSE \/ Becomes(c, s)
                \/ s.undefined /\ ~ses[c].undefined /\ Crash

(* requestTimedOut of the current part                                     *)
RequestTimedOut(c) ==
    /\ Ready(c)
    /\ ses[c].timer
    /\ Becomes(c, Finished(ses[c], FALSE))

(* The client disconnects: MessageEndpointTcp::close, then sinkClosed of   *)
(* the current part.                                                       *)
PeerDisconnects(c) ==
    /\ Ready(c)
    /\ Becomes(c, Finished([ses[c] EXCEPT !.open = FALSE], FALSE))

FallSilent(c) ==
    /\ InLoop
    /\ ses[c].open
    /\ quiet' = quiet \cup {c}
    /\ UNCHANGED <<ses, active, server>>

(***************************************************************************)
(* ConnectionManager::close, asked for by DefaultTcpProvider::close, which *)
(* then ends the thread. No session is asked to stop.                      *)
(***************************************************************************)
Close ==
    /\ InLoop
    /\ server = "accepting"
    /\ server' = IF active = {} THEN "closed" ELSE "closing"
    /\ UNCHANGED <<ses, active, quiet>>

(* The events left over are those of deleted objects.                      *)
EndThread ==
    /\ InLoop
    /\ server = "closed"
    /\ server' = "ended"
    /\ ses' = [c \in Conns |-> [ses[c] EXCEPT !.posted = <<>>]]
    /\ UNCHANGED <<active, quiet>>

-----------------------------------------------------------------------------
Next ==
    \/ \E c \in Conns :
          \/ NewConnectionArrived(c)
          \/ NotConnectedSocket(c)
          \/ HandlePosted(c)
          \/ Receive(c)
          \/ ReadNext(c)
          \/ RequestTimedOut(c)
          \/ PeerDisconnects(c)
          \/ FallSilent(c)
    \/ Close
    \/ EndThread

Spec == Init /\ [][Next]_vars

(* The event loop of the thread goes on and serves every session however   *)
(* busy the others are, hence strong fairness; the timer of a part expires *)
(* once its client is silent for good.                                     *)
Fairness ==
    \A c \in Conns :
        /\ SF_vars(HandlePosted(c))
        /\ WF_vars(ReadNext(c))
        /\ SF_vars(c \in quiet /\ RequestTimedOut(c))

FairSpec == Spec /\ Fairness

-----------------------------------------------------------------------------
(* Properties                                                              *)

Parts == {"init", "crypto", "auth", "logs"}

States ==
    {"NONE", "WAITING_FOR_CLIENT_ID", "WAITING_FOR_ALGORITHM", "WAITING_FOR_KEY",
     "WAITING_FOR_MODULE_ID", "AUTH_IN_PROGRESS", "WAITING_FOR_LOG", "WRITTING_LOG"}

Events == {"startSession", "execute", "deletePart", "deleteSession"}

Sessions ==
    [part : Parts \cup {"idle", "none", "refused", "deleted"}, next : Seq(Parts),
     state : States, timer : BOOLEAN, connected : BOOLEAN, stale : BOOLEAN,
     sealed : BOOLEAN, open : BOOLEAN, former : Seq(Kinds), hasher : Seq(Kinds),
     rest : Seq(Kinds), posted : Seq(Events), written : Seq(Answers),
     client : BOOLEAN, authorized : BOOLEAN,
     module : {"none", "LOGIN_REQUESTED", "PASSWORD_REQUESTED"}, closers : Nat,
     reports : Seq(BOOLEAN), shown : SUBSET Kinds, taken : BOOLEAN, undefined : BOOLEAN,
     early : BOOLEAN]

(* The type of every variable.                                             *)
TypeOK ==
    /\ ses \in [Conns -> Sessions]
    /\ active \subseteq Conns
    /\ server \in {"accepting", "closing", "closed", "ended", "crashed"}
    /\ quiet \subseteq Conns

(* The current part has been executed and the thread is in its event loop. *)
Waiting(c) == ses[c].part \in Parts /\ Ready(c)

(* Whenever a part waits for its client it listens to the destination, and *)
(* its timer runs, over all the handlers that stop it and rely on another  *)
(* object to start it again. The exception is a portion that was queued.   *)
WaitingIsTimed ==
    \A c \in Conns : Waiting(c) =>
        /\ ses[c].connected
        /\ ses[c].timer \/ ses[c].state = "WRITTING_LOG"

(* Nothing of a finished session is left to run when its object is deleted:*)
(* the parts hold a plain pointer to it.                                   *)
PartsEndBeforeSession ==
    \A c \in Conns :
        LET s == ses[c]
        IN  (s.posted # <<>> /\ Head(s.posted) = "deleteSession") \/ s.part = "deleted" =>
                /\ s.part \notin Parts
                /\ ~s.timer /\ ~s.connected /\ ~s.stale

(* Logs are taken only from a client that was authorized by AlwaysAllow,   *)
(* or that gave LoginPass its login and its password, and only through the *)
(* hashed and encrypted sinks.                                             *)
LogsOnlyFromAuthorized ==
    \A c \in Conns :
        ses[c].part = "logs" \/ ses[c].taken =>
            /\ ses[c].sealed /\ ses[c].authorized
            /\ "allow" \in ses[c].shown \/ {"login", "name", "pass"} \subseteq ses[c].shown

(* A client that waits for each answer is never one message behind: no     *)
(* message stays in a sink because no part listened when it came, and each *)
(* was answered exactly once, by the part that took it or by the next. One *)
(* that does not decrypt is not answered, nor is a portion that is queued. *)
NothingLeftUnread ==
    \A c \in Conns : Waiting(c) /\ ~ses[c].early =>
        /\ ses[c].former = <<>> /\ ses[c].hasher = <<>>
        /\ Len(ses[c].written) <= 1
        /\ ses[c].written = <<>> => ses[c].sealed

(* The manager waits for exactly the sessions that have not reported their *)
(* end, and those that have are closed.                                    *)
ActiveIsUnreported ==
    /\ active = {c \in Conns : ses[c].part \notin {"idle", "refused"} /\ ses[c].reports = <<>>}
    /\ \A c \in Conns : ses[c].reports # <<>> => ~ses[c].open

Stage(c) ==
    LET s == ses[c]
    IN  IF s.reports # <<>> THEN IF Head(s.reports) THEN "ok" ELSE "failed"
        ELSE IF s.part \in {"idle", "refused"} THEN "waiting"
        ELSE IF server = "crashed" THEN "failed"
        ELSE IF s.part \in {"none", "init"} THEN "hello" ELSE s.part

(* The abstract specification that Session implements, by the first report *)
(* of each session.                                                        *)
Abstract ==
    INSTANCE SessionStages WITH
        stage <- [c \in Conns |-> Stage(c)],
        accepting <- server = "accepting",
        closed <- server \in {"closed", "ended"}

(* Every session goes through its parts in order, ends once and for all,   *)
(* and the provider is closed only when none is in progress.               *)
ImplementsSessionStages == Abstract!Spec

(* A session whose client fell silent ends by its timer, unless it waits   *)
(* for portionWritten.                                                     *)
SilentSessionEnds ==
    \A c \in Conns :
        c \in quiet ~>
            \/ ses[c].reports # <<>>
            \/ ses[c].state = "WRITTING_LOG"
            \/ ~Running

(* The provider that is asked to close stops once its clients are silent:  *)
(* "After return from this function all connections should be closed"      *)
(* (DataProvider.h:38).                                                    *)
CloseCompletes ==
    server = "closing" /\ quiet = Conns ~> server \notin {"accepting", "closing"}

=============================================================================
