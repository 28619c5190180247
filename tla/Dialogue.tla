------------------------------- MODULE Dialogue -------------------------------
(***************************************************************************)
(* The client program (protocolTests) and the sessions of the provider     *)
(* (Session), with the connection between them and the keys at both ends.  *)
(*                                                                         *)
(* The client is one sequence of steps: wait for data, take what readAll   *)
(* gives for one message, check it, write the next one. At the first thing *)
(* that is not as expected it returns -1 (or dies of what decrypt throws), *)
(* which closes its socket. A step is one action, from read to write.      *)
(*                                                                         *)
(* The connection keeps the order of what is written to it. A read may end *)
(* inside a message. What a session has written is lost if its socket is   *)
(* destroyed before the event loop has sent it.                            *)
(***************************************************************************)
EXTENDS Session, Algorithms

CONSTANTS
    Iv,          \* [Suitable -> the iv that is made with the key]
    KeyFiles     \* what the key files of the two programs may hold

(* The iv of a key is one block of random bytes, never empty.              *)
ASSUME DialogueAssumption == \A key \in Suitable : Iv[key] # NoKey

VARIABLES
    provider,    \* m_algorithm and m_signer of the DefaultTcpProvider
    prog,        \* [Conns -> the client program]
    crypt,       \* [Conns -> m_sym of the session]
    reading,     \* [Conns -> the message that the session read last]
    toServer,    \* [Conns -> what is under way to the session]
    toClient,    \* [Conns -> what is under way to the client]
    flaws        \* [Conns -> what has happened that a dialogue may fail for]

ends == <<provider, prog, crypt, reading, toServer, toClient, flaws>>
dialogue == <<vars, ends>>

-----------------------------------------------------------------------------
(* What goes over the wire: a message in the clear, with the signature of  *)
(* the one with CHOOSE_ALGORITHM; one for the holder of an RSA key, with   *)
(* the key that ESTABLISH_ENCRYPTION carries; one in the chain of a cipher.*)
InClear(kind, signedBy) == [lock |-> "none", kind |-> kind, signedBy |-> signedBy]
ForHolder(rsa, kind, key) ==
    [lock |-> "rsa", for |-> rsa.encryptor, kind |-> kind, key |-> key]
Chained(aes, kind) == [lock |-> "aes", text |-> AesEncrypt(aes, kind)]

(* The message that each step of the client waits for.                     *)
Expects ==
    <<"HELLO", "ACK", "CHOOSE_ALGORITHM", "ACK", "CHOOSE_AUTH_MODULE",
      "LOGIN", "PASSWORD", "WAITING_FOR_LOGS", "CONFIRMED">>

(* The client: step counts the messages it waits for, end tells how it     *)
(* returned, file is what its key file holds. torn: a part of a message    *)
(* that it has taken for a whole one is left.                              *)
Program(file) ==
    [step |-> 0, end |-> "no", file |-> file, rsa |-> NewRsa, aes |-> NewAes,
     torn |-> FALSE]

(* What a session cannot make sense of, whatever it waits for.             *)
Noise == "badProtocol"

-----------------------------------------------------------------------------
(* DefaultTcpProvider::parseOptions. A key file that cannot be used is     *)
(* logged and the provider starts without a key. Without a file it makes a *)
(* pair, and the signer gets its private half.                             *)
WithKeyFile(key) ==
    LET rsa == SetPrivateKey(NewRsa, key)
    IN  [rsa |-> rsa.object,
         signer |-> IF rsa.ok THEN SetSignKey(NewSigner, key).object ELSE NewSigner]

WithNewKeys(pair) ==
    [rsa |-> GenerateKeys(NewRsa, pair), signer |-> SetSignKey(NewSigner, pair).object]

StartDialogue ==
    /\ Init
    /\ provider \in {WithKeyFile(key) : key \in KeyFiles} \cup {WithNewKeys(key) : key \in Pairs}
    /\ prog \in [Conns -> {Program(file) : file \in KeyFiles}]
    /\ crypt = [c \in Conns |-> NewAes]
    /\ reading = [c \in Conns |-> InClear(Noise, NoKey)]
    /\ toServer = [c \in Conns |-> <<>>]
    /\ toClient = [c \in Conns |-> <<>>]
    /\ flaws = [c \in Conns |-> {}]

-----------------------------------------------------------------------------
(* The client                                                              *)

GaveUp(p) == [p EXCEPT !.end = "gaveUp"]

(* It cannot connect, or its connection is gone before the provider looks. *)
Connect(c) ==
    /\ prog[c].step = 0 /\ prog[c].end = "no"
    /\ \/ /\ NewConnectionArrived(c)
          /\ prog' = [prog EXCEPT ![c].step = 1]
          /\ UNCHANGED flaws
       \/ /\ \/ NotConnectedSocket(c)
             \/ server # "accepting" /\ UNCHANGED vars
          /\ prog' = [prog EXCEPT ![c] = GaveUp(@)]
          /\ flaws' = [flaws EXCEPT ![c] = @ \cup {"unconnected"}]
    /\ UNCHANGED <<provider, crypt, reading, toServer, toClient>>

Waits(c) == prog[c].step > 0 /\ prog[c].end = "no"

(* The message is the one expected: in the clear, and for CHOOSE_ALGORITHM *)
(* signed, or in the chain of the cipher of the client.                    *)
IsExpected(c, message) ==
    LET p == prog[c]
    IN  IF p.step < 5
        THEN /\ message.lock = "none"
             /\ message.kind = Expects[p.step]
             /\ p.step = 3 => Verifies(SetVerifyKey(NewSigner, p.file).object,
                                       message.signedBy)
        ELSE /\ message.lock = "aes"
             /\ AesReads(p.aes, message.text)
             /\ message.text.plain = Expects[p.step]

(* A step: readAll takes all there is. What follows a message in the clear *)
(* is not looked at, and spoils one that is encrypted.                     *)
Reads(c, step) ==
    /\ Waits(c)
    /\ prog[c].step = step
    /\ ~prog[c].torn
    /\ toClient[c] # <<>>
    /\ IsExpected(c, Head(toClient[c]))
    /\ step < 5 \/ Len(toClient[c]) = 1

Flawed ==
    {"badProtocol", "unknownClient", "badAlgorithm", "noData", "noModule",
     "wrong", "badLogs", "logsQueued"}

(* The step ends with the program p and the message of this kind.          *)
Writes(c, p, kind, message) ==
    /\ prog' = [prog EXCEPT ![c] = [p EXCEPT !.step = @ + 1]]
    /\ toServer' = [toServer EXCEPT ![c] = Append(@, message)]
    /\ toClient' = [toClient EXCEPT ![c] = <<>>]
    /\ flaws' = [flaws EXCEPT ![c] = @ \cup ({kind} \cap Flawed)]
    /\ UNCHANGED <<vars, provider, crypt, reading>>

(* The step ends with return -1.                                           *)
Returns1(c, flaw) ==
    /\ prog' = [prog EXCEPT ![c] = GaveUp(@)]
    /\ toClient' = [toClient EXCEPT ![c] = <<>>]
    /\ flaws' = [flaws EXCEPT ![c] = @ \cup flaw]
    /\ UNCHANGED <<vars, provider, crypt, reading, toServer>>

(* HELLO, REQUEST_PROTOCOL                                                 *)
RequestProtocol(c) ==
    /\ Reads(c, 1)
    /\ \E kind \in {"protocol", "badProtocol"} :
          Writes(c, prog[c], kind, InClear(kind, NoKey))

(* ACK, CLIENT_ID for the holder of the private key. A key file that       *)
(* cannot be loaded is logged, and encrypt then throws.                    *)
Introduce(c) ==
    /\ Reads(c, 2)
    /\ LET rsa == SetPublicKey(NewRsa, prog[c].file).object
       IN  IF CanEncrypt(rsa)
           THEN \E kind \in {"clientId", "unknownClient"} :
                   Writes(c, [prog[c] EXCEPT !.rsa = rsa], kind, ForHolder(rsa, kind, NoKey))
           ELSE Returns1(c, {})

(* CHOOSE_ALGORITHM, CHOOSEN_ALGORITHM                                     *)
ChooseAlgorithm(c) ==
    /\ Reads(c, 3)
    /\ \E kind \in {"algorithm", "badAlgorithm"} :
          Writes(c, prog[c], kind, ForHolder(prog[c].rsa, kind, NoKey))

(* ACK, ESTABLISH_ENCRYPTION                                               *)
EstablishEncryption(c) ==
    /\ Reads(c, 4)
    /\ \E key \in Suitable :
          LET aes == GenerateKey(prog[c].aes, key, Iv[key])
          IN  Writes(c, [prog[c] EXCEPT !.aes = aes], "key",
                     ForHolder(prog[c].rsa, "key", aes.key))

(* From here on the message read has gone through the decryption, and the  *)
(* message written goes through the encryption.                            *)
Seals(c, kinds) ==
    LET aes == AfterDecrypt(prog[c].aes, Head(toClient[c]).text)
    IN  \E kind \in kinds :
           Writes(c, [prog[c] EXCEPT !.aes = AfterEncrypt(aes, kind)], kind, Chained(aes, kind))

(* CHOOSE_AUTH_MODULE, CHOOSEN_AUTH_MODULE                                 *)
ChooseAuthModule(c) == Reads(c, 5) /\ Seals(c, {"login", "noData", "noModule"})

(* AUTH_DATA with REQUEST_LOGIN, AUTH_DATA with LOGIN                      *)
GiveLogin(c) == Reads(c, 6) /\ Seals(c, {"name", "wrong"})

(* AUTH_DATA with REQUEST_PASSWORD, AUTH_DATA with PASSWORD                *)
GivePassword(c) == Reads(c, 7) /\ Seals(c, {"pass", "wrong"})

(* WAITING_FOR_LOGS, LOGS_PORTION                                          *)
SendLogs(c) == Reads(c, 8) /\ Seals(c, Logs)

(* ACK with the hash of the portion, which is not looked at; END, and the  *)
(* program closes its socket.                                              *)
Finish(c) ==
    /\ Reads(c, 9)
    /\ LET aes == AfterDecrypt(prog[c].aes, Head(toClient[c]).text)
       IN  Writes(c, [prog[c] EXCEPT !.aes = AfterEncrypt(aes, "end"),
                                     !.end = "done"],
                  "end", Chained(aes, "end"))

(* Data that is not the message expected, or follows what was torn.        *)
Mismatch(c) ==
    /\ Waits(c)
    /\ \/ prog[c].torn
       \/ toClient[c] # <<>> /\ ~Reads(c, prog[c].step)
    /\ Returns1(c, {})

(* A read that ends inside a message. The code of HELLO is 0, as is the    *)
(* byte behind a message cut short: its first part may pass for a whole.   *)
TornRead(c) ==
    /\ Waits(c)
    /\ toClient[c] # <<>>
    /\ \/ Returns1(c, {"torn"})
       \/ /\ Reads(c, 1)
          /\ prog' = [prog EXCEPT ![c].step = 2, ![c].torn = TRUE]
          /\ toServer' = [toServer EXCEPT ![c] = Append(@, InClear("protocol", NoKey))]
          /\ toClient' = [toClient EXCEPT ![c] = <<>>]
          /\ flaws' = [flaws EXCEPT ![c] = @ \cup {"torn"}]
          /\ UNCHANGED <<vars, provider, crypt, reading>>

(* waitForReadyRead fails: the session has closed, or the time is over.    *)
MutWaitsForEver(c) ==
    /\ Waits(c)
    /\ toClient[c] = <<>>
    /\ ~prog[c].torn
    /\ ~ses[c].open /\ Returns1(c, {})

WaitFails(c) ==
    /\ Waits(c)
    /\ toClient[c] = <<>>
    /\ ~prog[c].torn
    /\ \/ ~ses[c].open /\ Returns1(c, {})
       \/ Returns1(c, {"late"})

(* The session has closed the connection before the client writes: the     *)
(* write may get as far as the system, or waitForBytesWritten fails.       *)
WriteFails(c) ==
    /\ Reads(c, prog[c].step)
    /\ ~ses[c].open
    /\ Returns1(c, {})

ClientStep(c) ==
    \/ RequestProtocol(c)
    \/ Introduce(c)
    \/ ChooseAlgorithm(c)
    \/ EstablishEncryption(c)
    \/ ChooseAuthModule(c)
    \/ GiveLogin(c)
    \/ GivePassword(c)
    \/ SendLogs(c)
    \/ Finish(c)
    \/ Mismatch(c)
    \/ TornRead(c)
    \/ WaitFails(c)
    \/ WriteFails(c)

-----------------------------------------------------------------------------
(* The session                                                             *)

(* What the sinks and the parts make of a message.                         *)
Opened(c, message) ==
    CASE message.lock = "none" -> message.kind
      [] message.lock = "rsa" ->
            IF ~ses[c].sealed /\ RsaReads(provider.rsa, message.for) THEN message.kind ELSE Noise
      [] message.lock = "aes" ->
            IF ses[c].sealed /\ AesReads(crypt[c], message.text) THEN message.text.plain ELSE Noise

(* The socket has data; MessageCipher takes the message through its chain. *)
ReceiveMessage(c) ==
    /\ toServer[c] # <<>>
    /\ LET message == Head(toServer[c])
       IN  /\ Receive(c)
           /\ ses'[c].rest = <<Opened(c, message)>>
           /\ toServer' = [toServer EXCEPT ![c] = Tail(@)]
           /\ reading' = [reading EXCEPT ![c] = message]
           /\ crypt' = IF ses[c].sealed /\ message.lock = "aes"
                       THEN [crypt EXCEPT ![c] = AfterDecrypt(@, message.text)] ELSE crypt
    /\ UNCHANGED <<provider, prog, toClient, flaws>>

(* keyReceived: the key of the message it has just read.                   *)
WithKey(c) == SetIv(SetKey(NewAes, reading[c].key).object, Iv[reading[c].key]).object

(* What the handler has written goes through the sinks that were set when  *)
(* it did: a session that is sealed hashes and encrypts it. A signature is *)
(* that of a clone of the signer. No handler writes twice.                 *)
Sends1(c, aes) ==
    LET news == SubSeq(ses'[c].written, Len(ses[c].written) + 1, Len(ses'[c].written))
    IN  IF news = <<>> THEN crypt' = [crypt EXCEPT ![c] = aes] /\ UNCHANGED toClient
        ELSE IF ses'[c].sealed
        THEN /\ crypt' = [crypt EXCEPT ![c] = AfterEncrypt(aes, Head(news))]
             /\ toClient' = [toClient EXCEPT ![c] = Append(@, Chained(aes, Head(news)))]
        ELSE /\ crypt' = [crypt EXCEPT ![c] = aes]
             /\ toClient' = [toClient EXCEPT ![c] =
                    Append(@, InClear(Head(news), CloneSigner(provider.signer).signer))]

(* The part handles the message.                                           *)
HandleMessage(c) ==
    /\ ReadNext(c)
    /\ Sends1(c, IF ses'[c].sealed /\ ~ses[c].sealed THEN WithKey(c) ELSE crypt[c])
    /\ UNCHANGED <<provider, prog, reading, toServer, flaws>>

(* A posted event. A client without a route to the provider is told NACK.  *)
(* With the session goes the socket, and what it has not sent yet.         *)
HandleEvent(c) ==
    /\ HandlePosted(c)
    /\ IF ses'[c].part = "deleted"
       THEN /\ \E kept \in {toClient[c], <<>>} : toClient' = [toClient EXCEPT ![c] = kept]
            /\ UNCHANGED crypt
       ELSE Sends1(c, crypt[c])
    /\ flaws' = [flaws EXCEPT ![c] =
          @ \cup IF ses[c].part = "logs" /\ ses'[c].part # "logs" THEN {"noRoute"} ELSE {}]
    /\ UNCHANGED <<provider, prog, reading, toServer>>

TimesOut(c) ==
    /\ RequestTimedOut(c)
    /\ flaws' = [flaws EXCEPT ![c] = @ \cup {"late"}]
    /\ UNCHANGED <<provider, prog, crypt, reading, toServer, toClient>>

(* The client is gone. What it wrote before close is read first; what a    *)
(* program wrote that gave up may be lost.                                 *)
Disconnected(c) ==
    /\ \/ prog[c].end = "gaveUp"
       \/ prog[c].end = "done" /\ toServer[c] = <<>>
    /\ PeerDisconnects(c)
    /\ toServer' = [toServer EXCEPT ![c] = <<>>]
    /\ UNCHANGED <<provider, prog, crypt, reading, toClient, flaws>>

-----------------------------------------------------------------------------
NextDialogue ==
    \/ \E c \in Conns :
          \/ Connect(c)
          \/ ClientStep(c)
          \/ ReceiveMessage(c)
          \/ HandleMessage(c)
          \/ HandleEvent(c)
          \/ TimesOut(c)
          \/ Disconnected(c)
    \/ (Close \/ EndThread) /\ UNCHANGED ends

DialogueSpec == StartDialogue /\ [][NextDialogue]_dialogue

(* The event loop of the provider serves every connection; a client that   *)
(* runs goes on, and does not wait for ever.                               *)
DialogueFairness ==
    \A c \in Conns :
        /\ SF_dialogue(HandleEvent(c))
        /\ WF_dialogue(HandleMessage(c))
        /\ SF_dialogue(ReceiveMessage(c))
        /\ SF_dialogue(Disconnected(c))
        /\ WF_dialogue(ClientStep(c))

FairDialogue == DialogueSpec /\ DialogueFairness

-----------------------------------------------------------------------------
(* Properties                                                              *)

Ended(c) == ses[c].reports # <<>>
HungUp(c) == prog[c].end = "gaveUp" \/ ~ses[c].open

(* The type of the variables that the dialogue adds.                       *)
DialogueTypeOK ==
    /\ \A c \in Conns :
          /\ prog[c].step \in 0..10
          /\ prog[c].end \in {"no", "done", "gaveUp"}
          /\ prog[c].aes.key \in Suitable \cup {NoKey}
          /\ crypt[c].key \in Suitable \cup {NoKey}
          /\ prog[c].rsa.public \in Pairs \cup {NoKey}
          /\ Len(toServer[c]) <= 1 /\ Len(toClient[c]) <= 1
    /\ provider.rsa.private \in Pairs \cup {NoKey}

(* The next encrypted message of each direction is one that its reader can *)
(* decrypt, and both ends have the same key: over all the messages before  *)
(* it, neither end has encrypted one it did not send, or missed one.       *)
ChainsInStep ==
    \A c \in Conns : ses[c].sealed /\ ~HungUp(c) =>
        /\ crypt[c].key = prog[c].aes.key
        /\ IF toServer[c] = <<>> THEN InStep(prog[c].aes, crypt[c])
           ELSE AesReads(crypt[c], Head(toServer[c]).text)
        /\ IF toClient[c] = <<>> THEN InStep(crypt[c], prog[c].aes)
           ELSE AesReads(prog[c].aes, Head(toClient[c]).text)

(* The two ends do not disagree on how it went. A program that returns 0   *)
(* was told of logs that were taken, and its session reports success       *)
(* unless its time was over first; a session reports success only after    *)
(* such a program, or one without a route.                                 *)
EndsAgree ==
    \A c \in Conns :
        /\ prog[c].end = "done" => ses[c].taken \/ ses[c].part = "deleted"
        /\ \A i \in DOMAIN ses[c].reports :
              IF ses[c].reports[i] THEN prog[c].end = "done" \/ "noRoute" \in flaws[c]
              ELSE prog[c].end # "done" \/ "late" \in flaws[c]

(* The client and the session never wait for each other: when both wait    *)
(* there is a message under way. Only the session that waits for           *)
(* portionWritten leaves its client without an answer.                     *)
OneHasTheFloor ==
    \A c \in Conns :
        Waiting(c) /\ Waits(c) /\ ~prog[c].torn =>
            \/ toServer[c] # <<>> \/ toClient[c] # <<>>
            \/ ses[c].state = "WRITTING_LOG"

KeysMatch(c) ==
    prog[c].file \in Pairs /\ RsaReads(provider.rsa, prog[c].file)

(* The two programs speak the same protocol: a dialogue fails, at either   *)
(* end, only for a reason outside the two of them.                         *)
FailsForAReason ==
    \A c \in Conns :
        KeysMatch(c) /\ flaws[c] = {} =>
            /\ prog[c].end # "gaveUp"
            /\ \A i \in DOMAIN ses[c].reports : ses[c].reports[i]

Floor(c) ==
    IF ses[c].part = "idle" THEN "idle"
    ELSE IF HungUp(c) THEN "closed"
    ELSE IF Len(toServer[c]) + Len(toClient[c]) = 0 THEN "server"
    ELSE IF Len(toClient[c]) = 1 /\ toServer[c] = <<>> THEN "down"
    ELSE IF Len(toServer[c]) = 1 /\ toClient[c] = <<>> THEN "up"
    ELSE "collision"

Turns == INSTANCE HalfDuplex WITH floor <- [c \in Conns |-> Floor(c)]

(* The two programs take turns, each message answers exactly one.          *)
ImplementsHalfDuplex == Turns!Spec

(* Every dialogue ends, at both ends, however it goes.                     *)
DialogueEnds ==
    \A c \in Conns :
        prog[c].step = 1 ~> prog[c].end # "no" /\ (Ended(c) \/ ~Running)

=============================================================================
