--------------------------- MODULE DialogueProofs ---------------------------
(***************************************************************************)
(* Proofs about Dialogue, for any connections, keys and key files.         *)
(*                                                                         *)
(* The sessions of a dialogue take their own steps, so their invariant,    *)
(* IInv of SessionProofs, holds here too. What the dialogue adds is stated *)
(* of one connection (Carries): a message is under way only when it is the *)
(* turn of the other end, so the client never looks impatient to the       *)
(* session, and the session, by its own invariant, never writes twice. The *)
(* one needs the other: neither is inductive alone.                        *)
(***************************************************************************)
EXTENDS Dialogue, SessionProofs

(***************************************************************************)
(* The sessions of a dialogue are sessions                                 *)
(***************************************************************************)
(* What a client does, once it is connected, no session sees.              *)
LEMMA ClientKeepsSessions ==
    ASSUME NEW c \in Conns, ClientStep(c)
    PROVE  UNCHANGED <<vars, provider, crypt, reading>>
<1>1. \A d, p, kind, message :
         Writes(d, p, kind, message) => UNCHANGED <<vars, provider, crypt, reading>>
  BY DEF Writes
<1>2. \A d, flaw : Returns1(d, flaw) => UNCHANGED <<vars, provider, crypt, reading>>
  BY DEF Returns1
<1>3. \A d, kinds : Seals(d, kinds) => UNCHANGED <<vars, provider, crypt, reading>>
  BY <1>1 DEF Seals
<1>4. CASE \/ RequestProtocol(c) \/ Introduce(c) \/ ChooseAlgorithm(c)
           \/ EstablishEncryption(c) \/ Finish(c)
  BY <1>1, <1>2, <1>4 DEF RequestProtocol, Introduce, ChooseAlgorithm, EstablishEncryption,
                          Finish
<1>5. CASE ChooseAuthModule(c) \/ GiveLogin(c) \/ GivePassword(c) \/ SendLogs(c)
  BY <1>3, <1>5 DEF ChooseAuthModule, GiveLogin, GivePassword, SendLogs
<1>6. CASE Mismatch(c) \/ TornRead(c) \/ WaitFails(c) \/ WriteFails(c)
  BY <1>2, <1>6 DEF Mismatch, TornRead, WaitFails, WriteFails
<1> QED
  BY <1>4, <1>5, <1>6 DEF ClientStep

(* Whatever happens between the two programs is, for the sessions, one of  *)
(* their own steps or none.                                                *)
LEMMA StepIsSessionStep ==
    ASSUME [NextDialogue]_dialogue
    PROVE  [Next]_vars
<1>1. ASSUME NEW c \in Conns, Connect(c) PROVE [Next]_vars
  BY <1>1 DEF Connect, Next
<1>2. ASSUME NEW c \in Conns, ClientStep(c) PROVE [Next]_vars
  BY <1>2, ClientKeepsSessions
<1>3. ASSUME NEW c \in Conns, ReceiveMessage(c) PROVE Next
  BY <1>3 DEF ReceiveMessage, Next
<1>4. ASSUME NEW c \in Conns, HandleMessage(c) PROVE Next
  BY <1>4 DEF HandleMessage, Next
<1>5. ASSUME NEW c \in Conns, HandleEvent(c) PROVE Next
  BY <1>5 DEF HandleEvent, Next
<1>6. ASSUME NEW c \in Conns, TimesOut(c) PROVE Next
  BY <1>6 DEF TimesOut, Next
<1>7. ASSUME NEW c \in Conns, Disconnected(c) PROVE Next
  BY <1>7 DEF Disconnected, Next
<1>8. ASSUME Close \/ EndThread PROVE Next
  BY <1>8 DEF Next
<1>9. UNCHANGED dialogue => UNCHANGED vars
  BY DEF dialogue
<1> QED
  BY <1>1, <1>2, <1>3, <1>4, <1>5, <1>6, <1>7, <1>8, <1>9 DEF NextDialogue

(* The client program is a client that the sessions were made for: what is *)
(* proved of a session with any client holds of each dialogue.             *)
THEOREM SessionsOfDialogues == DialogueSpec => Spec
<1>1. StartDialogue => Init
  BY DEF StartDialogue
<1> QED
  BY <1>1, StepIsSessionStep, PTL DEF DialogueSpec, Spec

(***************************************************************************)
(* The client that waits for its answers                                   *)
(***************************************************************************)
(* No handler but Receive touches the mark of an impatient client.         *)
Keeps(s, t) == "early" \in DOMAIN s => DOMAIN t = DOMAIN s /\ t.early = s.early

(* Two steps that keep the mark keep it together.                          *)
LEMMA KeepsTwice ==
    ASSUME NEW s, NEW t, NEW u, Keeps(s, t), Keeps(t, u)
    PROVE  Keeps(s, u)
BY DEF Keeps

(* The steps that the handlers are made of keep it.                        *)
LEMMA StepsKeep ==
    ASSUME NEW s
    PROVE  /\ \A event : Keeps(s, Post(s, event))
           /\ \A answer : Keeps(s, Write(s, answer))
           /\ \A state : Keeps(s, Await(s, state))
           /\ Keeps(s, DisconnectAll(s))
           /\ Keeps(s, Seal(s))
           /\ Keeps(s, Listening(s))
           /\ \A x : Keeps(s, [s EXCEPT !.part = x])
           /\ \A x : Keeps(s, [s EXCEPT !.posted = x])
           /\ \A x : Keeps(s, [s EXCEPT !.module = x])
           /\ \A x : Keeps(s, [s EXCEPT !.undefined = x])
           /\ \A x : Keeps(s, [s EXCEPT !.timer = x])
           /\ \A x : Keeps(s, [s EXCEPT !.stale = x])
           /\ \A x : Keeps(s, [s EXCEPT !.open = x])
           /\ \A x : Keeps(s, [s EXCEPT !.rest = x])
           /\ \A x : Keeps(s, [s EXCEPT !.next = x])
           /\ \A x : Keeps(s, [s EXCEPT !.shown = x])
           /\ \A x : Keeps(s, [s EXCEPT !.former = x])
           /\ \A x : Keeps(s, [s EXCEPT !.hasher = x])
           /\ \A x, y : Keeps(s, [s EXCEPT !.next = x, !.closers = y])
           /\ \A x, y : Keeps(s, [s EXCEPT !.open = x, !.reports = y])
           /\ \A x, y : Keeps(s, [s EXCEPT !.authorized = x, !.module = y])
           /\ \A x, y : Keeps(s, [s EXCEPT !.timer = x, !.taken = y])
           /\ \A x, y : Keeps(s, [s EXCEPT !.state = x, !.taken = y])
           /\ \A x, y, z : Keeps(s, [s EXCEPT !.part = x, !.next = y, !.state = z])
<1> USE DEF Keeps
<1>1. \A event : Keeps(s, Post(s, event))
  BY DEF Post
<1>2. \A answer : Keeps(s, Write(s, answer))
  BY DEF Write
<1>3. \A state : Keeps(s, Await(s, state))
  BY DEF Await
<1>4. Keeps(s, DisconnectAll(s)) /\ Keeps(s, Seal(s)) /\ Keeps(s, Listening(s))
  BY DEF DisconnectAll, Seal, Listening
<1> QED
  BY <1>1, <1>2, <1>3, <1>4

(* So does the closing of the destination.                                 *)
LEMMA CloseKeeps ==
    ASSUME NEW s, NEW result
    PROVE  Keeps(s, CloseDestination(s, result))
<1> DEFINE r == s.reports \o [i \in 1..s.closers |-> result]
           t == [s EXCEPT !.open = FALSE, !.reports = r]
<1>1. CloseDestination(s, result) \in {t, Post(t, "deleteSession")}
  BY DEF CloseDestination
<1> HIDE DEF r
<1>2. Keeps(s, t)
  BY StepsKeep
<1> HIDE DEF t
<1>3. Keeps(t, Post(t, "deleteSession"))
  BY StepsKeep
<1>4. Keeps(s, Post(t, "deleteSession"))
  BY <1>2, <1>3, KeepsTwice
<1>5. CASE CloseDestination(s, result) = t
  BY <1>2, <1>5
<1>6. CASE CloseDestination(s, result) = Post(t, "deleteSession")
  BY <1>4, <1>6
<1> QED
  BY <1>1, <1>5, <1>6

(* So does the start of the next part.                                     *)
LEMMA NextKeeps ==
    ASSUME NEW s
    PROVE  Keeps(s, TakeNextPart(s))
<1> DEFINE x == Head(s.next)
           y == Tail(s.next)
           t == [s EXCEPT !.part = x, !.next = y, !.state = "NONE"]
<1>1. TakeNextPart(s) = Post(t, "execute")
  BY DEF TakeNextPart
<1> HIDE DEF x, y
<1>2. Keeps(s, t)
  BY StepsKeep
<1> HIDE DEF t
<1> QED
  BY <1>1, <1>2, StepsKeep, KeepsTwice

(* So does the end of a part, whatever its result.                         *)
LEMMA FinishedKeeps ==
    ASSUME NEW s, NEW result
    PROVE  Keeps(s, Finished(s, result))
<1> DEFINE d == DisconnectAll(s)
           p == [d EXCEPT !.part = "none"]
           u == [d EXCEPT !.undefined = TRUE]
           t == IF d.part = "none" THEN u ELSE Post(p, "deletePart")
           n == t.closers + 1
           w == [t EXCEPT !.next = <<>>, !.closers = n]
<1>1. Finished(s, result) \in {TakeNextPart(t), CloseDestination(w, result)}
  BY DEF Finished, SessionPartFinished
<1>2. Keeps(s, d)
  BY StepsKeep
<1> HIDE DEF d
<1>3. Keeps(d, u) /\ Keeps(d, p)
  BY StepsKeep
<1>4. Keeps(p, Post(p, "deletePart"))
  BY StepsKeep
<1> HIDE DEF p, u
<1>5. Keeps(s, t)
  BY <1>2, <1>3, <1>4, KeepsTwice
<1> HIDE DEF t, n
<1>6. Keeps(t, w)
  BY StepsKeep
<1> HIDE DEF w
<1> QED
  BY <1>1, <1>5, <1>6, NextKeeps, CloseKeeps, KeepsTwice

(* An answer, and a new wait.                                              *)
LEMMA AnswerKeeps ==
    ASSUME NEW s, NEW answer, NEW state
    PROVE  Keeps(s, Await(Write(s, answer), state))
BY StepsKeep, KeepsTwice

(* The handlers of SessionInitializer keep it.                             *)
LEMMA InitKeeps ==
    ASSUME NEW s, NEW k
    PROVE  Keeps(s, InitReceived(s, k))
<1> DEFINE n == s.next \o <<"crypto", "auth", "logs">>
           t == [s EXCEPT !.next = n]
           w == Write(t, "ACK")
<1>1. CASE k = "protocol"
  <2>1. InitReceived(s, k) = Finished(w, TRUE)
    BY <1>1 DEF InitReceived
  <2> HIDE DEF n
  <2>2. Keeps(s, t)
    BY StepsKeep
  <2> HIDE DEF t
  <2>3. Keeps(t, w)
    BY StepsKeep
  <2> HIDE DEF w
  <2> QED
    BY <2>1, <2>2, <2>3, FinishedKeeps, KeepsTwice
<1>2. CASE k = "badProtocol"
  BY <1>2, AnswerKeeps DEF InitReceived
<1>3. CASE k \notin {"protocol", "badProtocol"}
  BY <1>3, FinishedKeeps DEF InitReceived
<1> QED
  BY <1>1, <1>2, <1>3

(* So does CryptographyInitializer when it takes a key.                    *)
LEMMA KeyKeeps ==
    ASSUME NEW s, NEW k
    PROVE  Keeps(s, KeyReceived(s, k))
<1> DEFINE once == Finished(s, FALSE)
           twice == Finished(once, FALSE)
<1>1. Keeps(s, once)
  BY FinishedKeeps
<1>2. Keeps(s, twice)
  BY <1>1, FinishedKeeps, KeepsTwice
<1>3. \A t : Keeps(s, t) => Keeps(s, Finished(Seal(t), TRUE))
  <2> SUFFICES ASSUME NEW t, Keeps(s, t) PROVE Keeps(s, Finished(Seal(t), TRUE))
    OBVIOUS
  <2>1. Keeps(t, Seal(t))
    BY StepsKeep
  <2>2. Keeps(Seal(t), Finished(Seal(t), TRUE))
    BY FinishedKeeps
  <2> QED
    BY <2>1, <2>2, KeepsTwice
<1>4. Keeps(s, s)
  BY DEF Keeps
<1>5. KeyReceived(s, k) \in {Finished(Seal(s), TRUE), Finished(Seal(once), TRUE),
                             Finished(Seal(twice), TRUE), twice, once}
  BY DEF KeyReceived
<1> HIDE DEF once, twice
<1>6. /\ Keeps(s, Finished(Seal(s), TRUE))
      /\ Keeps(s, Finished(Seal(once), TRUE))
      /\ Keeps(s, Finished(Seal(twice), TRUE))
  BY <1>1, <1>2, <1>3, <1>4
<1> QED
  BY <1>1, <1>2, <1>5, <1>6

(* So do all handlers of CryptographyInitializer.                          *)
LEMMA CryptoKeeps ==
    ASSUME NEW s, NEW k
    PROVE  Keeps(s, CryptoReceived(s, k))
<1> DEFINE A(answer, state) == Await(Write(s, answer), state)
<1>1. CryptoReceived(s, k) \in
         {A("CHOOSE_ALGORITHM", "WAITING_FOR_ALGORITHM"), A("ACK", "WAITING_FOR_KEY"),
          A("NACK", s.state), KeyReceived(s, k), Finished(s, FALSE)}
  BY DEF CryptoReceived
<1>2. \A answer, state : Keeps(s, A(answer, state))
  BY AnswerKeeps
<1> HIDE DEF A
<1> QED
  BY <1>1, <1>2, KeyKeeps, FinishedKeeps

(* So does the end of an authorization.                                    *)
LEMMA AuthorizationKeeps ==
    ASSUME NEW s, NEW result
    PROVE  Keeps(s, AuthorizationFinished(s, result))
<1> DEFINE t == [s EXCEPT !.authorized = result, !.module = "none"]
<1>1. AuthorizationFinished(s, result) = Finished(t, result)
  BY DEF AuthorizationFinished
<1>2. Keeps(s, t)
  BY StepsKeep
<1> HIDE DEF t
<1> QED
  BY <1>1, <1>2, FinishedKeeps, KeepsTwice

(* So does a question of the module to the client.                         *)
LEMMA AsksKeep ==
    ASSUME NEW s, NEW module, NEW answer, NEW state
    PROVE  Keeps(s, Await(Write([s EXCEPT !.module = module], answer), state))
<1> DEFINE t == [s EXCEPT !.module = module]
<1>1. Keeps(s, t)
  BY StepsKeep
<1> HIDE DEF t
<1>2. Keeps(s, Await(Write(t, answer), state))
  BY <1>1, AnswerKeeps, KeepsTwice
<1> QED
  BY <1>2 DEF t

(* So do all handlers of ClientAuthorizer.                                 *)
LEMMA AuthKeeps ==
    ASSUME NEW s, NEW k
    PROVE  Keeps(s, AuthReceived(s, k))
<1> DEFINE x == s.shown \cup ({k} \cap {"allow", "login", "name", "pass"})
           t == [s EXCEPT !.shown = x]
           login == Await(Write([t EXCEPT !.module = "LOGIN_REQUESTED"], "LOGIN"),
                          "AUTH_IN_PROGRESS")
           password == Await(Write([t EXCEPT !.module = "PASSWORD_REQUESTED"], "PASSWORD"),
                             t.state)
           nack == Await(Write(t, "NACK"), t.state)
           last == t.module = "PASSWORD_REQUESTED" /\ k = "pass"
<1>1. \/ AuthReceived(s, k) \in {login, password, nack, Finished(t, FALSE)}
      \/ \E result : AuthReceived(s, k) = AuthorizationFinished(t, result)
  <2>1. AuthReceived(s, k) \in {ModuleIdReceived(t, k), NewDataArrived(t, k), Finished(t, FALSE)}
    BY DEF AuthReceived
  <2> HIDE DEF t
  <2>2. NewDataArrived(t, k) \in {password, AuthorizationFinished(t, last)}
    BY DEF NewDataArrived
  <2>3. ModuleIdReceived(t, k) \in {login, nack, Finished(t, FALSE),
                                    AuthorizationFinished(t, TRUE), AuthorizationFinished(t, FALSE)}
    BY DEF ModuleIdReceived
  <2> HIDE DEF login, password, nack, last
  <2> QED
    BY <2>1, <2>2, <2>3
<1> HIDE DEF x
<1>2. Keeps(s, t)
  BY StepsKeep
<1> HIDE DEF t
<1>3. Keeps(t, login) /\ Keeps(t, password) /\ Keeps(t, nack)
  BY AsksKeep, AnswerKeeps
<1> HIDE DEF login, password, nack
<1>4. Keeps(t, AuthReceived(s, k))
  BY <1>1, <1>3, AuthorizationKeeps, FinishedKeeps
<1> QED
  BY <1>2, <1>4, KeepsTwice

(* So do the handlers of LogsTransmitter.                                  *)
LEMMA LogsKeep ==
    ASSUME NEW s, NEW k
    PROVE  Keeps(s, LogsReceived(s, k))
<1> DEFINE t == [s EXCEPT !.timer = TRUE, !.taken = TRUE]
           q == [s EXCEPT !.state = "WRITTING_LOG", !.taken = TRUE]
           result == k = "end"
<1>1. LogsReceived(s, k) \in {Write(t, "CONFIRMED"), q, Finished(s, result)}
  BY DEF LogsReceived
<1>2. Keeps(s, t) /\ Keeps(s, q)
  BY StepsKeep
<1> HIDE DEF t, q, result
<1>3. Keeps(s, Write(t, "CONFIRMED"))
  BY <1>2, StepsKeep, KeepsTwice
<1> QED
  BY <1>1, <1>2, <1>3, FinishedKeeps

(* So does whatever reads the next message.                                *)
LEMMA ReadKeeps ==
    ASSUME NEW s, s.part \in Parts, NEW k
    PROVE  Keeps(s, ReadNextMessage(s, k))
<1> DEFINE t == [s EXCEPT !.timer = FALSE]
<1>1. ReadNextMessage(s, k) \in {InitReceived(t, k), CryptoReceived(t, k), AuthReceived(t, k),
                                 LogsReceived(t, k)}
  BY DEF ReadNextMessage, Parts
<1>2. Keeps(s, t)
  BY StepsKeep
<1> HIDE DEF t
<1> QED
  BY <1>1, <1>2, InitKeeps, CryptoKeeps, AuthKeeps, LogsKeep, KeepsTwice

(* Nor does a message that arrives.                                        *)
LEMMA ArrivedKeeps ==
    ASSUME NEW s, s.part \in Parts, NEW k
    PROVE  Keeps(s, Arrived(s, k))
<1>1. Keeps(s, s)
  BY DEF Keeps
<1>2. \A u, f : Keeps(u, [u EXCEPT !.former = f]) /\ Keeps(u, [u EXCEPT !.hasher = f])
  BY StepsKeep
<1>3. \A u, f : /\ u.part \in Parts => [u EXCEPT !.former = f].part \in Parts
                /\ u.part \in Parts => [u EXCEPT !.hasher = f].part \in Parts
  OBVIOUS
<1>4. ASSUME NEW u, u.part \in Parts, NEW m
      PROVE  Keeps(u, InFormer(u, m)) /\ Keeps(u, InHasher(u, m))
  <2>1. \A f, x : /\ Keeps(u, ReadNextMessage([u EXCEPT !.former = f], x))
                  /\ Keeps(u, ReadNextMessage([u EXCEPT !.hasher = f], x))
    <3> TAKE f, x
    <3> DEFINE v == [u EXCEPT !.former = f]
               w == [u EXCEPT !.hasher = f]
    <3>1. Keeps(u, v) /\ v.part \in Parts /\ Keeps(u, w) /\ w.part \in Parts
      BY <1>2, <1>3, <1>4
    <3> HIDE DEF v, w
    <3>2. Keeps(u, ReadNextMessage(v, x)) /\ Keeps(u, ReadNextMessage(w, x))
      BY <3>1, ReadKeeps, KeepsTwice
    <3> QED
      BY <3>2 DEF v, w
  <2> QED
    BY <1>2, <2>1, Zenon DEF InFormer, InHasher
<1>5. Keeps(s, ThroughCipher(s, k))
  <2> DEFINE q == Append(s.former, k)
             f == Tail(q)
             t == [s EXCEPT !.former = f]
  <2>1. ThroughCipher(s, k) \in {t, InHasher(t, Head(q))}
    BY DEF ThroughCipher
  <2> HIDE DEF f
  <2>2. Keeps(s, t) /\ t.part \in Parts
    BY <1>2, <1>3
  <2> HIDE DEF t, q
  <2> QED
    BY <1>4, <2>1, <2>2, KeepsTwice
<1> QED
  BY <1>1, <1>4, <1>5 DEF Arrived

(***************************************************************************)
(* The two programs                                                        *)
(***************************************************************************)
(* What the objects of the two programs are, whatever they were given.     *)
IsAes(aes) ==
    /\ DOMAIN aes = {"key", "iv", "enc", "dec"}
    /\ aes.key \in Suitable \cup {NoKey}

IsProgram(p) ==
    /\ DOMAIN p = {"step", "end", "file", "rsa", "aes", "torn"}
    /\ p.step \in 0..10
    /\ p.end \in {"no", "done", "gaveUp"}
    /\ p.rsa.public \in Pairs \cup {NoKey}
    /\ IsAes(p.aes)

(* A cipher without a key is one of the objects.                           *)
LEMMA NewAesTyped == IsAes(NewAes)
BY DEF IsAes, NewAes

(* Every operation on a cipher leaves one of the objects.                  *)
LEMMA AesTyped ==
    ASSUME NEW aes, IsAes(aes)
    PROVE  /\ \A message : IsAes(AfterDecrypt(aes, message))
           /\ \A plain : IsAes(AfterEncrypt(aes, plain))
           /\ \A key \in Suitable : \A iv : IsAes(GenerateKey(aes, key, iv))
           /\ \A key : IsAes(SetKey(aes, key).object)
           /\ \A iv : IsAes(SetIv(aes, iv).object)
<1> USE DEF IsAes
<1>1. \A message : IsAes(AfterDecrypt(aes, message))
  BY DEF AfterDecrypt
<1>2. \A plain : IsAes(AfterEncrypt(aes, plain))
  BY DEF AfterEncrypt
<1>3. \A a, cipher : IsAes(a) => IsAes([a EXCEPT !.enc = cipher, !.dec = cipher])
  OBVIOUS
<1>4. \A a : IsAes(a) => IsAes(Load(a))
  BY <1>3 DEF Load
<1>5. \A key \in Suitable : \A iv : IsAes([aes EXCEPT !.key = key, !.iv = iv])
  OBVIOUS
<1>6. \A key \in Suitable : \A iv : IsAes(GenerateKey(aes, key, iv))
  BY <1>4, <1>5, Zenon DEF GenerateKey
<1>7. \A key : IsAes(SetKey(aes, key).object)
  <2> TAKE key
  <2> DEFINE set == [aes EXCEPT !.key = key]
  <2>1. key \in Suitable => IsAes(set)
    OBVIOUS
  <2>2. SetKey(aes, key).object \in {aes, Load(set), set}
        /\ (key \notin Suitable => SetKey(aes, key).object = aes)
    BY DEF SetKey, Returns, Throws
  <2> HIDE DEF set, IsAes
  <2> QED
    BY <1>4, <2>1, <2>2
<1>8. \A iv : IsAes(SetIv(aes, iv).object)
  <2> TAKE iv
  <2> DEFINE set == [aes EXCEPT !.iv = iv]
  <2>1. IsAes(set)
    OBVIOUS
  <2>2. SetIv(aes, iv).object \in {aes, Load(set), set}
    BY DEF SetIv, Returns, Throws
  <2> HIDE DEF set, IsAes
  <2> QED
    BY <1>4, <2>1, <2>2
<1> QED
  BY <1>1, <1>2, <1>6, <1>7, <1>8

(* What the client may do besides waiting: answer the message that it has  *)
(* read, or give up.                                                       *)
ClientAnswers(c) ==
    /\ Waits(c) /\ toClient[c] # <<>>
    /\ \E p, message :
          /\ IsProgram(p) /\ p.step > 0 /\ p.end # "gaveUp"
          /\ prog' = [prog EXCEPT ![c] = p]
          /\ toServer' = [toServer EXCEPT ![c] = Append(@, message)]
          /\ toClient' = [toClient EXCEPT ![c] = <<>>]

ClientGivesUp(c) ==
    /\ Waits(c)
    /\ prog' = [prog EXCEPT ![c] = GaveUp(@)]
    /\ toServer' = toServer
    /\ toClient' = [toClient EXCEPT ![c] = <<>>]

(* A program that took a step is still one.                                *)
LEMMA ProgramTyped ==
    ASSUME NEW p, IsProgram(p)
    PROVE  /\ IsProgram(GaveUp(p)) /\ GaveUp(p).step = p.step /\ GaveUp(p).end = "gaveUp"
           /\ \A x : x.public \in Pairs \cup {NoKey} => IsProgram([p EXCEPT !.rsa = x])
           /\ \A x : IsAes(x) => IsProgram([p EXCEPT !.aes = x])
           /\ \A x : IsAes(x) => IsProgram([p EXCEPT !.aes = x, !.end = "done"])
           /\ \A x : IsAes(x) => [p EXCEPT !.aes = x, !.end = "done"].end = "done"
           /\ \A x : [p EXCEPT !.aes = x].end = p.end /\ [p EXCEPT !.rsa = x].end = p.end
           /\ \A x : [p EXCEPT !.aes = x].step = p.step /\ [p EXCEPT !.rsa = x].step = p.step
           /\ \A x : [p EXCEPT !.aes = x, !.end = "done"].step = p.step
<1> HIDE DEF IsAes
<1> QED
  BY DEF IsProgram, GaveUp

(* The step that ends with a write.                                        *)
LEMMA WritesAnswers ==
    ASSUME NEW c \in Conns, Waits(c), toClient[c] # <<>>,
           NEW p, IsProgram(p), p.step \in 1..9, p.end # "gaveUp",
           NEW kind, NEW message, Writes(c, p, kind, message)
    PROVE  ClientAnswers(c)
<1> DEFINE n == p.step + 1
           q == [p EXCEPT !.step = n]
<1>1. n \in 0..10 /\ n > 0
  OBVIOUS
<1>2. /\ prog' = [prog EXCEPT ![c] = q]
      /\ toServer' = [toServer EXCEPT ![c] = Append(@, message)]
      /\ toClient' = [toClient EXCEPT ![c] = <<>>]
  BY DEF Writes, IsProgram
<1> HIDE DEF n
<1>3. IsProgram(q) /\ q.step > 0 /\ q.end # "gaveUp"
  <2> HIDE DEF IsAes
  <2> QED
    BY <1>1 DEF IsProgram
<1> HIDE DEF q
<1> QED
  BY <1>2, <1>3 DEF ClientAnswers

(* A step of the client answers what it has read, or gives up.             *)
LEMMA ClientOutcome ==
    ASSUME NEW c \in Conns, IsProgram(prog[c]), ClientStep(c)
    PROVE  ClientAnswers(c) \/ ClientGivesUp(c)
<1> DEFINE p == prog[c]
<1>1. \A n \in 1..9 : Reads(c, n) =>
         Waits(c) /\ toClient[c] # <<>> /\ p.step \in 1..9 /\ p.end # "gaveUp"
  BY DEF Reads, Waits
<1>2. \A flaw : Waits(c) /\ Returns1(c, flaw) => ClientGivesUp(c)
  BY DEF Returns1, ClientGivesUp
<1>3. ASSUME NEW n \in 1..9, Reads(c, n), NEW q, IsProgram(q), q.step = p.step,
             q.end # "gaveUp", NEW kind, NEW message, Writes(c, q, kind, message)
      PROVE  ClientAnswers(c)
  BY <1>1, <1>3, WritesAnswers
<1>4. ASSUME NEW n \in 1..9, Reads(c, n), NEW kinds, Seals(c, kinds)
      PROVE  ClientAnswers(c)
  <2> DEFINE aes == AfterDecrypt(p.aes, Head(toClient[c]).text)
  <2>1. PICK kind \in kinds :
           Writes(c, [p EXCEPT !.aes = AfterEncrypt(aes, kind)], kind, Chained(aes, kind))
    BY <1>4 DEF Seals
  <2>2. IsAes(p.aes)
    BY DEF IsProgram
  <2>3. IsAes(aes)
    BY <2>2, AesTyped
  <2> DEFINE x == AfterEncrypt(aes, kind)
             q == [p EXCEPT !.aes = x]
             m == Chained(aes, kind)
  <2> HIDE DEF aes
  <2>4. IsAes(x)
    BY <2>3, AesTyped
  <2>5. Writes(c, q, kind, m)
    BY <2>1
  <2> HIDE DEF x, m
  <2>6. IsProgram(q) /\ q.step = p.step /\ q.end = p.end
    BY <2>4, ProgramTyped
  <2> HIDE DEF q
  <2> QED
    BY <1>1, <1>3, <1>4, <2>5, <2>6
<1>5. CASE RequestProtocol(c)
  <2>1. Reads(c, 1) /\ \E kind, message : Writes(c, p, kind, message)
    BY <1>5 DEF RequestProtocol
  <2> QED
    BY <1>1, <1>3, <2>1
<1>6. CASE Introduce(c)
  <2> DEFINE rsa == SetPublicKey(NewRsa, p.file).object
             q == [p EXCEPT !.rsa = rsa]
  <2>1. /\ Reads(c, 2)
        /\ (\E kind, message : Writes(c, q, kind, message)) \/ Returns1(c, {})
    BY <1>6 DEF Introduce
  <2>2. rsa.public \in Pairs \cup {NoKey}
    BY DEF SetPublicKey, NewRsa, Throws, Returns
  <2> HIDE DEF rsa
  <2>3. IsProgram(q) /\ q.step = p.step /\ q.end = p.end
    BY <2>2, ProgramTyped
  <2> HIDE DEF q
  <2> QED
    BY <1>1, <1>2, <1>3, <2>1, <2>3
<1>7. CASE ChooseAlgorithm(c)
  <2>1. Reads(c, 3) /\ \E kind, message : Writes(c, p, kind, message)
    BY <1>7 DEF ChooseAlgorithm
  <2> QED
    BY <1>1, <1>3, <2>1
<1>8. CASE EstablishEncryption(c)
  <2>1. PICK key \in Suitable :
           Writes(c, [p EXCEPT !.aes = GenerateKey(p.aes, key, Iv[key])], "key",
                  ForHolder(p.rsa, "key", GenerateKey(p.aes, key, Iv[key]).key))
    BY <1>8 DEF EstablishEncryption
  <2> DEFINE x == GenerateKey(p.aes, key, Iv[key])
             q == [p EXCEPT !.aes = x]
             m == ForHolder(p.rsa, "key", x.key)
  <2>2. IsAes(x)
    BY AesTyped DEF IsProgram
  <2>3. Writes(c, q, "key", m) /\ Reads(c, 4)
    BY <1>8, <2>1 DEF EstablishEncryption
  <2> HIDE DEF x, m
  <2>4. IsProgram(q) /\ q.step = p.step /\ q.end = p.end
    BY <2>2, ProgramTyped
  <2> HIDE DEF q
  <2> QED
    BY <1>1, <1>3, <2>3, <2>4
<1>9. CASE ChooseAuthModule(c) \/ GiveLogin(c) \/ GivePassword(c) \/ SendLogs(c)
  BY <1>4, <1>9 DEF ChooseAuthModule, GiveLogin, GivePassword, SendLogs
<1>10. CASE Finish(c)
  <2> DEFINE aes == AfterDecrypt(p.aes, Head(toClient[c]).text)
             x == AfterEncrypt(aes, "end")
             q == [p EXCEPT !.aes = x, !.end = "done"]
             m == Chained(aes, "end")
  <2>1. Reads(c, 9) /\ Writes(c, q, "end", m)
    BY <1>10 DEF Finish
  <2>2. IsAes(p.aes)
    BY DEF IsProgram
  <2>3. IsAes(aes)
    BY <2>2, AesTyped
  <2> HIDE DEF aes
  <2>4. IsAes(x)
    BY <2>3, AesTyped
  <2> HIDE DEF x, m
  <2>5. IsProgram(q)
    BY <2>4, ProgramTyped
  <2>6. q.step = p.step /\ q.end = "done"
    BY DEF IsProgram
  <2> HIDE DEF q
  <2> QED
    BY <1>1, <1>3, <2>1, <2>5, <2>6
<1>11. CASE Mismatch(c) \/ WaitFails(c)
  BY <1>2, <1>11 DEF Mismatch, WaitFails
<1>12. CASE TornRead(c)
  <2>1. CASE Returns1(c, {"torn"})
    BY <1>2, <1>12, <2>1 DEF TornRead
  <2>2. CASE /\ Reads(c, 1)
             /\ prog' = [prog EXCEPT ![c].step = 2, ![c].torn = TRUE]
             /\ toServer' = [toServer EXCEPT ![c] = Append(@, InClear("protocol", NoKey))]
             /\ toClient' = [toClient EXCEPT ![c] = <<>>]
    <3> DEFINE q == [p EXCEPT !.step = 2, !.torn = TRUE]
               m == InClear("protocol", NoKey)
    <3>1. /\ prog' = [prog EXCEPT ![c] = q]
          /\ toServer' = [toServer EXCEPT ![c] = Append(@, m)]
          /\ toClient' = [toClient EXCEPT ![c] = <<>>]
      BY <2>2
    <3>2. /\ DOMAIN q = DOMAIN p /\ q.step = 2 /\ q.end = p.end /\ q.rsa = p.rsa
          /\ q.aes = p.aes
      BY DEF IsProgram
    <3>3. IsProgram(q) /\ q.step > 0
      <4> HIDE DEF q
      <4> QED
        BY <3>2 DEF IsProgram
    <3>4. Waits(c) /\ toClient[c] # <<>> /\ p.end # "gaveUp"
      BY <1>1, <2>2
    <3> HIDE DEF q, m
    <3>5. q.end # "gaveUp"
      BY <3>2, <3>4
    <3> QED
      BY <3>1, <3>3, <3>4, <3>5, Zenon DEF ClientAnswers
  <2> QED
    BY <1>12, <2>1, <2>2 DEF TornRead
<1>13. CASE WriteFails(c)
  BY <1>2, <1>13 DEF WriteFails, Reads
<1> QED
  BY <1>5, <1>6, <1>7, <1>8, <1>9, <1>10, <1>11, <1>12, <1>13 DEF ClientStep

(***************************************************************************)
(* One connection                                                          *)
(***************************************************************************)
AtMostOne(q) == q = <<>> \/ \E message : q = <<message>>

(* One message is under way at most, in one direction; the session has     *)
(* then read all there was, and written one message since.                 *)
Carries(s, p, up, down) ==
    /\ ~s.early
    /\ AtMostOne(up) /\ AtMostOne(down) /\ (up = <<>> \/ down = <<>>)
    /\ s.part = "idle" => up = <<>> /\ down = <<>>
    /\ p.step > 0 => s.part # "idle"
    /\ s.open /\ ~(up = <<>> /\ down = <<>>) => s.rest = <<>> /\ Len(s.written) = 1

(* Floor, with its parameters in view.                                     *)
FloorOf(s, p, up, down) ==
    IF s.part = "idle" THEN "idle"
    ELSE IF p.end = "gaveUp" \/ ~s.open THEN "closed"
    ELSE IF up = <<>> /\ down = <<>> THEN "server"
    ELSE IF up = <<>> THEN "down" ELSE "up"

(* The turns that the abstract specification allows on one connection.     *)
Turnover(f, g) ==
    \/ f = g
    \/ g = "closed"
    \/ <<f, g>> \in {<<"idle", "server">>, <<"server", "down">>, <<"down", "up">>,
                     <<"up", "server">>}

(* Facts about sequences of one message at most.                           *)
LEMMA OneMessage ==
    ASSUME NEW q, AtMostOne(q)
    PROVE  /\ q = <<>> => Len(q) = 0
           /\ q # <<>> => Len(q) = 1 /\ Tail(q) = <<>>
           /\ \A m : q = <<>> => AtMostOne(Append(q, m)) /\ Append(q, m) # <<>>
<1>1. Len(<<>>) = 0
  OBVIOUS
<1>2. ASSUME NEW m
      PROVE  /\ Len(<<m>>) = 1 /\ Tail(<<m>>) = <<>> /\ <<m>> # <<>>
             /\ Append(<<>>, m) = <<m>> /\ AtMostOne(<<m>>)
  <2>1. Len(<<m>>) = 1 /\ Tail(<<m>>) = <<>> /\ Append(<<>>, m) = <<m>>
    OBVIOUS
  <2>2. <<m>> # <<>>
    BY <1>1, <2>1
  <2>3. AtMostOne(<<m>>)
    BY Zenon DEF AtMostOne
  <2> QED
    BY <2>1, <2>2, <2>3
<1>3. CASE q = <<>>
  BY <1>1, <1>2, <1>3, Zenon
<1>4. CASE q # <<>>
  <2>1. PICK m : q = <<m>>
    BY <1>4, Zenon DEF AtMostOne
  <2> QED
    BY <1>2, <1>4, <2>1, Zenon
<1> QED
  BY <1>3, <1>4

(* What a session has written, if it was its turn.                         *)
LEMMA WroteOne ==
    ASSUME NEW s, Good(s), ~s.early, s.open, s.written # <<>>
    PROVE  s.rest = <<>> /\ Len(s.written) = 1
<1>1. s.written \in Seq(Answers)
  BY DEF Good, Sessions
<1>2. Len(s.written) \in Nat /\ Len(s.written) # 0
  BY <1>1
<1>3. s.rest = <<>>
  BY DEF Good, Turn
<1>4. CASE s.connected
  <2>1. Len(s.written) <= 1
    BY <1>3, <1>4, Zenon DEF Good, Turn
  <2>2. \A n \in Nat : n # 0 /\ n <= 1 => n = 1
    OBVIOUS
  <2>3. Len(s.written) = 1
    BY <1>2, <2>1, <2>2, Zenon
  <2> QED
    BY <1>3, <2>3
<1>5. CASE ~s.connected
  <2>1. IF s.part = "crypto" THEN Len(s.written) = 1 ELSE s.written = <<>>
    BY <1>5, Zenon DEF Good, Turn
  <2> QED
    BY <1>3, <2>1
<1> QED
  BY <1>4, <1>5

(* What is sent is at most one message, and nothing if nothing was written.*)
LEMMA SendsOne ==
    ASSUME NEW c \in Conns, NEW aes, IsAes(aes), Sends1(c, aes),
           ses[c].written \in Seq(Answers), ses'[c].written \in Seq(Answers)
    PROVE  /\ \/ toClient' = toClient
              \/ \E m : toClient' = [toClient EXCEPT ![c] = Append(@, m)]
           /\ ses'[c].written = ses[c].written => toClient' = toClient
           /\ ses[c].written = <<>> /\ toClient' # toClient => ses'[c].written # <<>>
           /\ ses[c].written = <<>> /\ toClient' = toClient /\ toClient[c] = <<>>
                /\ toClient = [d \in Conns |-> toClient[d]] => ses'[c].written = <<>>
           /\ \E y : IsAes(y) /\ crypt' = [crypt EXCEPT ![c] = y]
<1> DEFINE w == ses[c].written
           v == ses'[c].written
           news == SubSeq(v, Len(w) + 1, Len(v))
<1>1. v = w => news = <<>>
  BY DEF Answers
<1>2. w = <<>> => (news = <<>> <=> v = <<>>)
  <2>1. w = <<>> => news = SubSeq(v, 1, Len(v))
    BY DEF Answers
  <2>2. SubSeq(v, 1, Len(v)) = <<>> <=> v = <<>>
    BY DEF Answers
  <2> QED
    BY <2>1, <2>2
<1>3. IF news = <<>> THEN crypt' = [crypt EXCEPT ![c] = aes] /\ toClient' = toClient
      ELSE \E y, m : /\ IsAes(y) /\ crypt' = [crypt EXCEPT ![c] = y]
                     /\ toClient' = [toClient EXCEPT ![c] = Append(@, m)]
  <2>1. CASE news = <<>>
    BY <2>1 DEF Sends1
  <2>2. CASE news # <<>> /\ ses'[c].sealed
    <3> DEFINE y == AfterEncrypt(aes, Head(news))
               m == Chained(aes, Head(news))
    <3>1. /\ crypt' = [crypt EXCEPT ![c] = y]
          /\ toClient' = [toClient EXCEPT ![c] = Append(@, m)]
      BY <2>2 DEF Sends1
    <3> HIDE DEF news
    <3>2. IsAes(y)
      BY AesTyped
    <3> HIDE DEF y, m
    <3> QED
      BY <2>2, <3>1, <3>2
  <2>3. CASE news # <<>> /\ ~ses'[c].sealed
    <3> DEFINE m == InClear(Head(news), CloneSigner(provider.signer).signer)
    <3>1. /\ crypt' = [crypt EXCEPT ![c] = aes]
          /\ toClient' = [toClient EXCEPT ![c] = Append(@, m)]
      BY <2>3 DEF Sends1
    <3> HIDE DEF m
    <3> QED
      BY <2>3, <3>1
  <2> QED
    BY <2>1, <2>2, <2>3
<1> HIDE DEF w, v, news, IsAes
<1>4. \E y : IsAes(y) /\ crypt' = [crypt EXCEPT ![c] = y]
  BY <1>3
<1>5. CASE news = <<>>
  BY <1>1, <1>2, <1>3, <1>4, <1>5 DEF w, v
<1>6. CASE news # <<>>
  <2>1. PICK m : toClient' = [toClient EXCEPT ![c] = Append(@, m)]
    BY <1>3, <1>6
  <2>2. toClient = [d \in Conns |-> toClient[d]] /\ toClient[c] = <<>> => toClient' # toClient
    <3> SUFFICES ASSUME toClient = [d \in Conns |-> toClient[d]], toClient[c] = <<>>
                 PROVE  toClient'[c] # toClient[c]
      OBVIOUS
    <3>1. toClient'[c] = <<m>>
      BY <2>1
    <3> QED
      BY <3>1
  <2> QED
    BY <1>1, <1>2, <1>4, <1>6, <2>1, <2>2 DEF w, v
<1> QED
  BY <1>5, <1>6

(***************************************************************************)
(* All connections                                                         *)
(***************************************************************************)
DInv ==
    /\ prog = [c \in Conns |-> prog[c]]
    /\ crypt = [c \in Conns |-> crypt[c]]
    /\ toServer = [c \in Conns |-> toServer[c]]
    /\ toClient = [c \in Conns |-> toClient[c]]
    /\ provider.rsa.private \in Pairs \cup {NoKey}
    /\ \A c \in Conns : IsProgram(prog[c]) /\ IsAes(crypt[c])
    /\ \A c \in Conns : Carries(ses[c], prog[c], toServer[c], toClient[c])

(* Who may speak on a connection.                                          *)
Held(c) == FloorOf(ses[c], prog[c], toServer[c], toClient[c])

(* Who may speak, on every connection: the abstract variable.              *)
Where == [c \in Conns |-> Floor(c)]

(* Two messages never meet on a connection.                                *)
LEMMA NoCollision ==
    ASSUME NEW c \in Conns, Carries(ses[c], prog[c], toServer[c], toClient[c])
    PROVE  Floor(c) = Held(c)
<1> DEFINE up == toServer[c]
           down == toClient[c]
<1>1. up = <<>> \/ down = <<>>
  BY DEF Carries
<1>2. Len(up) = (IF up = <<>> THEN 0 ELSE 1) /\ Len(down) = (IF down = <<>> THEN 0 ELSE 1)
  BY OneMessage DEF Carries
<1> HIDE DEF up, down
<1>3. CASE up = <<>> /\ down = <<>>
  BY <1>2, <1>3 DEF Floor, Held, FloorOf, HungUp, up, down
<1>4. CASE up = <<>> /\ down # <<>>
  BY <1>2, <1>4 DEF Floor, Held, FloorOf, HungUp, up, down
<1>5. CASE up # <<>> /\ down = <<>>
  BY <1>2, <1>5 DEF Floor, Held, FloorOf, HungUp, up, down
<1> QED
  BY <1>1, <1>3, <1>4, <1>5

(* The two names of it agree.                                              *)
LEMMA FloorIsHeld == DInv => \A c \in Conns : Where[c] = Held(c)
BY NoCollision DEF DInv, Where

(* They agree after a step, too.                                           *)
LEMMA FloorIsHeldNext == DInv' => \A c \in Conns : Where'[c] = Held(c)'
<1>1. (DInv => \A c \in Conns : Where[c] = Held(c))'
  BY FloorIsHeld, PTL
<1> QED
  BY <1>1

(* A turn of one connection is a step of the abstract specification.       *)
LEMMA TurnRefines ==
    ASSUME NEW c \in Conns, DInv, DInv', Turnover(Held(c), Held(c)'),
           \A d \in Conns : d # c => Held(d)' = Held(d)
    PROVE  [Turns!Next]_Where
<1>1. \A d \in Conns : Where[d] = Held(d) /\ Where'[d] = Held(d)'
  BY FloorIsHeld, FloorIsHeldNext
<1>2. /\ Where = [d \in Conns |-> Floor(d)]
      /\ Where' = [d \in Conns |-> Where'[d]] /\ Where = [d \in Conns |-> Where[d]]
  BY DEF Where
<1>3. Where[c] \in Turns!Floors
  BY <1>1, Zenon DEF Held, FloorOf, Turns!Floors
<1>4. \A d \in Conns : d # c => Where'[d] = Where[d]
  BY <1>1
<1> DEFINE f == Where[c]
           g == Where'[c]
<1>5. Turnover(f, g)
  BY <1>1
<1>6. Where' = [Where EXCEPT ![c] = g]
  BY <1>2, <1>4
<1>7. CASE f = g
  BY <1>2, <1>4, <1>7
<1>8. CASE f # g
  <2>1. \E from, to : /\ from = f /\ to = g
                      /\ \/ to = "closed" /\ from \in Turns!Floors
                         \/ <<from, to>> \in {<<"idle", "server">>, <<"server", "down">>,
                                              <<"down", "up">>, <<"up", "server">>}
    BY <1>3, <1>5, <1>8 DEF Turnover
  <2>2. \A from, to : from = f /\ to = g => Turns!Passes(c, from, to)
    BY <1>6 DEF Turns!Passes, Where
  <2> HIDE DEF f, g
  <2>3. Turns!Next
    <3>1. CASE g = "closed" /\ f \in Turns!Floors
      BY <2>2, <3>1 DEF Turns!Next
    <3>2. CASE f = "idle" /\ g = "server"
      BY <2>2, <3>2 DEF Turns!Next
    <3>3. CASE f = "server" /\ g = "down"
      BY <2>2, <3>3 DEF Turns!Next
    <3>4. CASE f = "down" /\ g = "up"
      BY <2>2, <3>4 DEF Turns!Next
    <3>5. CASE f = "up" /\ g = "server"
      BY <2>2, <3>5 DEF Turns!Next
    <3> QED
      BY <2>1, <3>1, <3>2, <3>3, <3>4, <3>5
  <2> QED
    BY <2>3
<1> QED
  BY <1>7, <1>8

(* What every step is to do.                                               *)
TakesTurn == DInv' /\ [Turns!Next]_Where

(* The function g is f but for what it has at c.                           *)
Sets(f, g, c, x) == g = [f EXCEPT ![c] = x] \/ (g = f /\ x = f[c])

(* What is set at one connection has the new value there.                  *)
LEMMA SetsOne ==
    ASSUME NEW f, f = [c \in Conns |-> f[c]], NEW c \in Conns, NEW x, NEW g, Sets(f, g, c, x)
    PROVE  g = [d \in Conns |-> g[d]] /\ g[c] = x /\ \A d \in Conns : d # c => g[d] = f[d]
BY DEF Sets

(* A step of one connection.                                               *)
LEMMA LocalStep ==
    ASSUME DInv, NEW c \in Conns, NEW s, NEW p, NEW y, NEW up, NEW down,
           ses'[c] = s, \A d \in Conns : d # c => ses'[d] = ses[d],
           Sets(prog, prog', c, p), Sets(crypt, crypt', c, y),
           Sets(toServer, toServer', c, up), Sets(toClient, toClient', c, down),
           provider' = provider, IsProgram(p), IsAes(y), Carries(s, p, up, down),
           Turnover(Held(c), FloorOf(s, p, up, down))
    PROVE  TakesTurn
<1>1. /\ prog' = [d \in Conns |-> prog'[d]] /\ prog'[c] = p
      /\ \A d \in Conns : d # c => prog'[d] = prog[d]
  BY SetsOne DEF DInv
<1>2. /\ crypt' = [d \in Conns |-> crypt'[d]] /\ crypt'[c] = y
      /\ \A d \in Conns : d # c => crypt'[d] = crypt[d]
  BY SetsOne DEF DInv
<1>3. /\ toServer' = [d \in Conns |-> toServer'[d]] /\ toServer'[c] = up
      /\ \A d \in Conns : d # c => toServer'[d] = toServer[d]
  BY SetsOne DEF DInv
<1>4. /\ toClient' = [d \in Conns |-> toClient'[d]] /\ toClient'[c] = down
      /\ \A d \in Conns : d # c => toClient'[d] = toClient[d]
  BY SetsOne DEF DInv
<1>5. \A d \in Conns : IsProgram(prog'[d]) /\ IsAes(crypt'[d])
  BY <1>1, <1>2, Zenon DEF DInv
<1>6. ASSUME NEW d \in Conns
      PROVE  Carries(ses'[d], prog'[d], toServer'[d], toClient'[d])
  <2>1. CASE d = c
    BY <1>1, <1>3, <1>4, <2>1, Zenon
  <2>2. CASE d # c
    <3>1. /\ ses'[d] = ses[d] /\ prog'[d] = prog[d] /\ toServer'[d] = toServer[d]
          /\ toClient'[d] = toClient[d]
      BY <1>1, <1>3, <1>4, <2>2
    <3>2. Carries(ses[d], prog[d], toServer[d], toClient[d])
      BY DEF DInv
    <3> QED
      BY <3>1, <3>2, Zenon
  <2> QED
    BY <2>1, <2>2
<1>7. DInv'
  BY <1>1, <1>2, <1>3, <1>4, <1>5, <1>6, Zenon DEF DInv
<1>8. ASSUME NEW d \in Conns, d # c
      PROVE  Held(d)' = Held(d)
  <2>1. /\ ses'[d] = ses[d] /\ prog'[d] = prog[d] /\ toServer'[d] = toServer[d]
        /\ toClient'[d] = toClient[d]
    BY <1>1, <1>3, <1>4, <1>8
  <2> QED
    BY <2>1, Zenon DEF Held
<1>9. Turnover(Held(c), Held(c)')
  <2>1. Held(c)' = FloorOf(s, p, up, down)
    BY <1>1, <1>3, <1>4, Zenon DEF Held
  <2> QED
    BY <2>1, Zenon
<1> QED
  BY <1>7, <1>8, <1>9, TurnRefines DEF TakesTurn

(* A step of the sessions changes one of them.                             *)
LEMMA BecomesOne ==
    ASSUME IInv, NEW c \in Conns, NEW s, Becomes(c, s)
    PROVE  ses'[c] = s /\ \A d \in Conns : d # c => ses'[d] = ses[d]
BY DEF Becomes, IInv

(* The facts about one connection.                                         *)
LEMMA OneConnection ==
    ASSUME DInv, NEW c \in Conns
    PROVE  /\ Carries(ses[c], prog[c], toServer[c], toClient[c])
           /\ IsProgram(prog[c]) /\ IsAes(crypt[c])
BY DEF DInv

(* The client speaks, or leaves.                                           *)
LEMMA ClientTakesTurn ==
    ASSUME IInv, DInv, NEW c \in Conns, ClientStep(c)
    PROVE  TakesTurn
<1> DEFINE s == ses[c]
           up == toServer[c]
           down == toClient[c]
<1>1. /\ ses' = ses /\ provider' = provider /\ crypt' = crypt
  BY ClientKeepsSessions DEF vars
<1>2. Carries(s, prog[c], up, down) /\ IsProgram(prog[c]) /\ IsAes(crypt[c])
  BY OneConnection
<1>3. Sets(crypt, crypt', c, crypt[c])
  BY <1>1 DEF Sets
<1>4. Waits(c)
  BY <1>2, ClientOutcome DEF ClientAnswers, ClientGivesUp
<1>5. s.part # "idle"
  BY <1>2, <1>4 DEF Waits, Carries
<1>6. CASE ClientAnswers(c)
  <2>1. PICK p, message :
           /\ IsProgram(p) /\ p.step > 0 /\ p.end # "gaveUp"
           /\ prog' = [prog EXCEPT ![c] = p]
           /\ toServer' = [toServer EXCEPT ![c] = Append(@, message)]
           /\ toClient' = [toClient EXCEPT ![c] = <<>>]
    BY <1>6 DEF ClientAnswers
  <2> DEFINE u == Append(up, message)
             e == <<>>
  <2>2. down # <<>> /\ up = <<>>
    BY <1>2, <1>6 DEF ClientAnswers, Carries
  <2>3. AtMostOne(u) /\ u # <<>>
    BY <1>2, <2>2, OneMessage DEF Carries
  <2>4. Sets(toServer, toServer', c, u) /\ Sets(toClient, toClient', c, e)
    BY <2>1 DEF Sets
  <2>5. AtMostOne(e)
    BY DEF AtMostOne
  <2> HIDE DEF u
  <2>6. Carries(s, p, u, e)
    BY <1>2, <1>5, <2>2, <2>3, <2>5 DEF Carries
  <2>7. Turnover(Held(c), FloorOf(s, p, u, e))
    <3>1. prog[c].end = "no"
      BY <1>4 DEF Waits
    <3>2. CASE ~s.open
      BY <1>5, <3>2, Zenon DEF Turnover, FloorOf
    <3>3. CASE s.open
      <4>1. FloorOf(s, p, u, e) = "up"
        BY <1>5, <2>1, <2>3, <3>3, Zenon DEF FloorOf
      <4>2. Held(c) = "down"
        BY <1>5, <2>2, <3>1, <3>3 DEF FloorOf, Held
      <4> QED
        BY <4>1, <4>2 DEF Turnover
    <3> QED
      BY <3>2, <3>3
  <2> HIDE DEF e
  <2>8. Sets(prog, prog', c, p)
    BY <2>1 DEF Sets
  <2> QED
    BY <1>1, <1>2, <1>3, <2>1, <2>4, <2>6, <2>7, <2>8, LocalStep
<1>7. CASE ClientGivesUp(c)
  <2> DEFINE p == GaveUp(prog[c])
             e == <<>>
  <2>1. /\ prog' = [prog EXCEPT ![c] = p] /\ toServer' = toServer
        /\ toClient' = [toClient EXCEPT ![c] = e]
    BY <1>7 DEF ClientGivesUp
  <2>2. IsProgram(p) /\ p.step = prog[c].step /\ p.end = "gaveUp"
    BY <1>2, ProgramTyped
  <2> HIDE DEF p
  <2>3. AtMostOne(e)
    BY DEF AtMostOne
  <2>4. Carries(s, p, up, e)
    BY <1>2, <1>5, <2>3 DEF Carries
  <2>5. FloorOf(s, p, up, e) = "closed"
    BY <1>5, <2>2 DEF FloorOf
  <2>6. Turnover(Held(c), FloorOf(s, p, up, e))
    BY <2>5 DEF Turnover
  <2> HIDE DEF e
  <2>7. /\ Sets(prog, prog', c, p) /\ Sets(toServer, toServer', c, up)
        /\ Sets(toClient, toClient', c, e)
    BY <2>1 DEF Sets
  <2> QED
    BY <1>1, <1>2, <1>3, <2>2, <2>4, <2>6, <2>7, LocalStep
<1> QED
  BY <1>2, <1>6, <1>7, ClientOutcome

(* What is not touched is set to what it is.                               *)
LEMMA SetsNothing ==
    ASSUME NEW f, NEW c
    PROVE  Sets(f, f, c, f[c])
BY DEF Sets

(* A client connects, and has the floor.                                   *)
LEMMA ConnectTakesTurn ==
    ASSUME IInv, DInv, NEW c \in Conns, Connect(c)
    PROVE  TakesTurn
<1> DEFINE y == crypt[c]
           up == toServer[c]
           down == toClient[c]
<1>1. /\ Carries(ses[c], prog[c], up, down) /\ IsProgram(prog[c]) /\ IsAes(y)
      /\ prog[c].end = "no" /\ prog[c].step = 0
  BY OneConnection DEF Connect
<1>2. /\ provider' = provider /\ Sets(crypt, crypt', c, y)
      /\ Sets(toServer, toServer', c, up) /\ Sets(toClient, toClient', c, down)
  BY DEF Connect, Sets
<1> HIDE DEF y
<1>3. ASSUME ses[c] = NoSession
      PROVE  Held(c) = "idle" /\ up = <<>> /\ down = <<>>
  <2>1. ses[c].part = "idle"
    BY <1>3 DEF NoSession
  <2> QED
    BY <1>1, <2>1 DEF Carries, Held, FloorOf
<1>4. CASE NewConnectionArrived(c) /\ prog' = [prog EXCEPT ![c].step = 1]
  <2> DEFINE p == [prog[c] EXCEPT !.step = 1]
             s == NewSession
  <2>1. Sets(prog, prog', c, p)
    BY <1>4 DEF Sets
  <2>2. /\ DOMAIN p = DOMAIN prog[c] /\ p.step = 1 /\ p.end = "no" /\ p.rsa = prog[c].rsa
        /\ p.aes = prog[c].aes
    BY <1>1 DEF IsProgram
  <2> HIDE DEF p
  <2>3. IsProgram(p)
    BY <1>1, <2>2 DEF IsProgram
  <2>4. ses[c] = NoSession /\ ses' = [ses EXCEPT ![c] = s]
    BY <1>4 DEF NewConnectionArrived, Arrives
  <2>5. s.part = "none" /\ ~s.early /\ s.open
    BY DEF NewSession, NoSession
  <2> HIDE DEF s
  <2>6. ses'[c] = s /\ \A d \in Conns : d # c => ses'[d] = ses[d]
    BY <2>4 DEF IInv
  <2> HIDE DEF NoSession
  <2>7. Held(c) = "idle" /\ up = <<>> /\ down = <<>>
    BY <1>3, <2>4
  <2>8. Carries(s, p, up, down)
    BY <1>1, <2>5, <2>7, Zenon DEF Carries
  <2>9. FloorOf(s, p, up, down) = "server"
    BY <2>2, <2>5, <2>7 DEF FloorOf
  <2>10. Turnover(Held(c), FloorOf(s, p, up, down))
    BY <2>7, <2>9 DEF Turnover
  <2> HIDE DEF up, down
  <2> QED
    BY <1>1, <1>2, <2>1, <2>3, <2>6, <2>8, <2>10, LocalStep
<1>5. CASE /\ NotConnectedSocket(c) \/ UNCHANGED vars
           /\ prog' = [prog EXCEPT ![c] = GaveUp(@)]
  <2> DEFINE p == GaveUp(prog[c])
  <2>1. Sets(prog, prog', c, p)
    BY <1>5 DEF Sets
  <2>2. IsProgram(p) /\ p.step = 0 /\ p.end = "gaveUp"
    BY <1>1, ProgramTyped
  <2> HIDE DEF p
  <2>3. CASE NotConnectedSocket(c)
    <3> DEFINE s == [NoSession EXCEPT !.part = "refused"]
    <3>1. ses[c] = NoSession /\ Becomes(c, s)
      BY <2>3 DEF NotConnectedSocket, Arrives
    <3>2. s.part = "refused" /\ ~s.early /\ ~s.open
      BY DEF NoSession
    <3> HIDE DEF s, NoSession
    <3>3. ses'[c] = s /\ \A d \in Conns : d # c => ses'[d] = ses[d]
      BY <3>1, BecomesOne
    <3>4. Held(c) = "idle" /\ up = <<>> /\ down = <<>>
      BY <1>3, <3>1
    <3>5. Carries(s, p, up, down)
      BY <1>1, <3>2, <3>4, Zenon DEF Carries
    <3>6. FloorOf(s, p, up, down) = "closed"
      BY <3>2 DEF FloorOf
    <3>7. Turnover(Held(c), FloorOf(s, p, up, down))
      BY <3>6 DEF Turnover
    <3> HIDE DEF up, down
    <3> QED
      BY <1>1, <1>2, <2>1, <2>2, <3>3, <3>5, <3>7, LocalStep
  <2>4. CASE UNCHANGED vars
    <3> DEFINE s == ses[c]
    <3>1. ses' = ses
      BY <2>4 DEF vars
    <3>2. Carries(s, p, up, down)
      BY <1>1, <2>2 DEF Carries
    <3>3. Turnover(Held(c), FloorOf(s, p, up, down))
      <4>1. CASE s.part = "idle"
        BY <4>1 DEF Held, FloorOf, Turnover
      <4>2. CASE s.part # "idle"
        BY <2>2, <4>2 DEF FloorOf, Turnover
      <4> QED
        BY <4>1, <4>2
    <3> HIDE DEF up, down
    <3> QED
      BY <1>1, <1>2, <2>1, <2>2, <3>1, <3>2, <3>3, LocalStep
  <2> QED
    BY <1>5, <2>3, <2>4
<1> QED
  BY <1>4, <1>5 DEF Connect

(* The session reads the socket.                                           *)
LEMMA ReceiveTakesTurn ==
    ASSUME IInv, DInv, NEW c \in Conns, ReceiveMessage(c)
    PROVE  TakesTurn
<1> DEFINE u == ses[c]
           s == ses'[c]
           p == prog[c]
           up == toServer[c]
           down == toClient[c]
           e == <<>>
           message == Head(toServer[c])
           y == IF u.sealed /\ message.lock = "aes" THEN AfterDecrypt(crypt[c], message.text)
                ELSE crypt[c]
<1>1. Carries(u, p, up, down) /\ IsProgram(p) /\ IsAes(crypt[c])
  BY OneConnection
<1>2. /\ up # <<>> /\ Receive(c) /\ s.rest = <<Opened(c, message)>>
      /\ toServer' = [toServer EXCEPT ![c] = Tail(@)]
      /\ crypt' = IF u.sealed /\ message.lock = "aes"
                   THEN [crypt EXCEPT ![c] = AfterDecrypt(@, message.text)] ELSE crypt
      /\ prog' = prog /\ provider' = provider /\ toClient' = toClient
  BY DEF ReceiveMessage
<1>3. Sets(crypt, crypt', c, y)
  BY <1>2, Zenon DEF Sets
<1>4. IsAes(y)
  BY <1>1, AesTyped
<1> HIDE DEF y
<1>5. down = <<>> /\ Tail(up) = <<>>
  BY <1>1, <1>2, OneMessage DEF Carries
<1>6. /\ Sets(prog, prog', c, p) /\ Sets(toClient, toClient', c, down)
      /\ Sets(toServer, toServer', c, e)
  BY <1>2, <1>5 DEF Sets
<1>7. u.open /\ Len(u.written) = 1 /\ u.part # "idle" /\ u \in Sessions
  BY <1>1, <1>2 DEF Carries, Receive, Ready, IInv, Good
<1>8. PICK messages \in Sends[c] :
         Becomes(c, [u EXCEPT !.rest = messages, !.written = <<>>,
                              !.early = @ \/ Len(messages) > Len(u.written)])
  BY <1>2 DEF Receive
<1> DEFINE b == u.early \/ Len(messages) > Len(u.written)
           t == [u EXCEPT !.rest = messages, !.written = <<>>, !.early = b]
<1>9. s = t /\ \A d \in Conns : d # c => ses'[d] = ses[d]
  BY <1>8, BecomesOne
<1> HIDE DEF b
<1>10. t.rest = messages /\ t.early = b /\ t.open /\ t.part = u.part
  BY <1>7 DEF Sessions
<1> HIDE DEF t
<1>11. Len(messages) = 1
  <2> DEFINE m == Opened(c, message)
  <2>1. messages = <<m>>
    BY <1>2, <1>9, <1>10
  <2> HIDE DEF m
  <2> QED
    BY <2>1
<1>12. ~b
  BY <1>1, <1>7, <1>11 DEF b, Carries
<1>13. AtMostOne(e)
  BY DEF AtMostOne
<1>14. Carries(s, p, e, down)
  BY <1>5, <1>7, <1>9, <1>10, <1>12, <1>13 DEF Carries
<1>15. Turnover(Held(c), FloorOf(s, p, e, down))
  <2>1. CASE p.end = "gaveUp"
    BY <1>7, <1>9, <1>10, <2>1 DEF FloorOf, Turnover
  <2>2. CASE p.end # "gaveUp"
    <3>1. FloorOf(s, p, e, down) = "server"
      BY <1>5, <1>7, <1>9, <1>10, <2>2 DEF FloorOf
    <3>2. Held(c) = "up"
      BY <1>2, <1>7, <2>2 DEF FloorOf, Held
    <3> QED
      BY <3>1, <3>2 DEF Turnover
  <2> QED
    BY <2>1, <2>2
<1> HIDE DEF s, p, down, e
<1> QED
  BY <1>1, <1>2, <1>3, <1>4, <1>6, <1>9, <1>14, <1>15, LocalStep DEF s

(* A handler of the session that had its turn: it sends one message, or    *)
(* none.                                                                   *)
LEMMA SpeaksTakesTurn ==
    ASSUME IInv', DInv, NEW c \in Conns, NEW aes, IsAes(aes), Sends1(c, aes),
           ses[c] \in Sessions, \A d \in Conns : d # c => ses'[d] = ses[d],
           ses[c].open, ses[c].written = <<>>, ses[c].part # "idle",
           ~ses'[c].early, ses'[c].part # "idle",
           prog' = prog, provider' = provider, toServer' = toServer
    PROVE  TakesTurn
<1> DEFINE u == ses[c]
           s == ses'[c]
           p == prog[c]
           up == toServer[c]
           down == toClient[c]
<1>1. Carries(u, p, up, down) /\ IsProgram(p)
  BY OneConnection
<1>2. up = <<>> /\ down = <<>>
  <2>1. Len(u.written) # 1
    OBVIOUS
  <2> QED
    BY <1>1, <2>1 DEF Carries
<1>3. u.written \in Seq(Answers) /\ s.written \in Seq(Answers) /\ Good(s)
  BY DEF IInv, Good, Sessions
<1>4. PICK y : IsAes(y) /\ crypt' = [crypt EXCEPT ![c] = y]
  BY <1>3, SendsOne
<1>5. /\ Sets(prog, prog', c, p) /\ Sets(toServer, toServer', c, up)
      /\ Sets(crypt, crypt', c, y)
  BY <1>4 DEF Sets
<1>6. CASE toClient' = toClient
  <2>1. Carries(s, p, up, down)
    BY <1>1, <1>2 DEF Carries
  <2>2. Turnover(Held(c), FloorOf(s, p, up, down))
    <3>1. CASE p.end = "gaveUp" \/ ~s.open
      BY <3>1, Zenon DEF FloorOf, Turnover
    <3>2. CASE p.end # "gaveUp" /\ s.open
      BY <1>2, <3>2 DEF FloorOf, Held, Turnover
    <3> QED
      BY <3>1, <3>2
  <2>3. Sets(toClient, toClient', c, down)
    BY <1>6 DEF Sets
  <2> QED
    BY <1>1, <1>4, <1>5, <2>1, <2>2, <2>3, LocalStep
<1>7. CASE toClient' # toClient
  <2>1. PICK m : toClient' = [toClient EXCEPT ![c] = Append(@, m)]
    BY <1>3, <1>7, SendsOne
  <2> DEFINE v == Append(down, m)
  <2>2. Sets(toClient, toClient', c, v)
    BY <2>1 DEF Sets
  <2>3. AtMostOne(v) /\ v # <<>>
    BY <1>1, <1>2, OneMessage DEF Carries
  <2> HIDE DEF v
  <2>4. s.written # <<>>
    BY <1>3, <1>7, SendsOne
  <2>5. s.open => s.rest = <<>> /\ Len(s.written) = 1
    BY <1>3, <2>4, WroteOne
  <2>6. Carries(s, p, up, v)
    BY <1>1, <1>2, <2>3, <2>5 DEF Carries
  <2>7. Turnover(Held(c), FloorOf(s, p, up, v))
    <3>1. CASE p.end = "gaveUp" \/ ~s.open
      BY <3>1, Zenon DEF FloorOf, Turnover
    <3>2. CASE p.end # "gaveUp" /\ s.open
      <4>1. Held(c) = "server"
        BY <1>2, <3>2 DEF FloorOf, Held
      <4>2. FloorOf(s, p, up, v) = "down"
        BY <1>2, <2>3, <3>2 DEF FloorOf
      <4> QED
        BY <4>1, <4>2 DEF Turnover
    <3> QED
      BY <3>1, <3>2
  <2> QED
    BY <1>1, <1>4, <1>5, <2>2, <2>6, <2>7, LocalStep
<1> QED
  BY <1>6, <1>7

(* A handler that sends nothing, or closes the session; what is under way  *)
(* is then lost or not.                                                    *)
LEMMA SilentTakesTurn ==
    ASSUME DInv, NEW c \in Conns, \A d \in Conns : d # c => ses'[d] = ses[d],
           ses[c].part # "idle", ~ses'[c].early, ses'[c].part # "idle",
           NEW up \in {toServer[c], <<>>}, NEW down \in {toClient[c], <<>>},
           Sets(toServer, toServer', c, up), Sets(toClient, toClient', c, down),
           NEW y, IsAes(y), Sets(crypt, crypt', c, y),
           \/ ~ses'[c].open
           \/ /\ ses'[c].open = ses[c].open /\ ses'[c].rest = ses[c].rest
              /\ ses'[c].written = ses[c].written
              /\ up = toServer[c] /\ down = toClient[c],
           prog' = prog, provider' = provider
    PROVE  TakesTurn
<1> DEFINE u == ses[c]
           s == ses'[c]
           p == prog[c]
<1>1. Carries(u, p, toServer[c], toClient[c]) /\ IsProgram(p)
  BY OneConnection
<1>2. AtMostOne(up) /\ AtMostOne(down) /\ (up = <<>> \/ down = <<>>)
  <2>1. AtMostOne(<<>>)
    BY DEF AtMostOne
  <2> QED
    BY <1>1, <2>1 DEF Carries
<1>3. Sets(prog, prog', c, p)
  BY DEF Sets
<1>4. CASE ~s.open
  <2>1. Carries(s, p, up, down)
    BY <1>1, <1>2, <1>4 DEF Carries
  <2>2. Turnover(Held(c), FloorOf(s, p, up, down))
    BY <1>4 DEF FloorOf, Turnover
  <2> QED
    BY <1>1, <1>3, <2>1, <2>2, LocalStep
<1>5. CASE /\ s.open = u.open /\ s.rest = u.rest /\ s.written = u.written
           /\ up = toServer[c] /\ down = toClient[c]
  <2>1. Carries(s, p, up, down)
    BY <1>1, <1>2, <1>5 DEF Carries
  <2>2. FloorOf(s, p, up, down) = Held(c)
    BY <1>5, Zenon DEF FloorOf, Held
  <2>3. Turnover(Held(c), FloorOf(s, p, up, down))
    BY <2>2 DEF Turnover
  <2> QED
    BY <1>1, <1>3, <2>1, <2>3, LocalStep
<1> QED
  BY <1>4, <1>5

(* Every failure closes the socket.                                        *)
LEMMA FailureShuts ==
    ASSUME NEW s, {"open", "early"} \subseteq DOMAIN s
    PROVE  ~Finished(s, FALSE).open
<1> DEFINE d == DisconnectAll(s)
           p == [d EXCEPT !.part = "none"]
           u == [d EXCEPT !.undefined = TRUE]
           t == IF d.part = "none" THEN u ELSE Post(p, "deletePart")
           n == t.closers + 1
           w == [t EXCEPT !.next = <<>>, !.closers = n]
           r == w.reports \o [i \in 1..w.closers |-> FALSE]
           x == [w EXCEPT !.open = FALSE, !.reports = r]
<1>1. Finished(s, FALSE) = CloseDestination(w, FALSE)
  BY DEF Finished, SessionPartFinished
<1>2. CloseDestination(w, FALSE) \in {x, Post(x, "deleteSession")}
  <2> HIDE DEF w
  <2> QED
    BY DEF CloseDestination
<1>3. DOMAIN d = DOMAIN s
  BY DEF DisconnectAll
<1> HIDE DEF d
<1>4. DOMAIN u = DOMAIN d /\ DOMAIN p = DOMAIN d
  OBVIOUS
<1>5. DOMAIN Post(p, "deletePart") = DOMAIN p
  BY DEF Post
<1> HIDE DEF p, u
<1>6. DOMAIN t = DOMAIN s
  BY <1>3, <1>4, <1>5
<1> HIDE DEF t, n
<1>7. DOMAIN w = DOMAIN s
  BY <1>6
<1> HIDE DEF w, r
<1>8. x.open = FALSE /\ DOMAIN x = DOMAIN w
  BY <1>7
<1> HIDE DEF x
<1>9. Post(x, "deleteSession").open = FALSE
  BY <1>7, <1>8 DEF Post
<1>10. CASE CloseDestination(w, FALSE) = x
  BY <1>1, <1>8, <1>10
<1>11. CASE CloseDestination(w, FALSE) = Post(x, "deleteSession")
  BY <1>1, <1>9, <1>11
<1> QED
  BY <1>2, <1>10, <1>11

(* The timer expires, or the client is gone.                               *)
LEMMA LeavesTakesTurn ==
    ASSUME IInv, DInv, NEW c \in Conns, TimesOut(c) \/ Disconnected(c)
    PROVE  TakesTurn
<1> DEFINE u == ses[c]
           e == <<>>
<1>1. Carries(u, prog[c], toServer[c], toClient[c]) /\ IsAes(crypt[c])
  BY OneConnection
<1>2. Ready(c) /\ u \in Sessions /\ Good(u)
  BY DEF TimesOut, Disconnected, RequestTimedOut, PeerDisconnects, IInv, Good
<1>3. u.open /\ u.part # "idle" /\ ~u.early
  BY <1>1, <1>2 DEF Ready, Good, Listens, Pending, Over, Gone, Parts, Carries
<1>4. PICK v \in {u, [u EXCEPT !.open = FALSE]} : Becomes(c, Finished(v, FALSE))
  BY DEF TimesOut, Disconnected, RequestTimedOut, PeerDisconnects
<1> DEFINE s == Finished(v, FALSE)
<1>5. {"open", "early"} \subseteq DOMAIN v /\ ~v.early
  <2>1. {"open", "early"} \subseteq DOMAIN u
    BY <1>2 DEF Sessions
  <2> QED
    BY <1>3, <1>4, <2>1
<1>6. Keeps(v, s) /\ ~s.open
  BY <1>5, FinishedKeeps, FailureShuts
<1>7. ~s.early
  BY <1>5, <1>6 DEF Keeps
<1>8. s.part # "idle"
  <2>1. Goes(c) \/ Dies(c)
    BY SessionAssumption, ClientGoes DEF TimesOut, Disconnected
  <2>2. ses'[c] = s
    BY <1>4, BecomesOne
  <2> HIDE DEF s
  <2>3. ses'[c].part # "idle"
    <3>1. CASE Goes(c)
      <4>1. PICK t : Follows(u, t) /\ Becomes(c, t)
        BY <3>1 DEF Goes
      <4>2. ses'[c] = t
        BY <4>1, BecomesOne
      <4> QED
        BY <4>1, <4>2 DEF Follows, Parts
    <3>2. CASE Dies(c)
      BY <1>3, <3>2 DEF Dies, Crash
    <3> QED
      BY <2>1, <3>1, <3>2
  <2> QED
    BY <2>2, <2>3
<1>9. ses'[c] = s /\ \A d \in Conns : d # c => ses'[d] = ses[d]
  BY <1>4, BecomesOne
<1> HIDE DEF s
<1>10. /\ prog' = prog /\ provider' = provider
       /\ Sets(toServer, toServer', c, toServer[c]) \/ Sets(toServer, toServer', c, e)
       /\ Sets(toClient, toClient', c, toClient[c]) /\ Sets(crypt, crypt', c, crypt[c])
  BY DEF TimesOut, Disconnected, Sets
<1>11. CASE Sets(toServer, toServer', c, toServer[c])
  BY <1>1, <1>3, <1>6, <1>7, <1>8, <1>9, <1>10, <1>11, SilentTakesTurn
<1>12. CASE Sets(toServer, toServer', c, e)
  BY <1>1, <1>3, <1>6, <1>7, <1>8, <1>9, <1>10, <1>12, SilentTakesTurn
<1> QED
  BY <1>10, <1>11, <1>12

(* Whose session goes on, or ends for the time being, was connected.       *)
LEMMA GoesConnected ==
    ASSUME IInv, NEW c \in Conns, Goes(c)
    PROVE  ses'[c].part \in Parts \cup {"none"}
<1>1. PICK t : Follows(ses[c], t) /\ Becomes(c, t)
  BY DEF Goes
<1>2. ses'[c] = t
  BY <1>1, BecomesOne
<1> QED
  BY <1>1, <1>2 DEF Follows

(* The part handles the message that it has read.                          *)
LEMMA MessageTakesTurn ==
    ASSUME IInv, IInv', DInv, NEW c \in Conns, HandleMessage(c)
    PROVE  TakesTurn
<1> DEFINE u == ses[c]
           s == ses'[c]
           aes == IF s.sealed /\ ~u.sealed THEN WithKey(c) ELSE crypt[c]
<1>1. Carries(u, prog[c], toServer[c], toClient[c]) /\ IsAes(crypt[c])
  BY OneConnection
<1>2. /\ ReadNext(c) /\ Sends1(c, aes)
      /\ prog' = prog /\ provider' = provider /\ toServer' = toServer
  BY DEF HandleMessage
<1>3. IsAes(aes)
  <2> DEFINE key == SetKey(NewAes, reading[c].key).object
             iv == Iv[reading[c].key]
  <2>1. IsAes(key)
    BY NewAesTyped, AesTyped
  <2>2. WithKey(c) = SetIv(key, iv).object
    BY DEF WithKey
  <2> HIDE DEF key, iv
  <2>3. IsAes(WithKey(c))
    BY <2>1, <2>2, AesTyped
  <2> QED
    BY <1>1, <2>3
<1> HIDE DEF aes
<1>4. /\ u \in Sessions /\ Good(u) /\ ~u.early /\ u.rest # <<>>
  BY <1>1, <1>2 DEF IInv, Good, Carries, ReadNext
<1>5. u.connected /\ u.written = <<>>
  BY <1>4 DEF Good, Turn
<1>6. u.open /\ u.part \in Parts /\ ~u.stale
  BY <1>4, <1>5 DEF Good, Listens, Pending, Over, Gone
<1>7. u.part # "idle"
  BY <1>6 DEF Parts
<1>8. CASE Crash
  <2>1. ses' = ses
    BY <1>8 DEF Crash
  <2> QED
    BY <1>2, <1>3, <1>4, <1>5, <1>6, <1>7, <2>1, SpeaksTakesTurn
<1>9. CASE ~Crash
  <2> DEFINE k == Head(u.rest)
             r == Tail(u.rest)
             v == [u EXCEPT !.rest = r]
             t == Arrived(v, k)
  <2>1. Becomes(c, t)
    BY <1>2, <1>6, <1>9 DEF ReadNext
  <2> HIDE DEF r, k
  <2>2. v.part = u.part /\ Keeps(u, v)
    BY <1>4, StepsKeep DEF Sessions
  <2> HIDE DEF v
  <2>3. Keeps(u, t)
    BY <1>6, <2>2, ArrivedKeeps, KeepsTwice
  <2> HIDE DEF t
  <2>4. ~t.early
    BY <1>4, <2>3 DEF Keeps, Sessions
  <2>5. s = t /\ \A d \in Conns : d # c => ses'[d] = ses[d]
    BY <2>1, BecomesOne
  <2>6. s.part # "idle"
    <3>1. Goes(c) \/ Dies(c)
      BY <1>2, SessionAssumption, ClientGoes
    <3> QED
      BY <1>9, <3>1, GoesConnected DEF Dies, Parts
  <2> HIDE DEF s
  <2>7. ~ses'[c].early /\ ses'[c].part # "idle"
    BY <2>4, <2>5, <2>6 DEF s
  <2> QED
    BY <1>2, <1>3, <1>4, <1>5, <1>6, <1>7, <2>5, <2>7, SpeaksTakesTurn
<1> QED
  BY <1>8, <1>9

(* A posted event closes the session, or lets a part speak whose turn it   *)
(* is, or changes nothing that the client could see.                       *)
LEMMA EventOutcome ==
    ASSUME IInv, NEW c \in Conns, HandlePosted(c), ~ses[c].early
    PROVE  /\ \A d \in Conns : d # c => ses'[d] = ses[d]
           /\ ~ses'[c].early /\ ses[c].part # "idle" /\ ses'[c].part # "idle"
           /\ \/ ses'[c].part = "deleted" /\ ~ses'[c].open
              \/ /\ ses'[c].part # "deleted"
                 /\ ses[c].open /\ ses[c].written = <<>>
              \/ /\ ses'[c].part # "deleted"
                 /\ ses'[c].open = ses[c].open /\ ses'[c].rest = ses[c].rest
                 /\ ses'[c].written = ses[c].written
<1> USE DEF Handled
<1> DEFINE u == ses[c]
           q == Tail(u.posted)
           h == [u EXCEPT !.posted = q]
           l == [u EXCEPT !.posted = q, !.connected = TRUE]
<1>1. Good(u) /\ u \in Sessions /\ u.posted # <<>>
  BY DEF IInv, Good, HandlePosted, Handle, StartSession, Execute, ExecuteInit,
         ExecuteCrypto, ExecuteAuth, ExecuteLogs, DeletePart, DeleteSession
<1>2. u.part \in Parts \cup {"none"} /\ u.part # "idle"
  BY <1>1, Talking DEF Parts
<1>3. /\ h.early = u.early /\ h.open = u.open /\ h.rest = u.rest /\ h.written = u.written
      /\ h.part = u.part /\ DOMAIN h = DOMAIN u /\ "early" \in DOMAIN u
  BY <1>1 DEF Sessions
<1>4. Listening(h) = l /\ l.early = u.early /\ DOMAIN l = DOMAIN u
  BY <1>1 DEF Listening, Sessions
<1>5. /\ StartSession(c) => Becomes(c, TakeNextPart(h))
      /\ ExecuteInit(c) => Becomes(c, Await(Write(Listening(h), "HELLO"), "NONE"))
      /\ ExecuteCrypto(c) => Becomes(c, Await(Listening(h), "WAITING_FOR_CLIENT_ID"))
      /\ ExecuteAuth(c) => Becomes(c, Await(Write(Listening(h), "CHOOSE_AUTH_MODULE"),
                                            "WAITING_FOR_MODULE_ID"))
      /\ ExecuteLogs(c) =>
            \/ Crash
            \/ Becomes(c, Await(Write(Listening(h), "WAITING_FOR_LOGS"), "WAITING_FOR_LOG"))
            \/ Becomes(c, Finished(Write(Listening(h), "NACK"), TRUE))
      /\ DeletePart(c) => Becomes(c, [h EXCEPT !.stale = FALSE])
  BY DEF StartSession, ExecuteInit, ExecuteCrypto, ExecuteAuth, ExecuteLogs, DeletePart
<1>6. ASSUME Goes(c)
      PROVE  ses'[c].part # "idle" /\ ses'[c].part # "deleted"
  BY <1>6, GoesConnected DEF Parts
<1>7. CASE DeleteSession(c)
  <2> DEFINE f == u.reports
             s == [NoSession EXCEPT !.part = "deleted", !.reports = f]
  <2>1. Becomes(c, s)
    BY <1>7 DEF DeleteSession
  <2> HIDE DEF f
  <2>2. ~s.early /\ ~s.open /\ s.part = "deleted"
    BY DEF NoSession
  <2> HIDE DEF s
  <2> QED
    BY <1>2, <2>1, <2>2, BecomesOne
<1>8. CASE ~DeleteSession(c)
  <2>1. ses'[c].part # "idle" /\ ses'[c].part # "deleted"
    BY <1>6, <1>8, PostedGoes
  <2> HIDE DEF q, h, l
  <2>2. ASSUME NEW s, Becomes(c, s)
        PROVE  ses'[c] = s /\ \A d \in Conns : d # c => ses'[d] = ses[d]
    BY <2>2, BecomesOne
  <2>3. CASE Crash
    BY <1>2, <2>1, <2>3 DEF Crash
  <2>4. CASE StartSession(c)
    <3> DEFINE x == Head(h.next)
               n == Tail(h.next)
               z == [h EXCEPT !.part = x, !.next = n, !.state = "NONE"]
               s == Post(z, "execute")
    <3>1. Becomes(c, s)
      BY <1>5, <2>4 DEF TakeNextPart
    <3> HIDE DEF x, n
    <3>2. /\ z.early = u.early /\ z.open = u.open /\ z.rest = u.rest
          /\ z.written = u.written /\ DOMAIN z = DOMAIN u
      BY <1>1, <1>3 DEF Sessions
    <3> HIDE DEF z
    <3>3. /\ s.early = u.early /\ s.open = u.open /\ s.rest = u.rest
          /\ s.written = u.written
      BY <1>1, <3>2 DEF Post, Sessions
    <3> HIDE DEF s
    <3> QED
      BY <1>2, <2>1, <2>2, <3>1, <3>3
  <2>5. CASE DeletePart(c)
    <3> DEFINE s == [h EXCEPT !.stale = FALSE]
    <3>1. Becomes(c, s)
      BY <1>5, <2>5
    <3>2. /\ s.early = u.early /\ s.open = u.open /\ s.rest = u.rest
          /\ s.written = u.written
      BY <1>1, <1>3 DEF Sessions
    <3> HIDE DEF s
    <3> QED
      BY <1>2, <2>1, <2>2, <3>1, <3>2
  <2>6. CASE ExecuteCrypto(c)
    <3> DEFINE s == [l EXCEPT !.timer = TRUE, !.state = "WAITING_FOR_CLIENT_ID"]
    <3>1. Becomes(c, s)
      BY <1>4, <1>5, <2>6 DEF Await
    <3>2. /\ l.open = u.open /\ l.rest = u.rest /\ l.written = u.written
      BY <1>1 DEF l, Sessions
    <3>3. /\ s.early = u.early /\ s.open = u.open /\ s.rest = u.rest
          /\ s.written = u.written
      BY <1>1, <1>4, <3>2 DEF Sessions
    <3> HIDE DEF s
    <3> QED
      BY <1>2, <2>1, <2>2, <3>1, <3>3
  <2>7. CASE ExecuteInit(c) \/ ExecuteAuth(c) \/ ExecuteLogs(c)
    <3>1. u.open /\ u.written = <<>>
      <4>1. Head(u.posted) = "execute" /\ u.part \in {"init", "auth", "logs"}
        BY <2>7 DEF ExecuteInit, ExecuteAuth, ExecuteLogs, Execute, Handle
      <4>2. u.open /\ ~u.connected
        BY <1>1, <4>1, PostedWell DEF Pending
      <4> QED
        BY <1>1, <4>1, <4>2 DEF Good, Turn
    <3>2. \A answer : Keeps(l, Write(l, answer))
      BY StepsKeep
    <3>3. \A answer : Keeps(l, Finished(Write(l, answer), TRUE))
      BY <3>2, FinishedKeeps, KeepsTwice
    <3>4. Crash \/ \E s : Keeps(l, s) /\ Becomes(c, s)
      BY <1>4, <1>5, <2>7, <3>3, AnswerKeeps
    <3>5. CASE ~Crash
      <4>1. PICK s : Keeps(l, s) /\ Becomes(c, s)
        BY <3>4, <3>5
      <4>2. ~s.early
        BY <1>3, <1>4, <4>1 DEF Keeps
      <4> QED
        BY <1>2, <2>1, <2>2, <3>1, <4>1, <4>2
    <3> QED
      BY <2>3, <3>5
  <2> QED
    BY <1>8, <2>4, <2>5, <2>6, <2>7 DEF HandlePosted
<1> QED
  BY <1>7, <1>8

(* A posted event is handled.                                              *)
LEMMA EventTakesTurn ==
    ASSUME IInv, IInv', DInv, NEW c \in Conns, HandleEvent(c)
    PROVE  TakesTurn
<1> DEFINE u == ses[c]
           s == ses'[c]
           y == crypt[c]
           e == <<>>
<1>1. Carries(u, prog[c], toServer[c], toClient[c]) /\ IsAes(crypt[c])
  BY OneConnection
<1>2. /\ HandlePosted(c) /\ prog' = prog /\ provider' = provider /\ toServer' = toServer
      /\ IF s.part = "deleted"
         THEN /\ \E kept \in {toClient[c], e} : toClient' = [toClient EXCEPT ![c] = kept]
              /\ crypt' = crypt
         ELSE Sends1(c, crypt[c])
  BY DEF HandleEvent
<1>3. ~u.early /\ u \in Sessions
  BY <1>1 DEF Carries, IInv, Good
<1>4. /\ \A d \in Conns : d # c => ses'[d] = ses[d]
      /\ ~s.early /\ u.part # "idle" /\ s.part # "idle"
      /\ \/ s.part = "deleted" /\ ~s.open
         \/ s.part # "deleted" /\ u.open /\ u.written = e
         \/ s.part # "deleted" /\ s.open = u.open /\ s.rest = u.rest /\ s.written = u.written
  BY <1>2, <1>3, EventOutcome
<1>5. Sets(toServer, toServer', c, toServer[c])
  BY <1>2 DEF Sets
<1>6. CASE s.part = "deleted"
  <2>1. Sets(toClient, toClient', c, toClient[c]) \/ Sets(toClient, toClient', c, e)
    BY <1>2, <1>6 DEF Sets
  <2>2. Sets(crypt, crypt', c, crypt[c])
    BY <1>2, <1>6 DEF Sets
  <2>3. ~s.open
    BY <1>4, <1>6
  <2>4. CASE Sets(toClient, toClient', c, toClient[c])
    BY <1>1, <1>2, <1>4, <1>5, <2>2, <2>3, <2>4, SilentTakesTurn
  <2>5. CASE Sets(toClient, toClient', c, e)
    BY <1>1, <1>2, <1>4, <1>5, <2>2, <2>3, <2>5, SilentTakesTurn
  <2> QED
    BY <2>1, <2>4, <2>5
<1>7. CASE s.part # "deleted" /\ u.open /\ u.written = e
  BY <1>1, <1>2, <1>3, <1>4, <1>7, SpeaksTakesTurn
<1>8. CASE s.part # "deleted" /\ s.open = u.open /\ s.rest = u.rest /\ s.written = u.written
  <2>1. u.written \in Seq(Answers) /\ s.written \in Seq(Answers)
    BY DEF IInv, Good, Sessions
  <2>2. Sends1(c, crypt[c])
    BY <1>2, <1>8
  <2>3. toClient' = toClient
    BY <1>1, <1>8, <2>1, <2>2, SendsOne
  <2>4. PICK x : IsAes(x) /\ crypt' = [crypt EXCEPT ![c] = x]
    BY <1>1, <2>1, <2>2, SendsOne
  <2>5. Sets(toClient, toClient', c, toClient[c]) /\ Sets(crypt, crypt', c, x)
    BY <2>3, <2>4 DEF Sets
  <2> QED
    BY <1>2, <1>4, <1>5, <1>8, <2>4, <2>5, SilentTakesTurn
<1> QED
  BY <1>4, <1>6, <1>7, <1>8

(* Nothing that the two programs see changes.                              *)
LEMMA NobodySpeaks ==
    ASSUME DInv, UNCHANGED ends,
           \A c \in Conns : /\ ses'[c].part = ses[c].part /\ ses'[c].open = ses[c].open
                            /\ ses'[c].early = ses[c].early /\ ses'[c].rest = ses[c].rest
                            /\ ses'[c].written = ses[c].written
    PROVE  TakesTurn
<1>1. /\ prog' = prog /\ crypt' = crypt /\ toServer' = toServer /\ toClient' = toClient
      /\ provider' = provider
  BY DEF ends
<1>2. DInv'
  <2>1. \A c \in Conns : Carries(ses'[c], prog'[c], toServer'[c], toClient'[c])
    <3> TAKE c \in Conns
    <3>1. Carries(ses[c], prog[c], toServer[c], toClient[c])
      BY OneConnection
    <3> QED
      BY <1>1, <3>1 DEF Carries
  <2> QED
    BY <1>1, <2>1, Zenon DEF DInv
<1>3. Where' = Where
  <2>1. \A c \in Conns : Floor(c)' = Floor(c)
    BY <1>1 DEF Floor, HungUp
  <2> QED
    BY <2>1 DEF Where
<1> QED
  BY <1>2, <1>3 DEF TakesTurn

(* Every step of a dialogue keeps the invariant and the turns.             *)
LEMMA EachTakesTurn ==
    ASSUME IInv, IInv', DInv, [NextDialogue]_dialogue
    PROVE  TakesTurn
<1>1. ASSUME NEW c \in Conns,
             \/ Connect(c) \/ ClientStep(c) \/ ReceiveMessage(c) \/ HandleMessage(c)
             \/ HandleEvent(c) \/ TimesOut(c) \/ Disconnected(c)
      PROVE  TakesTurn
  BY <1>1, ConnectTakesTurn, ClientTakesTurn, ReceiveTakesTurn, MessageTakesTurn,
     EventTakesTurn, LeavesTakesTurn
<1>2. CASE Close /\ UNCHANGED ends
  <2>1. ses' = ses
    BY <1>2 DEF Close
  <2> QED
    BY <1>2, <2>1, NobodySpeaks
<1>3. CASE EndThread /\ UNCHANGED ends
  <2> DEFINE e == <<>>
  <2>1. \A c \in Conns : ses'[c] = [ses[c] EXCEPT !.posted = e] /\ ses[c] \in Sessions
    BY <1>3 DEF EndThread, IInv, Good
  <2> HIDE DEF e
  <2>2. \A c \in Conns : /\ ses'[c].part = ses[c].part /\ ses'[c].open = ses[c].open
                         /\ ses'[c].early = ses[c].early /\ ses'[c].rest = ses[c].rest
                         /\ ses'[c].written = ses[c].written
    BY <2>1 DEF Sessions
  <2> QED
    BY <1>3, <2>2, NobodySpeaks
<1>4. CASE UNCHANGED dialogue
  BY <1>4, NobodySpeaks DEF dialogue, vars, ends
<1> QED
  BY <1>1, <1>2, <1>3, <1>4 DEF NextDialogue

(* A dialogue starts with nobody connected and nothing under way.          *)
LEMMA InitDInv == StartDialogue => DInv /\ Turns!Init
<1> SUFFICES ASSUME StartDialogue PROVE DInv /\ Turns!Init
  OBVIOUS
<1>1. \A c \in Conns : ses[c] = NoSession /\ toServer[c] = <<>> /\ toClient[c] = <<>>
  BY DEF StartDialogue, Init
<1>2. \A c \in Conns : ses[c].part = "idle" /\ ~ses[c].early /\ ~ses[c].open
  <2>1. NoSession.part = "idle" /\ ~NoSession.early /\ ~NoSession.open
    BY DEF NoSession
  <2> HIDE DEF NoSession
  <2> QED
    BY <1>1, <2>1
<1>3. \A c \in Conns : \E file : prog[c] = Program(file)
  BY DEF StartDialogue
<1>4. \A file : IsProgram(Program(file)) /\ Program(file).step = 0
  <2> TAKE file
  <2>1. Program(file).aes = NewAes /\ Program(file).rsa.public = NoKey
    BY DEF Program, NewRsa
  <2> QED
    BY <2>1, NewAesTyped DEF Program, IsProgram
<1>5. /\ prog = [c \in Conns |-> prog[c]] /\ crypt = [c \in Conns |-> crypt[c]]
      /\ toServer = [c \in Conns |-> toServer[c]] /\ toClient = [c \in Conns |-> toClient[c]]
  BY DEF StartDialogue
<1>6. \A c \in Conns : IsProgram(prog[c]) /\ IsAes(crypt[c])
  <2>1. \A c \in Conns : crypt[c] = NewAes
    <3> HIDE DEF NewAes
    <3> QED
      BY DEF StartDialogue
  <2> QED
    BY <1>3, <1>4, <2>1, NewAesTyped, Zenon
<1>7. provider.rsa.private \in Pairs \cup {NoKey}
  <2>1. \A key : WithKeyFile(key).rsa.private \in Pairs \cup {NoKey}
    BY DEF WithKeyFile, SetPrivateKey, NewRsa, Returns, Throws
  <2>2. \A key \in Pairs : WithNewKeys(key).rsa.private \in Pairs \cup {NoKey}
    BY DEF WithNewKeys, GenerateKeys
  <2> QED
    BY <2>1, <2>2 DEF StartDialogue
<1>8. AtMostOne(<<>>)
  BY DEF AtMostOne
<1>9. \A c \in Conns : prog[c].step = 0
  BY <1>3, <1>4, Zenon
<1>10. \A c \in Conns : Carries(ses[c], prog[c], toServer[c], toClient[c])
  <2> TAKE c \in Conns
  <2>1. ~(prog[c].step > 0)
    BY <1>9
  <2>2. toServer[c] = <<>> /\ toClient[c] = <<>>
    BY <1>1
  <2> QED
    BY <1>2, <1>8, <2>1, <2>2, Zenon DEF Carries
<1>11. \A c \in Conns : Floor(c) = "idle"
  BY <1>2, Zenon DEF Floor
<1>12. DInv
  BY <1>5, <1>6, <1>7, <1>10, Zenon DEF DInv
<1>13. Turns!Init
  BY <1>11, Zenon DEF Turns!Init
<1> QED
  BY <1>12, <1>13

(* The invariant of the sessions and that of the dialogue.                 *)
THEOREM DialogueInductive == DialogueSpec => [](IInv /\ DInv)
<1>1. DialogueSpec => []IInv
  BY SessionsOfDialogues, Inductive
<1>2. IInv /\ IInv' /\ DInv /\ [NextDialogue]_dialogue => DInv'
  BY EachTakesTurn DEF TakesTurn
<1>3. StartDialogue => DInv
  BY InitDInv
<1> QED
  BY <1>1, <1>2, <1>3, PTL DEF DialogueSpec

(* Every object of the client and of the session holds a key that was made *)
(* or loaded, or none, and each direction carries one message at most.     *)
THEOREM DialogueTyped == DialogueSpec => []DialogueTypeOK
<1>1. DInv => DialogueTypeOK
  <2> SUFFICES ASSUME DInv PROVE DialogueTypeOK
    OBVIOUS
  <2>1. ASSUME NEW c \in Conns
        PROVE  Len(toServer[c]) <= 1 /\ Len(toClient[c]) <= 1
    <3>1. AtMostOne(toServer[c]) /\ AtMostOne(toClient[c])
      BY OneConnection DEF Carries
    <3>2. Len(toServer[c]) \in {0, 1} /\ Len(toClient[c]) \in {0, 1}
      BY <3>1, OneMessage
    <3>3. \A n \in {0, 1} : n <= 1
      OBVIOUS
    <3> QED
      BY <3>2, <3>3, Zenon
  <2>2. \A c \in Conns : /\ prog[c].step \in 0..10
                         /\ prog[c].end \in {"no", "done", "gaveUp"}
                         /\ prog[c].aes.key \in Suitable \cup {NoKey}
                         /\ crypt[c].key \in Suitable \cup {NoKey}
                         /\ prog[c].rsa.public \in Pairs \cup {NoKey}
    BY DEF DInv, IsProgram, IsAes
  <2> QED
    BY <2>1, <2>2 DEF DialogueTypeOK, DInv
<1> QED
  BY <1>1, DialogueInductive, PTL

(* The client and the session take turns: the session speaks first, each   *)
(* message answers exactly one, and no two of them are ever under way.     *)
THEOREM TakeTurns == DialogueSpec => ImplementsHalfDuplex
<1>1. StartDialogue => Turns!Init
  BY InitDInv
<1>2. IInv /\ IInv' /\ DInv /\ [NextDialogue]_dialogue => [Turns!Next]_Where
  BY EachTakesTurn DEF TakesTurn
<1> QED
  BY <1>1, <1>2, DialogueInductive, PTL DEF DialogueSpec, ImplementsHalfDuplex, Turns!Spec, Where

=============================================================================
