---------------------------- MODULE AccordProofs ----------------------------
(***************************************************************************)
(* Proofs about Dialogue: what the two programs make of each other.        *)
(*                                                                         *)
(* A dialogue is a script: nine messages of the client, each an answer to  *)
(* one of the session. Situation says that the two programs are never more *)
(* than one message apart in it; Sealing that their ciphers are as many    *)
(* messages apart as are under way; and Fate what the end of one tells the *)
(* other. They are proved together, beside DInv and IInv: a message is     *)
(* understood because the ciphers are in step, they are in step because    *)
(* the programs take turns and both seal the connection at the same        *)
(* message, and each outcome is known from where in the script it comes.   *)
(***************************************************************************)
EXTENDS DialogueProofs

(***************************************************************************)
(* The script                                                              *)
(***************************************************************************)
(* What the client may say in its n-th message.                            *)
Says ==
    <<{"protocol", "badProtocol"}, {"clientId", "unknownClient"},
      {"algorithm", "badAlgorithm"}, {"key"}, {"login", "noData", "noModule"},
      {"name", "wrong"}, {"pass", "wrong"}, {"logs", "logsQueued", "badLogs"}, {"end"}>>

(* What a message says to the one who can read it.                         *)
Text(message) == IF message.lock = "aes" THEN message.text.plain ELSE message.kind

(* The session has dealt with n messages of the client.                    *)
At(n, s) ==
    \/ n = 0 /\ ~s.sealed /\ s.part \in {"none", "init"}
    \/ n = 1 /\ ~s.sealed /\ s.part = "crypto" /\ (s.connected => s.state = "WAITING_FOR_CLIENT_ID")
    \/ n = 2 /\ ~s.sealed /\ s.part = "crypto" /\ s.connected /\ s.state = "WAITING_FOR_ALGORITHM"
    \/ n = 3 /\ ~s.sealed /\ s.part = "crypto" /\ s.connected /\ s.state = "WAITING_FOR_KEY"
    \/ n = 4 /\ s.sealed /\ s.part = "auth" /\ (s.connected => s.state = "WAITING_FOR_MODULE_ID")
    \/ n = 5 /\ s.sealed /\ s.part = "auth" /\ s.connected /\ s.state = "AUTH_IN_PROGRESS"
             /\ s.module = "LOGIN_REQUESTED"
    \/ n = 6 /\ s.sealed /\ s.part = "auth" /\ s.connected /\ s.state = "AUTH_IN_PROGRESS"
             /\ s.module = "PASSWORD_REQUESTED"
    \/ n = 7 /\ s.sealed /\ s.part = "logs"
    \/ n = 8 /\ s.sealed /\ s.part = "logs" /\ s.connected /\ s.taken

(* It waits for portionWritten.                                            *)
Stuck(s) == s.sealed /\ s.part = "logs" /\ s.connected /\ s.state = "WRITTING_LOG"

(* The message for the client, which is at step n, is the one it expects,  *)
(* or a refusal.                                                           *)
Hears(s, n, k, f) ==
    \/ n \in 1..9 /\ k = Expects[n] /\ At(n - 1, s)
    \/ n \in 2..9 /\ k = "NACK" /\ At(n - 2, s) /\ s.connected /\ f # {}

(* The message for the session is the next one of the script.              *)
Asks(s, n, k, f) ==
    n \in 2..10 /\ k \in Says[n - 1] /\ At(n - 2, s) /\ (k \in Flawed => f # {})

(* So is the message that it has read, unless it could not decrypt it.     *)
Handles(s, n, k, f, match) ==
    /\ n \in 2..10 /\ At(n - 2, s)
    /\ \/ k \in Says[n - 1] /\ (k \in Flawed => f # {})
       \/ k = Noise /\ n \in 3..5 /\ ~match

(* Nothing is under way: the next part of the session is to speak first,   *)
(* or nobody will.                                                         *)
Rests(s, p, f) ==
    \/ p.step \in {1, 5, 8} /\ At(p.step - 1, s) /\ ~s.connected
    \/ p.step = 9 /\ Stuck(s) /\ f # {}
    \/ p.end = "gaveUp" /\ (At(p.step - 1, s) \/ (At(p.step - 2, s) /\ s.connected))

(* Where the two programs are in the script, while the session is open.    *)
Situation(s, p, up, down, f, match) ==
    s.open =>
        /\ p.step \in 1..10 /\ (p.end = "done" <=> p.step = 10)
        /\ down # <<>> => Hears(s, p.step, Text(Head(down)), f)
        /\ up # <<>> => Asks(s, p.step, Text(Head(up)), f)
        /\ s.rest # <<>> => Handles(s, p.step, Head(s.rest), f, match)
        /\ up = <<>> /\ down = <<>> /\ s.rest = <<>> => Rests(s, p, f)

(***************************************************************************)
(* The ciphers                                                             *)
(***************************************************************************)
(* The cipher of the client when it sends its key.                         *)
Loaded(aes, key) ==
    LET cipher == [key |-> key, last |-> Iv[key]]
    IN  aes.key = key /\ aes.iv = Iv[key] /\ aes.enc = cipher /\ aes.dec = cipher

(* The chain of the writer is that of the reader, or one message ahead.    *)
Coupled(enc, dec, q) ==
    IF q = <<>> THEN enc = dec /\ enc = [key |-> enc.key, last |-> enc.last]
    ELSE LET t == Head(q).text
         IN  /\ Head(q).lock = "aes"
             /\ dec = [key |-> t.key, last |-> t.after]
             /\ enc = [key |-> t.key, last |-> t]

(* Both ends have the key, and their chains are in step.                   *)
InChain(p, y, up, down) ==
    /\ p.aes.key \in Suitable /\ y.key = p.aes.key
    /\ p.aes.iv # NoKey /\ y.iv # NoKey
    /\ Coupled(p.aes.enc, y.dec, up)
    /\ p.end # "gaveUp" => Coupled(y.enc, p.aes.dec, down)
    /\ down # <<>> => Head(down).lock = "aes"

(* Before that: the client has made the key when it has sent it, the       *)
(* session takes it from the message that it has read.                     *)
BeforeSeal(s, p, r, up, down, signer) ==
    /\ p.step <= 5
    /\ p.step = 5 => \E key \in Suitable : Loaded(p.aes, key)
    /\ up # <<>> =>
          IF p.step = 2 THEN Head(up).lock = "none"
          ELSE /\ Head(up).lock = "rsa" /\ Head(up).for = p.rsa.encryptor
               /\ p.step = 5 => Head(up).key = p.aes.key
    /\ s.rest # <<>> /\ Head(s.rest) = "key" => r.key = p.aes.key
    /\ down # <<>> => Head(down).lock = "none" /\ Head(down).signedBy = signer.private

Sealing(s, p, y, r, up, down, signer) ==
    s.open => IF s.sealed THEN InChain(p, y, up, down) ELSE BeforeSeal(s, p, r, up, down, signer)

(***************************************************************************)
(* The ends                                                                *)
(***************************************************************************)
(* The client is about to be told that its logs were taken.                *)
Confirmed(down) ==
    down # <<>> /\ Head(down).lock = "aes" /\ Head(down).text.plain = "CONFIRMED"

Told(p, down) == p.end = "done" \/ (p.end = "no" /\ Confirmed(down))

(* What is known once the session is closed, and the reasons of failures.  *)
Fate(s, p, down, f, match) ==
    /\ p.torn => f # {}
    /\ ~s.open /\ Told(p, down) => s.taken \/ s.part = "deleted"
    /\ \A i \in DOMAIN s.reports :
          IF s.reports[i] THEN p.end = "done" \/ "noRoute" \in f
          ELSE "late" \in f \/ ~Told(p, down)
    /\ match /\ f = {} =>
          /\ p.end # "gaveUp"
          /\ \A i \in DOMAIN s.reports : s.reports[i]
          /\ ~s.open /\ s.part # "idle" => p.end = "done"

(* The key that the client encrypts with.                                  *)
HasKey(p) == p.step >= 3 => p.rsa.encryptor = p.file /\ p.file \in Pairs

(* What is known of one connection.                                        *)
Agree(s, p, y, r, up, down, f, match, signer) ==
    /\ HasKey(p)
    /\ Situation(s, p, up, down, f, match)
    /\ Sealing(s, p, y, r, up, down, signer)
    /\ Fate(s, p, down, f, match)

Accord(c) ==
    Agree(ses[c], prog[c], crypt[c], reading[c], toServer[c], toClient[c], flaws[c],
          KeysMatch(c), provider.signer)

(* A provider signs with the key that it decrypts with.                    *)
OneKey == provider.rsa.private # NoKey => provider.signer.private = provider.rsa.decryptor

AInv ==
    /\ OneKey
    /\ flaws = [c \in Conns |-> flaws[c]] /\ reading = [c \in Conns |-> reading[c]]
    /\ \A c \in Conns : Accord(c)

(***************************************************************************)
(* What a session makes of a message                                       *)
(***************************************************************************)
(* t differs from s in nothing that the client could tell, but for what    *)
(* was written and where the part waits.                                   *)
Alike(s, t) ==
    t.sealed = s.sealed /\ t.rest = s.rest /\ t.taken = s.taken /\ t.reports = s.reports

(* t is s after its destination was closed with this result.               *)
Shut(s, result, t) ==
    /\ ~t.open /\ t.written = s.written /\ t.rest = s.rest /\ t.taken = s.taken
    /\ t.part = "none" /\ t.reports # <<>>
    /\ \A i \in DOMAIN t.reports : t.reports[i] = result

(* t is s after its part has handed over to the next one.                  *)
HandsOver(s, t) ==
    /\ Alike(s, t) /\ t.open = s.open /\ t.written = s.written
    /\ t.part = Head(s.next) /\ ~t.connected

(* t is s after its part has answered, and waits in this state.            *)
Answers1(s, answer, state, t) ==
    /\ Alike(s, t) /\ t.open = s.open /\ t.written = <<answer>>
    /\ t.part = s.part /\ t.connected = s.connected /\ t.module = s.module /\ t.state = state

(* A part that fails, or is the last, shuts the session.                   *)
LEMMA FinishedShuts ==
    ASSUME NEW s \in Sessions, NEW result \in BOOLEAN,
           s.part \in Parts, s.posted = <<>>, s.reports = <<>>,
           ~result \/ s.next = <<>>
    PROVE  Shut(s, result, Finished(s, result))
<1> DEFINE f == [i \in 1..(s.closers + 1) |-> result]
           n == s.closers + 1
           q == <<"deletePart", "deleteSession">>
           e == <<>>
           t == [s EXCEPT !.timer = FALSE, !.connected = FALSE, !.part = "none", !.next = e,
                          !.closers = n, !.open = FALSE, !.reports = f, !.posted = q]
<1>1. s.part # "none" /\ s.closers \in Nat
  BY DEF Parts, Sessions
<1>2. Finished(s, result) = t
  BY <1>1, FinishedEnds
<1>3. f # <<>> /\ \A i \in DOMAIN f : f[i] = result
  <2>1. f = [i \in 1..(s.closers + 1) |-> result]
    OBVIOUS
  <2>2. \A i \in DOMAIN f : f[i] = result
    OBVIOUS
  <2> HIDE DEF f
  <2> QED
    BY <1>1, <2>1, <2>2, SameReports
<1> HIDE DEF f, n, q, e
<1>4. /\ ~t.open /\ t.written = s.written /\ t.rest = s.rest /\ t.taken = s.taken
      /\ t.part = "none" /\ t.reports = f
  BY DEF Sessions
<1> HIDE DEF t
<1> QED
  BY <1>2, <1>3, <1>4 DEF Shut

(* One that succeeds and is not the last hands over.                       *)
LEMMA FinishedHandsOver ==
    ASSUME NEW s \in Sessions, s.part \in Parts, s.posted = <<>>, s.next # <<>>
    PROVE  HandsOver(s, Finished(s, TRUE))
<1> DEFINE h == Head(s.next)
           r == Tail(s.next)
           q == <<"deletePart", "execute">>
           t == [s EXCEPT !.timer = FALSE, !.connected = FALSE, !.state = "NONE",
                          !.part = h, !.next = r, !.posted = q]
<1>1. s.part # "none"
  BY DEF Parts
<1>2. Finished(s, TRUE) = t
  BY <1>1, FinishedGoesOn
<1> HIDE DEF h, r, q
<1>3. /\ t.open = s.open /\ t.written = s.written /\ t.rest = s.rest
      /\ t.taken = s.taken /\ t.sealed = s.sealed /\ t.reports = s.reports
      /\ t.part = h /\ ~t.connected
  BY DEF Sessions
<1> HIDE DEF t
<1> QED
  BY <1>2, <1>3 DEF HandsOver, Alike, h

(* What is written first is all that is written.                           *)
LEMMA WritesFirst ==
    ASSUME NEW s \in Sessions, s.open, s.written = <<>>, NEW answer
    PROVE  Write(s, answer) = [s EXCEPT !.written = <<answer>>]
BY DEF Write, Sessions

(* A part that answers and waits.                                          *)
LEMMA AnswersOne ==
    ASSUME NEW s \in Sessions, s.open, s.written = <<>>, NEW answer, NEW state
    PROVE  Answers1(s, answer, state, Await(Write(s, answer), state))
<1> DEFINE w == <<answer>>
           v == [s EXCEPT !.written = w]
           t == [v EXCEPT !.timer = TRUE, !.state = state]
<1>1. Await(Write(s, answer), state) = t
  BY WritesFirst DEF Await
<1> HIDE DEF w
<1>2. /\ t.open = s.open /\ t.written = w /\ t.rest = s.rest
      /\ t.taken = s.taken /\ t.sealed = s.sealed /\ t.reports = s.reports
      /\ t.part = s.part /\ t.connected = s.connected /\ t.module = s.module
      /\ t.state = state
  BY DEF Sessions
<1> HIDE DEF t
<1> QED
  BY <1>1, <1>2 DEF Answers1, Alike, w

(* What a session makes of the n-th message, k, of a script it has         *)
(* followed so far: it gives the next answer, refuses, starts a part that  *)
(* will answer, waits for ever, or ends.                                   *)
Replies(n, t) ==
    n \in {1, 2, 3, 5, 6, 8} /\ At(n, t) /\ t.written = <<Expects[n + 1]>>

Refuses(n, k, t) ==
    /\ At(n - 1, t) /\ t.connected /\ t.written = <<"NACK">>
    /\ k \in Flawed /\ (k = Noise => n = 1)

Passes(n, t) == n \in {4, 7} /\ At(n, t) /\ ~t.connected /\ t.written = <<>>

Sticks(n, k, t) == n = 8 /\ Stuck(t) /\ t.written = <<>> /\ k \in Flawed \ {Noise}

GoesOn(n, s, t) ==
    t.open /\ t.reports = s.reports /\ t.rest = s.rest /\ (n # 4 => t.sealed = s.sealed)

Gives(n, k, s, t) ==
    \/ /\ GoesOn(n, s, t)
       /\ Replies(n, t) \/ Refuses(n, k, t) \/ (k # Noise /\ Passes(n, t)) \/ Sticks(n, k, t)
    \/ k \in Flawed /\ Shut(s, FALSE, t)
    \/ n = 9 /\ Shut(s, TRUE, t)

(* The parts that are to follow.                                           *)
Ordered(s) ==
    /\ s.part = "init" => s.next = <<>>
    /\ s.part = "crypto" => s.next = <<"auth", "logs">>
    /\ s.part = "auth" => s.next = <<"logs">> /\ s.client
    /\ s.part = "logs" => s.next = <<>>

(* What a part that reads a message starts from.                           *)
Attends(s) ==
    /\ s \in Sessions /\ s.open /\ s.connected /\ s.posted = <<>> /\ s.reports = <<>>
    /\ s.written = <<>> /\ s.part \in Parts /\ Ordered(s)

(* SessionInitializer.                                                     *)
LEMMA InitGives ==
    ASSUME NEW s, Attends(s), At(0, s), NEW k \in Says[1]
    PROVE  Gives(1, k, s, InitReceived(s, k))
<1>1. /\ s \in Sessions /\ s.open /\ s.connected /\ s.posted = <<>> /\ s.reports = <<>>
      /\ s.written = <<>> /\ s.part = "init" /\ ~s.sealed /\ s.next = <<>>
  BY DEF Attends, At, Ordered, Parts
<1>2. CASE k = "protocol"
  <2> DEFINE n == <<"crypto", "auth", "logs">>
             u == [s EXCEPT !.next = n]
             w == <<"ACK">>
             v == [s EXCEPT !.next = n, !.written = w]
             t == Finished(v, TRUE)
  <2>1. s.next \o n = n
    BY <1>1
  <2>2. n \in Seq(Parts) /\ w \in Seq(Answers)
    BY DEF Parts, Answers
  <2>3. n # <<>> /\ Head(n) = "crypto"
    OBVIOUS
  <2>4. [s EXCEPT !.next = @ \o <<"crypto", "auth", "logs">>] = u
    BY <2>1
  <2> HIDE DEF n
  <2>5. u \in Sessions /\ u.open /\ u.written = <<>>
    <3>1. u \in Sessions
      BY <1>1, <2>2, Zenon DEF Sessions
    <3> QED
      BY <1>1, <3>1 DEF Sessions
  <2>6. Write(u, "ACK") = v
    <3> HIDE DEF u
    <3>1. Write(u, "ACK") = [u EXCEPT !.written = w]
      BY <2>5, WritesFirst
    <3> QED
      BY <3>1 DEF u
  <2> HIDE DEF w
  <2>7. v \in Sessions
    BY <1>1, <2>2, Zenon DEF Sessions
  <2>8. /\ v.open /\ v.part = "init" /\ v.posted = <<>> /\ v.reports = <<>>
        /\ v.sealed = s.sealed /\ v.next = n /\ v.written = w /\ v.rest = s.rest
    BY <1>1 DEF Sessions
  <2>9. InitReceived(s, k) = t
    BY <1>2, <2>4, <2>6 DEF InitReceived
  <2> HIDE DEF u, v
  <2>10. HandsOver(v, t)
    <3>1. v.part \in Parts /\ v.next # <<>>
      BY <2>3, <2>8 DEF Parts
    <3> QED
      BY <2>7, <2>8, <3>1, FinishedHandsOver
  <2> HIDE DEF t
  <2>11. /\ t.open /\ t.reports = s.reports /\ t.written = w /\ t.rest = s.rest
         /\ t.part = "crypto" /\ ~t.connected /\ t.sealed = s.sealed
    BY <1>1, <2>3, <2>8, <2>10, Zenon DEF HandsOver, Alike
  <2>11a. ~t.sealed
    BY <1>1, <2>11, Zenon
  <2>12. Replies(1, t)
    BY <2>11, <2>11a DEF Replies, At, Expects, w
  <2>13. GoesOn(1, s, t)
    BY <2>11, Zenon DEF GoesOn
  <2> QED
    BY <2>9, <2>12, <2>13, Zenon DEF Gives
<1>3. CASE k = "badProtocol"
  <2> DEFINE t == Await(Write(s, "NACK"), s.state)
  <2>1. Answers1(s, "NACK", s.state, t)
    BY <1>1, AnswersOne
  <2>2. InitReceived(s, k) = t
    BY <1>3 DEF InitReceived
  <2> HIDE DEF t
  <2>3. GoesOn(1, s, t)
    BY <1>1, <2>1, Zenon DEF Answers1, Alike, GoesOn
  <2>4. ~t.sealed /\ t.part = "init" /\ t.written = <<"NACK">> /\ t.connected
    BY <1>1, <2>1, Zenon DEF Answers1, Alike
  <2>5. Refuses(1, k, t)
    BY <1>3, <2>4 DEF Refuses, At, Flawed
  <2> QED
    BY <2>2, <2>3, <2>5, Zenon DEF Gives
<1> QED
  BY <1>2, <1>3 DEF Says

(* A part that answers goes on; one that fails shuts the session.          *)
LEMMA AttendsGoesOn ==
    ASSUME NEW s, Attends(s)
    PROVE  /\ \A answer, state, n :
                 LET t == Await(Write(s, answer), state)
                 IN  GoesOn(n, s, t) /\ Answers1(s, answer, state, t)
           /\ Shut(s, FALSE, Finished(s, FALSE))
<1>1. ASSUME NEW answer, NEW state, NEW n, NEW t, t = Await(Write(s, answer), state)
      PROVE  GoesOn(n, s, t) /\ Answers1(s, answer, state, t)
  <2>1. Answers1(s, answer, state, t)
    BY <1>1, AnswersOne DEF Attends
  <2>2. GoesOn(n, s, t)
    BY <2>1, Zenon DEF Attends, Answers1, Alike, GoesOn
  <2> QED
    BY <2>1, <2>2
<1>2. Shut(s, FALSE, Finished(s, FALSE))
  BY FinishedShuts DEF Attends
<1> QED
  BY <1>1, <1>2, Zenon

(* CryptographyInitializer takes the key, and starts the next part.        *)
LEMMA KeyGives ==
    ASSUME NEW s, Attends(s), At(3, s)
    PROVE  Gives(4, "key", s, KeyReceived(s, "key"))
<1> DEFINE v == Seal(s)
           t == Finished(v, TRUE)
<1>1. /\ s \in Sessions /\ s.open /\ s.posted = <<>> /\ s.reports = <<>>
      /\ s.written = <<>> /\ s.part = "crypto" /\ s.next = <<"auth", "logs">>
  BY DEF Attends, At, Ordered
<1>2. KeyReceived(s, "key") = t
  BY DEF KeyReceived
<1>3. v \in Sessions
  BY <1>1, Zenon DEF Seal, Sessions
<1>4. /\ v.open = s.open /\ v.part = s.part /\ v.posted = s.posted /\ v.reports = s.reports
      /\ v.next = s.next /\ v.written = s.written /\ v.rest = s.rest /\ v.sealed
  BY <1>1 DEF Seal, Sessions
<1> HIDE DEF v
<1>5. v.next # <<>> /\ Head(v.next) = "auth"
  BY <1>1, <1>4
<1>6. HandsOver(v, t)
  BY <1>1, <1>3, <1>4, <1>5, FinishedHandsOver DEF Parts
<1> HIDE DEF t
<1>7. /\ t.open /\ t.reports = s.reports /\ t.written = <<>> /\ t.rest = s.rest
      /\ t.part = "auth" /\ ~t.connected /\ t.sealed
  BY <1>1, <1>4, <1>5, <1>6, Zenon DEF HandsOver, Alike
<1>8. Passes(4, t)
  BY <1>7 DEF Passes, At
<1>9. GoesOn(4, s, t)
  BY <1>7 DEF GoesOn
<1>10. "key" # Noise
  BY DEF Noise
<1> QED
  BY <1>2, <1>8, <1>9, <1>10, Zenon DEF Gives

(* CryptographyInitializer follows the script.                             *)
LEMMA CryptoGives ==
    ASSUME NEW s, Attends(s), NEW n \in 2..4, At(n - 1, s),
           NEW k \in Says[n] \cup {Noise}
    PROVE  Gives(n, k, s, CryptoReceived(s, k))
<1>1. s.part = "crypto" /\ s.connected /\ ~s.sealed
  BY DEF At, Attends
<1>2. ASSUME k \in Flawed, CryptoReceived(s, k) = Finished(s, FALSE)
      PROVE  Gives(n, k, s, CryptoReceived(s, k))
  BY <1>2, AttendsGoesOn, Zenon DEF Gives
<1>3. CASE n = 2
  <2>1. s.state = "WAITING_FOR_CLIENT_ID"
    BY <1>1, <1>3 DEF At
  <2>2. CASE k = "clientId"
    <3> DEFINE t == Await(Write(s, "CHOOSE_ALGORITHM"), "WAITING_FOR_ALGORITHM")
    <3>1. GoesOn(2, s, t) /\ Answers1(s, "CHOOSE_ALGORITHM", "WAITING_FOR_ALGORITHM", t)
      BY AttendsGoesOn
    <3>2. CryptoReceived(s, k) = t
      BY <2>1, <2>2 DEF CryptoReceived
    <3> HIDE DEF t
    <3>3. /\ t.written = <<"CHOOSE_ALGORITHM">> /\ t.part = "crypto" /\ t.connected
          /\ t.state = "WAITING_FOR_ALGORITHM" /\ ~t.sealed
      BY <1>1, <3>1, Zenon DEF Answers1, Alike
    <3>4. Replies(2, t)
      BY <3>3 DEF Replies, At, Expects
    <3> QED
      BY <1>3, <3>1, <3>2, <3>4, Zenon DEF Gives
  <2>3. CASE k # "clientId"
    <3>1. k \in Flawed
      BY <1>3, <2>3 DEF Says, Flawed, Noise
    <3>2. CryptoReceived(s, k) = Finished(s, FALSE)
      BY <2>1, <2>3 DEF CryptoReceived
    <3> QED
      BY <1>2, <3>1, <3>2
  <2> QED
    BY <2>2, <2>3
<1>4. CASE n = 3
  <2>1. s.state = "WAITING_FOR_ALGORITHM"
    BY <1>1, <1>4 DEF At
  <2>2. CASE k = "algorithm"
    <3> DEFINE t == Await(Write(s, "ACK"), "WAITING_FOR_KEY")
    <3>1. GoesOn(3, s, t) /\ Answers1(s, "ACK", "WAITING_FOR_KEY", t)
      BY AttendsGoesOn
    <3>2. CryptoReceived(s, k) = t
      BY <2>1, <2>2 DEF CryptoReceived
    <3> HIDE DEF t
    <3>3. /\ t.written = <<"ACK">> /\ t.part = "crypto" /\ t.connected
          /\ t.state = "WAITING_FOR_KEY" /\ ~t.sealed
      BY <1>1, <3>1, Zenon DEF Answers1, Alike
    <3>4. Replies(3, t)
      BY <3>3 DEF Replies, At, Expects
    <3> QED
      BY <1>4, <3>1, <3>2, <3>4, Zenon DEF Gives
  <2>3. CASE k = "badAlgorithm"
    <3> DEFINE t == Await(Write(s, "NACK"), s.state)
    <3>1. GoesOn(3, s, t) /\ Answers1(s, "NACK", s.state, t)
      BY AttendsGoesOn
    <3>2. CryptoReceived(s, k) = t
      BY <2>1, <2>3 DEF CryptoReceived
    <3> HIDE DEF t
    <3>3. /\ t.written = <<"NACK">> /\ t.part = "crypto" /\ t.connected
          /\ t.state = "WAITING_FOR_ALGORITHM" /\ ~t.sealed
      BY <1>1, <2>1, <3>1, Zenon DEF Answers1, Alike
    <3>4. Refuses(3, k, t)
      BY <2>3, <3>3 DEF Refuses, At, Flawed, Noise
    <3> QED
      BY <1>4, <3>1, <3>2, <3>4, Zenon DEF Gives
  <2>4. CASE k \notin {"algorithm", "badAlgorithm"}
    <3>1. k \in Flawed
      BY <1>4, <2>4 DEF Says, Flawed, Noise
    <3>2. CryptoReceived(s, k) = Finished(s, FALSE)
      BY <2>1, <2>4 DEF CryptoReceived
    <3> QED
      BY <1>2, <3>1, <3>2
  <2> QED
    BY <2>2, <2>3, <2>4
<1>5. CASE n = 4
  <2>1. s.state = "WAITING_FOR_KEY" /\ At(3, s)
    BY <1>1, <1>5 DEF At
  <2>2. CryptoReceived(s, k) = KeyReceived(s, k)
    BY <2>1 DEF CryptoReceived
  <2>3. CASE k = "key"
    BY <1>5, <2>1, <2>2, <2>3, KeyGives, Zenon
  <2>4. CASE k # "key"
    <3>1. k = Noise /\ k \in Flawed
      BY <1>5, <2>4 DEF Says, Flawed, Noise
    <3>2. KeyReceived(s, k) = Finished(s, FALSE)
      BY <3>1 DEF KeyReceived, Noise, ByKey
    <3> QED
      BY <1>2, <2>2, <3>1, <3>2
  <2> QED
    BY <2>3, <2>4
<1> QED
  BY <1>3, <1>4, <1>5

(* The answer of a module starts the last part, or shuts the session.      *)
LEMMA AuthorizationGives ==
    ASSUME NEW s, Attends(s), s.part = "auth", s.sealed, NEW result \in BOOLEAN
    PROVE  LET t == AuthorizationFinished(s, result)
           IN  IF result THEN GoesOn(7, s, t) /\ Passes(7, t) ELSE Shut(s, FALSE, t)
<1> DEFINE v == [s EXCEPT !.authorized = result, !.module = "none"]
           t == Finished(v, result)
<1>1. /\ s \in Sessions /\ s.open /\ s.posted = <<>> /\ s.reports = <<>>
      /\ s.written = <<>> /\ s.part = "auth" /\ s.next = <<"logs">>
  BY DEF Attends, Ordered
<1>2. AuthorizationFinished(s, result) = t
  BY DEF AuthorizationFinished
<1>3. v \in Sessions
  BY <1>1, Zenon DEF Sessions
<1>4. /\ v.open = s.open /\ v.part = s.part /\ v.posted = s.posted /\ v.reports = s.reports
      /\ v.next = s.next /\ v.written = s.written /\ v.rest = s.rest /\ v.sealed = s.sealed
      /\ v.taken = s.taken
  BY <1>1 DEF Sessions
<1> HIDE DEF v
<1>5. v.next # <<>> /\ Head(v.next) = "logs" /\ v.part \in Parts
  BY <1>1, <1>4 DEF Parts
<1>6. CASE result
  <2>1. HandsOver(v, t)
    BY <1>1, <1>3, <1>4, <1>5, <1>6, FinishedHandsOver
  <2> HIDE DEF t
  <2>2. /\ t.open /\ t.reports = s.reports /\ t.written = <<>> /\ t.rest = s.rest
        /\ t.part = "logs" /\ ~t.connected /\ t.sealed /\ t.sealed = s.sealed
    BY <1>1, <1>4, <1>5, <2>1, Zenon DEF HandsOver, Alike
  <2>3. Passes(7, t)
    BY <2>2 DEF Passes, At
  <2>4. GoesOn(7, s, t)
    BY <2>2, Zenon DEF GoesOn
  <2> QED
    BY <1>2, <1>6, <2>3, <2>4
<1>7. CASE ~result
  <2>1. Shut(v, FALSE, t)
    BY <1>1, <1>3, <1>4, <1>5, <1>7, FinishedShuts
  <2> HIDE DEF t
  <2>2. Shut(s, FALSE, t)
    BY <1>4, <2>1, Zenon DEF Shut
  <2> QED
    BY <1>2, <1>7, <2>2
<1> QED
  BY <1>6, <1>7

(* ClientAuthorizer and LoginPass follow the script.                       *)
LEMMA AuthGives ==
    ASSUME NEW s, Attends(s), NEW n \in 5..7, At(n - 1, s), NEW k \in Says[n]
    PROVE  Gives(n, k, s, AuthReceived(s, k))
<1>1. s.part = "auth" /\ s.connected /\ s.sealed /\ s.client /\ s \in Sessions
  BY DEF At, Attends, Ordered
<1> DEFINE w == s.shown \cup ({k} \cap {"allow", "login", "name", "pass"})
           v == [s EXCEPT !.shown = w]
<1>2. k \in Kinds
  BY DEF Says, Kinds, Secret, Modules, AuthData
<1>3. w \in SUBSET Kinds
  BY <1>1, <1>2 DEF Sessions
<1>4. v \in Sessions
  <2> HIDE DEF w
  <2> QED
    BY <1>1, <1>3, Zenon DEF Sessions
<1>5. AuthReceived(s, k) =
          CASE s.state = "WAITING_FOR_MODULE_ID" -> ModuleIdReceived(v, k)
            [] s.state = "AUTH_IN_PROGRESS" /\ k \in AuthData -> NewDataArrived(v, k)
            [] OTHER -> Finished(v, FALSE)
  BY DEF AuthReceived
<1> HIDE DEF w
<1>6. /\ v.open = s.open /\ v.part = s.part /\ v.posted = s.posted /\ v.reports = s.reports
      /\ v.next = s.next /\ v.written = s.written /\ v.rest = s.rest /\ v.sealed = s.sealed
      /\ v.taken = s.taken /\ v.connected = s.connected /\ v.client = s.client
      /\ v.state = s.state /\ v.module = s.module
  BY <1>1 DEF Sessions
<1> HIDE DEF v
<1>7. Attends(v) /\ v.part = "auth" /\ v.sealed /\ v.client
  BY <1>1, <1>4, <1>6, Zenon DEF Attends, Ordered
<1>8. /\ \A m, t : GoesOn(m, v, t) => GoesOn(m, s, t)
      /\ \A result, t : Shut(v, result, t) => Shut(s, result, t)
  BY <1>6, Zenon DEF GoesOn, Shut
<1>9. ASSUME k \in Flawed, AuthReceived(s, k) = AuthorizationFinished(v, FALSE)
      PROVE  Gives(n, k, s, AuthReceived(s, k))
  <2>1. Shut(v, FALSE, AuthorizationFinished(v, FALSE))
    BY <1>7, AuthorizationGives
  <2> QED
    BY <1>8, <1>9, <2>1, Zenon DEF Gives
<1>10. CASE n = 5
  <2>1. s.state = "WAITING_FOR_MODULE_ID"
    BY <1>1, <1>10 DEF At
  <2>2. k \in {"login", "noData", "noModule"} /\ k \in Modules
    BY <1>10 DEF Says, Modules
  <2>3. AuthReceived(s, k) = ModuleIdReceived(v, k)
    BY <1>5, <2>1
  <2>4. CASE k = "login"
    <3> DEFINE m == "LOGIN_REQUESTED"
               x == [v EXCEPT !.module = m]
               t == Await(Write(x, "LOGIN"), "AUTH_IN_PROGRESS")
    <3>1. ModuleIdReceived(v, k) = t
      BY <1>7, <2>2, <2>4 DEF ModuleIdReceived
    <3>2. x \in Sessions
      BY <1>4, Zenon DEF Sessions
    <3>3. /\ x.open = v.open /\ x.part = v.part /\ x.posted = v.posted
          /\ x.reports = v.reports /\ x.next = v.next /\ x.written = v.written
          /\ x.rest = v.rest /\ x.sealed = v.sealed /\ x.taken = v.taken
          /\ x.connected = v.connected /\ x.client = v.client /\ x.module = m
      BY <1>4 DEF Sessions
    <3> HIDE DEF x
    <3>4. Attends(x)
      BY <1>7, <3>2, <3>3, Zenon DEF Attends, Ordered
    <3>5. GoesOn(5, x, t) /\ Answers1(x, "LOGIN", "AUTH_IN_PROGRESS", t)
      BY <3>4, AttendsGoesOn
    <3> HIDE DEF t
    <3>6. GoesOn(5, s, t)
      BY <1>6, <3>3, <3>5, Zenon DEF GoesOn
    <3>7. /\ t.written = <<"LOGIN">> /\ t.part = "auth" /\ t.connected /\ t.sealed
          /\ t.state = "AUTH_IN_PROGRESS" /\ t.module = m
      BY <1>1, <1>6, <3>3, <3>5, Zenon DEF Answers1, Alike
    <3>8. Replies(5, t)
      BY <3>7 DEF Replies, At, Expects
    <3> QED
      BY <1>10, <2>3, <3>1, <3>6, <3>8, Zenon DEF Gives
  <2>5. CASE k = "noModule"
    <3> DEFINE t == Await(Write(v, "NACK"), v.state)
    <3>1. ModuleIdReceived(v, k) = t
      BY <1>7, <2>2, <2>5 DEF ModuleIdReceived
    <3>2. GoesOn(5, v, t) /\ Answers1(v, "NACK", v.state, t)
      BY <1>7, AttendsGoesOn
    <3> HIDE DEF t
    <3>3. /\ t.written = <<"NACK">> /\ t.part = "auth" /\ t.connected /\ t.sealed
          /\ t.state = "WAITING_FOR_MODULE_ID"
      BY <1>1, <1>6, <2>1, <3>2, Zenon DEF Answers1, Alike
    <3>4. Refuses(5, k, t)
      BY <2>5, <3>3 DEF Refuses, At, Flawed, Noise
    <3> QED
      BY <1>8, <1>10, <2>3, <3>1, <3>2, <3>4, Zenon DEF Gives
  <2>6. CASE k = "noData"
    <3>1. ModuleIdReceived(v, k) = AuthorizationFinished(v, FALSE)
      BY <1>7, <2>2, <2>6 DEF ModuleIdReceived
    <3>2. k \in Flawed
      BY <2>6 DEF Flawed
    <3> QED
      BY <1>9, <2>3, <3>1, <3>2
  <2> QED
    BY <2>2, <2>4, <2>5, <2>6
<1>11. CASE n = 6
  <2>1. v.state = "AUTH_IN_PROGRESS" /\ v.module = "LOGIN_REQUESTED"
    BY <1>1, <1>6, <1>11 DEF At
  <2>2. k \in {"name", "wrong"} /\ k \in AuthData
    BY <1>11 DEF Says, AuthData
  <2>3. AuthReceived(s, k) = NewDataArrived(v, k)
    BY <1>5, <1>6, <2>1, <2>2
  <2>4. CASE k = "name"
    <3> DEFINE m == "PASSWORD_REQUESTED"
               x == [v EXCEPT !.module = m]
               t == Await(Write(x, "PASSWORD"), v.state)
    <3>1. NewDataArrived(v, k) = t
      BY <2>1, <2>4 DEF NewDataArrived
    <3>2. x \in Sessions
      BY <1>4, Zenon DEF Sessions
    <3>3. /\ x.open = v.open /\ x.part = v.part /\ x.posted = v.posted
          /\ x.reports = v.reports /\ x.next = v.next /\ x.written = v.written
          /\ x.rest = v.rest /\ x.sealed = v.sealed /\ x.taken = v.taken
          /\ x.connected = v.connected /\ x.client = v.client /\ x.module = m
      BY <1>4 DEF Sessions
    <3> HIDE DEF x
    <3>4. Attends(x)
      BY <1>7, <3>2, <3>3, Zenon DEF Attends, Ordered
    <3>5. GoesOn(6, x, t) /\ Answers1(x, "PASSWORD", v.state, t)
      BY <3>4, AttendsGoesOn
    <3> HIDE DEF t
    <3>6. GoesOn(6, s, t)
      BY <1>6, <3>3, <3>5, Zenon DEF GoesOn
    <3>7. /\ t.written = <<"PASSWORD">> /\ t.part = "auth" /\ t.connected /\ t.sealed
          /\ t.state = "AUTH_IN_PROGRESS" /\ t.module = m
      BY <1>1, <1>6, <2>1, <3>3, <3>5, Zenon DEF Answers1, Alike
    <3>8. Replies(6, t)
      BY <3>7 DEF Replies, At, Expects
    <3> QED
      BY <1>11, <2>3, <3>1, <3>6, <3>8, Zenon DEF Gives
  <2>5. CASE k = "wrong"
    <3>1. NewDataArrived(v, k) = AuthorizationFinished(v, FALSE)
      BY <2>1, <2>5 DEF NewDataArrived
    <3>2. k \in Flawed
      BY <2>5 DEF Flawed
    <3> QED
      BY <1>9, <2>3, <3>1, <3>2
  <2> QED
    BY <2>2, <2>4, <2>5
<1>12. CASE n = 7
  <2>1. v.state = "AUTH_IN_PROGRESS" /\ v.module = "PASSWORD_REQUESTED"
    BY <1>1, <1>6, <1>12 DEF At
  <2>2. k \in {"pass", "wrong"} /\ k \in AuthData
    BY <1>12 DEF Says, AuthData
  <2>3. AuthReceived(s, k) = NewDataArrived(v, k)
    BY <1>5, <1>6, <2>1, <2>2
  <2>4. CASE k = "pass"
    <3>1. NewDataArrived(v, k) = AuthorizationFinished(v, TRUE)
      BY <2>1, <2>4 DEF NewDataArrived
    <3>2. GoesOn(7, v, AuthorizationFinished(v, TRUE)) /\ Passes(7, AuthorizationFinished(v, TRUE))
      BY <1>7, AuthorizationGives
    <3>3. k # Noise
      BY <2>4 DEF Noise
    <3> QED
      BY <1>8, <1>12, <2>3, <3>1, <3>2, <3>3, Zenon DEF Gives
  <2>5. CASE k = "wrong"
    <3>1. NewDataArrived(v, k) = AuthorizationFinished(v, FALSE)
      BY <2>1, <2>5 DEF NewDataArrived
    <3>2. k \in Flawed
      BY <2>5 DEF Flawed
    <3> QED
      BY <1>9, <2>3, <3>1, <3>2
  <2> QED
    BY <2>2, <2>4, <2>5
<1> QED
  BY <1>10, <1>11, <1>12

(* LogsTransmitter follows the script.                                     *)
LEMMA LogsGives ==
    ASSUME NEW s, Attends(s), NEW n \in 8..9, At(n - 1, s), NEW k \in Says[n]
    PROVE  Gives(n, k, s, LogsReceived(s, k))
<1>1. /\ s \in Sessions /\ s.open /\ s.connected /\ s.posted = <<>> /\ s.reports = <<>>
      /\ s.written = <<>> /\ s.part = "logs" /\ s.sealed /\ s.next = <<>>
  BY DEF At, Attends, Ordered
<1>2. CASE k = "logs"
  <2> DEFINE w == <<"CONFIRMED">>
             v == [s EXCEPT !.timer = TRUE, !.taken = TRUE]
             t == [v EXCEPT !.written = w]
  <2>1. v \in Sessions
    BY <1>1, Zenon DEF Sessions
  <2>2. v.open /\ v.written = <<>>
    BY <1>1 DEF Sessions
  <2>3. LogsReceived(s, k) = t
    <3> HIDE DEF v
    <3>1. Write(v, "CONFIRMED") = t
      BY <2>1, <2>2, WritesFirst
    <3>2. LogsReceived(s, k) = Write(v, "CONFIRMED")
      BY <1>2 DEF LogsReceived, v
    <3> QED
      BY <3>1, <3>2
  <2> HIDE DEF w
  <2>4. /\ t.open = s.open /\ t.part = s.part /\ t.reports = s.reports /\ t.rest = s.rest
        /\ t.sealed = s.sealed /\ t.connected = s.connected /\ t.taken /\ t.written = w
    BY <1>1 DEF Sessions
  <2> HIDE DEF t
  <2>5. GoesOn(n, s, t)
    BY <1>1, <2>4, Zenon DEF GoesOn
  <2>6. t.part = "logs" /\ t.sealed /\ t.connected
    BY <1>1, <2>4, Zenon
  <2>7. n = 8
    BY <1>2 DEF Says
  <2>8. Replies(8, t)
    BY <2>4, <2>6 DEF Replies, At, Expects, w
  <2> QED
    BY <2>3, <2>5, <2>7, <2>8, Zenon DEF Gives
<1>3. CASE k = "logsQueued"
  <2> DEFINE t == [s EXCEPT !.state = "WRITTING_LOG", !.taken = TRUE]
  <2>1. LogsReceived(s, k) = t
    BY <1>3 DEF LogsReceived
  <2>2. /\ t.open = s.open /\ t.part = s.part /\ t.reports = s.reports /\ t.rest = s.rest
        /\ t.sealed = s.sealed /\ t.connected = s.connected /\ t.written = s.written
        /\ t.state = "WRITTING_LOG"
    BY <1>1 DEF Sessions
  <2> HIDE DEF t
  <2>3. GoesOn(n, s, t) /\ Stuck(t) /\ t.written = <<>>
    BY <1>1, <2>2, Zenon DEF GoesOn, Stuck
  <2>4. n = 8
    BY <1>3 DEF Says
  <2>5. Sticks(n, k, t)
    BY <1>3, <2>3, <2>4 DEF Sticks, Flawed, Noise
  <2> QED
    BY <2>1, <2>3, <2>5, Zenon DEF Gives
<1>4. CASE k = "badLogs"
  <2>1. LogsReceived(s, k) = Finished(s, FALSE)
    BY <1>4 DEF LogsReceived
  <2>2. k \in Flawed
    BY <1>4 DEF Flawed
  <2> QED
    BY <2>1, <2>2, AttendsGoesOn, Zenon DEF Gives
<1>5. CASE k = "end"
  <2>1. LogsReceived(s, k) = Finished(s, TRUE)
    BY <1>5 DEF LogsReceived
  <2>2. Shut(s, TRUE, Finished(s, TRUE))
    BY <1>1, FinishedShuts DEF Parts
  <2>3. n = 9
    BY <1>5 DEF Says
  <2> QED
    BY <2>1, <2>2, <2>3, Zenon DEF Gives
<1> QED
  BY <1>2, <1>3, <1>4, <1>5 DEF Says

(* Whatever a session reads next in the script, it follows.                *)
LEMMA ReadGives ==
    ASSUME NEW s, Attends(s), NEW n \in 1..9, At(n - 1, s),
           NEW k, k \in Says[n] \/ (k = Noise /\ n \in 2..4)
    PROVE  \E v : /\ Gives(n, k, v, ReadNextMessage(s, k))
                  /\ v.sealed = s.sealed /\ v.rest = s.rest /\ v.taken = s.taken
                  /\ v.reports = s.reports /\ v.written = s.written
<1> DEFINE v == [s EXCEPT !.timer = FALSE]
<1>1. s \in Sessions
  BY DEF Attends
<1>2. v \in Sessions
  BY <1>1, Zenon DEF Sessions
<1>3. ReadNextMessage(s, k) =
          CASE s.part = "init" -> InitReceived(v, k)
            [] s.part = "crypto" -> CryptoReceived(v, k)
            [] s.part = "auth" -> AuthReceived(v, k)
            [] s.part = "logs" -> LogsReceived(v, k)
  BY <1>1 DEF ReadNextMessage, Sessions
<1>4. /\ v.open = s.open /\ v.part = s.part /\ v.posted = s.posted /\ v.reports = s.reports
      /\ v.next = s.next /\ v.written = s.written /\ v.rest = s.rest /\ v.sealed = s.sealed
      /\ v.taken = s.taken /\ v.connected = s.connected /\ v.client = s.client
      /\ v.state = s.state /\ v.module = s.module
  BY <1>1 DEF Sessions
<1> HIDE DEF v
<1>5. Attends(v)
  BY <1>2, <1>4, Zenon DEF Attends, Ordered
<1>6. At(n - 1, v)
  BY <1>4, Zenon DEF At
<1>7. CASE n = 1
  <2>1. s.part = "init" /\ At(0, v) /\ k \in Says[1]
    BY <1>6, <1>7 DEF At, Attends, Parts
  <2>2. ReadNextMessage(s, k) = InitReceived(v, k)
    BY <1>3, <2>1
  <2> QED
    BY <1>4, <1>5, <1>7, <2>1, <2>2, InitGives, Zenon
<1>8. CASE n \in 2..4
  <2>1. s.part = "crypto" /\ k \in Says[n] \cup {Noise}
    BY <1>8 DEF At
  <2>2. ReadNextMessage(s, k) = CryptoReceived(v, k)
    BY <1>3, <2>1
  <2> QED
    BY <1>4, <1>5, <1>6, <1>8, <2>1, <2>2, CryptoGives, Zenon
<1>9. CASE n \in 5..7
  <2>1. s.part = "auth" /\ k \in Says[n]
    BY <1>9 DEF At
  <2>2. ReadNextMessage(s, k) = AuthReceived(v, k)
    BY <1>3, <2>1
  <2> QED
    BY <1>4, <1>5, <1>6, <1>9, <2>1, <2>2, AuthGives, Zenon
<1>10. CASE n \in 8..9
  <2>1. s.part = "logs" /\ k \in Says[n]
    BY <1>10 DEF At
  <2>2. ReadNextMessage(s, k) = LogsReceived(v, k)
    BY <1>3, <2>1
  <2> QED
    BY <1>4, <1>5, <1>6, <1>10, <2>1, <2>2, LogsGives, Zenon
<1> QED
  BY <1>7, <1>8, <1>9, <1>10


(* A part that listens reads a message at once, through whatever sinks.    *)
LEMMA ArrivedReads ==
    ASSUME NEW v \in Sessions, v.open, v.connected, v.former = <<>>, v.hasher = <<>>,
           NEW k, v.sealed => k \in Secret
    PROVE  Arrived(v, k) = ReadNextMessage(v, k)
<1> DEFINE e == <<>>
           q == Append(e, k)
<1>1. Head(q) = k /\ Tail(q) = e
  OBVIOUS
<1> HIDE DEF q, e
<1>2. v.former = e /\ v.hasher = e
  BY DEF e
<1>3. [v EXCEPT !.former = e] = v /\ [v EXCEPT !.hasher = e] = v
  BY <1>2 DEF Sessions
<1>4. InFormer(v, k) = ReadNextMessage(v, k)
  BY <1>1, <1>2, <1>3 DEF InFormer, q
<1>5. InHasher(v, k) = ReadNextMessage(v, k)
  BY <1>1, <1>2, <1>3 DEF InHasher, q
<1>6. CASE v.sealed
  <2>1. Arrived(v, k) = ThroughCipher(v, k)
    BY <1>6 DEF Arrived
  <2>2. ThroughCipher(v, k) = InHasher(v, k)
    BY <1>1, <1>2, <1>3, <1>6 DEF ThroughCipher, q
  <2> QED
    BY <1>5, <2>1, <2>2
<1>7. CASE ~v.sealed
  <2>1. Arrived(v, k) = InFormer(v, k)
    BY <1>7 DEF Arrived
  <2> QED
    BY <1>4, <2>1
<1> QED
  BY <1>6, <1>7

(***************************************************************************)
(* Where the script is                                                     *)
(***************************************************************************)
(* What is known of a session from how far it is.                          *)
LEMMA AtFacts ==
    ASSUME NEW n, NEW s, At(n, s)
    PROVE  /\ n \in 0..8 /\ (n < 4 => ~s.sealed) /\ (n >= 4 => s.sealed)
           /\ ~s.connected => n \in {0, 1, 4, 7}
           /\ s.part = "init" => n = 0
           /\ s.part = "none" => n = 0
           /\ s.part = "crypto" /\ ~s.connected => n = 1
           /\ s.part = "auth" /\ ~s.connected => n = 4
           /\ s.part = "logs" /\ ~s.connected => n = 7
BY DEF At

(* A session is only in the last place when its logs were taken.           *)
LEMMA LastTaken ==
    ASSUME NEW s, At(8, s)
    PROVE  s.taken
BY DEF At

(* The n-th message is read with a key, or not.                            *)
LEMMA SaysFacts ==
    ASSUME NEW n \in 1..9, NEW k \in Says[n]
    PROVE  /\ n >= 5 => k \in Secret
           /\ k = "key" => n = 4
           /\ n \in {4, 9} => k \notin Flawed
           /\ k = Noise => n = 1
BY DEF Says, Secret, Modules, AuthData, Logs, Flawed, Noise

(* No message of the script is a refusal, and only one confirms.           *)
LEMMA ExpectsFacts ==
    ASSUME NEW n \in 1..9
    PROVE  Expects[n] # "NACK" /\ (Expects[n] = "CONFIRMED" => n = 9)
BY DEF Expects

(***************************************************************************)
(* The chains of the ciphers                                               *)
(***************************************************************************)
(* Both directions of a cipher start with its key and its iv.              *)
LEMMA LoadsBoth ==
    ASSUME NEW aes, IsAes(aes), NEW key
    PROVE  Loaded(Load([aes EXCEPT !.key = key, !.iv = Iv[key]]), key)
<1> DEFINE iv == Iv[key]
           cipher == [key |-> key, last |-> iv]
           b == [aes EXCEPT !.key = key, !.iv = iv]
           x == [b EXCEPT !.enc = cipher, !.dec = cipher]
<1>1. b.key = key /\ b.iv = iv
  BY DEF IsAes
<1>2. Load(b) = x
  BY <1>1, Zenon DEF Load
<1> HIDE DEF iv, cipher
<1>3. x.key = key /\ x.iv = iv /\ x.enc = cipher /\ x.dec = cipher
  BY DEF IsAes
<1> HIDE DEF x
<1>4. Loaded(x, key)
  BY <1>3, Zenon DEF Loaded, cipher, iv
<1> QED
  BY <1>2, <1>4, Zenon DEF iv

(* A session that has the key has what the client has.                     *)
LEMMA SameKeyLoads ==
    ASSUME NEW key \in Suitable, DialogueAssumption
    PROVE  Loaded(SetIv(SetKey(NewAes, key).object, Iv[key]).object, key)
<1> DEFINE iv == Iv[key]
           a == [NewAes EXCEPT !.key = key]
           b == [NewAes EXCEPT !.key = key, !.iv = iv]
<1>1. key # NoKey /\ iv # NoKey
  BY KeysAssumption DEF DialogueAssumption
<1>2. SetKey(NewAes, key).object = a
  BY DEF SetKey, NewAes, Returns
<1> HIDE DEF iv
<1>3. SetIv(a, iv).object = Load(b)
  BY <1>1 DEF SetIv, NewAes, Returns
<1>4. Loaded(Load(b), key)
  BY NewAesTyped, LoadsBoth DEF iv
<1> HIDE DEF a, b
<1> QED
  BY <1>2, <1>3, <1>4, Zenon DEF iv

(* The client makes a key.                                                 *)
LEMMA NewKeyLoads ==
    ASSUME NEW aes, IsAes(aes), NEW key
    PROVE  Loaded(GenerateKey(aes, key, Iv[key]), key)
BY LoadsBoth, Zenon DEF GenerateKey

(* Ciphers that have just got the same key are in step.                    *)
LEMMA LoadedCoupled ==
    ASSUME NEW a, NEW b, NEW key \in Suitable, DialogueAssumption,
           Loaded(a, key), Loaded(b, key)
    PROVE  /\ a.key = key /\ a.iv # NoKey /\ b.key = key /\ b.iv # NoKey
           /\ Coupled(a.enc, b.dec, <<>>) /\ Coupled(b.enc, a.dec, <<>>)
BY DEF Loaded, Coupled, DialogueAssumption

(* The writer is one message ahead when it has written.                    *)
LEMMA WriterAhead ==
    ASSUME NEW aes, IsAes(aes), NEW dec, Coupled(aes.enc, dec, <<>>), NEW kind
    PROVE  /\ AfterEncrypt(aes, kind).key = aes.key /\ AfterEncrypt(aes, kind).iv = aes.iv
           /\ AfterEncrypt(aes, kind).dec = aes.dec
           /\ Coupled(AfterEncrypt(aes, kind).enc, dec, <<Chained(aes, kind)>>)
<1> DEFINE t == AesEncrypt(aes, kind)
           m == Chained(aes, kind)
           x == AfterEncrypt(aes, kind)
<1>1. t.key = aes.enc.key /\ t.after = aes.enc.last
  BY DEF AesEncrypt, Message
<1>2. m.lock = "aes" /\ m.text = t
  BY DEF Chained
<1>3. aes.enc = dec /\ aes.enc = [key |-> aes.enc.key, last |-> aes.enc.last]
  BY DEF Coupled
<1>4. x = [aes EXCEPT !.enc.last = t]
  BY DEF AfterEncrypt
<1> HIDE DEF t, m, x
<1>5. x.key = aes.key /\ x.iv = aes.iv /\ x.dec = aes.dec
  BY <1>4 DEF IsAes
<1>6. x.enc = [aes.enc EXCEPT !.last = t]
  BY <1>4 DEF IsAes
<1>7. x.enc = [key |-> aes.enc.key, last |-> t]
  <2> DEFINE f == aes.enc.key
             g == aes.enc.last
  <2>1. aes.enc = [key |-> f, last |-> g]
    BY <1>3
  <2> HIDE DEF f, g
  <2>2. [aes.enc EXCEPT !.last = t] = [key |-> f, last |-> t]
    BY <2>1
  <2> QED
    BY <1>6, <2>2 DEF f
<1>8. Head(<<m>>) = m /\ <<m>> # <<>>
  OBVIOUS
<1>9. dec = [key |-> t.key, last |-> t.after] /\ x.enc = [key |-> t.key, last |-> t]
  BY <1>1, <1>3, <1>7
<1>10. Coupled(x.enc, dec, <<m>>)
  BY <1>2, <1>8, <1>9, Zenon DEF Coupled
<1> QED
  BY <1>5, <1>10 DEF m, x

(* The reader can read what is under way, and has caught up then.          *)
LEMMA ReaderCatchesUp ==
    ASSUME NEW aes, IsAes(aes), aes.key \in Suitable, aes.iv # NoKey,
           NEW enc, NEW q, q # <<>>, Coupled(enc, aes.dec, q)
    PROVE  /\ AesReads(aes, Head(q).text)
           /\ AfterDecrypt(aes, Head(q).text).key = aes.key
           /\ AfterDecrypt(aes, Head(q).text).iv = aes.iv
           /\ AfterDecrypt(aes, Head(q).text).enc = aes.enc
           /\ Coupled(enc, AfterDecrypt(aes, Head(q).text).dec, <<>>)
<1> DEFINE t == Head(q).text
           x == AfterDecrypt(aes, t)
<1>1. Keyed(aes)
  BY KeysAssumption DEF Keyed
<1>2. aes.dec = [key |-> t.key, last |-> t.after] /\ enc = [key |-> t.key, last |-> t]
  BY Zenon DEF Coupled
<1>3. x = [aes EXCEPT !.dec.last = t]
  BY <1>1 DEF AfterDecrypt
<1> HIDE DEF t, x
<1>4. x.key = aes.key /\ x.iv = aes.iv /\ x.enc = aes.enc
  BY <1>3 DEF IsAes
<1>5. x.dec = [aes.dec EXCEPT !.last = t]
  BY <1>3 DEF IsAes
<1>6. x.dec = [key |-> t.key, last |-> t]
  <2> DEFINE f == t.key
             g == t.after
  <2>1. aes.dec = [key |-> f, last |-> g]
    BY <1>2
  <2> HIDE DEF f, g
  <2>2. [aes.dec EXCEPT !.last = t] = [key |-> f, last |-> t]
    BY <2>1
  <2> QED
    BY <1>5, <2>2 DEF f
<1>7. Coupled(enc, x.dec, <<>>)
  <2>1. enc.key = t.key /\ enc.last = t
    BY <1>2
  <2> QED
    BY <1>2, <1>6, <2>1 DEF Coupled
<1>8. AesReads(aes, t)
  BY <1>1, <1>2 DEF AesReads
<1> QED
  BY <1>4, <1>7, <1>8 DEF t, x

(***************************************************************************)
(* One connection                                                          *)
(***************************************************************************)
(* A step of one connection.                                               *)
LEMMA LocalAccord ==
    ASSUME DInv, AInv, NEW c \in Conns, NEW s, NEW p, NEW y, NEW r, NEW up, NEW down, NEW f,
           ses'[c] = s, \A d \in Conns : d # c => ses'[d] = ses[d],
           Sets(prog, prog', c, p), Sets(crypt, crypt', c, y), Sets(reading, reading', c, r),
           Sets(toServer, toServer', c, up), Sets(toClient, toClient', c, down),
           Sets(flaws, flaws', c, f), provider' = provider, p.file = prog[c].file,
           Agree(s, p, y, r, up, down, f, KeysMatch(c), provider.signer)
    PROVE  AInv'
<1>1. prog'[c] = p /\ \A d \in Conns : d # c => prog'[d] = prog[d]
  BY SetsOne DEF DInv
<1>2. crypt'[c] = y /\ \A d \in Conns : d # c => crypt'[d] = crypt[d]
  BY SetsOne DEF DInv
<1>3. toServer'[c] = up /\ \A d \in Conns : d # c => toServer'[d] = toServer[d]
  BY SetsOne DEF DInv
<1>4. toClient'[c] = down /\ \A d \in Conns : d # c => toClient'[d] = toClient[d]
  BY SetsOne DEF DInv
<1>5. /\ reading' = [d \in Conns |-> reading'[d]]
      /\ reading'[c] = r /\ \A d \in Conns : d # c => reading'[d] = reading[d]
  BY SetsOne DEF AInv
<1>6. /\ flaws' = [d \in Conns |-> flaws'[d]]
      /\ flaws'[c] = f /\ \A d \in Conns : d # c => flaws'[d] = flaws[d]
  BY SetsOne DEF AInv
<1>7. ASSUME NEW d \in Conns PROVE KeysMatch(d)' = KeysMatch(d)
  <2>1. prog'[d].file = prog[d].file
    BY <1>1
  <2> QED
    BY <2>1, Zenon DEF KeysMatch
<1>8. ASSUME NEW d \in Conns PROVE Accord(d)'
  <2>1. CASE d = c
    BY <1>1, <1>2, <1>3, <1>4, <1>5, <1>6, <1>7, <2>1, Zenon DEF Accord
  <2>2. CASE d # c
    <3>1. /\ ses'[d] = ses[d] /\ prog'[d] = prog[d] /\ crypt'[d] = crypt[d]
          /\ reading'[d] = reading[d] /\ toServer'[d] = toServer[d]
          /\ toClient'[d] = toClient[d] /\ flaws'[d] = flaws[d]
      BY <1>1, <1>2, <1>3, <1>4, <1>5, <1>6, <2>2
    <3>2. Accord(d)
      BY DEF AInv
    <3> QED
      BY <1>7, <3>1, <3>2, Zenon DEF Accord
  <2> QED
    BY <2>1, <2>2
<1>9. OneKey'
  BY DEF AInv, OneKey
<1> QED
  BY <1>5, <1>6, <1>8, <1>9, Zenon DEF AInv

(* Once the session is closed only the ends matter.                        *)
LEMMA ClosedAgrees ==
    ASSUME NEW s, NEW p, NEW y, NEW r, NEW up, NEW down, NEW f, NEW match, NEW signer,
           ~s.open, HasKey(p), Fate(s, p, down, f, match)
    PROVE  Agree(s, p, y, r, up, down, f, match, signer)
BY Zenon DEF Agree, Situation, Sealing

(* t differs from s in nothing that the client will ever see, but for the  *)
(* part that has begun to listen.                                          *)
Settles(s, t) ==
    /\ t.open = s.open /\ t.rest = s.rest /\ t.sealed = s.sealed /\ t.taken = s.taken
    /\ t.reports = s.reports
    /\ s.part = "deleted" => t.part = "deleted"
    /\ t.part # "idle" => s.part # "idle"
    /\ \A n : At(n, s) => At(n, t) /\ (n # 1 /\ ~s.connected => ~t.connected)
    /\ s.connected => t.connected
    /\ Stuck(s) => Stuck(t)

(* Such a step keeps everything.                                           *)
LEMMA SettlesAgrees ==
    ASSUME NEW s, NEW t, Settles(s, t),
           NEW p, NEW y, NEW r, NEW up, NEW down, NEW f, NEW match, NEW signer,
           Agree(s, p, y, r, up, down, f, match, signer)
    PROVE  Agree(t, p, y, r, up, down, f, match, signer)
<1>1. /\ t.open = s.open /\ t.rest = s.rest /\ t.sealed = s.sealed /\ t.taken = s.taken
      /\ t.reports = s.reports /\ (s.part = "deleted" => t.part = "deleted")
      /\ t.part # "idle" => s.part # "idle"
      /\ \A n : At(n, s) => At(n, t)
      /\ \A n : At(n, s) /\ n # 1 /\ ~s.connected => ~t.connected
      /\ s.connected => t.connected
      /\ Stuck(s) => Stuck(t)
  BY Zenon DEF Settles
<1>2. Fate(t, p, down, f, match)
  BY <1>1, Zenon DEF Agree, Fate
<1>3. Sealing(t, p, y, r, up, down, signer)
  BY <1>1, Zenon DEF Agree, Sealing, BeforeSeal
<1>4. Situation(t, p, up, down, f, match)
  <2> SUFFICES ASSUME t.open PROVE Situation(t, p, up, down, f, match)
    BY Zenon DEF Situation
  <2>1. /\ p.step \in 1..10 /\ (p.end = "done" <=> p.step = 10)
        /\ down # <<>> => Hears(s, p.step, Text(Head(down)), f)
        /\ up # <<>> => Asks(s, p.step, Text(Head(up)), f)
        /\ s.rest # <<>> => Handles(s, p.step, Head(s.rest), f, match)
        /\ up = <<>> /\ down = <<>> /\ s.rest = <<>> => Rests(s, p, f)
    BY <1>1, Zenon DEF Agree, Situation
  <2>2. \A n, k : Hears(s, n, k, f) => Hears(t, n, k, f)
    BY <1>1, Zenon DEF Hears
  <2>3. \A n, k : Asks(s, n, k, f) => Asks(t, n, k, f)
    BY <1>1, Zenon DEF Asks
  <2>4. \A n, k : Handles(s, n, k, f, match) => Handles(t, n, k, f, match)
    BY <1>1, Zenon DEF Handles
  <2>5. Rests(s, p, f) => Rests(t, p, f)
    <3>1. ASSUME p.step \in {1, 5, 8}, At(p.step - 1, s), ~s.connected
          PROVE  Rests(t, p, f)
      <4>1. p.step - 1 # 1
        BY <3>1
      <4> QED
        BY <1>1, <3>1, <4>1, Zenon DEF Rests
    <3> QED
      BY <1>1, <3>1, Zenon DEF Rests
  <2> QED
    BY <1>1, <2>1, <2>2, <2>3, <2>4, <2>5, Zenon DEF Situation
<1> QED
  BY <1>2, <1>3, <1>4, Zenon DEF Agree

(* How far the session is can be seen from these fields.                   *)
LEMMA AtKept ==
    ASSUME NEW s, NEW t,
           t.sealed = s.sealed, t.taken = s.taken, t.part = s.part,
           t.connected = s.connected, t.state = s.state, t.module = s.module
    PROVE  \A n : At(n, s) <=> At(n, t)
BY DEF At

(* What At reads does not change.                                          *)
LEMMA SameSettles ==
    ASSUME NEW s, NEW t,
           t.open = s.open, t.rest = s.rest, t.sealed = s.sealed, t.taken = s.taken,
           t.reports = s.reports, t.part = s.part, t.connected = s.connected,
           t.state = s.state, t.module = s.module
    PROVE  Settles(s, t) /\ \A n : At(n, s) <=> At(n, t)
<1>1. \A n : At(n, s) <=> At(n, t)
  BY AtKept
<1>2. Stuck(s) => Stuck(t)
  BY Zenon DEF Stuck
<1>3. /\ s.part = "deleted" => t.part = "deleted"
      /\ t.part # "idle" => s.part # "idle"
  OBVIOUS
<1>4. /\ s.connected => t.connected
      /\ ~s.connected => ~t.connected
  BY Zenon
<1>5. \A n : At(n, s) => At(n, t) /\ (n # 1 /\ ~s.connected => ~t.connected)
  BY <1>1, <1>4, Zenon
<1> QED
  BY <1>1, <1>2, <1>3, <1>4, <1>5, Zenon DEF Settles

(***************************************************************************)
(* The session speaks                                                      *)
(***************************************************************************)
(* A session that speaks when nothing is under way, and says what its      *)
(* client expects.                                                         *)
LEMMA SpeaksAgrees ==
    ASSUME NEW s, s.open, s.rest = <<>>, s.reports = <<>>,
           NEW p, HasKey(p), p.step \in 1..10, p.end = "done" <=> p.step = 10,
           NEW answer, NEW f, Hears(s, p.step, answer, f),
           NEW y, IsAes(y), NEW r, NEW signer, NEW match,
           IF s.sealed THEN InChain(p, y, <<>>, <<>>) ELSE BeforeSeal(s, p, r, <<>>, <<>>, signer),
           p.torn => f # {}, match /\ f = {} => p.end # "gaveUp",
           NEW m, NEW x,
           IF s.sealed THEN m = Chained(y, answer) /\ x = AfterEncrypt(y, answer)
           ELSE m = InClear(answer, CloneSigner(signer).signer) /\ x = y
    PROVE  Agree(s, p, x, r, <<>>, <<m>>, f, match, signer)
<1> DEFINE down == <<m>>
           e == <<>>
<1>1. down # e /\ Head(down) = m /\ e = <<>> /\ ~(e # e)
  OBVIOUS
<1>2. m.lock = (IF s.sealed THEN "aes" ELSE "none") /\ Text(m) = answer
  <2>1. CASE s.sealed
    BY <2>1 DEF Chained, AesEncrypt, Message, Text
  <2>2. CASE ~s.sealed
    BY <2>2 DEF InClear, Text
  <2> QED
    BY <2>1, <2>2
<1>3. Situation(s, p, e, down, f, match)
  <2> HIDE DEF down, e
  <2> QED
    BY <1>1, <1>2, Zenon DEF Situation
<1>4. Sealing(s, p, x, r, e, down, signer)
  <2>1. CASE s.sealed
    <3>1. InChain(p, y, e, e)
      BY <2>1
    <3>2. /\ x = AfterEncrypt(y, answer) /\ m = Chained(y, answer)
          /\ Head(down).lock = "aes"
      BY <1>1, <1>2, <2>1
    <3>3. p.end # "gaveUp" => Coupled(x.enc, p.aes.dec, down)
      <4>1. p.end # "gaveUp" => Coupled(y.enc, p.aes.dec, <<>>)
        BY <3>1, Zenon DEF InChain
      <4> QED
        BY <3>2, <4>1, WriterAhead
    <3>4. x.key = y.key /\ x.iv = y.iv /\ x.dec = y.dec
      BY <3>2 DEF AfterEncrypt, IsAes
    <3>5. InChain(p, x, e, down)
      <4> HIDE DEF down, e
      <4> QED
        BY <3>1, <3>2, <3>3, <3>4, Zenon DEF InChain
    <3> QED
      BY <2>1, <3>5, Zenon DEF Sealing
  <2>2. CASE ~s.sealed
    <3>1. m.lock = "none" /\ m.signedBy = signer.private
      BY <2>2 DEF InClear, CloneSigner
    <3>2. BeforeSeal(s, p, r, e, e, signer)
      BY <2>2
    <3>3. BeforeSeal(s, p, r, e, down, signer)
      <4> HIDE DEF down, e
      <4> QED
        BY <1>1, <3>1, <3>2, Zenon DEF BeforeSeal
    <3> QED
      BY <2>2, <3>3, Zenon DEF Sealing
  <2> QED
    BY <2>1, <2>2
<1>5. Fate(s, p, down, f, match)
  <2>1. DOMAIN s.reports = {}
    OBVIOUS
  <2> HIDE DEF down
  <2> QED
    BY <2>1, Zenon DEF Fate
<1> QED
  BY <1>3, <1>4, <1>5, Zenon DEF Agree, down, e

(* What a handler sends, and the cipher after it, if nothing was written   *)
(* before.                                                                 *)
Sent(s, aes, signer, x, down) ==
    LET answer == Head(s.written)
    IN  IF s.written = <<>> THEN x = aes /\ down = <<>>
        ELSE \E m : /\ down = <<m>>
                    /\ IF s.sealed THEN m = Chained(aes, answer) /\ x = AfterEncrypt(aes, answer)
                       ELSE m = InClear(answer, CloneSigner(signer).signer) /\ x = aes

(* A handler that starts with nothing written.                             *)
LEMMA SendsSent ==
    ASSUME NEW c \in Conns, NEW aes, Sends1(c, aes), ses'[c].written \in Seq(Answers),
           ses[c].written = <<>>, toClient[c] = <<>>
    PROVE  \E x, down : /\ Sets(crypt, crypt', c, x) /\ Sets(toClient, toClient', c, down)
                        /\ Sent(ses'[c], aes, provider.signer, x, down)
<1> DEFINE v == ses'[c].written
           news == SubSeq(v, Len(ses[c].written) + 1, Len(v))
           answer == Head(v)
           e == <<>>
<1>1. news = v
  BY DEF Answers
<1>2. CASE v = <<>>
  <2>1. crypt' = [crypt EXCEPT ![c] = aes] /\ toClient' = toClient
    BY <1>1, <1>2, Zenon DEF Sends1
  <2>2. Sets(crypt, crypt', c, aes) /\ Sets(toClient, toClient', c, e)
    BY <2>1 DEF Sets
  <2>3. Sent(ses'[c], aes, provider.signer, aes, e)
    BY <1>2, Zenon DEF Sent
  <2> QED
    BY <2>2, <2>3, Zenon
<1>3. CASE v # <<>> /\ ses'[c].sealed
  <2> DEFINE m == Chained(aes, answer)
             x == AfterEncrypt(aes, answer)
             down == <<m>>
  <2>1. crypt' = [crypt EXCEPT ![c] = x] /\ toClient' = [toClient EXCEPT ![c] = Append(@, m)]
    BY <1>1, <1>3, Zenon DEF Sends1
  <2>2. Append(e, m) = down /\ toClient[c] = e
    OBVIOUS
  <2> HIDE DEF m, x, e
  <2>3. Sets(crypt, crypt', c, x) /\ Sets(toClient, toClient', c, down)
    BY <2>1, <2>2 DEF Sets
  <2>4. Sent(ses'[c], aes, provider.signer, x, down)
    BY <1>3, Zenon DEF Sent, m, x
  <2> QED
    BY <2>3, <2>4, Zenon
<1>4. CASE v # <<>> /\ ~ses'[c].sealed
  <2> DEFINE m == InClear(answer, CloneSigner(provider.signer).signer)
             down == <<m>>
  <2>1. crypt' = [crypt EXCEPT ![c] = aes] /\ toClient' = [toClient EXCEPT ![c] = Append(@, m)]
    BY <1>1, <1>4, Zenon DEF Sends1
  <2>2. Append(e, m) = down /\ toClient[c] = e
    OBVIOUS
  <2> HIDE DEF m, e
  <2>3. Sets(crypt, crypt', c, aes) /\ Sets(toClient, toClient', c, down)
    BY <2>1, <2>2 DEF Sets
  <2>4. Sent(ses'[c], aes, provider.signer, aes, down)
    BY <1>4, Zenon DEF Sent, m
  <2> QED
    BY <2>3, <2>4, Zenon
<1> QED
  BY <1>2, <1>3, <1>4, Zenon

(* A handler that writes nothing.                                          *)
LEMMA SendsNothing ==
    ASSUME NEW c \in Conns, NEW aes, Sends1(c, aes), ses[c].written \in Seq(Answers),
           ses'[c].written = ses[c].written
    PROVE  Sets(crypt, crypt', c, aes) /\ Sets(toClient, toClient', c, toClient[c])
<1> DEFINE v == ses'[c].written
           news == SubSeq(v, Len(ses[c].written) + 1, Len(v))
<1>1. news = <<>>
  BY DEF Answers
<1>2. crypt' = [crypt EXCEPT ![c] = aes] /\ toClient' = toClient
  BY <1>1, Zenon DEF Sends1
<1> QED
  BY <1>2 DEF Sets

(***************************************************************************)
(* The session handles a message                                           *)
(***************************************************************************)
(* The cipher that it encrypts its answer with.                            *)
CipherOf(u, s, y, r) ==
    IF s.sealed /\ ~u.sealed THEN SetIv(SetKey(NewAes, r.key).object, Iv[r.key]).object ELSE y

(* It has read the next message of the script, or one that it could not    *)
(* decrypt.                                                                *)
LEMMA HandlesAgrees ==
    ASSUME DialogueAssumption, NEW u, u.open, u.rest # <<>>, u.reports = <<>>,
           NEW p, IsProgram(p), NEW y, IsAes(y), NEW r, NEW f, NEW match, NEW signer,
           Agree(u, p, y, r, <<>>, <<>>, f, match, signer),
           NEW v, v.sealed = u.sealed, v.rest = <<>>, v.taken = u.taken,
           v.reports = u.reports, v.written = <<>>,
           NEW s, Gives(p.step - 1, Head(u.rest), v, s),
           NEW x, NEW down, Sent(s, CipherOf(u, s, y, r), signer, x, down)
    PROVE  Agree(s, p, x, r, <<>>, down, f, match, signer)
<1> DEFINE n == p.step
           m == p.step - 1
           k == Head(u.rest)
           e == <<>>
           cipher == CipherOf(u, s, y, r)
<1>1. /\ HasKey(p) /\ n \in 2..10 /\ At(n - 2, u) /\ (p.end = "done" <=> n = 10)
      /\ \/ k \in Says[m] /\ (k \in Flawed => f # {})
         \/ k = Noise /\ n \in 3..5 /\ ~match
  BY Zenon DEF Agree, Situation, Handles
<1>2. (p.torn => f # {}) /\ (match /\ f = {} => p.end # "gaveUp")
  BY Zenon DEF Agree, Fate
<1>3. m \in 1..9 /\ m + 1 = n /\ m - 1 = n - 2 /\ n \in 1..10
  BY <1>1
<1>4. IF u.sealed THEN InChain(p, y, e, e) ELSE BeforeSeal(u, p, r, e, e, signer)
  BY Zenon DEF Agree, Sealing
<1>5. k \in Flawed => f # {} \/ ~match
  BY <1>1, Zenon
<1>6. ASSUME GoesOn(m, v, s), m # 4
      PROVE  /\ s.open /\ s.rest = <<>> /\ s.reports = <<>> /\ cipher = y
             /\ IF s.sealed THEN InChain(p, y, e, e) ELSE BeforeSeal(s, p, r, e, e, signer)
  <2>1. s.open /\ s.rest = <<>> /\ s.reports = <<>>
    BY <1>6, Zenon DEF GoesOn
  <2>2. s.sealed = u.sealed
    BY <1>6, Zenon DEF GoesOn
  <2>3. cipher = y
    BY <2>2, Zenon DEF CipherOf
  <2>4. IF s.sealed THEN InChain(p, y, e, e) ELSE BeforeSeal(s, p, r, e, e, signer)
    BY <1>4, <2>1, <2>2, Zenon DEF BeforeSeal
  <2> QED
    BY <2>1, <2>3, <2>4
<1>7. ASSUME GoesOn(m, v, s), m # 4, NEW answer, s.written = <<answer>>,
             Hears(s, n, answer, f)
      PROVE  Agree(s, p, x, r, e, down, f, match, signer)
  <2>1. s.written # <<>> /\ Head(s.written) = answer
    BY <1>7
  <2>2. PICK message :
           /\ down = <<message>>
           /\ IF s.sealed THEN message = Chained(y, answer) /\ x = AfterEncrypt(y, answer)
              ELSE message = InClear(answer, CloneSigner(signer).signer) /\ x = y
    BY <1>6, <1>7, <2>1, Zenon DEF Sent
  <2> QED
    BY <1>1, <1>2, <1>3, <1>6, <1>7, <2>2, SpeaksAgrees
<1>8. CASE GoesOn(m, v, s) /\ Replies(m, s)
  <2>0. Replies(m, s)
    BY <1>8
  <2> HIDE DEF m
  <2>1a. At(m, s) /\ s.written = <<Expects[m + 1]>> /\ m \in {1, 2, 3, 5, 6, 8}
    BY <2>0, Zenon DEF Replies
  <2>1. m # 4 /\ At(m, s) /\ s.written = <<Expects[m + 1]>> /\ m \in {1, 2, 3, 5, 6, 8}
    BY <2>1a
  <2>2. n \in 1..9
    BY <1>3, <2>1
  <2>3. Hears(s, n, Expects[n], f)
    BY <2>1, <2>2, Zenon DEF Hears, m
  <2> QED
    BY <1>3, <1>7, <1>8, <2>1, <2>3 DEF m
<1>9. CASE GoesOn(m, v, s) /\ Refuses(m, k, s)
  <2>1. At(m - 1, s) /\ s.connected /\ s.written = <<"NACK">> /\ k \in Flawed
        /\ (k = Noise => m = 1)
    BY <1>9, Zenon DEF Refuses
  <2>2. k \in Says[m] /\ f # {}
    BY <1>1, <1>3, <2>1
  <2>3. m \notin {4, 9}
    BY <1>3, <2>1, <2>2, SaysFacts
  <2>4. m # 4 /\ n \in 2..9
    BY <1>1, <1>3, <2>3
  <2>5. Hears(s, n, "NACK", f)
    BY <1>3, <2>1, <2>2, <2>4, Zenon DEF Hears
  <2> QED
    BY <1>7, <1>9, <2>1, <2>4, <2>5
<1>10. ASSUME GoesOn(m, v, s), s.written = <<>>, s.sealed, Rests(s, p, f),
              InChain(p, cipher, e, e)
       PROVE  Agree(s, p, x, r, e, down, f, match, signer)
  <2>1. s.open /\ s.rest = <<>> /\ s.reports = <<>>
    BY <1>10, Zenon DEF GoesOn
  <2>2. x = cipher /\ down = e
    BY <1>10, Zenon DEF Sent
  <2>3. Situation(s, p, e, e, f, match)
    BY <1>1, <1>3, <1>10, <2>1, Zenon DEF Situation
  <2>4. Sealing(s, p, cipher, r, e, e, signer)
    BY <1>10, Zenon DEF Sealing
  <2>5. Fate(s, p, e, f, match)
    <3>1. DOMAIN s.reports = {}
      BY <2>1
    <3> QED
      BY <1>2, <2>1, <3>1, Zenon DEF Fate
  <2> QED
    BY <1>1, <2>2, <2>3, <2>4, <2>5, Zenon DEF Agree
<1>11. CASE GoesOn(m, v, s) /\ k # Noise /\ Passes(m, s)
  <2>1. m \in {4, 7} /\ At(m, s) /\ ~s.connected /\ s.written = <<>>
    BY <1>11, Zenon DEF Passes
  <2>2. s.sealed
    BY <2>1, AtFacts
  <2>3. Rests(s, p, f)
    <3>1. p.step \in {1, 5, 8}
      BY <1>3, <2>1
    <3> QED
      BY <2>1, <3>1, Zenon DEF Rests
  <2>4. CASE m = 4
    <3>1. ~u.sealed
      BY <1>1, <1>3, <2>4, AtFacts
    <3>2. k = "key" /\ n = 5
      BY <1>1, <1>3, <1>11, <2>4 DEF Says
    <3>3. PICK key \in Suitable : Loaded(p.aes, key)
      BY <1>4, <3>1, <3>2, Zenon DEF BeforeSeal
    <3>4. r.key = p.aes.key /\ p.aes.key = key
      <4>1. r.key = p.aes.key
        BY <1>4, <3>1, <3>2, Zenon DEF BeforeSeal
      <4> QED
        BY <3>3, <4>1, Zenon DEF Loaded
    <3>5. Loaded(cipher, key)
      BY <2>2, <3>1, <3>4, SameKeyLoads, Zenon DEF CipherOf
    <3> HIDE DEF cipher
    <3>6. /\ cipher.key = key /\ cipher.iv # NoKey /\ p.aes.iv # NoKey
          /\ Coupled(cipher.enc, p.aes.dec, <<>>) /\ Coupled(p.aes.enc, cipher.dec, <<>>)
      BY <3>3, <3>5, LoadedCoupled
    <3>7. InChain(p, cipher, e, e)
      BY <3>4, <3>6, Zenon DEF InChain
    <3> QED
      BY <1>10, <1>11, <2>1, <2>2, <2>3, <3>7 DEF cipher
  <2>5. CASE m = 7
    <3>1. m # 4
      BY <2>5
    <3>2. InChain(p, cipher, e, e)
      BY <1>6, <1>11, <2>2, <3>1, Zenon
    <3> QED
      BY <1>10, <1>11, <2>1, <2>2, <2>3, <3>2
  <2> QED
    BY <2>1, <2>4, <2>5
<1>12. CASE GoesOn(m, v, s) /\ Sticks(m, k, s)
  <2>1. m = 8 /\ Stuck(s) /\ s.written = <<>> /\ k \in Flawed /\ k # Noise
    BY <1>12, Zenon DEF Sticks
  <2>2. s.sealed /\ m # 4 /\ f # {} /\ p.step = 9
    BY <1>1, <1>3, <2>1 DEF Stuck
  <2>3. InChain(p, cipher, e, e)
    BY <1>6, <1>12, <2>2, Zenon
  <2>4. Rests(s, p, f)
    BY <2>1, <2>2, Zenon DEF Rests
  <2> QED
    BY <1>10, <1>12, <2>1, <2>2, <2>3, <2>4
<1>13. ASSUME NEW result, Shut(v, result, s)
       PROVE  /\ ~s.open /\ down = e /\ s.taken = u.taken /\ s.part = "none"
              /\ \A i \in DOMAIN s.reports : s.reports[i] = result
  <2>1. /\ ~s.open /\ s.written = <<>> /\ s.taken = u.taken /\ s.part = "none"
        /\ \A i \in DOMAIN s.reports : s.reports[i] = result
    BY <1>13, Zenon DEF Shut
  <2> QED
    BY <2>1, Zenon DEF Sent
<1>14. ~Confirmed(e)
  BY DEF Confirmed
<1>15. CASE k \in Flawed /\ Shut(v, FALSE, s)
  <2>1. n # 10
    BY <1>1, <1>3, <1>15, SaysFacts
  <2>2. ~Told(p, e)
    BY <1>1, <1>14, <2>1, Zenon DEF Told
  <2>3. Fate(s, p, e, f, match)
    BY <1>2, <1>5, <1>13, <1>15, <2>2, Zenon DEF Fate
  <2> QED
    BY <1>1, <1>13, <1>15, <2>3, ClosedAgrees
<1>16. CASE m = 9 /\ Shut(v, TRUE, s)
  <2>1. n = 10 /\ At(8, u)
    BY <1>1, <1>3, <1>16
  <2>2. p.end = "done" /\ s.taken
    BY <1>1, <1>13, <1>16, <2>1, LastTaken
  <2>3. Fate(s, p, e, f, match)
    <3>1. \A i \in DOMAIN s.reports : s.reports[i] = TRUE
      BY <1>13, <1>16
    <3> QED
      BY <1>2, <2>2, <3>1, Zenon DEF Fate
  <2> QED
    BY <1>1, <1>13, <1>16, <2>3, ClosedAgrees
<1> QED
  BY <1>8, <1>9, <1>11, <1>12, <1>15, <1>16, Zenon DEF Gives

(***************************************************************************)
(* The steps of the session                                                *)
(***************************************************************************)
(* Nothing is left of one message when it is read.                         *)
LEMMA SingleTail ==
    ASSUME NEW S, NEW q \in Seq(S), Len(q) = 1
    PROVE  Tail(q) = <<>>
<1>1. q # <<>>
  OBVIOUS
<1>2. Tail(q) \in Seq(S) /\ Len(Tail(q)) = 0
  BY <1>1
<1>3. \A t \in Seq(S) : Len(t) = 0 => t = <<>>
  OBVIOUS
<1> QED
  BY <1>2, <1>3

(* What is known of one connection before a step.                          *)
LEMMA OneAccord ==
    ASSUME IInv, DInv, AInv, NEW c \in Conns
    PROVE  /\ Good(ses[c]) /\ ses[c] \in Sessions
           /\ Carries(ses[c], prog[c], toServer[c], toClient[c])
           /\ IsProgram(prog[c]) /\ IsAes(crypt[c])
           /\ Agree(ses[c], prog[c], crypt[c], reading[c], toServer[c], toClient[c], flaws[c],
                    KeysMatch(c), provider.signer)
<1>1. Good(ses[c]) /\ ses[c] \in Sessions
  BY DEF IInv, Good
<1>2. Accord(c)
  BY DEF AInv
<1> QED
  BY <1>1, <1>2, OneConnection, Zenon DEF Accord

(* The part handles the message that it has read.                          *)
LEMMA MessageAccords ==
    ASSUME DialogueAssumption, IInv, IInv', DInv, AInv, NEW c \in Conns, HandleMessage(c)
    PROVE  AInv'
<1> DEFINE u == ses[c]
           s == ses'[c]
           p == prog[c]
           y == crypt[c]
           r == reading[c]
           f == flaws[c]
           e == <<>>
           match == KeysMatch(c)
           signer == provider.signer
           aes == IF s.sealed /\ ~u.sealed THEN WithKey(c) ELSE y
           k == Head(u.rest)
           n == p.step
           m == p.step - 1
<1>1. /\ Good(u) /\ u \in Sessions /\ Carries(u, p, toServer[c], toClient[c])
      /\ IsProgram(p) /\ IsAes(y)
      /\ Agree(u, p, y, r, toServer[c], toClient[c], f, match, signer)
  BY OneAccord
<1>2. /\ ReadNext(c) /\ Sends1(c, aes)
      /\ prog' = prog /\ provider' = provider /\ toServer' = toServer /\ reading' = reading
      /\ flaws' = flaws
  BY DEF HandleMessage
<1>3. ~u.early /\ u.rest # <<>>
  BY <1>1, <1>2 DEF Carries, ReadNext
<1>4. u.connected /\ u.written = <<>> /\ Len(u.rest) = 1
  BY <1>1, <1>3 DEF Good, Turn
<1>5. u.open /\ u.part \in Parts /\ ~u.stale /\ u.posted = <<>> /\ u.reports = <<>>
  BY <1>1, <1>3, <1>4 DEF Good, Listens, Pending, Over, Gone
<1>6. u.former = <<>> /\ u.hasher = <<>> /\ Chain(u)
  BY <1>1, <1>3, <1>5 DEF Good, Turn
<1>7. toServer[c] = e /\ toClient[c] = e
  BY <1>1, <1>3, <1>5 DEF Carries
<1>8. Agree(u, p, y, r, e, e, f, match, signer)
  BY <1>1, <1>7, Zenon
<1>9. s.written \in Seq(Answers)
  BY DEF IInv, Good, Sessions
<1>10. aes = CipherOf(u, s, y, r)
  BY Zenon DEF CipherOf, WithKey
<1> HIDE DEF aes
<1>11. PICK x, d : /\ Sets(crypt, crypt', c, x) /\ Sets(toClient, toClient', c, d)
                   /\ Sent(s, aes, signer, x, d)
  BY <1>2, <1>4, <1>7, <1>9, SendsSent
<1>12. /\ Sets(prog, prog', c, p) /\ Sets(reading, reading', c, r)
       /\ Sets(toServer, toServer', c, e) /\ Sets(flaws, flaws', c, f)
  BY <1>2, <1>7 DEF Sets
<1>13. ASSUME \A q \in Conns : q # c => ses'[q] = ses[q],
              Agree(s, p, x, r, e, d, f, match, signer)
       PROVE  AInv'
  <2> HIDE DEF e
  <2> QED
    BY <1>2, <1>11, <1>12, <1>13, LocalAccord
<1>14. CASE Crash
  <2>1. ses' = ses
    BY <1>14 DEF Crash
  <2>2. s = u
    BY <2>1
  <2>3. aes = y
    BY <2>2, Zenon DEF aes
  <2>4. x = y /\ d = e
    BY <1>4, <2>2, <2>3, <1>11, Zenon DEF Sent
  <2>5. Agree(s, p, x, r, e, d, f, match, signer)
    BY <1>8, <2>2, <2>4, Zenon
  <2>6. \A q \in Conns : q # c => ses'[q] = ses[q]
    BY <2>1
  <2> QED
    BY <1>13, <2>5, <2>6
<1>15. CASE ~Crash
  <2> DEFINE b == Tail(u.rest)
             v == [u EXCEPT !.rest = b]
             t == Arrived(v, k)
  <2>1. Becomes(c, t)
    BY <1>2, <1>5, <1>15 DEF ReadNext
  <2>2. b = <<>>
    <3>1. u.rest \in Seq(Kinds)
      BY <1>1 DEF Sessions
    <3> QED
      BY <1>4, <3>1, SingleTail
  <2> HIDE DEF b
  <2>3. /\ v.sealed = u.sealed /\ v.taken = u.taken /\ v.part = u.part
        /\ v.connected = u.connected /\ v.state = u.state /\ v.module = u.module
        /\ v.open = u.open /\ v.posted = u.posted /\ v.reports = u.reports
        /\ v.written = u.written /\ v.next = u.next /\ v.client = u.client
        /\ v.former = u.former /\ v.hasher = u.hasher /\ v.rest = b
    BY <1>1 DEF Sessions
  <2>4. v \in Sessions
    <3>1. b \in Seq(Kinds)
      BY <2>2
    <3> QED
      BY <1>1, <3>1, Zenon DEF Sessions
  <2> HIDE DEF v
  <2>5. /\ s = t
        /\ \A q \in Conns : q # c => ses'[q] = ses[q]
    BY <2>1, BecomesOne
  <2>6. Handles(u, n, k, f, match)
    BY <1>3, <1>5, <1>8, Zenon DEF Agree, Situation
  <2>7. /\ n \in 2..10 /\ At(n - 2, u)
        /\ k \in Says[n - 1] \/ (k = Noise /\ n \in 3..5)
    BY <2>6, Zenon DEF Handles
  <2>8. m \in 1..9 /\ m - 1 = n - 2 /\ (k \in Says[m] \/ (k = Noise /\ m \in 2..4))
    BY <2>7
  <2>9. v.sealed => k \in Secret
    <3> SUFFICES ASSUME u.sealed PROVE k \in Secret
      BY <2>3, Zenon
    <3>1. ~(n - 2 < 4)
      BY <2>7, AtFacts
    <3>2. m >= 5 /\ ~(m \in 2..4)
      BY <2>7, <3>1
    <3> QED
      BY <2>8, <3>2, SaysFacts
  <2>10. t = ReadNextMessage(v, k)
    <3>1. v.open /\ v.connected /\ v.former = <<>> /\ v.hasher = <<>>
      BY <1>4, <1>5, <1>6, <2>3, Zenon
    <3> QED
      BY <2>4, <2>9, <3>1, ArrivedReads
  <2>11. Attends(v)
    <3>1. Ordered(v)
      BY <1>6, <2>3, Zenon DEF Chain, Ordered
    <3> QED
      BY <1>4, <1>5, <2>3, <2>4, <3>1, Zenon DEF Attends
  <2>12. At(m - 1, v)
    <3>1. \A j : At(j, u) <=> At(j, v)
      BY <2>3, AtKept
    <3> QED
      BY <2>7, <2>8, <3>1
  <2> HIDE DEF t, k
  <2>13. PICK w : /\ Gives(m, k, w, ReadNextMessage(v, k))
                  /\ w.sealed = v.sealed /\ w.rest = v.rest /\ w.taken = v.taken
                  /\ w.reports = v.reports /\ w.written = v.written
    BY <2>8, <2>11, <2>12, ReadGives
  <2>14. Gives(m, k, w, s)
    BY <2>5, <2>10, <2>13, Zenon
  <2>15. /\ w.sealed = u.sealed /\ w.rest = <<>> /\ w.taken = u.taken
         /\ w.reports = u.reports /\ w.written = <<>>
    BY <1>4, <2>2, <2>3, <2>13, Zenon
  <2>16. Sent(s, CipherOf(u, s, y, r), signer, x, d)
    BY <1>10, <1>11, Zenon
  <2>17. Agree(s, p, x, r, <<>>, d, f, match, signer)
    <3>1. Agree(u, p, y, r, <<>>, <<>>, f, match, signer)
      BY <1>8
    <3>2. Gives(p.step - 1, Head(u.rest), w, s)
      BY <2>14 DEF k
    <3> HIDE DEF u, s, p, y, r, f, match, signer, m, n
    <3> QED
      BY <1>1, <1>3, <1>5, <2>15, <2>16, <3>1, <3>2, HandlesAgrees
  <2> QED
    BY <1>13, <2>5, <2>17
<1> QED
  BY <1>14, <1>15

(* What a session has read is the next message of the script, unless it    *)
(* has not the key that its client was given.                              *)
LEMMA OpensAgrees ==
    ASSUME NEW u, u.open, u.rest = <<>>,
           NEW p, IsProgram(p), NEW y, IsAes(y), NEW r, NEW m, NEW f, NEW match, NEW signer,
           Agree(u, p, y, r, <<m>>, <<>>, f, match, signer),
           NEW private, match <=> p.file \in Pairs /\ RsaReads(private, p.file),
           NEW k,
           m.lock = "none" => k = m.kind,
           m.lock = "rsa" => k = (IF ~u.sealed /\ RsaReads(private, m.for) THEN m.kind ELSE Noise),
           m.lock = "aes" => k = (IF u.sealed /\ AesReads(y, m.text) THEN m.text.plain ELSE Noise),
           NEW x, x = (IF u.sealed /\ m.lock = "aes" THEN AfterDecrypt(y, m.text) ELSE y),
           NEW s, s.rest = <<k>>, s.open = u.open, s.sealed = u.sealed, s.taken = u.taken,
           s.reports = u.reports, s.part = u.part, s.connected = u.connected,
           s.state = u.state, s.module = u.module
    PROVE  Agree(s, p, x, m, <<>>, <<>>, f, match, signer)
<1> DEFINE n == p.step
           q == <<m>>
           e == <<>>
           g == <<k>>
<1>1. q # e /\ Head(q) = m /\ g # e /\ Head(g) = k /\ e = <<>> /\ ~(e # e)
  OBVIOUS
<1> HIDE DEF q, e, g
<1>2. /\ HasKey(p) /\ n \in 1..10 /\ (p.end = "done" <=> n = 10) /\ Asks(u, n, Text(m), f)
      /\ IF u.sealed THEN InChain(p, y, q, e) ELSE BeforeSeal(u, p, r, q, e, signer)
  BY <1>1, Zenon DEF Agree, Situation, Sealing, q, e
<1>3. /\ n \in 2..10 /\ At(n - 2, u) /\ Text(m) \in Says[n - 1]
      /\ Text(m) \in Flawed => f # {}
  BY <1>2, Zenon DEF Asks
<1>4. At(n - 2, s)
  <2>1. \A j : At(j, u) <=> At(j, s)
    BY AtKept
  <2> QED
    BY <1>3, <2>1
<1>5. Fate(s, p, e, f, match)
  BY Zenon DEF Agree, Fate, e
<1>6. ASSUME Handles(s, n, k, f, match) PROVE Situation(s, p, e, e, f, match)
  BY <1>1, <1>2, <1>6, Zenon DEF Situation, g
<1>7. ASSUME k = Text(m) PROVE Handles(s, n, k, f, match)
  BY <1>3, <1>4, <1>7, Zenon DEF Handles
<1>8. CASE u.sealed
  <2>1. /\ p.aes.key \in Suitable /\ y.key = p.aes.key /\ p.aes.iv # NoKey /\ y.iv # NoKey
        /\ Coupled(p.aes.enc, y.dec, q) /\ (p.end # "gaveUp" => Coupled(y.enc, p.aes.dec, e))
    BY <1>2, <1>8, Zenon DEF InChain
  <2>2. m.lock = "aes"
    BY <1>1, <2>1 DEF Coupled
  <2>3. /\ AesReads(y, m.text) /\ x.key = y.key /\ x.iv = y.iv /\ x.enc = y.enc
        /\ Coupled(p.aes.enc, x.dec, e)
    <3>1. x = AfterDecrypt(y, m.text)
      BY <1>8, <2>2, Zenon
    <3>2. y.key \in Suitable
      BY <2>1
    <3>3. \A enc : Coupled(enc, y.dec, q) =>
             /\ AesReads(y, Head(q).text)
             /\ AfterDecrypt(y, Head(q).text).key = y.key
             /\ AfterDecrypt(y, Head(q).text).iv = y.iv
             /\ AfterDecrypt(y, Head(q).text).enc = y.enc
             /\ Coupled(enc, AfterDecrypt(y, Head(q).text).dec, <<>>)
      BY <1>1, <2>1, <3>2, ReaderCatchesUp
    <3> QED
      BY <1>1, <2>1, <3>1, <3>3, Zenon
  <2>4. k = Text(m)
    BY <1>8, <2>2, <2>3, Zenon DEF Text
  <2>5. InChain(p, x, e, e)
    BY <1>1, <2>1, <2>3, Zenon DEF InChain
  <2>6. Sealing(s, p, x, m, e, e, signer)
    BY <1>8, <2>5, Zenon DEF Sealing
  <2> QED
    BY <1>2, <1>5, <1>6, <1>7, <2>4, <2>6, Zenon DEF Agree, e
<1>9. CASE ~u.sealed
  <2>1. BeforeSeal(u, p, r, q, e, signer)
    BY <1>2, <1>9
  <2>2. /\ n <= 5 /\ (n = 5 => \E key \in Suitable : Loaded(p.aes, key))
        /\ IF n = 2 THEN m.lock = "none"
           ELSE m.lock = "rsa" /\ m.for = p.rsa.encryptor /\ (n = 5 => m.key = p.aes.key)
    BY <1>1, <2>1 DEF BeforeSeal
  <2>3. Text(m) = m.kind
    <3>1. m.lock # "aes"
      BY <2>2
    <3> QED
      BY <3>1 DEF Text
  <2>4. Handles(s, n, k, f, match)
    <3>1. CASE n = 2
      BY <1>7, <2>2, <2>3, <3>1
    <3>2. CASE n # 2 /\ RsaReads(private, m.for)
      <4>1. k = m.kind
        BY <1>9, <2>2, <3>2, Zenon
      <4> QED
        BY <1>7, <2>3, <4>1
    <3>3. CASE n # 2 /\ ~RsaReads(private, m.for)
      <4>1. k = Noise
        BY <1>9, <2>2, <3>3, Zenon
      <4>2. n \in 3..5 /\ n >= 3
        BY <1>3, <2>2, <3>3
      <4>3. ~match
        BY <1>2, <2>2, <3>3, <4>2, Zenon DEF HasKey
      <4> QED
        BY <1>3, <1>4, <4>1, <4>2, <4>3, Zenon DEF Handles
    <3> QED
      BY <3>1, <3>2, <3>3
  <2>5. k = "key" => m.key = p.aes.key
    <3> SUFFICES ASSUME k = "key" PROVE m.key = p.aes.key
      OBVIOUS
    <3>1. k \in Says[n - 1]
      BY <2>4 DEF Handles, Noise
    <3>2. n - 1 \in 1..9
      BY <1>3
    <3>3. n - 1 = 4
      BY <3>1, <3>2, SaysFacts
    <3> QED
      BY <1>3, <2>2, <3>3
  <2>6. BeforeSeal(s, p, m, e, e, signer)
    BY <1>1, <2>2, <2>5, Zenon DEF BeforeSeal, g
  <2>7. Sealing(s, p, x, m, e, e, signer)
    BY <1>9, <2>6, Zenon DEF Sealing
  <2> QED
    BY <1>2, <1>5, <1>6, <2>4, <2>7, Zenon DEF Agree, e
<1> QED
  BY <1>8, <1>9

(* The session reads the socket.                                           *)
LEMMA ReceiveAccords ==
    ASSUME IInv, DInv, AInv, NEW c \in Conns, ReceiveMessage(c)
    PROVE  AInv'
<1> DEFINE u == ses[c]
           s == ses'[c]
           p == prog[c]
           y == crypt[c]
           r == reading[c]
           f == flaws[c]
           e == <<>>
           m == Head(toServer[c])
           k == Opened(c, m)
           match == KeysMatch(c)
           signer == provider.signer
           x == IF u.sealed /\ m.lock = "aes" THEN AfterDecrypt(y, m.text) ELSE y
<1>1. /\ Good(u) /\ u \in Sessions /\ Carries(u, p, toServer[c], toClient[c])
      /\ IsProgram(p) /\ IsAes(y)
      /\ Agree(u, p, y, r, toServer[c], toClient[c], f, match, signer)
  BY OneAccord
<1>2. /\ toServer[c] # <<>> /\ Receive(c) /\ s.rest = <<k>>
      /\ toServer' = [toServer EXCEPT ![c] = Tail(@)]
      /\ reading' = [reading EXCEPT ![c] = m]
      /\ crypt' = IF u.sealed /\ m.lock = "aes"
                   THEN [crypt EXCEPT ![c] = AfterDecrypt(@, m.text)] ELSE crypt
      /\ prog' = prog /\ provider' = provider /\ toClient' = toClient /\ flaws' = flaws
  BY DEF ReceiveMessage
<1>3. Sets(crypt, crypt', c, x)
  BY <1>2, Zenon DEF Sets
<1> HIDE DEF x
<1>4. toClient[c] = e /\ Tail(toServer[c]) = e /\ toServer[c] = <<m>>
  <2>1. toClient[c] = e /\ AtMostOne(toServer[c])
    BY <1>1, <1>2 DEF Carries
  <2>2. PICK message : toServer[c] = <<message>>
    BY <1>2, <2>1 DEF AtMostOne
  <2> QED
    BY <2>1, <2>2
<1>5. /\ Sets(prog, prog', c, p) /\ Sets(reading, reading', c, m) /\ Sets(flaws, flaws', c, f)
      /\ Sets(toServer, toServer', c, e) /\ Sets(toClient, toClient', c, e)
  BY <1>2, <1>4 DEF Sets
<1>6. u.open /\ u.rest = <<>>
  BY <1>2 DEF Receive, Ready, InLoop
<1>7. PICK messages \in Sends[c] :
         Becomes(c, [u EXCEPT !.rest = messages, !.written = <<>>,
                              !.early = @ \/ Len(messages) > Len(u.written)])
  BY <1>2 DEF Receive
<1> DEFINE b == u.early \/ Len(messages) > Len(u.written)
           t == [u EXCEPT !.rest = messages, !.written = <<>>, !.early = b]
<1>8. s = t /\ \A d \in Conns : d # c => ses'[d] = ses[d]
  BY <1>7, BecomesOne
<1> HIDE DEF b
<1>9. /\ t.open = u.open /\ t.sealed = u.sealed /\ t.taken = u.taken
      /\ t.reports = u.reports /\ t.part = u.part /\ t.connected = u.connected
      /\ t.state = u.state /\ t.module = u.module
  BY <1>1 DEF Sessions
<1> HIDE DEF t
<1>10. Agree(s, p, x, m, e, e, f, match, signer)
  <2>1. Agree(u, p, y, r, <<m>>, <<>>, f, match, signer)
    BY <1>1, <1>4, Zenon
  <2>2. match <=> p.file \in Pairs /\ RsaReads(provider.rsa, p.file)
    BY Zenon DEF KeysMatch
  <2>3. /\ m.lock = "none" => k = m.kind
        /\ m.lock = "rsa" =>
              k = (IF ~u.sealed /\ RsaReads(provider.rsa, m.for) THEN m.kind ELSE Noise)
        /\ m.lock = "aes" =>
              k = (IF u.sealed /\ AesReads(y, m.text) THEN m.text.plain ELSE Noise)
    BY DEF Opened
  <2>4. x = (IF u.sealed /\ m.lock = "aes" THEN AfterDecrypt(y, m.text) ELSE y)
    BY DEF x
  <2>5. /\ s.rest = <<k>> /\ s.open = u.open /\ s.sealed = u.sealed /\ s.taken = u.taken
        /\ s.reports = u.reports /\ s.part = u.part /\ s.connected = u.connected
        /\ s.state = u.state /\ s.module = u.module
    BY <1>2, <1>8, <1>9, Zenon
  <2> HIDE DEF u, s, p, y, r, f, m, k, match, signer
  <2> QED
    BY <1>1, <1>6, <2>1, <2>2, <2>3, <2>4, <2>5, OpensAgrees
<1> HIDE DEF e
<1> QED
  BY <1>2, <1>3, <1>5, <1>8, <1>10, LocalAccord

(* A client that was told, or is about to be, was told of logs that were   *)
(* taken; one that is done has a message for the session.                  *)
LEMMA ToldTaken ==
    ASSUME NEW u, u.open, NEW p, NEW up, NEW down, NEW f, NEW match,
           Situation(u, p, up, down, f, match)
    PROVE  /\ Told(p, down) => u.taken
           /\ p.end = "done" => up # <<>> \/ u.rest # <<>>
<1> DEFINE n == p.step
<1>1. /\ n \in 1..10 /\ (p.end = "done" <=> n = 10)
      /\ down # <<>> => Hears(u, n, Text(Head(down)), f)
      /\ up # <<>> => Asks(u, n, Text(Head(up)), f)
      /\ u.rest # <<>> => Handles(u, n, Head(u.rest), f, match)
      /\ up = <<>> /\ down = <<>> /\ u.rest = <<>> => Rests(u, p, f)
  BY Zenon DEF Situation
<1>2. ASSUME p.end = "done"
      PROVE  At(8, u) /\ (up # <<>> \/ u.rest # <<>>)
  <2>1. n = 10 /\ n - 2 = 8 /\ n \notin 1..9 /\ n \notin 2..9 /\ n \notin {1, 5, 8} /\ n # 9
    BY <1>1, <1>2
  <2>2. ~Rests(u, p, f)
    BY <1>2, <2>1 DEF Rests
  <2>3. down = <<>>
    BY <1>1, <2>1 DEF Hears
  <2>4. CASE up # <<>>
    BY <1>1, <2>1, <2>4 DEF Asks
  <2>5. CASE u.rest # <<>>
    BY <1>1, <2>1, <2>5 DEF Handles
  <2> QED
    BY <1>1, <2>2, <2>3, <2>4, <2>5
<1>3. ASSUME Confirmed(down)
      PROVE  At(8, u)
  <2>1. down # <<>> /\ Text(Head(down)) = "CONFIRMED"
    BY <1>3 DEF Confirmed, Text
  <2>2. Hears(u, n, "CONFIRMED", f)
    BY <1>1, <2>1
  <2>3. n \in 1..9 /\ "CONFIRMED" = Expects[n] /\ At(n - 1, u)
    BY <2>2 DEF Hears
  <2>4. n = 9 /\ n - 1 = 8
    BY <2>3, ExpectsFacts
  <2> QED
    BY <2>3, <2>4
<1> QED
  BY <1>2, <1>3, LastTaken DEF Told

(* The timer expires, or the client is gone.                               *)
LEMMA LeavesAccords ==
    ASSUME IInv, DInv, AInv, NEW c \in Conns, TimesOut(c) \/ Disconnected(c)
    PROVE  AInv'
<1> DEFINE u == ses[c]
           s == ses'[c]
           p == prog[c]
           y == crypt[c]
           r == reading[c]
           f == flaws[c]
           late == f \cup {"late"}
           e == <<>>
           up == toServer[c]
           down == toClient[c]
           match == KeysMatch(c)
           signer == provider.signer
<1>1. /\ Good(u) /\ u \in Sessions
      /\ Agree(u, p, y, r, up, down, f, match, signer)
  BY OneAccord
<1>2. /\ prog' = prog /\ crypt' = crypt /\ provider' = provider /\ reading' = reading
      /\ toClient' = toClient
  BY DEF TimesOut, Disconnected
<1>3. u.open /\ u.rest = <<>> /\ u.posted = <<>>
  BY DEF TimesOut, Disconnected, RequestTimedOut, PeerDisconnects, Ready, InLoop
<1>4. u.part \in Parts /\ u.reports = <<>>
  BY <1>1, <1>3 DEF Good, Listens, Pending, Over, Gone
<1>5. PICK v \in {u, [u EXCEPT !.open = FALSE]} : Becomes(c, Finished(v, FALSE))
  BY DEF TimesOut, Disconnected, RequestTimedOut, PeerDisconnects
<1>6. /\ v \in Sessions /\ v.part = u.part /\ v.posted = u.posted /\ v.reports = u.reports
      /\ v.taken = u.taken
  <2>1. CASE v = u
    BY <1>1, <2>1
  <2>2. CASE v = [u EXCEPT !.open = FALSE]
    <3>1. v \in Sessions
      BY <1>1, <2>2, Zenon DEF Sessions
    <3> QED
      BY <1>1, <2>2, <3>1 DEF Sessions
  <2> QED
    BY <1>5, <2>1, <2>2
<1>7. Shut(v, FALSE, Finished(v, FALSE))
  BY <1>3, <1>4, <1>6, FinishedShuts
<1>8. s = Finished(v, FALSE) /\ \A d \in Conns : d # c => ses'[d] = ses[d]
  BY <1>5, BecomesOne
<1>9. ~s.open /\ s.taken = u.taken /\ \A i \in DOMAIN s.reports : s.reports[i] = FALSE
  BY <1>6, <1>7, <1>8, Zenon DEF Shut
<1>10. /\ HasKey(p) /\ Situation(u, p, up, down, f, match) /\ Fate(u, p, down, f, match)
  BY <1>1, Zenon DEF Agree
<1>11. Told(p, down) => s.taken
  BY <1>3, <1>9, <1>10, ToldTaken
<1>12. \A i \in DOMAIN s.reports : ~s.reports[i]
  BY <1>9
<1>13. ASSUME NEW g, NEW w, p.torn => g # {}, "late" \in g \/ ~Told(p, down), ~(match /\ g = {}),
              Sets(flaws, flaws', c, g), Sets(toServer, toServer', c, w)
       PROVE  AInv'
  <2>1. Fate(s, p, down, g, match)
    BY <1>11, <1>12, <1>13, Zenon DEF Fate
  <2>2. Agree(s, p, y, r, w, down, g, match, signer)
    BY <1>9, <1>10, <2>1, ClosedAgrees
  <2>3. /\ Sets(prog, prog', c, p) /\ Sets(crypt, crypt', c, y) /\ Sets(reading, reading', c, r)
        /\ Sets(toClient, toClient', c, down)
    BY <1>2 DEF Sets
  <2> QED
    BY <1>2, <1>8, <1>13, <2>2, <2>3, LocalAccord
<1>14. CASE TimesOut(c)
  <2>1. Sets(flaws, flaws', c, late) /\ Sets(toServer, toServer', c, up)
    BY <1>14 DEF TimesOut, Sets
  <2>2. "late" \in late /\ late # {}
    OBVIOUS
  <2> HIDE DEF late
  <2> QED
    BY <1>13, <2>1, <2>2
<1>15. CASE Disconnected(c)
  <2>1. Sets(flaws, flaws', c, f) /\ Sets(toServer, toServer', c, e)
    BY <1>15 DEF Disconnected, Sets
  <2>2. p.end = "gaveUp"
    <3>1. p.end = "gaveUp" \/ (p.end = "done" /\ up = <<>>)
      BY <1>15 DEF Disconnected
    <3>2. ~(p.end = "done" /\ up = <<>>)
      BY <1>3, <1>10, ToldTaken
    <3> QED
      BY <3>1, <3>2
  <2>3. ~Told(p, down)
    BY <2>2 DEF Told
  <2>4. (p.torn => f # {}) /\ ~(match /\ f = {})
    BY <1>10, <2>2, Zenon DEF Fate
  <2> HIDE DEF e
  <2> QED
    BY <1>13, <2>1, <2>3, <2>4
<1> QED
  BY <1>14, <1>15

(* Nothing changes but what no client sees.                                *)
LEMMA NobodyActs ==
    ASSUME AInv, UNCHANGED ends, \A c \in Conns : Settles(ses[c], ses'[c])
    PROVE  AInv'
<1>1. /\ prog' = prog /\ crypt' = crypt /\ toServer' = toServer /\ toClient' = toClient
      /\ provider' = provider /\ reading' = reading /\ flaws' = flaws
  BY DEF ends
<1>2. ASSUME NEW c \in Conns PROVE Accord(c)'
  <2>1. Accord(c)
    BY DEF AInv
  <2>2. KeysMatch(c)' = KeysMatch(c)
    BY <1>1 DEF KeysMatch
  <2>3. Agree(ses'[c], prog[c], crypt[c], reading[c], toServer[c], toClient[c], flaws[c],
              KeysMatch(c), provider.signer)
    BY <2>1, SettlesAgrees DEF Accord
  <2> QED
    BY <1>1, <2>2, <2>3, Zenon DEF Accord
<1>3. OneKey'
  BY <1>1 DEF AInv, OneKey
<1> QED
  BY <1>1, <1>2, <1>3, Zenon DEF AInv

(* ConnectionManager::close, the end of the thread, or nothing at all.     *)
LEMMA QuietAccords ==
    ASSUME IInv, AInv,
           ((Close \/ EndThread) /\ UNCHANGED ends) \/ UNCHANGED dialogue
    PROVE  AInv'
<1> SUFFICES ASSUME NEW c \in Conns PROVE Settles(ses[c], ses'[c])
  BY NobodyActs DEF dialogue, ends
<1> DEFINE u == ses[c]
           s == ses'[c]
           e == <<>>
           t == [u EXCEPT !.posted = e]
<1>1. u \in Sessions
  BY DEF IInv, Good
<1>2. s = u \/ s = t
  BY DEF Close, EndThread, dialogue, vars, IInv
<1> HIDE DEF e
<1>3. /\ t.open = u.open /\ t.rest = u.rest /\ t.sealed = u.sealed /\ t.taken = u.taken
      /\ t.reports = u.reports /\ t.part = u.part /\ t.connected = u.connected
      /\ t.state = u.state /\ t.module = u.module
  BY <1>1 DEF Sessions
<1> HIDE DEF t
<1>4. Settles(u, t) /\ Settles(u, u)
  BY <1>3, SameSettles
<1> QED
  BY <1>2, <1>4

(***************************************************************************)
(* The steps of the client                                                 *)
(***************************************************************************)
(* GaveUp changes nothing else of the program.                             *)
LEMMA GaveUpFields ==
    ASSUME NEW p, IsProgram(p)
    PROVE  /\ GaveUp(p).step = p.step /\ GaveUp(p).end = "gaveUp" /\ GaveUp(p).file = p.file
           /\ GaveUp(p).rsa = p.rsa /\ GaveUp(p).aes = p.aes /\ GaveUp(p).torn = p.torn
BY DEF GaveUp, IsProgram

(* A client may give up whatever is under way, if there is a reason for it.*)
LEMMA GivesUpAgrees ==
    ASSUME NEW s, NEW p, IsProgram(p), p.end = "no",
           NEW y, NEW r, NEW up, NEW down, NEW f, NEW match, NEW signer,
           Agree(s, p, y, r, up, down, f, match, signer),
           NEW g, f \subseteq g, ~(match /\ g = {})
    PROVE  Agree(s, GaveUp(p), y, r, up, <<>>, g, match, signer)
<1> DEFINE q == GaveUp(p)
           n == p.step
           e == <<>>
<1>1. /\ q.step = n /\ q.end = "gaveUp" /\ q.file = p.file /\ q.rsa = p.rsa
      /\ q.aes = p.aes /\ q.torn = p.torn
  BY GaveUpFields
<1> HIDE DEF q
<1>2. /\ HasKey(p) /\ Situation(s, p, up, down, f, match)
      /\ Sealing(s, p, y, r, up, down, signer) /\ Fate(s, p, down, f, match)
  BY Zenon DEF Agree
<1>3. (f # {} => g # {}) /\ ("noRoute" \in f => "noRoute" \in g)
  OBVIOUS
<1>4. HasKey(q)
  BY <1>1, <1>2, Zenon DEF HasKey
<1>5. Situation(s, q, up, e, g, match)
  <2> SUFFICES ASSUME s.open PROVE Situation(s, q, up, e, g, match)
    BY Zenon DEF Situation
  <2>1. /\ n \in 1..10 /\ (p.end = "done" <=> n = 10)
        /\ down # <<>> => Hears(s, n, Text(Head(down)), f)
        /\ up # <<>> => Asks(s, n, Text(Head(up)), f)
        /\ s.rest # <<>> => Handles(s, n, Head(s.rest), f, match)
        /\ up = <<>> /\ down = <<>> /\ s.rest = <<>> => Rests(s, p, f)
    BY <1>2, Zenon DEF Situation
  <2>2. q.end = "done" <=> q.step = 10
    BY <1>1, <2>1
  <2>3. \A k : Asks(s, n, k, f) => Asks(s, n, k, g)
    BY <1>3, Zenon DEF Asks
  <2>4. \A k : Handles(s, n, k, f, match) => Handles(s, n, k, g, match)
    BY <1>3, Zenon DEF Handles
  <2>5. \A k : Hears(s, n, k, f) => Rests(s, q, g)
    BY <1>1, Zenon DEF Hears, Rests
  <2>6. Rests(s, p, f) => Rests(s, q, g)
    <3>1. p.end # "gaveUp"
      OBVIOUS
    <3> QED
      BY <1>1, <1>3, <3>1, Zenon DEF Rests
  <2> QED
    BY <1>1, <2>1, <2>2, <2>3, <2>4, <2>5, <2>6, Zenon DEF Situation
<1>6. Sealing(s, q, y, r, up, e, signer)
  <2>1. InChain(p, y, up, down) => InChain(q, y, up, e)
    BY <1>1, Zenon DEF InChain
  <2>2. BeforeSeal(s, p, r, up, down, signer) => BeforeSeal(s, q, r, up, e, signer)
    BY <1>1, Zenon DEF BeforeSeal
  <2> QED
    BY <1>2, <2>1, <2>2, Zenon DEF Sealing
<1>7. Fate(s, q, e, g, match)
  <2>1. ~Told(q, e)
    BY <1>1 DEF Told
  <2>2. p.end # "done"
    OBVIOUS
  <2> QED
    BY <1>1, <1>2, <1>3, <2>1, <2>2, Zenon DEF Fate
<1> QED
  BY <1>4, <1>5, <1>6, <1>7, Zenon DEF Agree, q, e

(* A client connects, or cannot.                                           *)
LEMMA ConnectAccords ==
    ASSUME IInv, DInv, AInv, NEW c \in Conns, Connect(c)
    PROVE  AInv'
<1> DEFINE u == ses[c]
           s == ses'[c]
           p == prog[c]
           y == crypt[c]
           r == reading[c]
           f == flaws[c]
           g == f \cup {"unconnected"}
           e == <<>>
           match == KeysMatch(c)
           signer == provider.signer
<1>1. /\ Carries(u, p, toServer[c], toClient[c]) /\ IsProgram(p)
      /\ Agree(u, p, y, r, toServer[c], toClient[c], f, match, signer)
      /\ p.step = 0 /\ p.end = "no"
  BY OneAccord DEF Connect
<1>2. /\ provider' = provider /\ crypt' = crypt /\ reading' = reading
      /\ toServer' = toServer /\ toClient' = toClient
  BY DEF Connect
<1>3. /\ Sets(crypt, crypt', c, y) /\ Sets(reading, reading', c, r)
      /\ Sets(toServer, toServer', c, toServer[c]) /\ Sets(toClient, toClient', c, toClient[c])
  BY <1>2 DEF Sets
<1>4. /\ HasKey(p) /\ Situation(u, p, toServer[c], toClient[c], f, match)
      /\ Fate(u, p, toClient[c], f, match)
  BY <1>1, Zenon DEF Agree
<1>5. u = NoSession => toServer[c] = e /\ toClient[c] = e
  <2>1. u = NoSession => u.part = "idle"
    BY DEF NoSession
  <2> QED
    BY <1>1, <2>1 DEF Carries
<1>6. CASE /\ NewConnectionArrived(c)
           /\ prog' = [prog EXCEPT ![c].step = 1] /\ flaws' = flaws
  <2> DEFINE q == [p EXCEPT !.step = 1]
             w == NewSession
  <2>1. Sets(prog, prog', c, q) /\ Sets(flaws, flaws', c, f)
    BY <1>6 DEF Sets
  <2>2. q.step = 1 /\ q.end = "no" /\ q.file = p.file /\ q.torn = p.torn
    BY <1>1 DEF IsProgram
  <2> HIDE DEF q
  <2>3. u = NoSession /\ ses' = [ses EXCEPT ![c] = w]
    BY <1>6 DEF NewConnectionArrived, Arrives
  <2>4. /\ w.part = "none" /\ w.open /\ ~w.sealed /\ ~w.connected /\ w.rest = <<>>
        /\ w.reports = <<>>
    BY DEF NewSession, NoSession
  <2> HIDE DEF w
  <2>5. s = w /\ \A d \in Conns : d # c => ses'[d] = ses[d]
    BY <2>3 DEF IInv
  <2>6. toServer[c] = e /\ toClient[c] = e
    BY <1>5, <2>3
  <2>7. HasKey(q)
    BY <2>2 DEF HasKey
  <2>8. Situation(w, q, e, e, f, match)
    <3>1. At(0, w)
      BY <2>4 DEF At
    <3>2. Rests(w, q, f)
      BY <2>2, <2>4, <3>1 DEF Rests
    <3> QED
      BY <2>2, <2>4, <3>2 DEF Situation
  <2>9. Sealing(w, q, y, r, e, e, signer)
    <3>1. BeforeSeal(w, q, r, e, e, signer)
      BY <2>2, <2>4 DEF BeforeSeal
    <3> QED
      BY <2>4, <3>1 DEF Sealing
  <2>10. Fate(w, q, e, f, match)
    <3>1. DOMAIN w.reports = {}
      BY <2>4
    <3>2. q.end # "gaveUp"
      BY <2>2
    <3> QED
      BY <1>4, <2>2, <2>4, <3>1, <3>2, Zenon DEF Fate
  <2>11. Agree(s, q, y, r, toServer[c], toClient[c], f, match, signer)
    BY <2>5, <2>6, <2>7, <2>8, <2>9, <2>10, Zenon DEF Agree
  <2> QED
    BY <1>2, <1>3, <2>1, <2>2, <2>5, <2>11, LocalAccord
<1>7. CASE /\ NotConnectedSocket(c) \/ UNCHANGED vars
           /\ prog' = [prog EXCEPT ![c] = GaveUp(@)]
           /\ flaws' = [flaws EXCEPT ![c] = @ \cup {"unconnected"}]
  <2> DEFINE q == GaveUp(p)
  <2>1. Sets(prog, prog', c, q) /\ Sets(flaws, flaws', c, g)
    BY <1>7 DEF Sets
  <2>2. /\ q.step = 0 /\ q.end = "gaveUp" /\ q.file = p.file /\ q.torn = p.torn
    BY <1>1, GaveUpFields
  <2>3. g # {} /\ ("noRoute" \in f => "noRoute" \in g)
    OBVIOUS
  <2> HIDE DEF q, g
  <2>4. ~Told(q, toClient[c]) /\ HasKey(q)
    BY <2>2 DEF Told, HasKey
  <2>5. ~s.open /\ (s.reports = u.reports \/ s.reports = <<>>)
        /\ \A d \in Conns : d # c => ses'[d] = ses[d]
    <3>1. CASE NotConnectedSocket(c)
      <4> DEFINE w == [NoSession EXCEPT !.part = "refused"]
      <4>1. Becomes(c, w)
        BY <3>1 DEF NotConnectedSocket
      <4>2. ~w.open /\ w.reports = <<>>
        BY DEF NoSession
      <4> HIDE DEF w
      <4> QED
        BY <4>1, <4>2, BecomesOne
    <3>2. CASE UNCHANGED vars
      <4>1. ses' = ses
        BY <3>2 DEF vars
      <4>2. ~u.open
        BY <1>1, <1>4 DEF Situation
      <4> QED
        BY <4>1, <4>2
    <3> QED
      BY <1>7, <3>1, <3>2
  <2>6. Fate(s, q, toClient[c], g, match)
    <3>1. \A i \in DOMAIN s.reports : s.reports[i] => "noRoute" \in g
      <4>1. CASE s.reports = u.reports
        BY <1>1, <1>4, <2>3, <4>1 DEF Fate
      <4>2. CASE s.reports = <<>>
        BY <4>2
      <4> QED
        BY <2>5, <4>1, <4>2
    <3> QED
      BY <2>3, <2>4, <3>1, Zenon DEF Fate
  <2>7. Agree(s, q, y, r, toServer[c], toClient[c], g, match, signer)
    BY <2>4, <2>5, <2>6, ClosedAgrees
  <2> QED
    BY <1>2, <1>3, <2>1, <2>2, <2>5, <2>7, LocalAccord
<1> QED
  BY <1>6, <1>7 DEF Connect

(* What a client reads is the message that it expects, and then the        *)
(* session is where it is expected to be.                                  *)
LEMMA ReadsFacts ==
    ASSUME IInv, DInv, AInv, NEW c \in Conns, NEW n \in 1..9, Reads(c, n)
    PROVE  LET m == Head(toClient[c])
           IN  /\ toClient[c] = <<m>> /\ toServer[c] = <<>>
               /\ Text(m) = Expects[n] /\ (n = 9 => Confirmed(<<m>>))
               /\ prog[c].step = n /\ prog[c].end = "no" /\ ~prog[c].torn
               /\ ses[c].open => ses[c].rest = <<>> /\ At(n - 1, ses[c])
<1> DEFINE u == ses[c]
           p == prog[c]
           m == Head(toClient[c])
           down == toClient[c]
<1>1. /\ Carries(u, p, toServer[c], down)
      /\ Agree(u, p, crypt[c], reading[c], toServer[c], down, flaws[c], KeysMatch(c),
               provider.signer)
  BY OneAccord
<1>2. p.step = n /\ p.end = "no" /\ ~p.torn /\ down # <<>> /\ IsExpected(c, m)
  BY DEF Reads, Waits
<1>3. down = <<m>> /\ toServer[c] = <<>>
  <2>1. toServer[c] = <<>> /\ AtMostOne(down)
    BY <1>1, <1>2 DEF Carries
  <2>2. PICK message : down = <<message>>
    BY <1>2, <2>1 DEF AtMostOne
  <2> QED
    BY <2>1, <2>2
<1>4. Text(m) = Expects[n]
  <2> HIDE DEF m, p
  <2> QED
    BY <1>2 DEF IsExpected, Text, p
<1>5. n = 9 => Confirmed(<<m>>)
  <2> SUFFICES ASSUME n = 9 PROVE Confirmed(<<m>>)
    OBVIOUS
  <2>1. m.lock = "aes" /\ m.text.plain = Expects[9]
    <3> HIDE DEF m
    <3> QED
      BY <1>2 DEF IsExpected
  <2>2. Expects[9] = "CONFIRMED"
    BY DEF Expects
  <2> HIDE DEF m
  <2> QED
    BY <2>1, <2>2 DEF Confirmed
<1>6. ASSUME u.open PROVE u.rest = <<>> /\ At(n - 1, u)
  <2>1. u.rest = <<>>
    BY <1>1, <1>2, <1>6 DEF Carries
  <2>2. Hears(u, n, Expects[n], flaws[c])
    <3> HIDE DEF u, p, m, down
    <3> QED
      BY <1>1, <1>2, <1>4, <1>6, Zenon DEF Agree, Situation, m, down
  <2>3. Expects[n] # "NACK"
    BY ExpectsFacts
  <2> QED
    BY <2>1, <2>2, <2>3, Zenon DEF Hears
<1> QED
  BY <1>2, <1>3, <1>4, <1>5, <1>6

(* A client that has got the message it expects, and says the next one of  *)
(* the script.                                                             *)
LEMMA AnswersAgree ==
    ASSUME NEW n \in 1..9, NEW s, NEW p, p.step = n, p.end = "no", NEW y, NEW r,
           NEW was, n = 9 => Confirmed(was), NEW f, NEW match, NEW signer,
           Fate(s, p, was, f, match),
           s.open => s.rest = <<>> /\ At(n - 1, s),
           NEW q, q.step = n + 1, q.end = (IF n = 9 THEN "done" ELSE "no"), HasKey(q),
           NEW k \in Says[n], NEW m, Text(m) = k,
           NEW g, f \subseteq g, k \in Flawed => g # {}, q.torn => g # {},
           s.open => IF s.sealed THEN InChain(q, y, <<m>>, <<>>)
                     ELSE BeforeSeal(s, q, r, <<m>>, <<>>, signer)
    PROVE  Agree(s, q, y, r, <<m>>, <<>>, g, match, signer)
<1> DEFINE up == <<m>>
           e == <<>>
<1>1. up # e /\ Head(up) = m /\ e = <<>> /\ ~(e # e) /\ ~Confirmed(e)
  BY DEF Confirmed
<1>2. (f # {} => g # {}) /\ ("noRoute" \in f => "noRoute" \in g) /\ ("late" \in f => "late" \in g)
  OBVIOUS
<1>3. n + 1 \in 2..10 /\ n + 1 \in 1..10 /\ (n + 1) - 1 = n /\ (n + 1) - 2 = n - 1
      /\ (n = 9 <=> n + 1 = 10)
  OBVIOUS
<1>4. Situation(s, q, up, e, g, match)
  <2> SUFFICES ASSUME s.open PROVE Situation(s, q, up, e, g, match)
    BY Zenon DEF Situation
  <2>1. Asks(s, n + 1, k, g)
    BY <1>3 DEF Asks
  <2>2. q.end = "done" <=> q.step = 10
    BY <1>3
  <2>3. q.step \in 1..10 /\ Asks(s, q.step, Text(m), g)
    BY <1>3, <2>1
  <2> HIDE DEF up, e
  <2> QED
    BY <1>1, <2>2, <2>3, Zenon DEF Situation
<1>5. Sealing(s, q, y, r, up, e, signer)
  BY Zenon DEF Sealing
<1>6. Fate(s, q, e, g, match)
  <2>1. Told(q, e) => Told(p, was)
    <3>1. CASE n = 9
      BY <3>1 DEF Told
    <3>2. CASE n # 9
      BY <1>1, <3>2 DEF Told
    <3> QED
      BY <3>1, <3>2
  <2>2. p.end # "done" /\ q.end # "gaveUp"
    OBVIOUS
  <2>3. g = {} => f = {}
    OBVIOUS
  <2>4. /\ ~s.open /\ Told(p, was) => s.taken \/ s.part = "deleted"
        /\ \A i \in DOMAIN s.reports :
              IF s.reports[i] THEN "noRoute" \in f ELSE "late" \in f \/ ~Told(p, was)
        /\ match /\ f = {} => (\A i \in DOMAIN s.reports : s.reports[i])
                              /\ ~(~s.open /\ s.part # "idle")
    BY <2>2, Zenon DEF Fate
  <2> QED
    BY <1>2, <2>1, <2>2, <2>3, <2>4, Zenon DEF Fate
<1> QED
  BY <1>4, <1>5, <1>6, Zenon DEF Agree, up, e

(* The step of the client that ends with a write.                          *)
LEMMA WritesAccords ==
    ASSUME IInv, DInv, AInv, NEW c \in Conns, NEW n \in 1..9, Reads(c, n),
           NEW q, q.step = n + 1, q.end = (IF n = 9 THEN "done" ELSE "no"), HasKey(q),
           q.file = prog[c].file,
           NEW k \in Says[n], NEW m, Text(m) = k,
           NEW g, flaws[c] \subseteq g, k \in Flawed => g # {}, q.torn => g # {},
           ses[c].open => IF ses[c].sealed THEN InChain(q, crypt[c], <<m>>, <<>>)
                          ELSE BeforeSeal(ses[c], q, reading[c], <<m>>, <<>>, provider.signer),
           prog' = [prog EXCEPT ![c] = q],
           toServer' = [toServer EXCEPT ![c] = Append(@, m)],
           toClient' = [toClient EXCEPT ![c] = <<>>],
           flaws' = [flaws EXCEPT ![c] = g],
           UNCHANGED <<vars, provider, crypt, reading>>
    PROVE  AInv'
<1> DEFINE s == ses[c]
           p == prog[c]
           y == crypt[c]
           r == reading[c]
           f == flaws[c]
           was == toClient[c]
           up == <<m>>
           e == <<>>
           match == KeysMatch(c)
           signer == provider.signer
<1>1. Fate(s, p, was, f, match)
  BY OneAccord, Zenon DEF Agree
<1>2. /\ toServer[c] = <<>> /\ (n = 9 => Confirmed(was)) /\ p.step = n /\ p.end = "no"
      /\ s.open => s.rest = <<>> /\ At(n - 1, s)
  BY ReadsFacts
<1>3. Agree(s, q, y, r, up, e, g, match, signer)
  <2> HIDE DEF s, p, y, r, f, was, match, signer
  <2> QED
    BY <1>1, <1>2, AnswersAgree DEF s, y, r, f, signer
<1>4. Append(toServer[c], m) = up
  BY <1>2
<1>5. /\ Sets(prog, prog', c, q) /\ Sets(crypt, crypt', c, y) /\ Sets(reading, reading', c, r)
      /\ Sets(flaws, flaws', c, g) /\ Sets(toClient, toClient', c, e)
      /\ Sets(toServer, toServer', c, up)
  BY <1>4 DEF Sets
<1>6. ses' = ses /\ provider' = provider
  BY DEF vars
<1> HIDE DEF e, up
<1> QED
  BY <1>3, <1>5, <1>6, LocalAccord

(* The step that ends with return -1.                                      *)
LEMMA ReturnsAccords ==
    ASSUME IInv, DInv, AInv, NEW c \in Conns, Waits(c), NEW flaw, Returns1(c, flaw),
           ~(KeysMatch(c) /\ flaws[c] \cup flaw = {})
    PROVE  AInv'
<1> DEFINE s == ses[c]
           p == prog[c]
           q == GaveUp(p)
           y == crypt[c]
           r == reading[c]
           f == flaws[c]
           g == f \cup flaw
           up == toServer[c]
           e == <<>>
           match == KeysMatch(c)
           signer == provider.signer
<1>1. IsProgram(p) /\ Agree(s, p, y, r, up, toClient[c], f, match, signer) /\ p.end = "no"
  BY OneAccord DEF Waits
<1>2. f \subseteq g
  OBVIOUS
<1>3. Agree(s, q, y, r, up, e, g, match, signer)
  <2> HIDE DEF s, p, y, r, f, up, match, signer
  <2> QED
    BY <1>1, <1>2, GivesUpAgrees DEF f, match
<1>4. q.file = p.file
  BY <1>1, GaveUpFields
<1>5. /\ Sets(prog, prog', c, q) /\ Sets(crypt, crypt', c, y) /\ Sets(reading, reading', c, r)
      /\ Sets(flaws, flaws', c, g) /\ Sets(toClient, toClient', c, e)
      /\ Sets(toServer, toServer', c, up)
  BY DEF Returns1, Sets
<1>6. ses' = ses /\ provider' = provider
  BY DEF Returns1, vars
<1> HIDE DEF e, q, g
<1> QED
  BY <1>3, <1>4, <1>5, <1>6, LocalAccord

(* The program after a step that ends with a write.                        *)
ProgramFields == {"step", "end", "file", "rsa", "aes", "torn"}

LEMMA WritesSets ==
    ASSUME NEW c \in Conns, NEW b, DOMAIN b = ProgramFields, NEW k, NEW m, Writes(c, b, k, m)
    PROVE  \E q : /\ q.step = b.step + 1 /\ q.end = b.end /\ q.file = b.file /\ q.rsa = b.rsa
                  /\ q.aes = b.aes /\ q.torn = b.torn
                  /\ prog' = [prog EXCEPT ![c] = q]
                  /\ toServer' = [toServer EXCEPT ![c] = Append(@, m)]
                  /\ toClient' = [toClient EXCEPT ![c] = <<>>]
                  /\ flaws' = [flaws EXCEPT ![c] = flaws[c] \cup ({k} \cap Flawed)]
                  /\ UNCHANGED <<vars, provider, crypt, reading>>
<1> DEFINE n == b.step + 1
           q == [b EXCEPT !.step = n]
<1>1. prog' = [prog EXCEPT ![c] = q]
  BY DEF Writes
<1> HIDE DEF n
<1>2. /\ q.step = n /\ q.end = b.end /\ q.file = b.file /\ q.rsa = b.rsa
      /\ q.aes = b.aes /\ q.torn = b.torn
  BY DEF ProgramFields
<1> HIDE DEF q
<1> QED
  BY <1>1, <1>2, Zenon DEF Writes, n

(* A step of the client before the connection is sealed.                   *)
LEMMA ClearAccords ==
    ASSUME IInv, DInv, AInv, NEW c \in Conns, NEW n \in 1..4, Reads(c, n),
           NEW b, DOMAIN b = ProgramFields, b.step = n, b.end = "no",
           b.file = prog[c].file, b.torn = prog[c].torn,
           n >= 2 => b.rsa.encryptor = b.file /\ b.file \in Pairs,
           n = 4 => \E key \in Suitable : Loaded(b.aes, key),
           NEW k \in Says[n], NEW m, m.kind = k,
           IF n = 1 THEN m.lock = "none"
           ELSE m.lock = "rsa" /\ m.for = b.rsa.encryptor /\ (n = 4 => m.key = b.aes.key),
           Writes(c, b, k, m)
    PROVE  AInv'
<1> DEFINE s == ses[c]
           f == flaws[c]
           g == f \cup ({k} \cap Flawed)
           up == <<m>>
           e == <<>>
<1>1. PICK q : /\ q.step = b.step + 1 /\ q.end = b.end /\ q.file = b.file /\ q.rsa = b.rsa
               /\ q.aes = b.aes /\ q.torn = b.torn
               /\ prog' = [prog EXCEPT ![c] = q]
               /\ toServer' = [toServer EXCEPT ![c] = Append(@, m)]
               /\ toClient' = [toClient EXCEPT ![c] = <<>>]
               /\ flaws' = [flaws EXCEPT ![c] = g]
               /\ UNCHANGED <<vars, provider, crypt, reading>>
  BY WritesSets
<1>2. n \in 1..9 /\ n # 9 /\ n - 1 < 4 /\ n + 1 <= 5 /\ (n = 4 <=> n + 1 = 5)
      /\ (n = 1 <=> n + 1 = 2) /\ (n + 1 >= 3 => n >= 2)
  OBVIOUS
<1>3. /\ prog[c].step = n /\ ~prog[c].torn
      /\ s.open => s.rest = <<>> /\ At(n - 1, s)
  BY <1>2, ReadsFacts
<1>4. q.step = n + 1 /\ q.end = (IF n = 9 THEN "done" ELSE "no")
  BY <1>1, <1>2
<1>5. HasKey(q)
  BY <1>1, <1>2, <1>4, Zenon DEF HasKey
<1>6. f \subseteq g /\ (k \in Flawed => g # {}) /\ (q.torn => g # {})
  BY <1>1, <1>3
<1>7. m.lock # "aes" /\ Text(m) = k
  BY DEF Text
<1>8. s.open => IF s.sealed THEN InChain(q, crypt[c], <<m>>, <<>>)
                ELSE BeforeSeal(s, q, reading[c], <<m>>, <<>>, provider.signer)
  <2> SUFFICES ASSUME s.open
               PROVE  /\ ~s.sealed
                      /\ BeforeSeal(s, q, reading[c], <<m>>, <<>>, provider.signer)
    OBVIOUS
  <2>1. ~s.sealed
    BY <1>2, <1>3, AtFacts
  <2>2. up # e /\ Head(up) = m /\ e = <<>> /\ ~(e # e) /\ s.rest = <<>>
    BY <1>3
  <2>3. /\ q.step <= 5 /\ (q.step = 5 => \E key \in Suitable : Loaded(q.aes, key))
        /\ IF q.step = 2 THEN m.lock = "none"
           ELSE m.lock = "rsa" /\ m.for = q.rsa.encryptor /\ (q.step = 5 => m.key = q.aes.key)
    BY <1>1, <1>2, <1>4, Zenon
  <2>4. BeforeSeal(s, q, reading[c], up, e, provider.signer)
    <3> HIDE DEF up, e
    <3> QED
      BY <2>2, <2>3, Zenon DEF BeforeSeal
  <2> QED
    BY <2>1, <2>4
<1> HIDE DEF g
<1>9. q.file = prog[c].file
  BY <1>1
<1> QED
  BY <1>1, <1>2, <1>4, <1>5, <1>6, <1>7, <1>8, <1>9, WritesAccords

(* A step of the client on the sealed connection.                          *)
LEMMA SealsAccords ==
    ASSUME IInv, DInv, AInv, NEW c \in Conns, NEW n \in 5..9, Reads(c, n),
           NEW aes, aes = AfterDecrypt(prog[c].aes, Head(toClient[c]).text),
           NEW k \in Says[n],
           NEW b, DOMAIN b = ProgramFields, b.step = n,
           b.end = (IF n = 9 THEN "done" ELSE "no"), b.file = prog[c].file,
           b.torn = prog[c].torn, b.rsa = prog[c].rsa, b.aes = AfterEncrypt(aes, k),
           Writes(c, b, k, Chained(aes, k))
    PROVE  AInv'
<1> DEFINE s == ses[c]
           p == prog[c]
           y == crypt[c]
           was == toClient[c]
           f == flaws[c]
           m == Chained(aes, k)
           g == f \cup ({k} \cap Flawed)
           up == <<m>>
           e == <<>>
<1>1. PICK q : /\ q.step = b.step + 1 /\ q.end = b.end /\ q.file = b.file /\ q.rsa = b.rsa
               /\ q.aes = b.aes /\ q.torn = b.torn
               /\ prog' = [prog EXCEPT ![c] = q]
               /\ toServer' = [toServer EXCEPT ![c] = Append(@, m)]
               /\ toClient' = [toClient EXCEPT ![c] = <<>>]
               /\ flaws' = [flaws EXCEPT ![c] = g]
               /\ UNCHANGED <<vars, provider, crypt, reading>>
  BY WritesSets
<1>2. n \in 1..9 /\ n - 1 \in 4..8 /\ n - 1 >= 4 /\ n >= 3
  OBVIOUS
<1>3. /\ p.step = n /\ p.end = "no" /\ ~p.torn /\ toServer[c] = <<>>
      /\ was = <<Head(was)>>
      /\ s.open => s.rest = <<>> /\ At(n - 1, s)
  BY <1>2, ReadsFacts
<1>4. q.step = n + 1 /\ q.end = (IF n = 9 THEN "done" ELSE "no")
  BY <1>1
<1>5. HasKey(p) /\ Sealing(s, p, y, reading[c], e, was, provider.signer)
  BY <1>3, OneAccord, Zenon DEF Agree
<1>6. HasKey(q)
  <2>1. p.rsa.encryptor = p.file /\ p.file \in Pairs
    BY <1>2, <1>3, <1>5 DEF HasKey
  <2> QED
    BY <1>1, <2>1, Zenon DEF HasKey
<1>7. f \subseteq g /\ (k \in Flawed => g # {}) /\ (q.torn => g # {})
  BY <1>1, <1>3
<1>8. Text(m) = k /\ m.lock = "aes"
  BY DEF Text, Chained, AesEncrypt, Message
<1>9. IsAes(p.aes)
  BY OneConnection DEF IsProgram
<1>10. s.open => IF s.sealed THEN InChain(q, y, <<m>>, <<>>)
                 ELSE BeforeSeal(s, q, reading[c], <<m>>, <<>>, provider.signer)
  <2> SUFFICES ASSUME s.open
               PROVE  s.sealed /\ InChain(q, y, <<m>>, <<>>)
    OBVIOUS
  <2>1. s.sealed
    BY <1>2, <1>3, AtFacts
  <2>2. InChain(p, y, e, was)
    BY <1>5, <2>1, Zenon DEF Sealing
  <2>3. /\ p.aes.key \in Suitable /\ y.key = p.aes.key /\ p.aes.iv # NoKey /\ y.iv # NoKey
        /\ Coupled(p.aes.enc, y.dec, e) /\ Coupled(y.enc, p.aes.dec, was)
    <3>1. p.end # "gaveUp"
      BY <1>3
    <3> QED
      BY <2>2, <3>1, Zenon DEF InChain
  <2>4. was # <<>>
    BY <1>3
  <2>5. /\ aes.key = p.aes.key /\ aes.iv = p.aes.iv /\ aes.enc = p.aes.enc
        /\ Coupled(y.enc, aes.dec, <<>>)
    BY <1>9, <2>3, <2>4, ReaderCatchesUp
  <2>6. IsAes(aes)
    BY <1>9, AesTyped
  <2>7. /\ q.aes.key = aes.key /\ q.aes.iv = aes.iv /\ q.aes.dec = aes.dec
        /\ Coupled(q.aes.enc, y.dec, up)
    <3>1. Coupled(aes.enc, y.dec, <<>>)
      BY <2>3, <2>5
    <3>2. q.aes = AfterEncrypt(aes, k)
      BY <1>1
    <3> QED
      BY <2>6, <3>1, <3>2, WriterAhead
  <2>8. InChain(q, y, up, e)
    <3>1. Coupled(y.enc, q.aes.dec, e)
      BY <2>5, <2>7
    <3>2. ~(e # <<>>)
      OBVIOUS
    <3> HIDE DEF up, e
    <3> QED
      BY <2>3, <2>5, <2>7, <3>1, <3>2, Zenon DEF InChain
  <2> QED
    BY <2>1, <2>8
<1> HIDE DEF g, m
<1>11. q.file = prog[c].file
  BY <1>1
<1> QED
  BY <1>1, <1>2, <1>4, <1>6, <1>7, <1>8, <1>10, <1>11, WritesAccords

(* Nothing goes wrong without a reason: the session is there, as long as   *)
(* its client waits.                                                       *)
LEMMA StaysOpen ==
    ASSUME IInv, DInv, AInv, NEW c \in Conns, Waits(c), KeysMatch(c), flaws[c] = {}
    PROVE  ses[c].open /\ ~prog[c].torn
<1> DEFINE s == ses[c]
           p == prog[c]
           f == flaws[c]
<1>1. Carries(s, p, toServer[c], toClient[c]) /\ Fate(s, p, toClient[c], f, KeysMatch(c))
  BY OneAccord, Zenon DEF Agree
<1>2. p.end # "done" /\ p.step > 0
  BY DEF Waits
<1>3. s.part # "idle"
  BY <1>1, <1>2, Zenon DEF Carries
<1> QED
  BY <1>1, <1>2, <1>3, Zenon DEF Fate

(* A provider signs for the clients that have its key.                     *)
LEMMA SignatureVerifies ==
    ASSUME AInv, NEW c \in Conns, KeysMatch(c)
    PROVE  Verifies(SetVerifyKey(NewSigner, prog[c].file).object, provider.signer.private)
<1> DEFINE key == prog[c].file
           x == SetVerifyKey(NewSigner, key).object
<1>1. key \in Pairs /\ provider.rsa.private # NoKey /\ provider.rsa.decryptor = key
  BY DEF KeysMatch, RsaReads
<1>2. provider.signer.private = key
  BY <1>1 DEF AInv, OneKey
<1>3. key # NoKey
  BY <1>1, KeysAssumption
<1> HIDE DEF key
<1>4. x.public = key /\ x.verifier = key
  BY <1>1, <1>3 DEF SetVerifyKey, Returns, NewSigner
<1> QED
  BY <1>2, <1>3, <1>4 DEF Verifies, key

(* What comes is then what the client expects.                             *)
LEMMA ExpectedComes ==
    ASSUME IInv, DInv, AInv, NEW c \in Conns, Waits(c), KeysMatch(c), flaws[c] = {},
           toClient[c] # <<>>
    PROVE  Reads(c, prog[c].step)
<1> DEFINE s == ses[c]
           p == prog[c]
           y == crypt[c]
           f == flaws[c]
           n == p.step
           up == toServer[c]
           down == toClient[c]
           m == Head(down)
           signer == provider.signer
<1>1. /\ Carries(s, p, up, down) /\ IsProgram(p)
      /\ Situation(s, p, up, down, f, KeysMatch(c))
      /\ Sealing(s, p, y, reading[c], up, down, signer)
  BY OneAccord, Zenon DEF Agree
<1>2. s.open /\ ~p.torn /\ p.end = "no"
  BY StaysOpen DEF Waits
<1>3. n \in 1..9 /\ Text(m) = Expects[n] /\ At(n - 1, s)
  <2>1. Hears(s, n, Text(m), f)
    BY <1>1, <1>2, Zenon DEF Situation
  <2> QED
    BY <2>1, Zenon DEF Hears
<1>4. Len(down) = 1
  BY <1>1, OneMessage DEF Carries
<1>5. IsExpected(c, m)
  <2>1. CASE n < 5
    <3>1. ~s.sealed
      BY <1>3, <2>1, AtFacts
    <3>2. BeforeSeal(s, p, reading[c], up, down, signer)
      BY <1>1, <1>2, <3>1, Zenon DEF Sealing
    <3>3. m.lock = "none" /\ m.signedBy = signer.private
      BY <3>2, Zenon DEF BeforeSeal
    <3>4. m.kind = Expects[n]
      BY <1>3, <3>3 DEF Text
    <3>5. Verifies(SetVerifyKey(NewSigner, p.file).object, m.signedBy)
      BY <3>3, SignatureVerifies
    <3> HIDE DEF m
    <3> QED
      BY <2>1, <3>3, <3>4, <3>5, Zenon DEF IsExpected
  <2>2. CASE ~(n < 5)
    <3>1. s.sealed
      BY <1>3, <2>2, AtFacts
    <3>2. InChain(p, y, up, down)
      BY <1>1, <1>2, <3>1, Zenon DEF Sealing
    <3>3. /\ p.aes.key \in Suitable /\ p.aes.iv # NoKey /\ Coupled(y.enc, p.aes.dec, down)
          /\ m.lock = "aes"
      <4>1. p.end # "gaveUp"
        BY <1>2
      <4> QED
        BY <3>2, <4>1, Zenon DEF InChain
    <3>4. AesReads(p.aes, m.text)
      BY <1>1, <3>3, ReaderCatchesUp DEF IsProgram
    <3>5. m.text.plain = Expects[n]
      BY <1>3, <3>3 DEF Text
    <3> HIDE DEF m
    <3> QED
      BY <2>2, <3>3, <3>4, <3>5, Zenon DEF IsExpected
  <2> QED
    BY <2>1, <2>2
<1> HIDE DEF m
<1> QED
  BY <1>2, <1>4, <1>5 DEF Reads, m

(* The client gives up.                                                    *)
LEMMA FailsAccords ==
    ASSUME IInv, DInv, AInv, NEW c \in Conns,
           Mismatch(c) \/ WaitFails(c) \/ WriteFails(c)
    PROVE  AInv'
<1> DEFINE f == flaws[c]
<1>1. Waits(c)
  BY DEF Mismatch, WaitFails, WriteFails, Reads
<1>2. f = {} <=> f \cup {} = {}
  OBVIOUS
<1>3. ASSUME Returns1(c, {}), ~(KeysMatch(c) /\ f = {}) PROVE AInv'
  <2>1. ~(KeysMatch(c) /\ f \cup {} = {})
    BY <1>3
  <2> QED
    BY <1>1, <1>3, <2>1, ReturnsAccords
<1>4. CASE Mismatch(c)
  <2>1. ~(KeysMatch(c) /\ f = {})
    <3> SUFFICES ASSUME KeysMatch(c), f = {} PROVE FALSE
      OBVIOUS
    <3>1. ~prog[c].torn
      BY <1>1, StaysOpen
    <3>2. toClient[c] # <<>> /\ ~Reads(c, prog[c].step)
      BY <1>4, <3>1 DEF Mismatch
    <3> QED
      BY <1>1, <3>2, ExpectedComes
  <2> QED
    BY <1>3, <1>4, <2>1 DEF Mismatch
<1>5. ASSUME ~ses[c].open, Returns1(c, {}) PROVE AInv'
  BY <1>1, <1>3, <1>5, StaysOpen
<1>6. CASE WaitFails(c)
  <2>1. CASE Returns1(c, {"late"})
    <3>1. ~(KeysMatch(c) /\ f \cup {"late"} = {})
      OBVIOUS
    <3> QED
      BY <1>1, <2>1, <3>1, ReturnsAccords
  <2> QED
    BY <1>5, <1>6, <2>1 DEF WaitFails
<1>7. CASE WriteFails(c)
  BY <1>5, <1>7 DEF WriteFails
<1> QED
  BY <1>4, <1>6, <1>7

(* A read that ends inside a message.                                      *)
LEMMA TornAccords ==
    ASSUME IInv, DInv, AInv, NEW c \in Conns, TornRead(c)
    PROVE  AInv'
<1> DEFINE f == flaws[c]
           g == f \cup {"torn"}
           s == ses[c]
           p == prog[c]
<1>1. Waits(c)
  BY DEF TornRead
<1>2. CASE Returns1(c, {"torn"})
  <2>1. ~(KeysMatch(c) /\ f \cup {"torn"} = {})
    OBVIOUS
  <2> QED
    BY <1>1, <1>2, <2>1, ReturnsAccords
<1>3. CASE /\ Reads(c, 1)
           /\ prog' = [prog EXCEPT ![c].step = 2, ![c].torn = TRUE]
           /\ toServer' = [toServer EXCEPT ![c] = Append(@, InClear("protocol", NoKey))]
           /\ toClient' = [toClient EXCEPT ![c] = <<>>]
           /\ flaws' = [flaws EXCEPT ![c] = @ \cup {"torn"}]
           /\ UNCHANGED <<vars, provider, crypt, reading>>
  <2> DEFINE q == [p EXCEPT !.step = 2, !.torn = TRUE]
             m == InClear("protocol", NoKey)
             up == <<m>>
             e == <<>>
  <2>1. /\ prog' = [prog EXCEPT ![c] = q]
        /\ toServer' = [toServer EXCEPT ![c] = Append(@, m)]
        /\ flaws' = [flaws EXCEPT ![c] = g]
    BY <1>3
  <2>0. PICK n \in 1..9 : n = 1
    OBVIOUS
  <2>11. Reads(c, n)
    BY <1>3, <2>0, Zenon
  <2>12. /\ toClient' = [toClient EXCEPT ![c] = e]
        /\ UNCHANGED <<vars, provider, crypt, reading>>
    BY <1>3
  <2>13. p.end = "no" /\ (s.open => s.rest = <<>> /\ At(n - 1, s))
    BY <2>11, ReadsFacts, Zenon
  <2>2. p.end = "no" /\ (s.open => s.rest = <<>> /\ At(0, s))
    <3>1. n - 1 = 0
      BY <2>0
    <3> QED
      BY <2>13, <3>1, Zenon
  <2>3. q.step = 2 /\ q.end = "no" /\ q.file = p.file
    BY <2>2, OneConnection DEF IsProgram
  <2>4. Text(m) = "protocol" /\ m.lock = "none" /\ "protocol" \in Says[1]
    BY DEF Text, InClear, Says
  <2>5. f \subseteq g /\ g # {}
    OBVIOUS
  <2> HIDE DEF q, m, g
  <2>6. s.open => IF s.sealed THEN InChain(q, crypt[c], <<m>>, <<>>)
                  ELSE BeforeSeal(s, q, reading[c], <<m>>, <<>>, provider.signer)
    <3> SUFFICES ASSUME s.open
                 PROVE  /\ ~s.sealed
                        /\ BeforeSeal(s, q, reading[c], <<m>>, <<>>, provider.signer)
      OBVIOUS
    <3>1. ~s.sealed
      BY <2>2, AtFacts
    <3>2. up # e /\ Head(up) = m /\ e = <<>> /\ ~(e # e) /\ s.rest = <<>>
      BY <2>2
    <3>3. q.step <= 5 /\ q.step # 5
      BY <2>3
    <3>4. BeforeSeal(s, q, reading[c], up, e, provider.signer)
      <4> HIDE DEF up, e
      <4> QED
        BY <2>3, <2>4, <3>2, <3>3, Zenon DEF BeforeSeal
    <3> QED
      BY <3>1, <3>4
  <2>7. HasKey(q)
    BY <2>3 DEF HasKey
  <2>8. q.step = n + 1 /\ q.end = (IF n = 9 THEN "done" ELSE "no")
    BY <2>0, <2>3
  <2>9. PICK k : k = "protocol"
    OBVIOUS
  <2>10. k \in Says[n] /\ Text(m) = k
    BY <2>0, <2>4, <2>9
  <2> QED
    BY <2>11, <2>12, <2>1, <2>3, <2>5, <2>6, <2>7, <2>8, <2>10, WritesAccords, Zenon
<1> QED
  BY <1>2, <1>3 DEF TornRead

(* What the client that acts is like.                                      *)
LEMMA ActsFacts ==
    ASSUME IInv, DInv, AInv, NEW c \in Conns, NEW n \in 1..9, Reads(c, n)
    PROVE  /\ DOMAIN prog[c] = ProgramFields /\ prog[c].step = n /\ prog[c].end = "no"
           /\ HasKey(prog[c]) /\ IsAes(prog[c].aes)
<1>1. prog[c].step = n /\ prog[c].end = "no"
  BY ReadsFacts
<1>2. DOMAIN prog[c] = ProgramFields /\ IsAes(prog[c].aes)
  BY OneConnection, Zenon DEF IsProgram, ProgramFields
<1>3. HasKey(prog[c])
  BY Zenon DEF AInv, Accord, Agree
<1> QED
  BY <1>1, <1>2, <1>3

LEMMA RequestAccords ==
    ASSUME IInv, DInv, AInv, NEW c \in Conns, RequestProtocol(c)
    PROVE  AInv'
<1>1. PICK n \in 1..4 : n = 1
  OBVIOUS
<1>2. Reads(c, n)
  BY <1>1, Zenon DEF RequestProtocol
<1>3. PICK k \in {"protocol", "badProtocol"} : Writes(c, prog[c], k, InClear(k, NoKey))
  BY DEF RequestProtocol
<1>4. k \in Says[n]
  BY <1>1 DEF Says
<1> DEFINE m == InClear(k, NoKey)
<1>5. m.kind = k /\ m.lock = "none"
  BY DEF InClear
<1>6. n \in 1..9 /\ ~(n >= 2) /\ n # 4
  BY <1>1
<1>7. DOMAIN prog[c] = ProgramFields /\ prog[c].step = n /\ prog[c].end = "no"
  BY <1>2, <1>6, ActsFacts
<1> HIDE DEF m
<1>8. Writes(c, prog[c], k, m)
  BY <1>3 DEF m
<1> QED
  BY <1>1, <1>2, <1>4, <1>5, <1>6, <1>7, <1>8, ClearAccords, Zenon

(* The key file gives the key that the client encrypts with.               *)
LEMMA LoadsPublicKey ==
    ASSUME NEW file
    PROVE  LET x == SetPublicKey(NewRsa, file).object
           IN  IF CanEncrypt(x) THEN file \in Pairs /\ x.encryptor = file ELSE file \notin Pairs
BY KeysAssumption DEF SetPublicKey, NewRsa, CanEncrypt, Returns, Throws

LEMMA IntroduceAccords ==
    ASSUME IInv, DInv, AInv, NEW c \in Conns, Introduce(c)
    PROVE  AInv'
<1> DEFINE p == prog[c]
           x == SetPublicKey(NewRsa, p.file).object
           b == [p EXCEPT !.rsa = x]
<1>1. PICK n \in 1..4 : n = 2
  OBVIOUS
<1>2. Reads(c, n)
  BY <1>1, Zenon DEF Introduce
<1>3. n \in 1..9 /\ n # 1 /\ n # 4
  BY <1>1
<1>4. DOMAIN p = ProgramFields /\ p.step = n /\ p.end = "no"
  BY <1>2, <1>3, ActsFacts
<1>5. IF CanEncrypt(x) THEN p.file \in Pairs /\ x.encryptor = p.file ELSE p.file \notin Pairs
  BY LoadsPublicKey
<1>6. CASE CanEncrypt(x)
  <2>1. PICK k \in {"clientId", "unknownClient"} : Writes(c, b, k, ForHolder(x, k, NoKey))
    BY <1>6 DEF Introduce
  <2> DEFINE m == ForHolder(x, k, NoKey)
  <2>2. k \in Says[n]
    BY <1>1 DEF Says
  <2>3. m.kind = k /\ m.lock = "rsa" /\ m.for = x.encryptor
    BY DEF ForHolder
  <2> HIDE DEF x
  <2>4. /\ DOMAIN b = ProgramFields /\ b.step = n /\ b.end = "no" /\ b.file = p.file
        /\ b.torn = p.torn /\ b.rsa = x
    BY <1>4 DEF ProgramFields
  <2>5. Writes(c, b, k, m)
    BY <2>1
  <2> HIDE DEF m, b
  <2> QED
    BY <1>2, <1>3, <1>5, <1>6, <2>2, <2>3, <2>4, <2>5, ClearAccords, Zenon
<1>7. CASE ~CanEncrypt(x)
  <2>1. Returns1(c, {})
    BY <1>7 DEF Introduce
  <2>2. ~(KeysMatch(c) /\ flaws[c] \cup {} = {})
    BY <1>5, <1>7 DEF KeysMatch
  <2>3. Waits(c)
    BY <1>2 DEF Reads
  <2> QED
    BY <2>1, <2>2, <2>3, ReturnsAccords
<1> QED
  BY <1>6, <1>7

LEMMA ChooseAccords ==
    ASSUME IInv, DInv, AInv, NEW c \in Conns, ChooseAlgorithm(c)
    PROVE  AInv'
<1> DEFINE p == prog[c]
<1>1. PICK n \in 1..4 : n = 3
  OBVIOUS
<1>2. Reads(c, n)
  BY <1>1, Zenon DEF ChooseAlgorithm
<1>3. n \in 1..9 /\ n # 1 /\ n # 4 /\ n >= 3
  BY <1>1
<1>4. DOMAIN p = ProgramFields /\ p.step = n /\ p.end = "no" /\ HasKey(p)
  BY <1>2, <1>3, ActsFacts
<1>5. PICK k \in {"algorithm", "badAlgorithm"} : Writes(c, p, k, ForHolder(p.rsa, k, NoKey))
  BY DEF ChooseAlgorithm
<1> DEFINE m == ForHolder(p.rsa, k, NoKey)
<1>6. k \in Says[n]
  BY <1>1 DEF Says
<1>7. m.kind = k /\ m.lock = "rsa" /\ m.for = p.rsa.encryptor
  BY DEF ForHolder
<1>8. p.rsa.encryptor = p.file /\ p.file \in Pairs
  BY <1>3, <1>4, Zenon DEF HasKey
<1>9. Writes(c, p, k, m)
  BY <1>5
<1> HIDE DEF m
<1> QED
  BY <1>2, <1>3, <1>4, <1>6, <1>7, <1>8, <1>9, ClearAccords, Zenon

LEMMA EstablishAccords ==
    ASSUME IInv, DInv, AInv, NEW c \in Conns, EstablishEncryption(c)
    PROVE  AInv'
<1> DEFINE p == prog[c]
<1>1. PICK n \in 1..4 : n = 4
  OBVIOUS
<1>2. Reads(c, n)
  BY <1>1, Zenon DEF EstablishEncryption
<1>3. n \in 1..9 /\ n # 1 /\ n >= 3
  BY <1>1
<1>4. /\ DOMAIN p = ProgramFields /\ p.step = n /\ p.end = "no" /\ HasKey(p)
      /\ IsAes(p.aes)
  BY <1>2, <1>3, ActsFacts
<1>5. PICK key \in Suitable :
         Writes(c, [p EXCEPT !.aes = GenerateKey(p.aes, key, Iv[key])], "key",
                ForHolder(p.rsa, "key", GenerateKey(p.aes, key, Iv[key]).key))
  BY DEF EstablishEncryption
<1> DEFINE x == GenerateKey(p.aes, key, Iv[key])
           b == [p EXCEPT !.aes = x]
<1>6. Loaded(x, key)
  BY <1>4, NewKeyLoads
<1> HIDE DEF x
<1>7. PICK k : k = "key"
  OBVIOUS
<1> DEFINE w == ForHolder(p.rsa, k, x.key)
<1>8. k \in Says[n]
  BY <1>1, <1>7 DEF Says
<1>9. w.kind = k /\ w.lock = "rsa" /\ w.for = p.rsa.encryptor /\ w.key = x.key
  BY DEF ForHolder
<1>10. p.rsa.encryptor = p.file /\ p.file \in Pairs
  BY <1>3, <1>4, Zenon DEF HasKey
<1>11. /\ DOMAIN b = ProgramFields /\ b.step = n /\ b.end = "no" /\ b.file = p.file
       /\ b.torn = p.torn /\ b.rsa = p.rsa /\ b.aes = x
  BY <1>4 DEF ProgramFields
<1>12. Writes(c, b, k, w)
  BY <1>5, <1>7, Zenon DEF x
<1> HIDE DEF w, b
<1> QED
  BY <1>2, <1>3, <1>6, <1>8, <1>9, <1>10, <1>11, <1>12, ClearAccords, Zenon

(* A step of the client on the sealed connection, up to the portion.       *)
LEMMA ChainAccords ==
    ASSUME IInv, DInv, AInv, NEW c \in Conns, NEW n \in 5..8, Reads(c, n), Seals(c, Says[n])
    PROVE  AInv'
<1> DEFINE p == prog[c]
           aes == AfterDecrypt(p.aes, Head(toClient[c]).text)
<1>1. n \in 1..9 /\ n \in 5..9 /\ n # 9
  OBVIOUS
<1>2. DOMAIN p = ProgramFields /\ p.step = n /\ p.end = "no"
  BY <1>1, ActsFacts
<1>3. PICK k \in Says[n] : Writes(c, [p EXCEPT !.aes = AfterEncrypt(aes, k)], k, Chained(aes, k))
  BY Zenon DEF Seals
<1> DEFINE z == AfterEncrypt(aes, k)
           b == [p EXCEPT !.aes = z]
<1>4. Writes(c, b, k, Chained(aes, k))
  BY <1>3, Zenon
<1> HIDE DEF z
<1>5. /\ DOMAIN b = ProgramFields /\ b.step = n /\ b.end = "no" /\ b.file = p.file
      /\ b.torn = p.torn /\ b.rsa = p.rsa /\ b.aes = z
  BY <1>2 DEF ProgramFields
<1>6. PICK a : a = aes
  OBVIOUS
<1>7. Writes(c, b, k, Chained(a, k)) /\ z = AfterEncrypt(a, k)
  BY <1>4, <1>6, Zenon DEF z
<1> HIDE DEF b
<1> QED
  BY <1>1, <1>5, <1>6, <1>7, SealsAccords, Zenon

LEMMA FinishAccords ==
    ASSUME IInv, DInv, AInv, NEW c \in Conns, Finish(c)
    PROVE  AInv'
<1> DEFINE p == prog[c]
           aes == AfterDecrypt(p.aes, Head(toClient[c]).text)
<1>1. PICK n \in 5..9 : n = 9
  OBVIOUS
<1>2. Reads(c, n)
  BY <1>1, Zenon DEF Finish
<1>3. n \in 1..9
  OBVIOUS
<1>4. DOMAIN p = ProgramFields /\ p.step = n
  BY <1>2, <1>3, ActsFacts
<1>5. PICK k : k = "end"
  OBVIOUS
<1> DEFINE z == AfterEncrypt(aes, k)
           b == [p EXCEPT !.aes = z, !.end = "done"]
<1>6. Writes(c, b, k, Chained(aes, k))
  BY <1>5, Zenon DEF Finish
<1>7. k \in Says[n]
  BY <1>1, <1>5 DEF Says
<1> HIDE DEF z
<1>8. /\ DOMAIN b = ProgramFields /\ b.step = n /\ b.end = "done" /\ b.file = p.file
      /\ b.torn = p.torn /\ b.rsa = p.rsa /\ b.aes = z
  BY <1>4 DEF ProgramFields
<1>9. PICK a : a = aes
  OBVIOUS
<1>10. Writes(c, b, k, Chained(a, k)) /\ z = AfterEncrypt(a, k)
  BY <1>6, <1>9, Zenon DEF z
<1> HIDE DEF b
<1> QED
  BY <1>1, <1>2, <1>7, <1>8, <1>9, <1>10, SealsAccords, Zenon

(* A step of the client.                                                   *)
LEMMA ClientAccords ==
    ASSUME IInv, DInv, AInv, NEW c \in Conns, ClientStep(c)
    PROVE  AInv'
<1>1. ASSUME NEW n \in 5..8, NEW kinds, Reads(c, n), Seals(c, kinds), kinds = Says[n] PROVE AInv'
  BY <1>1, ChainAccords, Zenon
<1>2. ASSUME ChooseAuthModule(c) PROVE AInv'
  <2>1. PICK n \in 5..8 : n = 5
    OBVIOUS
  <2>2. {"login", "noData", "noModule"} = Says[n]
    BY <2>1 DEF Says
  <2> QED
    BY <1>1, <1>2, <2>1, <2>2, Zenon DEF ChooseAuthModule
<1>3. ASSUME GiveLogin(c) PROVE AInv'
  <2>1. PICK n \in 5..8 : n = 6
    OBVIOUS
  <2>2. {"name", "wrong"} = Says[n]
    BY <2>1 DEF Says
  <2> QED
    BY <1>1, <1>3, <2>1, <2>2, Zenon DEF GiveLogin
<1>4. ASSUME GivePassword(c) PROVE AInv'
  <2>1. PICK n \in 5..8 : n = 7
    OBVIOUS
  <2>2. {"pass", "wrong"} = Says[n]
    BY <2>1 DEF Says
  <2> QED
    BY <1>1, <1>4, <2>1, <2>2, Zenon DEF GivePassword
<1>5. ASSUME SendLogs(c) PROVE AInv'
  <2>1. PICK n \in 5..8 : n = 8
    OBVIOUS
  <2>2. Logs = Says[n]
    BY <2>1 DEF Says, Logs
  <2> QED
    BY <1>1, <1>5, <2>1, <2>2, Zenon DEF SendLogs
<1>6. ASSUME Mismatch(c) \/ WaitFails(c) \/ WriteFails(c) PROVE AInv'
  BY <1>6, FailsAccords
<1> QED
  BY <1>2, <1>3, <1>4, <1>5, <1>6, RequestAccords, IntroduceAccords, ChooseAccords,
     EstablishAccords, FinishAccords, TornAccords, Zenon DEF ClientStep

(***************************************************************************)
(* Posted events                                                           *)
(***************************************************************************)
(* The session that an event is posted for.                                *)
LEMMA EventFacts ==
    ASSUME IInv, DInv, AInv, NEW c \in Conns, HandleEvent(c)
    PROVE  /\ Good(ses[c]) /\ ses[c] \in Sessions /\ ses[c].posted # <<>> /\ ses[c].rest = <<>>
           /\ ses[c].part \in Parts \cup {"none"} /\ ~ses[c].early
           /\ prog' = prog /\ provider' = provider /\ reading' = reading
           /\ toServer' = toServer
<1>1. Good(ses[c]) /\ ses[c] \in Sessions
  BY DEF IInv, Good
<1>2. ses[c].posted # <<>> /\ ses[c].rest = <<>>
  BY DEF HandleEvent, HandlePosted, Handle, InLoop, StartSession, Execute, ExecuteInit,
         ExecuteCrypto, ExecuteAuth, ExecuteLogs, DeletePart, DeleteSession
<1>3. ses[c].part \in Parts \cup {"none"}
  BY <1>1, <1>2, Talking
<1>4. ~ses[c].early
  BY OneConnection DEF Carries
<1> QED
  BY <1>1, <1>2, <1>3, <1>4 DEF HandleEvent

(* An event that the client does not see.                                  *)
LEMMA SettledAccords ==
    ASSUME IInv, DInv, AInv, NEW c \in Conns, HandleEvent(c),
           \A d \in Conns : d # c => ses'[d] = ses[d],
           Settles(ses[c], ses'[c]), ses'[c].written = ses[c].written,
           ses'[c].part # "deleted", ses[c].part = "logs" => ses'[c].part = "logs"
    PROVE  AInv'
<1> DEFINE u == ses[c]
           s == ses'[c]
           p == prog[c]
           y == crypt[c]
           r == reading[c]
           f == flaws[c]
           up == toServer[c]
           down == toClient[c]
           match == KeysMatch(c)
           signer == provider.signer
<1>1. u \in Sessions /\ Agree(u, p, y, r, up, down, f, match, signer)
  BY OneAccord
<1>2. prog' = prog /\ provider' = provider /\ reading' = reading /\ toServer' = toServer
  BY EventFacts
<1>3. Sends1(c, y) /\ flaws' = [flaws EXCEPT ![c] = f \cup {}]
  BY DEF HandleEvent
<1>4. u.written \in Seq(Answers)
  BY <1>1 DEF Sessions
<1>5. Sets(crypt, crypt', c, y) /\ Sets(toClient, toClient', c, down)
  BY <1>3, <1>4, SendsNothing
<1>6. Sets(prog, prog', c, p) /\ Sets(reading, reading', c, r) /\ Sets(toServer, toServer', c, up)
  BY <1>2 DEF Sets
<1>7. Sets(flaws, flaws', c, f)
  <2>1. f \cup {} = f
    OBVIOUS
  <2> QED
    BY <1>3, <2>1 DEF Sets
<1>8. Agree(s, p, y, r, up, down, f, match, signer)
  BY <1>1, SettlesAgrees
<1> QED
  BY <1>2, <1>5, <1>6, <1>7, <1>8, LocalAccord

(* startSession                                                            *)
LEMMA StartAccords ==
    ASSUME IInv, DInv, AInv, NEW c \in Conns, HandleEvent(c), StartSession(c)
    PROVE  AInv'
<1> DEFINE u == ses[c]
           s == ses'[c]
           q == Tail(u.posted)
           h == [u EXCEPT !.posted = q]
           i == Head(h.next)
           n == Tail(h.next)
           z == [h EXCEPT !.part = i, !.next = n, !.state = "NONE"]
           w == Append(z.posted, "execute")
           t == [z EXCEPT !.posted = w]
<1>1. Good(u) /\ u \in Sessions /\ u.posted # <<>>
  BY EventFacts
<1>2. Head(u.posted) = "startSession" /\ Becomes(c, t)
  BY DEF StartSession, Handle, Handled, TakeNextPart, Post
<1>3. Pending(u) /\ u.part = "none" /\ u.next = <<"init">>
  BY <1>1, <1>2, PostedWell
<1>4. s = t /\ \A d \in Conns : d # c => ses'[d] = ses[d]
  BY <1>2, BecomesOne
<1>5. i = "init"
  BY <1>1, <1>3 DEF Sessions
<1> HIDE DEF q, i, n, w
<1>6. /\ t.open = u.open /\ t.rest = u.rest /\ t.sealed = u.sealed /\ t.taken = u.taken
      /\ t.reports = u.reports /\ t.written = u.written /\ t.connected = u.connected
      /\ t.part = i
  BY <1>1 DEF Sessions
<1> HIDE DEF t
<1>7. ASSUME NEW j, At(j, u) PROVE At(j, t)
  <2>1. j = 0 /\ ~u.sealed
    BY <1>3, <1>7, AtFacts
  <2> QED
    BY <1>5, <1>6, <2>1 DEF At
<1>8. ~u.connected /\ ~Stuck(u)
  BY <1>3 DEF Pending, Stuck
<1>9. t.part # "idle" /\ u.part # "idle" /\ u.part # "deleted" /\ u.part # "logs"
      /\ t.part # "deleted"
  BY <1>3, <1>5, <1>6
<1>10. Settles(u, t)
  <2>1. ~t.connected
    BY <1>6, <1>8, Zenon
  <2> QED
    BY <1>6, <1>7, <1>8, <1>9, <2>1, Zenon DEF Settles
<1> QED
  BY <1>4, <1>6, <1>9, <1>10, SettledAccords

(* The execution of CryptographyInitializer.                               *)
LEMMA CryptoAccords ==
    ASSUME IInv, DInv, AInv, NEW c \in Conns, HandleEvent(c), ExecuteCrypto(c)
    PROVE  AInv'
<1> DEFINE u == ses[c]
           s == ses'[c]
           q == Tail(u.posted)
           t == [u EXCEPT !.posted = q, !.connected = TRUE, !.timer = TRUE,
                          !.state = "WAITING_FOR_CLIENT_ID"]
<1>1. Good(u) /\ u \in Sessions /\ u.posted # <<>>
  BY EventFacts
<1>2. /\ Head(u.posted) = "execute" /\ u.part = "crypto"
      /\ Becomes(c, Await(Listening(Handled(c)), "WAITING_FOR_CLIENT_ID"))
  BY DEF ExecuteCrypto, Execute, Handle
<1>3. Await(Listening(Handled(c)), "WAITING_FOR_CLIENT_ID") = t
  BY <1>1 DEF Await, Listening, Handled, Sessions
<1>4. s = t /\ \A d \in Conns : d # c => ses'[d] = ses[d]
  BY <1>2, <1>3, BecomesOne
<1>5. Pending(u)
  BY <1>1, <1>2, PostedWell
<1> HIDE DEF q
<1>6. /\ t.open = u.open /\ t.rest = u.rest /\ t.sealed = u.sealed /\ t.taken = u.taken
      /\ t.reports = u.reports /\ t.written = u.written /\ t.connected
      /\ t.part = u.part /\ t.state = "WAITING_FOR_CLIENT_ID"
  BY <1>1 DEF Sessions
<1> HIDE DEF t
<1>7. ~u.connected /\ ~Stuck(u)
  BY <1>5 DEF Pending, Stuck
<1>8. ASSUME NEW j, At(j, u) PROVE At(j, t) /\ j = 1
  <2>1. j = 1 /\ ~u.sealed
    BY <1>2, <1>7, <1>8, AtFacts
  <2> QED
    BY <1>2, <1>6, <2>1 DEF At
<1>9. t.part # "idle" /\ u.part # "idle" /\ u.part # "deleted" /\ u.part # "logs"
      /\ t.part # "deleted"
  BY <1>2, <1>6
<1>10. Settles(u, t)
  BY <1>6, <1>7, <1>8, <1>9, Zenon DEF Settles
<1> QED
  BY <1>4, <1>6, <1>9, <1>10, SettledAccords

(* A part is deleted, or the process dies.                                 *)
LEMMA SilentAccords ==
    ASSUME IInv, DInv, AInv, NEW c \in Conns, HandleEvent(c), DeletePart(c) \/ Crash
    PROVE  AInv'
<1> DEFINE u == ses[c]
           s == ses'[c]
           q == Tail(u.posted)
           t == [u EXCEPT !.posted = q, !.stale = FALSE]
<1>1. u \in Sessions /\ u.part # "deleted"
  BY EventFacts DEF Parts
<1>2. CASE DeletePart(c)
  <2>1. Becomes(c, [Handled(c) EXCEPT !.stale = FALSE])
    BY <1>2 DEF DeletePart
  <2>2. [Handled(c) EXCEPT !.stale = FALSE] = t
    BY <1>1 DEF Handled, Sessions
  <2>3. s = t /\ \A d \in Conns : d # c => ses'[d] = ses[d]
    BY <2>1, <2>2, BecomesOne
  <2> HIDE DEF q
  <2>4. /\ t.open = u.open /\ t.rest = u.rest /\ t.sealed = u.sealed /\ t.taken = u.taken
        /\ t.reports = u.reports /\ t.part = u.part /\ t.connected = u.connected
        /\ t.state = u.state /\ t.module = u.module /\ t.written = u.written
    BY <1>1 DEF Sessions
  <2> HIDE DEF t
  <2>5. Settles(u, t)
    BY <2>4, SameSettles
  <2> QED
    BY <1>1, <2>3, <2>4, <2>5, SettledAccords
<1>3. CASE Crash
  <2>1. ses' = ses
    BY <1>3 DEF Crash
  <2>2. Settles(u, u)
    BY SameSettles
  <2> QED
    BY <1>1, <2>1, <2>2, SettledAccords
<1> QED
  BY <1>2, <1>3

(* The session is deleted, and with it what it has not sent yet.           *)
LEMMA DeletedAccords ==
    ASSUME IInv, DInv, AInv, NEW c \in Conns, HandleEvent(c), DeleteSession(c)
    PROVE  AInv'
<1> DEFINE u == ses[c]
           s == ses'[c]
           p == prog[c]
           y == crypt[c]
           r == reading[c]
           f == flaws[c]
           up == toServer[c]
           down == toClient[c]
           match == KeysMatch(c)
           signer == provider.signer
           e == <<>>
<1>1. Good(u) /\ u.posted # <<>> /\ Agree(u, p, y, r, up, down, f, match, signer)
  BY OneAccord, EventFacts
<1>2. PICK t : /\ Becomes(c, t) /\ t.part = "deleted" /\ t.reports = u.reports /\ ~t.open
               /\ u.part = "none"
  <2> DEFINE v == [NoSession EXCEPT !.part = "deleted", !.reports = u.reports]
  <2>1. /\ Becomes(c, v) /\ v.part = "deleted" /\ v.reports = u.reports /\ u.part = "none"
    BY DeletesWell, Zenon
  <2>2. ~v.open
    BY DEF NoSession
  <2> HIDE DEF v
  <2> QED
    BY <2>1, <2>2
<1>3. s = t /\ \A d \in Conns : d # c => ses'[d] = ses[d]
  BY <1>2, BecomesOne
<1>4. prog' = prog /\ provider' = provider /\ reading' = reading /\ toServer' = toServer
  BY EventFacts
<1>5. PICK kept \in {down, e} : toClient' = [toClient EXCEPT ![c] = kept]
  BY <1>2, <1>3 DEF HandleEvent
<1>6. crypt' = crypt /\ flaws' = [flaws EXCEPT ![c] = f \cup {}]
  BY <1>2, <1>3 DEF HandleEvent
<1>7. /\ Sets(prog, prog', c, p) /\ Sets(reading, reading', c, r)
      /\ Sets(toServer, toServer', c, up) /\ Sets(crypt, crypt', c, y)
      /\ Sets(toClient, toClient', c, kept)
  BY <1>4, <1>5, <1>6 DEF Sets
<1>8. Sets(flaws, flaws', c, f)
  <2>1. f \cup {} = f
    OBVIOUS
  <2> QED
    BY <1>6, <2>1 DEF Sets
<1>9. Told(p, kept) => Told(p, down)
  <2>1. ~Confirmed(e)
    BY DEF Confirmed
  <2> HIDE DEF e
  <2> QED
    BY <1>5, <2>1, Zenon DEF Told
<1>10. ~u.open
  BY <1>1, <1>2 DEF Good, Listens, Pending, Over, Gone, DeleteSession, Handle, Parts
<1>11. Fate(u, p, down, f, match) /\ HasKey(p)
  BY <1>1, Zenon DEF Agree
<1>12. Fate(s, p, kept, f, match)
  <2>1. s.part = "deleted" /\ s.reports = u.reports
    BY <1>2, <1>3
  <2>2. u.part # "idle"
    BY <1>2
  <2> HIDE DEF u, s
  <2> QED
    BY <1>9, <1>10, <1>11, <2>1, <2>2, Zenon DEF Fate
<1>13. Agree(s, p, y, r, up, kept, f, match, signer)
  BY <1>2, <1>3, <1>11, <1>12, ClosedAgrees
<1> QED
  BY <1>3, <1>4, <1>7, <1>8, <1>13, LocalAccord

(* When a part speaks first nothing is under way, and the client has come  *)
(* to that part as well.                                                   *)
LEMMA RestsSpeaks ==
    ASSUME NEW u, NEW p, NEW f, Rests(u, p, f), ~u.connected, p.step \in 1..10,
           u.part \in {"init", "auth", "logs"},
           NEW s, s.part = u.part, s.sealed = u.sealed,
           u.part = "auth" => s.state = "WAITING_FOR_MODULE_ID"
    PROVE  LET n == p.step
           IN  /\ n \in 1..9 /\ At(n - 1, s)
               /\ u.part = "init" => Expects[n] = "HELLO"
               /\ u.part = "auth" => Expects[n] = "CHOOSE_AUTH_MODULE"
               /\ u.part = "logs" => Expects[n] = "WAITING_FOR_LOGS"
<1> DEFINE n == p.step
           j == p.step - 1
<1>1. ~Stuck(u)
  BY DEF Stuck
<1>2. At(j, u)
  BY <1>1 DEF Rests
<1>3. /\ u.part = "init" => j = 0
      /\ u.part = "auth" => j = 4
      /\ u.part = "logs" => j = 7
      /\ j < 4 => ~u.sealed
      /\ j >= 4 => u.sealed
  <2> HIDE DEF j
  <2> QED
    BY <1>2, AtFacts
<1>4. j \in 0..9
  OBVIOUS
<1>5. At(j, s)
  <2> HIDE DEF j
  <2> QED
    BY <1>3, <1>4 DEF At
<1> HIDE DEF n
<1>6. n \in 1..9 /\ j = n - 1
  BY <1>3 DEF n
<1>7. /\ u.part = "init" => Expects[n] = "HELLO"
      /\ u.part = "auth" => Expects[n] = "CHOOSE_AUTH_MODULE"
      /\ u.part = "logs" => Expects[n] = "WAITING_FOR_LOGS"
  <2>1. /\ u.part = "init" => n = 1
        /\ u.part = "auth" => n = 5
        /\ u.part = "logs" => n = 8
    BY <1>3, <1>6
  <2> QED
    BY <2>1 DEF Expects
<1> QED
  BY <1>5, <1>6, <1>7 DEF n, j

(* The session that speaks first.                                          *)
LEMMA SpeakerFacts ==
    ASSUME IInv, DInv, AInv, NEW c \in Conns, HandleEvent(c),
           NEW part \in {"init", "auth", "logs"}, Execute(c, part)
    PROVE  LET u == ses[c]
               l == Listening(Handled(c))
           IN  /\ u.part = part /\ u.open /\ ~u.connected /\ u.reports = <<>> /\ u.rest = <<>>
               /\ part = "logs" => u.next = <<>>
               /\ toServer[c] = <<>> /\ toClient[c] = <<>> /\ u.written = <<>>
               /\ l \in Sessions /\ l.open /\ l.rest = <<>> /\ l.sealed = u.sealed
               /\ l.taken = u.taken /\ l.reports = <<>> /\ l.part = part /\ l.next = u.next
               /\ l.written = <<>> /\ l.posted = <<>> /\ l.connected
<1> DEFINE u == ses[c]
           q == Tail(u.posted)
           l == [u EXCEPT !.posted = q, !.connected = TRUE]
<1>1. Good(u) /\ u \in Sessions /\ u.posted # <<>> /\ u.rest = <<>> /\ ~u.early
  BY EventFacts
<1>2. Head(u.posted) = "execute" /\ u.part = part
  BY DEF Execute, Handle
<1>3. Pending(u) /\ q = <<>>
  BY <1>1, <1>2, PostedWell
<1>4. u.open /\ ~u.connected /\ u.reports = <<>>
  BY <1>3 DEF Pending
<1>5. u.written = <<>> /\ (part = "logs" => u.next = <<>>)
  BY <1>1, <1>2, <1>4 DEF Good, Turn, Chain
<1>6. toServer[c] = <<>> /\ toClient[c] = <<>>
  <2>1. u.open /\ ~(toServer[c] = <<>> /\ toClient[c] = <<>>) => Len(u.written) = 1
    BY OneConnection DEF Carries
  <2>2. Len(u.written) # 1
    BY <1>5
  <2> QED
    BY <1>4, <2>1, <2>2
<1>7. Listening(Handled(c)) = l
  BY <1>1 DEF Listening, Handled, Sessions
<1>8. q \in Seq(Events)
  <2>1. <<>> \in Seq(Events)
    OBVIOUS
  <2> QED
    BY <1>3, <2>1, Zenon
<1> HIDE DEF q
<1>9. l \in Sessions
  BY <1>1, <1>8, Zenon DEF Sessions
<1>10. /\ l.open = u.open /\ l.rest = u.rest /\ l.sealed = u.sealed /\ l.taken = u.taken
       /\ l.reports = u.reports /\ l.part = u.part /\ l.next = u.next
       /\ l.written = u.written /\ l.posted = q /\ l.connected
  BY <1>1 DEF Sessions
<1> HIDE DEF l
<1> QED
  BY <1>1, <1>2, <1>3, <1>4, <1>5, <1>6, <1>7, <1>9, <1>10

(* A part that begins with a message to the client.                        *)
LEMMA FirstAccords ==
    ASSUME IInv, IInv', DInv, AInv, NEW c \in Conns, HandleEvent(c),
           NEW part \in {"init", "auth", "logs"}, Execute(c, part),
           NEW answer, part = "init" => answer = "HELLO",
           part = "auth" => answer = "CHOOSE_AUTH_MODULE",
           part = "logs" => answer = "WAITING_FOR_LOGS",
           NEW state, part = "auth" => state = "WAITING_FOR_MODULE_ID",
           Becomes(c, Await(Write(Listening(Handled(c)), answer), state))
    PROVE  AInv'
<1> DEFINE u == ses[c]
           s == ses'[c]
           p == prog[c]
           y == crypt[c]
           r == reading[c]
           f == flaws[c]
           e == <<>>
           match == KeysMatch(c)
           signer == provider.signer
           l == Listening(Handled(c))
           t == Await(Write(l, answer), state)
<1>1. /\ u.part = part /\ u.open /\ ~u.connected /\ u.reports = <<>> /\ u.rest = <<>>
      /\ toServer[c] = e /\ toClient[c] = e /\ u.written = e
      /\ l \in Sessions /\ l.open /\ l.rest = <<>> /\ l.sealed = u.sealed
      /\ l.reports = <<>> /\ l.part = part /\ l.written = <<>>
  BY SpeakerFacts
<1> HIDE DEF l
<1>2. Answers1(l, answer, state, t)
  BY <1>1, AnswersOne
<1>3. s = t /\ \A d \in Conns : d # c => ses'[d] = ses[d]
  BY BecomesOne DEF l
<1> HIDE DEF t
<1>4. /\ s.open /\ s.rest = <<>> /\ s.sealed = u.sealed /\ s.reports = <<>>
      /\ s.written = <<answer>> /\ s.part = part /\ s.state = state
  BY <1>1, <1>2, <1>3, Zenon DEF Answers1, Alike
<1>5. s.part # "deleted" /\ ~(u.part = "logs" /\ s.part # "logs")
  BY <1>1, <1>4
<1>6. Sends1(c, y) /\ flaws' = [flaws EXCEPT ![c] = f \cup {}]
  BY <1>5 DEF HandleEvent
<1>7. s.written \in Seq(Answers)
  BY DEF IInv, Good, Sessions
<1>8. PICK x, down : /\ Sets(crypt, crypt', c, x) /\ Sets(toClient, toClient', c, down)
                     /\ Sent(s, y, signer, x, down)
  BY <1>1, <1>6, <1>7, SendsSent
<1>9. PICK m : /\ down = <<m>>
               /\ IF s.sealed THEN m = Chained(y, answer) /\ x = AfterEncrypt(y, answer)
                  ELSE m = InClear(answer, CloneSigner(signer).signer) /\ x = y
  <2>1. s.written # <<>> /\ Head(s.written) = answer
    BY <1>4
  <2> QED
    BY <1>8, <2>1, Zenon DEF Sent
<1>10. prog' = prog /\ provider' = provider /\ reading' = reading /\ toServer' = toServer
  BY EventFacts
<1>11. Sets(prog, prog', c, p) /\ Sets(reading, reading', c, r) /\ Sets(toServer, toServer', c, e)
  BY <1>1, <1>10 DEF Sets
<1>12. Sets(flaws, flaws', c, f)
  <2>1. f \cup {} = f
    OBVIOUS
  <2> QED
    BY <1>6, <2>1 DEF Sets
<1>13. Agree(u, p, y, r, e, e, f, match, signer) /\ IsAes(y)
  BY <1>1, OneAccord
<1>14. /\ HasKey(p) /\ p.step \in 1..10 /\ (p.end = "done" <=> p.step = 10) /\ Rests(u, p, f)
       /\ p.torn => f # {}
       /\ match /\ f = {} => p.end # "gaveUp"
  BY <1>1, <1>13, Zenon DEF Agree, Situation, Fate
<1>15. Hears(s, p.step, answer, f)
  <2>1. p.step \in 1..9 /\ At(p.step - 1, s) /\ answer = Expects[p.step]
    BY <1>1, <1>4, <1>14, RestsSpeaks
  <2> QED
    BY <2>1, Zenon DEF Hears
<1>16. IF s.sealed THEN InChain(p, y, <<>>, <<>>) ELSE BeforeSeal(s, p, r, <<>>, <<>>, signer)
  BY <1>1, <1>4, <1>13, Zenon DEF Agree, Sealing, BeforeSeal
<1>17. Agree(s, p, x, r, <<>>, <<m>>, f, match, signer)
  <2> HIDE DEF s, p, y, r, f, match, signer
  <2> QED
    BY <1>4, <1>9, <1>13, <1>14, <1>15, <1>16, SpeaksAgrees
<1>18. Agree(s, p, x, r, e, down, f, match, signer)
  BY <1>9, <1>17, Zenon
<1> HIDE DEF e
<1> QED
  BY <1>3, <1>8, <1>10, <1>11, <1>12, <1>18, LocalAccord

(* A client without a route to the provider is told so, and shut out.      *)
LEMMA NoRouteAccords ==
    ASSUME IInv, IInv', DInv, AInv, NEW c \in Conns, HandleEvent(c), Execute(c, "logs"),
           Becomes(c, Finished(Write(Listening(Handled(c)), "NACK"), TRUE))
    PROVE  AInv'
<1> DEFINE u == ses[c]
           s == ses'[c]
           p == prog[c]
           y == crypt[c]
           r == reading[c]
           f == flaws[c]
           g == f \cup {"noRoute"}
           e == <<>>
           match == KeysMatch(c)
           signer == provider.signer
           l == Listening(Handled(c))
           b == <<"NACK">>
           w == [l EXCEPT !.written = b]
           t == Finished(w, TRUE)
<1>1. /\ u.part = "logs" /\ u.open /\ u.rest = <<>> /\ toServer[c] = e /\ toClient[c] = e
      /\ u.written = e /\ u.next = <<>>
      /\ l \in Sessions /\ l.open /\ l.reports = <<>> /\ l.part = "logs" /\ l.next = u.next
      /\ l.written = <<>> /\ l.posted = <<>>
  BY SpeakerFacts
<1> HIDE DEF l
<1>2. Becomes(c, t)
  BY <1>1, WritesFirst DEF l
<1>3. b \in Seq(Answers)
  BY DEF Answers
<1>3a. b # <<>> /\ Head(b) = "NACK"
  OBVIOUS
<1> HIDE DEF b
<1>4. w \in Sessions
  BY <1>1, <1>3, Zenon DEF Sessions
<1>5. /\ w.written = b /\ w.part = l.part /\ w.posted = l.posted /\ w.reports = l.reports
      /\ w.next = l.next
  BY <1>1 DEF Sessions
<1> HIDE DEF w
<1>6. Shut(w, TRUE, t)
  <2>1. w.part \in Parts /\ w.posted = <<>> /\ w.reports = <<>> /\ w.next = <<>>
    BY <1>1, <1>5 DEF Parts
  <2> QED
    BY <1>4, <2>1, FinishedShuts
<1> HIDE DEF t
<1>7. s = t /\ \A d \in Conns : d # c => ses'[d] = ses[d]
  BY <1>2, BecomesOne
<1>8. /\ ~s.open /\ s.written = b /\ s.part = "none"
      /\ \A i \in DOMAIN s.reports : s.reports[i]
  BY <1>5, <1>6, <1>7, Zenon DEF Shut
<1>9. Sends1(c, y) /\ flaws' = [flaws EXCEPT ![c] = g]
  BY <1>1, <1>8 DEF HandleEvent
<1>10. PICK x, down : /\ Sets(crypt, crypt', c, x) /\ Sets(toClient, toClient', c, down)
                      /\ Sent(s, y, signer, x, down)
  BY <1>1, <1>3, <1>8, <1>9, SendsSent
<1>11. ~Confirmed(down)
  <2>1. PICK m : /\ down = <<m>>
                 /\ m = Chained(y, "NACK") \/ m = InClear("NACK", CloneSigner(signer).signer)
    BY <1>3a, <1>8, <1>10, Zenon DEF Sent
  <2>2. ~(m.lock = "aes" /\ m.text.plain = "CONFIRMED")
    BY <2>1 DEF Chained, InClear, AesEncrypt, Message
  <2>3. Head(down) = m
    BY <2>1
  <2> QED
    BY <2>2, <2>3, Zenon DEF Confirmed
<1>12. Agree(u, p, y, r, e, e, f, match, signer)
  BY <1>1, OneAccord
<1>13. HasKey(p) /\ Situation(u, p, e, e, f, match)
  BY <1>12, Zenon DEF Agree
<1>14. p.end # "done"
  <2>1. ~(e # <<>> \/ u.rest # <<>>)
    BY <1>1
  <2> QED
    BY <1>1, <1>13, <2>1, ToldTaken
<1>15. ~Told(p, down)
  BY <1>11, <1>14 DEF Told
<1>16. "noRoute" \in g /\ g # {}
  OBVIOUS
<1> HIDE DEF g
<1>17. Fate(s, p, down, g, match)
  <2> HIDE DEF s
  <2> QED
    BY <1>8, <1>15, <1>16, Zenon DEF Fate
<1>18. Agree(s, p, x, r, e, down, g, match, signer)
  BY <1>8, <1>13, <1>17, ClosedAgrees
<1>19. prog' = prog /\ provider' = provider /\ reading' = reading /\ toServer' = toServer
  BY EventFacts
<1>20. Sets(prog, prog', c, p) /\ Sets(reading, reading', c, r) /\ Sets(toServer, toServer', c, e)
  BY <1>1, <1>19 DEF Sets
<1>21. Sets(flaws, flaws', c, g)
  BY <1>9 DEF Sets
<1> HIDE DEF e
<1> QED
  BY <1>7, <1>10, <1>18, <1>19, <1>20, <1>21, LocalAccord

(* A posted event.                                                         *)
LEMMA EventAccords ==
    ASSUME IInv, IInv', DInv, AInv, NEW c \in Conns, HandleEvent(c)
    PROVE  AInv'
<1>1. CASE ExecuteInit(c)
  <2>1. /\ Execute(c, "init")
        /\ Becomes(c, Await(Write(Listening(Handled(c)), "HELLO"), "NONE"))
    BY <1>1 DEF ExecuteInit
  <2> QED
    BY <2>1, FirstAccords
<1>2. CASE ExecuteAuth(c)
  <2>1. /\ Execute(c, "auth")
        /\ Becomes(c, Await(Write(Listening(Handled(c)), "CHOOSE_AUTH_MODULE"),
                            "WAITING_FOR_MODULE_ID"))
    BY <1>2 DEF ExecuteAuth
  <2> QED
    BY <2>1, FirstAccords
<1>3. CASE ExecuteLogs(c)
  <2>1. Execute(c, "logs")
    BY <1>3 DEF ExecuteLogs
  <2>2. CASE Becomes(c, Await(Write(Listening(Handled(c)), "WAITING_FOR_LOGS"),
                              "WAITING_FOR_LOG"))
    BY <2>1, <2>2, FirstAccords
  <2>3. CASE Becomes(c, Finished(Write(Listening(Handled(c)), "NACK"), TRUE))
    BY <2>1, <2>3, NoRouteAccords
  <2> QED
    BY <1>3, <2>2, <2>3, SilentAccords DEF ExecuteLogs
<1>4. HandlePosted(c)
  BY DEF HandleEvent
<1> QED
  BY <1>1, <1>2, <1>3, <1>4, StartAccords, CryptoAccords, SilentAccords, DeletedAccords
     DEF HandlePosted

(***************************************************************************)
(* Every step                                                              *)
(***************************************************************************)
(* A provider that starts with a key file, good or bad, or with new keys.  *)
LEMMA StartsWithOneKey ==
    /\ \A key : LET start == WithKeyFile(key)
                IN  start.rsa.private # NoKey => start.signer.private = start.rsa.decryptor
    /\ \A key \in Pairs : LET start == WithNewKeys(key)
                          IN  start.signer.private = start.rsa.decryptor
<1>1. ASSUME NEW key
      PROVE  LET start == WithKeyFile(key)
             IN  start.rsa.private # NoKey => start.signer.private = start.rsa.decryptor
  <2> DEFINE start == WithKeyFile(key)
  <2>1. CASE key = NoKey \/ key \notin Pairs
    <3>1. SetPrivateKey(NewRsa, key).object.private = NoKey
      BY <2>1 DEF SetPrivateKey, NewRsa, Throws
    <3> QED
      BY <3>1 DEF WithKeyFile
  <2>2. CASE key # NoKey /\ key \in Pairs
    <3>1. SetPrivateKey(NewRsa, key).ok /\ SetPrivateKey(NewRsa, key).object.decryptor = key
      BY <2>2 DEF SetPrivateKey, NewRsa, Returns
    <3>2. SetSignKey(NewSigner, key).object.private = key
      BY <2>2 DEF SetSignKey, NewSigner, Returns
    <3> QED
      BY <3>1, <3>2 DEF WithKeyFile
  <2> QED
    BY <2>1, <2>2
<1>2. ASSUME NEW key \in Pairs
      PROVE  WithNewKeys(key).signer.private = WithNewKeys(key).rsa.decryptor
  <2>1. key # NoKey
    BY KeysAssumption
  <2>2. SetSignKey(NewSigner, key).object.private = key
    BY <2>1 DEF SetSignKey, NewSigner, Returns
  <2> QED
    BY <2>2 DEF WithNewKeys, GenerateKeys
<1> QED
  BY <1>1, <1>2

(* The invariant holds at the start.                                       *)
LEMMA InitAInv == StartDialogue => AInv
<1> SUFFICES ASSUME StartDialogue PROVE AInv
  OBVIOUS
<1>1. OneKey
  BY StartsWithOneKey DEF StartDialogue, OneKey
<1>2. flaws = [c \in Conns |-> flaws[c]] /\ reading = [c \in Conns |-> reading[c]]
  BY DEF StartDialogue
<1>3. ASSUME NEW c \in Conns PROVE Accord(c)
  <2> DEFINE s == ses[c]
             p == prog[c]
             down == toClient[c]
             f == flaws[c]
             match == KeysMatch(c)
  <2>1. ~s.open /\ s.part = "idle" /\ s.reports = <<>>
    <3>1. s = NoSession
      BY DEF StartDialogue, Init
    <3> QED
      BY <3>1 DEF NoSession
  <2>2. p.step = 0 /\ p.end = "no" /\ ~p.torn
    BY DEF StartDialogue, Program
  <2>3. down = <<>> /\ f = {}
    BY DEF StartDialogue
  <2>4. HasKey(p)
    BY <2>2 DEF HasKey
  <2>5. ~Told(p, down)
    BY <2>2, <2>3 DEF Told, Confirmed
  <2>6. DOMAIN s.reports = {} /\ p.end # "gaveUp"
    BY <2>1, <2>2
  <2>7. Fate(s, p, down, f, match)
    BY <2>1, <2>2, <2>5, <2>6, Zenon DEF Fate
  <2> QED
    BY <2>1, <2>4, <2>7, ClosedAgrees DEF Accord
<1> QED
  BY <1>1, <1>2, <1>3 DEF AInv

(* Every step of a dialogue keeps it.                                      *)
LEMMA NextAInv ==
    ASSUME IInv, IInv', DInv, AInv, [NextDialogue]_dialogue
    PROVE  AInv'
<1>1. ASSUME NEW c \in Conns, Connect(c) PROVE AInv'
  BY <1>1, ConnectAccords
<1>2. ASSUME NEW c \in Conns, ClientStep(c) PROVE AInv'
  BY <1>2, ClientAccords
<1>3. ASSUME NEW c \in Conns, ReceiveMessage(c) PROVE AInv'
  BY <1>3, ReceiveAccords
<1>4. ASSUME NEW c \in Conns, HandleMessage(c) PROVE AInv'
  BY <1>4, DialogueAssumption, MessageAccords
<1>5. ASSUME NEW c \in Conns, HandleEvent(c) PROVE AInv'
  BY <1>5, EventAccords
<1>6. ASSUME NEW c \in Conns, TimesOut(c) \/ Disconnected(c) PROVE AInv'
  BY <1>6, LeavesAccords
<1>7. ASSUME ((Close \/ EndThread) /\ UNCHANGED ends) \/ UNCHANGED dialogue PROVE AInv'
  BY <1>7, QuietAccords
<1> QED
  BY <1>1, <1>2, <1>3, <1>4, <1>5, <1>6, <1>7, Zenon DEF NextDialogue

(* The two programs agree on where they are, on the state of their ciphers *)
(* and on how it ended, beside the invariants of the session and of the    *)
(* turns.                                                                  *)
THEOREM AccordInductive == DialogueSpec => [](IInv /\ DInv /\ AInv)
<1>1. StartDialogue => AInv
  BY InitAInv
<1>2. IInv /\ IInv' /\ DInv /\ AInv /\ [NextDialogue]_dialogue => AInv'
  BY NextAInv
<1> QED
  BY <1>1, <1>2, DialogueInductive, PTL DEF DialogueSpec

(* The keys of both ends are one key, and no message is ever encrypted     *)
(* that its reader will not be able to decrypt in its turn.                *)
THEOREM ChainsStayInStep == DialogueSpec => []ChainsInStep
<1>1. IInv /\ DInv /\ AInv => ChainsInStep
  <2> SUFFICES ASSUME IInv, DInv, AInv, NEW c \in Conns, ses[c].sealed, ~HungUp(c)
               PROVE  /\ crypt[c].key = prog[c].aes.key
                      /\ IF toServer[c] = <<>> THEN InStep(prog[c].aes, crypt[c])
                         ELSE AesReads(crypt[c], Head(toServer[c]).text)
                      /\ IF toClient[c] = <<>> THEN InStep(crypt[c], prog[c].aes)
                         ELSE AesReads(prog[c].aes, Head(toClient[c]).text)
    BY DEF ChainsInStep
  <2> DEFINE p == prog[c]
             y == crypt[c]
             up == toServer[c]
             down == toClient[c]
  <2>1. ses[c].open /\ p.end # "gaveUp"
    BY DEF HungUp
  <2>2. InChain(p, y, up, down)
    BY <2>1, OneAccord, Zenon DEF Agree, Sealing
  <2>3. /\ p.aes.key \in Suitable /\ y.key = p.aes.key /\ p.aes.iv # NoKey /\ y.iv # NoKey
        /\ Coupled(p.aes.enc, y.dec, up) /\ Coupled(y.enc, p.aes.dec, down)
    BY <2>1, <2>2, Zenon DEF InChain
  <2>4. Keyed(p.aes) /\ Keyed(y)
    BY <2>3, KeysAssumption DEF Keyed
  <2>5. IF up = <<>> THEN InStep(p.aes, y) ELSE AesReads(y, Head(up).text)
    BY <2>3, <2>4, Zenon DEF Coupled, InStep, AesReads
  <2>6. IF down = <<>> THEN InStep(y, p.aes) ELSE AesReads(p.aes, Head(down).text)
    BY <2>3, <2>4, Zenon DEF Coupled, InStep, AesReads
  <2> QED
    BY <2>3, <2>5, <2>6
<1> QED
  BY <1>1, AccordInductive, PTL

(* Only a session that waits for portionWritten leaves its client waiting  *)
(* for an answer while it waits itself.                                    *)
THEOREM OneAlwaysSpeaks == DialogueSpec => []OneHasTheFloor
<1>1. IInv /\ DInv /\ AInv => OneHasTheFloor
  <2> SUFFICES ASSUME IInv, DInv, AInv, NEW c \in Conns, Waiting(c), Waits(c),
                      toServer[c] = <<>>, toClient[c] = <<>>
               PROVE  ses[c].state = "WRITTING_LOG"
    BY DEF OneHasTheFloor
  <2>1. ses[c].open /\ ses[c].connected /\ ses[c].rest = <<>>
    BY WaitingListens DEF Listens
  <2>2. Rests(ses[c], prog[c], flaws[c])
    BY <2>1, OneAccord, Zenon DEF Agree, Situation
  <2>3. prog[c].end = "no"
    BY DEF Waits
  <2> QED
    BY <2>1, <2>2, <2>3 DEF Rests, Stuck
<1> QED
  BY <1>1, AccordInductive, PTL

(* A program that returns 0 was told of logs that were taken, and its      *)
(* session reports success unless its time was over; only such a program,  *)
(* or one without a route, makes a session report success.                 *)
THEOREM EndsAlwaysAgree == DialogueSpec => []EndsAgree
<1>1. IInv /\ DInv /\ AInv => EndsAgree
  <2> SUFFICES ASSUME IInv, DInv, AInv, NEW c \in Conns
               PROVE  /\ prog[c].end = "done" => ses[c].taken \/ ses[c].part = "deleted"
                      /\ \A i \in DOMAIN ses[c].reports :
                            IF ses[c].reports[i]
                            THEN prog[c].end = "done" \/ "noRoute" \in flaws[c]
                            ELSE prog[c].end # "done" \/ "late" \in flaws[c]
    BY DEF EndsAgree
  <2> DEFINE s == ses[c]
             p == prog[c]
             down == toClient[c]
             f == flaws[c]
             match == KeysMatch(c)
  <2>1. Situation(s, p, toServer[c], down, f, match) /\ Fate(s, p, down, f, match)
    BY OneAccord, Zenon DEF Agree
  <2>2. p.end = "done" => Told(p, down)
    BY DEF Told
  <2>3. s.open /\ Told(p, down) => s.taken
    BY <2>1, ToldTaken
  <2>4. /\ ~s.open /\ Told(p, down) => s.taken \/ s.part = "deleted"
        /\ \A i \in DOMAIN s.reports :
              IF s.reports[i] THEN p.end = "done" \/ "noRoute" \in f
              ELSE "late" \in f \/ ~Told(p, down)
    BY <2>1, Zenon DEF Fate
  <2> QED
    BY <2>2, <2>3, <2>4, Zenon
<1> QED
  BY <1>1, AccordInductive, PTL

(* When the keys match and nothing from outside has interfered, no program *)
(* gives up and no session reports a failure.                              *)
THEOREM FailuresHaveReasons == DialogueSpec => []FailsForAReason
<1>1. IInv /\ DInv /\ AInv => FailsForAReason
  <2> SUFFICES ASSUME IInv, DInv, AInv, NEW c \in Conns, KeysMatch(c), flaws[c] = {}
               PROVE  /\ prog[c].end # "gaveUp"
                      /\ \A i \in DOMAIN ses[c].reports : ses[c].reports[i]
    BY DEF FailsForAReason
  <2> QED
    BY OneAccord, Zenon DEF Agree, Fate
<1> QED
  BY <1>1, AccordInductive, PTL

=============================================================================
