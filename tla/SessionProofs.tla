---------------------------- MODULE SessionProofs ----------------------------
(***************************************************************************)
(* Proofs about Session, for any number of connections and any messages.   *)
(*                                                                         *)
(* The inductive invariant says of each session that it is in one of four  *)
(* phases: its current part listens to the client; an event is posted that *)
(* starts the next part; it is over and waits to be deleted; or it is gone *)
(* or never was. On top of it stand what is known of the client (Chain)    *)
(* and whose turn it is to speak (Turn). Handlers are pure operators on a  *)
(* session record, so most lemmas are about one session and no behaviour:  *)
(* whatever message a part reads, it leaves a good session behind.         *)
(***************************************************************************)
EXTENDS Session, TLAPS

(* The client was authorized, by enough, and the sinks are sealed.         *)
Vouched(s) ==
    /\ s.sealed /\ s.authorized
    /\ "allow" \in s.shown \/ {"login", "name", "pass"} \subseteq s.shown

(* The current part listens to the destination.                            *)
Listens(s) ==
    /\ s.open /\ s.connected /\ ~s.stale
    /\ s.part \in Parts
    /\ s.posted = <<>> /\ s.reports = <<>>

(* The event that starts the next part is posted.                          *)
Pending(s) ==
    /\ s.open /\ ~s.connected /\ ~s.timer
    /\ s.reports = <<>>
    /\ \/ /\ s.part = "none" /\ s.next = <<"init">>
          /\ s.posted = <<"startSession">> /\ ~s.stale
       \/ s.part \in Parts /\ s.posted = <<"execute">> /\ ~s.stale
       \/ s.part \in Parts /\ s.posted = <<"deletePart", "execute">>

(* The session reported its end, and is to be deleted.                     *)
Over(s) ==
    /\ ~s.open /\ ~s.connected /\ ~s.timer /\ ~s.stale
    /\ s.part = "none" /\ s.next = <<>> /\ s.reports # <<>>
    /\ s.posted \in {<<"deletePart", "deleteSession">>, <<"deleteSession">>, <<>>}

(* No session: there was none, or it was deleted.                          *)
Gone(s) ==
    /\ ~s.open /\ ~s.connected /\ ~s.timer /\ ~s.stale
    /\ s.part \in {"idle", "refused", "deleted"}
    /\ s.posted = <<>> /\ s.rest = <<>> /\ ~s.taken /\ ~s.authorized
    /\ s.part = "deleted" <=> s.reports # <<>>

(* The wait is bounded, but for a portion that was queued.                 *)
Timed(s) == s.timer \/ s.state = "WRITTING_LOG"

(* What is to come after each part, and what was shown before it began.    *)
Chain(s) ==
    /\ s.part = "init" => s.next = <<>>
    /\ s.part = "crypto" => s.next = <<"auth", "logs">>
    /\ s.part = "auth" => s.next = <<"logs">> /\ s.sealed /\ s.client
    /\ s.part = "logs" => s.next = <<>> /\ Vouched(s)
    /\ s.taken => Vouched(s) /\ (s.part = "logs" \/ ~s.open)
    /\ s.authorized => "allow" \in s.shown \/ {"login", "name", "pass"} \subseteq s.shown
    /\ s.module = "LOGIN_REQUESTED" => "login" \in s.shown
    /\ s.module = "PASSWORD_REQUESTED" => {"login", "name"} \subseteq s.shown

(* Of a client that waits for its answers: at most one message is under    *)
(* way, in one direction.                                                  *)
Turn(s) ==
    ~s.early =>
        /\ s.open => s.former = <<>> /\ s.hasher = <<>>
        /\ s.rest # <<>> => Len(s.rest) = 1 /\ s.written = <<>> /\ s.connected
        /\ s.connected /\ s.rest = <<>> =>
              Len(s.written) <= 1 /\ (s.written = <<>> => s.sealed)
        /\ s.open /\ ~s.connected =>
              IF s.part = "crypto" THEN Len(s.written) = 1 ELSE s.written = <<>>

(* The invariant of one session.                                           *)
Good(s) ==
    /\ s \in Sessions
    /\ (Listens(s) /\ Timed(s)) \/ Pending(s) \/ Over(s) \/ Gone(s)
    /\ Chain(s)
    /\ Turn(s)

(* A session in the middle of a handler of its current part.               *)
Reading(s) ==
    /\ s \in Sessions
    /\ Listens(s)
    /\ Chain(s)
    /\ ~s.early => /\ s.former = <<>> /\ s.hasher = <<>>
                   /\ s.rest = <<>> /\ s.written = <<>>

(* From a part to the same one, to the one after it, or to the first       *)
(* report, which says that all is well only after the last part.           *)
Moves(part, s) ==
    \/ /\ s.reports = <<>>
       /\ \/ s.part = part
          \/ part = "none" /\ s.part = "init"
          \/ part = "init" /\ s.part = "crypto"
          \/ part = "crypto" /\ s.part = "auth"
          \/ part = "auth" /\ s.part = "logs"
    \/ /\ s.reports # <<>>
       /\ part \in Parts
       /\ Head(s.reports) => part = "logs"

(* What every handler makes of a session u.                                *)
Follows(u, s) ==
    /\ Good(s)
    /\ {u.part, s.part} \subseteq Parts \cup {"none"}
    /\ \/ u.reports = <<>> /\ Moves(u.part, s)
       \/ u.reports = s.reports /\ u.part = s.part

(* What every handler of a part leaves behind.                             *)
Outcome(part, s) ==
    /\ Good(s)
    /\ s.part \in Parts \cup {"none"}
    /\ Moves(part, s)

(* Post, with the new queue given.                                         *)
LEMMA Posts ==
    ASSUME NEW s \in Sessions, NEW event, NEW q, q = Append(s.posted, event)
    PROVE  Post(s, event) = [s EXCEPT !.posted = q]
BY DEF Post

(* What sessionPartFinished starts with.                                   *)
LEMMA PostsDeletePart ==
    ASSUME NEW s \in Sessions, s.posted = <<>>
    PROVE  Post([DisconnectAll(s) EXCEPT !.part = "none"], "deletePart") =
             [s EXCEPT !.timer = FALSE, !.connected = FALSE, !.part = "none",
                       !.posted = <<"deletePart">>]
<1> DEFINE d == [s EXCEPT !.timer = FALSE, !.connected = FALSE, !.part = "none"]
<1>1. d = [DisconnectAll(s) EXCEPT !.part = "none"]
  BY DEF DisconnectAll, Sessions
<1>2. d \in Sessions
  BY Zenon DEF Sessions
<1>3. d.posted = <<>>
  BY DEF Sessions
<1>4. <<"deletePart">> = Append(d.posted, "deletePart")
  BY <1>3
<1> DEFINE q == <<"deletePart">>
<1>5. Post(d, "deletePart") = [d EXCEPT !.posted = q]
  <2> HIDE DEF d
  <2> QED
    BY <1>2, <1>4, Posts
<1> HIDE DEF q
<1>6. [d EXCEPT !.posted = q] = [s EXCEPT !.timer = FALSE, !.connected = FALSE, !.part = "none",
                       !.posted = q]
  OBVIOUS
<1> QED
  BY <1>1, <1>5, <1>6 DEF q

(* What the connections that were made report, each the same.              *)
LEMMA SameReports ==
    ASSUME NEW n \in Nat, NEW result \in BOOLEAN, NEW f,
           f = [i \in 1..(n + 1) |-> result]
    PROVE  f \in Seq(BOOLEAN) /\ f # <<>> /\ Head(f) = result /\ <<>> \o f = f
<1>1. n + 1 \in Nat /\ n + 1 > 0
  OBVIOUS
<1>2. f \in Seq(BOOLEAN)
  BY <1>1
<1>3. Len(f) = n + 1 /\ Len(<<>>) = 0
  BY <1>1
<1>4. f # <<>>
  BY <1>1, <1>3
<1>5. Head(f) = result
  BY <1>1
<1>6. <<>> \o f = f
  <2> HIDE DEF Sessions
  <2> QED
    BY <1>2
<1> QED
  BY <1>2, <1>4, <1>5, <1>6

(* A part that fails, or is the last, closes the destination and reports.  *)
LEMMA FinishedEnds ==
    ASSUME NEW s \in Sessions, NEW result \in BOOLEAN,
           s.part # "none", s.posted = <<>>, s.reports = <<>>,
           ~result \/ s.next = <<>>
    PROVE  Finished(s, result) =
             [s EXCEPT !.timer = FALSE, !.connected = FALSE, !.part = "none", !.next = <<>>,
                       !.closers = s.closers + 1, !.open = FALSE,
                       !.reports = [i \in 1..(s.closers + 1) |-> result],
                       !.posted = <<"deletePart", "deleteSession">>]
<1> DEFINE d == [s EXCEPT !.timer = FALSE, !.connected = FALSE]
           p == [s EXCEPT !.timer = FALSE, !.connected = FALSE, !.part = "none",
                          !.posted = <<"deletePart">>]
           f == [i \in 1..(s.closers + 1) |-> result]
           n == [s EXCEPT !.timer = FALSE, !.connected = FALSE, !.part = "none",
                          !.posted = <<"deletePart">>, !.next = <<>>,
                          !.closers = s.closers + 1]
           c == [s EXCEPT !.timer = FALSE, !.connected = FALSE, !.part = "none",
                          !.posted = <<"deletePart">>, !.next = <<>>,
                          !.closers = s.closers + 1, !.open = FALSE, !.reports = f]
<1>1. d = DisconnectAll(s) /\ d.part = s.part /\ d.next = s.next
  <2>1. d = DisconnectAll(s)
    BY DEF DisconnectAll
  <2>2. d.part = s.part /\ d.next = s.next
    BY DEF Sessions
  <2> QED
    BY <2>1, <2>2
<1>2. p = Post([d EXCEPT !.part = "none"], "deletePart")
  BY <1>1, PostsDeletePart
<1>3. p.next = s.next /\ p.closers = s.closers
  BY DEF Sessions
<1>4. n = [p EXCEPT !.next = <<>>, !.closers = @ + 1]
  BY DEF Sessions
<1>5. SessionPartFinished(d, result) = CloseDestination(n, result)
  <2> HIDE DEF d, p, n
  <2> QED
    BY <1>1, <1>2, <1>3, <1>4 DEF SessionPartFinished
<1>6. s.closers \in Nat /\ n.closers = s.closers + 1 /\ n.reports = <<>>
  BY DEF Sessions
<1>7. f # <<>> /\ <<>> \o f = f
  <2>1. f = [i \in 1..(s.closers + 1) |-> result]
    OBVIOUS
  <2> HIDE DEF f
  <2> QED
    BY <1>6, <2>1, SameReports
<1>8. c = [n EXCEPT !.open = FALSE, !.reports = <<>> \o f]
  <2> HIDE DEF f
  <2> QED
    BY <1>7 DEF Sessions
<1>9. c.reports = f /\ c.posted = <<"deletePart">>
  BY DEF Sessions
<1>10. CloseDestination(n, result) = Post(c, "deleteSession")
  <2> HIDE DEF n, c
  <2> QED
    BY <1>6, <1>7, <1>8, <1>9 DEF CloseDestination
<1>11. Finished(s, result) = Post(c, "deleteSession")
  BY <1>1, <1>5, <1>10 DEF Finished
<1> DEFINE q == <<"deletePart", "deleteSession">>
<1>12. q = Append(c.posted, "deleteSession")
  BY <1>9
<1>13. Post(c, "deleteSession") = [c EXCEPT !.posted = q]
  <2> HIDE DEF c, q
  <2> QED
    BY <1>12 DEF Post
<1> HIDE DEF f, q
<1>14. [c EXCEPT !.posted = q] =
         [s EXCEPT !.timer = FALSE, !.connected = FALSE, !.part = "none", !.next = <<>>,
                   !.closers = s.closers + 1, !.open = FALSE, !.reports = f, !.posted = q]
  OBVIOUS
<1> QED
  BY <1>11, <1>13, <1>14 DEF f, q

(* A part that finishes after its session is over reports once more for    *)
(* every connection that was made.                                         *)
LEMMA FinishedAgain ==
    ASSUME NEW s \in Sessions, NEW result \in BOOLEAN,
           s.part = "none", s.next = <<>>, s.reports # <<>>
    PROVE  Finished(s, result) =
             [s EXCEPT !.timer = FALSE, !.connected = FALSE, !.undefined = TRUE,
                       !.next = <<>>, !.closers = s.closers + 1, !.open = FALSE,
                       !.reports = s.reports \o [i \in 1..(s.closers + 1) |-> result]]
<1> DEFINE d == [s EXCEPT !.timer = FALSE, !.connected = FALSE]
           p == [s EXCEPT !.timer = FALSE, !.connected = FALSE, !.undefined = TRUE]
           f == [i \in 1..(s.closers + 1) |-> result]
           n == [s EXCEPT !.timer = FALSE, !.connected = FALSE, !.undefined = TRUE,
                          !.next = <<>>, !.closers = s.closers + 1]
<1>1. d = DisconnectAll(s)
  BY DEF DisconnectAll
<1>2. d.part = "none" /\ p = [d EXCEPT !.undefined = TRUE]
  BY DEF Sessions
<1>3. p.next = <<>> /\ n = [p EXCEPT !.next = <<>>, !.closers = @ + 1]
  BY DEF Sessions
<1>4. SessionPartFinished(d, result) = CloseDestination(n, result)
  <2> HIDE DEF d, p, n
  <2> QED
    BY <1>2, <1>3 DEF SessionPartFinished
<1>5. n.closers = s.closers + 1 /\ n.reports = s.reports
  BY DEF Sessions
<1>6. CloseDestination(n, result) = [n EXCEPT !.open = FALSE, !.reports = s.reports \o f]
  <2> HIDE DEF n
  <2> QED
    BY <1>5 DEF CloseDestination
<1> HIDE DEF f
<1>7. [n EXCEPT !.open = FALSE, !.reports = s.reports \o f] =
         [s EXCEPT !.timer = FALSE, !.connected = FALSE, !.undefined = TRUE,
                   !.next = <<>>, !.closers = s.closers + 1, !.open = FALSE,
                   !.reports = s.reports \o f]
  BY DEF Sessions
<1> QED
  BY <1>1, <1>4, <1>6, <1>7 DEF Finished, f

(* A part that succeeds and is not the last is replaced by the next.       *)
LEMMA FinishedGoesOn ==
    ASSUME NEW s \in Sessions,
           s.part # "none", s.posted = <<>>, s.next # <<>>
    PROVE  Finished(s, TRUE) =
             [s EXCEPT !.timer = FALSE, !.connected = FALSE, !.state = "NONE",
                       !.part = Head(s.next), !.next = Tail(s.next),
                       !.posted = <<"deletePart", "execute">>]
<1> DEFINE d == [s EXCEPT !.timer = FALSE, !.connected = FALSE]
           p == [s EXCEPT !.timer = FALSE, !.connected = FALSE, !.part = "none",
                          !.posted = <<"deletePart">>]
<1>1. d = DisconnectAll(s)
  BY DEF DisconnectAll
<1>2. p = Post([d EXCEPT !.part = "none"], "deletePart")
  BY <1>1, PostsDeletePart
<1>2a. d.part = s.part
  BY DEF Sessions
<1>3. p.next = s.next
  BY DEF Sessions
<1>4. SessionPartFinished(d, TRUE) = TakeNextPart(p)
  <2> HIDE DEF d, p
  <2> QED
    BY <1>2, <1>2a, <1>3 DEF SessionPartFinished
<1> DEFINE h == Head(s.next)
           r == Tail(s.next)
           t == [s EXCEPT !.timer = FALSE, !.connected = FALSE, !.part = h,
                          !.posted = <<"deletePart">>, !.next = r, !.state = "NONE"]
<1>5. TakeNextPart(p) = Post(t, "execute")
  BY <1>3 DEF TakeNextPart, Sessions
<1>6. s.next \in Seq(Parts)
  BY DEF Sessions
<1>7. h \in Parts /\ r \in Seq(Parts)
  BY <1>6
<1>7a. <<"deletePart">> \in Seq(Events)
  BY DEF Events
<1>8. t \in Sessions
  <2> HIDE DEF h, r
  <2> QED
    BY <1>7, <1>7a, Zenon DEF Sessions, States
<1> HIDE DEF h, r
<1>9. t.posted = <<"deletePart">>
  BY DEF Sessions
<1> DEFINE q == <<"deletePart", "execute">>
<1>10. q = Append(t.posted, "execute")
  BY <1>9
<1>11. Post(t, "execute") = [t EXCEPT !.posted = q]
  <2> HIDE DEF t, q
  <2> QED
    BY <1>8, <1>10, Posts
<1> HIDE DEF q
<1>12. [t EXCEPT !.posted = q] =
         [s EXCEPT !.timer = FALSE, !.connected = FALSE, !.state = "NONE",
                   !.part = h, !.next = r, !.posted = q]
  OBVIOUS
<1> QED
  BY <1>1, <1>4, <1>5, <1>11, <1>12 DEF Finished, h, r, q

Quick(s) == ~s.early => /\ s.former = <<>> /\ s.hasher = <<>> /\ s.rest = <<>>

(* What is known of the client whatever the part.                          *)
Known(s) ==
    /\ s.authorized => "allow" \in s.shown \/ {"login", "name", "pass"} \subseteq s.shown
    /\ s.module = "LOGIN_REQUESTED" => "login" \in s.shown
    /\ s.module = "PASSWORD_REQUESTED" => {"login", "name"} \subseteq s.shown

(* The end of a session leaves it good.                                    *)
LEMMA EndsWell ==
    ASSUME NEW s \in Sessions, NEW result \in BOOLEAN,
           s.part \in Parts, s.posted = <<>>, s.reports = <<>>, ~s.stale,
           ~result \/ s.next = <<>>,
           ~s.early => s.rest = <<>>, Known(s), s.taken => Vouched(s)
    PROVE  /\ Good(Finished(s, result)) /\ Over(Finished(s, result))
           /\ Head(Finished(s, result).reports) = result
<1> DEFINE f == [i \in 1..(s.closers + 1) |-> result]
           q == <<"deletePart", "deleteSession">>
           n == s.closers + 1
           t == [s EXCEPT !.timer = FALSE, !.connected = FALSE, !.part = "none", !.next = <<>>,
                          !.closers = n, !.open = FALSE, !.reports = f, !.posted = q]
<1>1. s.closers \in Nat
  BY DEF Sessions
<1>2. n \in Nat
  BY <1>1
<1>2a. f \in Seq(BOOLEAN) /\ f # <<>> /\ Head(f) = result
  <2>1. f = [i \in 1..(s.closers + 1) |-> result]
    OBVIOUS
  <2> HIDE DEF f
  <2> QED
    BY <1>1, <2>1, SameReports
<1>3. q \in Seq(Events) /\ <<>> \in Seq(Parts)
  BY DEF Events
<1>4. s.part # "none"
  BY DEF Parts
<1>5. Finished(s, result) = t
  BY <1>4, FinishedEnds
<1> HIDE DEF f, n, q
<1>6. t \in Sessions
  BY <1>2, <1>2a, <1>3, Zenon DEF Sessions
<1>7. /\ ~t.open /\ ~t.connected /\ ~t.timer /\ t.part = "none" /\ t.next = <<>>
      /\ t.reports = f /\ t.posted = q /\ t.stale = s.stale
      /\ t.rest = s.rest /\ t.early = s.early /\ t.taken = s.taken /\ t.sealed = s.sealed
      /\ t.authorized = s.authorized /\ t.shown = s.shown /\ t.module = s.module
  BY DEF Sessions
<1> HIDE DEF t
<1>8. Over(t)
  BY <1>2a, <1>7 DEF Over, q
<1>9. Chain(t)
  BY <1>7 DEF Chain, Known, Vouched
<1>10. Turn(t)
  BY <1>7 DEF Turn
<1> QED
  BY <1>2a, <1>5, <1>6, <1>7, <1>8, <1>9, <1>10 DEF Good

(* So does a second end.                                                   *)
LEMMA EndsAgain ==
    ASSUME NEW s, NEW result \in BOOLEAN, Good(s), Over(s)
    PROVE  /\ Good(Finished(s, result)) /\ Over(Finished(s, result))
           /\ Head(Finished(s, result).reports) = Head(s.reports)
<1> DEFINE f == s.reports \o [i \in 1..(s.closers + 1) |-> result]
           n == s.closers + 1
           t == [s EXCEPT !.timer = FALSE, !.connected = FALSE, !.undefined = TRUE,
                          !.next = <<>>, !.closers = n, !.open = FALSE, !.reports = f]
<1>0. s \in Sessions
  BY DEF Good
<1>1. s.closers \in Nat /\ s.reports \in Seq(BOOLEAN) /\ s.reports # <<>>
  BY <1>0 DEF Sessions, Over
<1>2. n \in Nat /\ f \in Seq(BOOLEAN) /\ f # <<>>
  <2>1. [i \in 1..(s.closers + 1) |-> result] \in Seq(BOOLEAN)
    BY <1>1
  <2> QED
    BY <1>1, <2>1
<1>2a. Head(f) = Head(s.reports)
  <2>1. [i \in 1..(s.closers + 1) |-> result] \in Seq(BOOLEAN)
    BY <1>1
  <2>2. \A g, h \in Seq(BOOLEAN) : g # <<>> => Head(g \o h) = Head(g)
    OBVIOUS
  <2> QED
    BY <1>1, <2>1, <2>2
<1>3. <<>> \in Seq(Parts)
  OBVIOUS
<1>5. Finished(s, result) = t
  BY <1>0, FinishedAgain DEF Over
<1> HIDE DEF f, n
<1>6. t \in Sessions
  BY <1>0, <1>2, <1>3, Zenon DEF Sessions
<1>7. /\ ~t.open /\ ~t.connected /\ ~t.timer /\ t.part = s.part /\ t.next = <<>>
      /\ t.reports = f /\ t.posted = s.posted /\ t.stale = s.stale
      /\ t.rest = s.rest /\ t.early = s.early /\ t.taken = s.taken /\ t.sealed = s.sealed
      /\ t.authorized = s.authorized /\ t.shown = s.shown /\ t.module = s.module
  BY <1>0 DEF Sessions
<1> HIDE DEF t
<1>8. Over(t)
  BY <1>2, <1>7 DEF Over
<1>9. Chain(t)
  BY <1>7 DEF Chain, Good, Vouched, Over
<1>10. Turn(t)
  BY <1>7 DEF Turn, Good, Over
<1> QED
  BY <1>2a, <1>5, <1>6, <1>7, <1>8, <1>9, <1>10 DEF Good

(* So does the change to the next part, if that part may begin.            *)
LEMMA GoesOnWell ==
    ASSUME NEW s \in Sessions,
           s.part \in Parts, s.posted = <<>>, s.reports = <<>>, s.open, ~s.taken,
           Quick(s), Known(s),
           \/ s.next = <<"crypto", "auth", "logs">> /\ (~s.early => Len(s.written) = 1)
           \/ /\ s.next = <<"auth", "logs">> /\ s.sealed /\ s.client
              /\ ~s.early => s.written = <<>>
           \/ s.next = <<"logs">> /\ Vouched(s) /\ (~s.early => s.written = <<>>)
    PROVE  Good(Finished(s, TRUE)) /\ Pending(Finished(s, TRUE))
                /\ Finished(s, TRUE).part \in Parts
                /\ Finished(s, TRUE).part = Head(s.next)
<1> DEFINE h == Head(s.next)
           r == Tail(s.next)
           q == <<"deletePart", "execute">>
           t == [s EXCEPT !.timer = FALSE, !.connected = FALSE, !.state = "NONE",
                          !.part = h, !.next = r, !.posted = q]
<1>0. s.next \in Seq(Parts)
  BY DEF Sessions
<1>1. s.next # <<>>
  <2>1. /\ <<"crypto", "auth", "logs">> # <<>>
        /\ <<"auth", "logs">> # <<>>
        /\ <<"logs">> # <<>>
    OBVIOUS
  <2> QED
    BY <2>1, Zenon
<1>2. h \in Parts /\ r \in Seq(Parts)
  BY <1>0, <1>1
<1>3. q \in Seq(Events)
  BY DEF Events
<1>4. s.part # "none"
  BY DEF Parts
<1>5. Finished(s, TRUE) = t
  BY <1>1, <1>4, FinishedGoesOn
<1> HIDE DEF h, r, q
<1>6. t \in Sessions
  BY <1>2, <1>3, Zenon DEF Sessions, States
<1>7. /\ t.open = s.open /\ ~t.connected /\ ~t.timer /\ t.part = h /\ t.next = r
      /\ t.reports = s.reports /\ t.posted = q /\ t.client = s.client
      /\ t.rest = s.rest /\ t.early = s.early /\ t.taken = s.taken /\ t.sealed = s.sealed
      /\ t.authorized = s.authorized /\ t.shown = s.shown /\ t.module = s.module
      /\ t.former = s.former /\ t.hasher = s.hasher /\ t.written = s.written
  BY DEF Sessions
<1> HIDE DEF t
<1>8. Pending(t)
  BY <1>2, <1>7 DEF Pending, q
<1>9. Chain(t) /\ Turn(t)
  <2>1. CASE s.next = <<"crypto", "auth", "logs">> /\ (~s.early => Len(s.written) = 1)
    <3>1. h = "crypto" /\ r = <<"auth", "logs">>
      BY <2>1 DEF h, r
    <3> QED
      BY <1>7, <2>1, <3>1 DEF Chain, Turn, Known, Quick
  <2>2. CASE /\ s.next = <<"auth", "logs">> /\ s.sealed /\ s.client
             /\ ~s.early => s.written = <<>>
    <3>1. h = "auth" /\ r = <<"logs">>
      BY <2>2 DEF h, r
    <3> QED
      BY <1>7, <2>2, <3>1 DEF Chain, Turn, Known, Quick
  <2>3. CASE s.next = <<"logs">> /\ Vouched(s) /\ (~s.early => s.written = <<>>)
    <3>1. h = "logs" /\ r = <<>>
      BY <2>3 DEF h, r
    <3> QED
      BY <1>7, <2>3, <3>1 DEF Chain, Turn, Known, Quick, Vouched
  <2> QED
    BY <2>1, <2>2, <2>3
<1> QED
  BY <1>2, <1>5, <1>6, <1>7, <1>8, <1>9 DEF Good, h

(* A part that answers and waits on leaves a good session.                 *)
LEMMA StaysWell ==
    ASSUME NEW s, Reading(s), NEW answer \in Answers, NEW state \in States
    PROVE  Outcome(s.part, Await(Write(s, answer), state))
<1> DEFINE w == Append(s.written, answer)
           t == [s EXCEPT !.written = w, !.timer = TRUE, !.state = state]
<1>0. s \in Sessions /\ s.open
  BY DEF Reading, Listens
<1>1. s.written \in Seq(Answers)
  BY <1>0 DEF Sessions
<1>2. w \in Seq(Answers) /\ Len(w) = Len(s.written) + 1 /\ w # <<>>
  BY <1>1
<1>5. Await(Write(s, answer), state) = t
  <2> HIDE DEF w
  <2>1. Write(s, answer) = [s EXCEPT !.written = w]
    BY <1>0 DEF Write, w
  <2> QED
    BY <2>1 DEF Await
<1> HIDE DEF w
<1>6. t \in Sessions
  BY <1>0, <1>2, Zenon DEF Sessions
<1>7. /\ t.open = s.open /\ t.connected = s.connected /\ t.timer /\ t.part = s.part
      /\ t.next = s.next /\ t.client = s.client /\ t.stale = s.stale
      /\ t.reports = s.reports /\ t.posted = s.posted
      /\ t.rest = s.rest /\ t.early = s.early /\ t.taken = s.taken /\ t.sealed = s.sealed
      /\ t.authorized = s.authorized /\ t.shown = s.shown /\ t.module = s.module
      /\ t.former = s.former /\ t.hasher = s.hasher /\ t.written = w
  BY <1>0 DEF Sessions
<1> HIDE DEF t
<1>8. Listens(t) /\ Timed(t)
  BY <1>7 DEF Listens, Timed, Reading
<1>9. Chain(t)
  BY <1>7 DEF Chain, Vouched, Reading
<1>10. Turn(t)
  BY <1>2, <1>7, <1>8 DEF Turn, Reading, Listens
<1> QED
  BY <1>5, <1>6, <1>7, <1>8, <1>9, <1>10 DEF Good, Outcome, Moves, Listens

(* A part that is reading may end the session.                             *)
LEMMA ReadingEnds ==
    ASSUME NEW s, Reading(s), NEW result \in BOOLEAN, result => s.part = "logs"
    PROVE  /\ Outcome(s.part, Finished(s, result))
           /\ Good(Finished(s, result)) /\ Over(Finished(s, result))
           /\ Head(Finished(s, result).reports) = result
<1>1. /\ s \in Sessions /\ s.part \in Parts /\ s.posted = <<>> /\ s.reports = <<>> /\ ~s.stale
      /\ ~s.early => s.rest = <<>>
  BY DEF Reading, Listens
<1>2. Known(s) /\ (s.taken => Vouched(s))
  BY DEF Reading, Chain, Known
<1>3. ~result \/ s.next = <<>>
  BY DEF Reading, Chain
<1>4. Good(Finished(s, result)) /\ Over(Finished(s, result))
      /\ Head(Finished(s, result).reports) = result
  BY <1>1, <1>2, <1>3, EndsWell
<1> QED
  BY <1>1, <1>4 DEF Outcome, Moves, Over

(* GoesOnWell, for the handlers.                                           *)
LEMMA ReadingGoesOn ==
    ASSUME NEW s \in Sessions,
           s.part \in Parts, s.posted = <<>>, s.reports = <<>>, s.open, ~s.taken,
           Quick(s), Known(s),
           \/ /\ s.part = "init" /\ s.next = <<"crypto", "auth", "logs">>
              /\ ~s.early => Len(s.written) = 1
           \/ /\ s.part = "crypto" /\ s.next = <<"auth", "logs">> /\ s.sealed /\ s.client
              /\ ~s.early => s.written = <<>>
           \/ /\ s.part = "auth" /\ s.next = <<"logs">> /\ Vouched(s)
              /\ ~s.early => s.written = <<>>
    PROVE  Outcome(s.part, Finished(s, TRUE))
<1> DEFINE t == Finished(s, TRUE)
<1>1. Good(t) /\ Pending(t) /\ t.part \in Parts /\ t.part = Head(s.next)
  BY GoesOnWell
<1>2. /\ Head(<<"crypto", "auth", "logs">>) = "crypto"
      /\ Head(<<"auth", "logs">>) = "auth"
      /\ Head(<<"logs">>) = "logs"
  OBVIOUS
<1> HIDE DEF t
<1>3. Moves(s.part, t)
  BY <1>1, <1>2 DEF Moves, Pending
<1> QED
  BY <1>1, <1>3 DEF Outcome, t

(* SessionInitializer leaves a good session, whatever it reads.            *)
LEMMA InitWell ==
    ASSUME NEW s, Reading(s), s.part = "init", NEW k \in Kinds
    PROVE  Outcome(s.part, InitReceived(s, k))
<1>0. s \in Sessions
  BY DEF Reading
<1>1. CASE k = "protocol"
  <2> DEFINE w == Append(s.written, "ACK")
             n == <<"crypto", "auth", "logs">>
             t == [s EXCEPT !.next = n, !.written = w]
  <2>1. s.next = <<>> /\ s.open
    BY DEF Reading, Listens, Chain
  <2>2. s.next \o n = n
    BY <2>1
  <2>3. s.written \in Seq(Answers) /\ "ACK" \in Answers
    BY <1>0 DEF Sessions, Answers
  <2>4. w \in Seq(Answers) /\ Len(w) = Len(s.written) + 1 /\ n \in Seq(Parts)
    BY <2>3 DEF Parts
  <2> HIDE DEF n, w
  <2>5. t \in Sessions
    BY <1>0, <2>4, Zenon DEF Sessions
  <2>6. Write([s EXCEPT !.next = @ \o <<"crypto", "auth", "logs">>], "ACK") = t
    BY <1>0, <2>1, <2>2 DEF Write, Sessions, n, w
  <2>7. /\ t.next = n /\ t.written = w /\ t.part = s.part /\ t.posted = s.posted
        /\ t.reports = s.reports /\ t.open = s.open /\ t.taken = s.taken
        /\ t.early = s.early /\ t.former = s.former /\ t.hasher = s.hasher /\ t.rest = s.rest
        /\ t.authorized = s.authorized /\ t.shown = s.shown /\ t.module = s.module
    BY <1>0 DEF Sessions
  <2> HIDE DEF t
  <2>8. ~s.early => s.written = <<>>
    BY DEF Reading
  <2>9. Quick(t) /\ Known(t) /\ ~t.taken /\ t.part \in Parts /\ t.posted = <<>>
        /\ t.reports = <<>> /\ t.open
    BY <2>7 DEF Quick, Known, Reading, Chain, Listens
  <2>10. t.next = <<"crypto", "auth", "logs">> /\ (~t.early => Len(t.written) = 1)
    <3>1. t.next = <<"crypto", "auth", "logs">>
      BY <2>7 DEF n
    <3>2. Len(<<>>) = 0
      OBVIOUS
    <3>3. ~t.early => Len(t.written) = 1
      <4> DEFINE before == Len(s.written)
                 after == Len(t.written)
      <4>1. after = before + 1
        BY <2>4, <2>7, Zenon
      <4>2. ~t.early => before = 0
        BY <2>7, <2>8, <3>2, Zenon
      <4> HIDE DEF before, after
      <4>3. ~t.early => after = 1
        BY <4>1, <4>2
      <4> QED
        BY <4>3 DEF after
    <3> QED
      BY <3>1, <3>3
  <2>11. Outcome(t.part, Finished(t, TRUE))
    BY <2>5, <2>7, <2>9, <2>10, ReadingGoesOn
  <2> QED
    BY <1>1, <2>6, <2>7, <2>11 DEF InitReceived
<1>2. CASE k = "badProtocol"
  <2>1. "NACK" \in Answers /\ s.state \in States
    BY <1>0 DEF Answers, Sessions
  <2>2. Outcome(s.part, Await(Write(s, "NACK"), s.state))
    BY <2>1, StaysWell
  <2> QED
    BY <1>2, <2>2 DEF InitReceived
<1>3. CASE k \notin {"protocol", "badProtocol"}
  <2>1. Outcome(s.part, Finished(s, FALSE))
    BY ReadingEnds
  <2> QED
    BY <1>3, <2>1 DEF InitReceived
<1> QED
  BY <1>1, <1>2, <1>3

(* Setting the sinks of a session that is over changes nothing that        *)
(* matters.                                                                *)
LEMMA SealOver ==
    ASSUME NEW s, Good(s), Over(s)
    PROVE  Good(Seal(s)) /\ Over(Seal(s)) /\ Seal(s).reports = s.reports
<1> DEFINE t == Seal(s)
<1>1. s \in Sessions
  BY DEF Good
<1>2. t \in Sessions
  BY <1>1, Zenon DEF Seal, Sessions
<1>3. /\ t.open = s.open /\ t.connected = s.connected /\ t.timer = s.timer
      /\ t.stale = s.connected /\ t.part = s.part /\ t.next = s.next
      /\ t.reports = s.reports /\ t.posted = s.posted /\ t.rest = s.rest
      /\ t.early = s.early /\ t.taken = s.taken /\ t.sealed
      /\ t.authorized = s.authorized /\ t.shown = s.shown /\ t.module = s.module
  BY <1>1 DEF Sessions, Seal
<1> HIDE DEF t
<1>4. Over(t)
  BY <1>3 DEF Over
<1>5. Chain(t)
  BY <1>3 DEF Good, Over, Chain, Vouched
<1>6. Turn(t)
  BY <1>3 DEF Good, Over, Turn
<1> QED
  BY <1>2, <1>3, <1>4, <1>5, <1>6 DEF Good, t

(* keyReceived leaves a good session, also when it goes on after a         *)
(* failure.                                                                *)
LEMMA KeyWell ==
    ASSUME NEW s, Reading(s), s.part = "crypto", NEW k \in Kinds
    PROVE  Outcome(s.part, KeyReceived(s, k))
<1>0. s \in Sessions /\ s.open
  BY DEF Reading, Listens
<1> DEFINE once == Finished(s, FALSE)
           twice == Finished(once, FALSE)
<1>1. Outcome(s.part, once) /\ Good(once) /\ Over(once) /\ Head(once.reports) = FALSE
  BY ReadingEnds
<1>2. Good(twice) /\ Over(twice) /\ Head(twice.reports) = FALSE
  BY <1>1, EndsAgain
<1>3. \A t : Good(t) /\ Over(t) /\ Head(t.reports) = FALSE => Outcome(s.part, t)
  BY DEF Outcome, Moves, Over, Parts
<1> HIDE DEF once, twice
<1>4. /\ Good(Finished(Seal(once), TRUE)) /\ Over(Finished(Seal(once), TRUE))
      /\ Head(Finished(Seal(once), TRUE).reports) = FALSE
  BY <1>1, SealOver, EndsAgain
<1>5. /\ Good(Finished(Seal(twice), TRUE)) /\ Over(Finished(Seal(twice), TRUE))
      /\ Head(Finished(Seal(twice), TRUE).reports) = FALSE
  BY <1>2, SealOver, EndsAgain
<1>6. Outcome(s.part, Finished(Seal(s), TRUE))
  <2> DEFINE t == Seal(s)
  <2>1. t \in Sessions
    BY <1>0, Zenon DEF Seal, Sessions
  <2>2. /\ t.next = s.next /\ t.written = s.written /\ t.part = s.part /\ t.posted = s.posted
        /\ t.reports = s.reports /\ t.open = s.open /\ t.taken = s.taken
        /\ t.sealed /\ t.client
        /\ t.early = s.early /\ t.former = s.former /\ t.hasher = s.hasher /\ t.rest = s.rest
        /\ t.authorized = s.authorized /\ t.shown = s.shown /\ t.module = s.module
    BY <1>0 DEF Sessions, Seal
  <2> HIDE DEF t
  <2>3. Quick(t) /\ Known(t) /\ ~t.taken /\ t.part \in Parts /\ t.posted = <<>>
        /\ t.reports = <<>> /\ t.open
    BY <2>2 DEF Quick, Known, Reading, Chain, Listens
  <2>4. t.next = <<"auth", "logs">> /\ (~t.early => t.written = <<>>)
    BY <2>2 DEF Reading, Chain
  <2>5. Outcome(t.part, Finished(t, TRUE))
    BY <2>1, <2>2, <2>3, <2>4, ReadingGoesOn
  <2> QED
    BY <2>2, <2>5 DEF t
<1> QED
  BY <1>1, <1>2, <1>3, <1>4, <1>5, <1>6 DEF KeyReceived, once, twice

(* So does CryptographyInitializer.                                        *)
LEMMA CryptoWell ==
    ASSUME NEW s, Reading(s), s.part = "crypto", NEW k \in Kinds
    PROVE  Outcome(s.part, CryptoReceived(s, k))
<1>1. \A answer \in Answers, state \in States : Outcome(s.part, Await(Write(s, answer), state))
  BY StaysWell
<1>2. /\ {"CHOOSE_ALGORITHM", "ACK", "NACK"} \subseteq Answers
      /\ {"WAITING_FOR_ALGORITHM", "WAITING_FOR_KEY"} \subseteq States
      /\ s.state \in States
  BY DEF Answers, States, Reading, Sessions
<1>3. Outcome(s.part, KeyReceived(s, k))
  BY KeyWell
<1>4. Outcome(s.part, Finished(s, FALSE))
  BY ReadingEnds
<1> QED
  BY <1>1, <1>2, <1>3, <1>4 DEF CryptoReceived

ShownEnough(s) == "allow" \in s.shown \/ {"login", "name", "pass"} \subseteq s.shown

(* The answer of a module ends the part of a client that showed enough, or *)
(* the session.                                                            *)
LEMMA AuthorizationWell ==
    ASSUME NEW s, Reading(s), s.part = "auth", NEW result \in BOOLEAN,
           result => ShownEnough(s)
    PROVE  Outcome(s.part, AuthorizationFinished(s, result))
<1> DEFINE t == [s EXCEPT !.authorized = result, !.module = "none"]
<1>0. s \in Sessions
  BY DEF Reading
<1>1. t \in Sessions
  BY <1>0, Zenon DEF Sessions
<1>2. /\ t.next = s.next /\ t.written = s.written /\ t.part = s.part /\ t.posted = s.posted
      /\ t.reports = s.reports /\ t.open = s.open /\ t.taken = s.taken /\ t.stale = s.stale
      /\ t.sealed = s.sealed /\ t.early = s.early /\ t.former = s.former
      /\ t.hasher = s.hasher /\ t.rest = s.rest
      /\ t.authorized = result /\ t.shown = s.shown /\ t.module = "none"
  BY <1>0 DEF Sessions
<1> HIDE DEF t
<1>3. /\ Quick(t) /\ ~t.taken /\ t.part \in Parts /\ t.posted = <<>>
      /\ t.reports = <<>> /\ t.open /\ ~t.stale
      /\ ~t.early => t.rest = <<>>
  BY <1>2 DEF Quick, Reading, Chain, Listens
<1>4. Known(t)
  BY <1>2 DEF Known, ShownEnough
<1>5. CASE result
  <2>1. t.next = <<"logs">> /\ Vouched(t) /\ (~t.early => t.written = <<>>)
    BY <1>2, <1>5 DEF Reading, Chain, Vouched, ShownEnough
  <2>2. Outcome(t.part, Finished(t, TRUE))
    BY <1>1, <1>2, <1>3, <1>4, <2>1, ReadingGoesOn
  <2> QED
    BY <1>2, <1>5, <2>2 DEF AuthorizationFinished, t
<1>6. CASE ~result
  <2>1. Good(Finished(t, FALSE)) /\ Over(Finished(t, FALSE))
        /\ Head(Finished(t, FALSE).reports) = FALSE
    BY <1>1, <1>3, <1>4, EndsWell
  <2>2. Outcome(t.part, Finished(t, FALSE))
    BY <1>3, <2>1 DEF Outcome, Moves, Over
  <2> QED
    BY <1>2, <1>6, <2>2 DEF AuthorizationFinished, t
<1> QED
  BY <1>5, <1>6

(* A module that asks for data leaves a good session.                      *)
LEMMA AsksWell ==
    ASSUME NEW s, Reading(s), s.part = "auth",
           NEW module \in {"LOGIN_REQUESTED", "PASSWORD_REQUESTED"},
           NEW answer \in Answers, NEW state \in States,
           "login" \in s.shown, module = "PASSWORD_REQUESTED" => "name" \in s.shown
    PROVE  Outcome(s.part, Await(Write([s EXCEPT !.module = module], answer), state))
<1> DEFINE t == [s EXCEPT !.module = module]
<1>0. s \in Sessions
  BY DEF Reading
<1>1. t \in Sessions
  BY <1>0, Zenon DEF Sessions
<1>2. /\ t.next = s.next /\ t.written = s.written /\ t.part = s.part /\ t.posted = s.posted
      /\ t.reports = s.reports /\ t.open = s.open /\ t.taken = s.taken /\ t.stale = s.stale
      /\ t.sealed = s.sealed /\ t.early = s.early /\ t.former = s.former
      /\ t.hasher = s.hasher /\ t.rest = s.rest /\ t.connected = s.connected
      /\ t.authorized = s.authorized /\ t.shown = s.shown /\ t.module = module
      /\ t.client = s.client
  BY <1>0 DEF Sessions
<1> HIDE DEF t
<1>3. Listens(t)
  BY <1>2 DEF Listens, Reading
<1>4. Chain(t)
  BY <1>2 DEF Chain, Reading, Vouched
<1>5. Reading(t)
  BY <1>1, <1>2, <1>3, <1>4 DEF Reading
<1> QED
  BY <1>2, <1>5, StaysWell DEF t

(* ClientAuthorizer and its modules leave a good session, whatever they    *)
(* read.                                                                   *)
LEMMA AuthWell ==
    ASSUME NEW s, Reading(s), s.part = "auth", NEW k \in Kinds
    PROVE  Outcome(s.part, AuthReceived(s, k))
<1> DEFINE w == s.shown \cup ({k} \cap {"allow", "login", "name", "pass"})
           t == [s EXCEPT !.shown = w]
<1>0. s \in Sessions
  BY DEF Reading
<1>1. s.shown \in SUBSET Kinds /\ s.state \in States
  BY <1>0 DEF Sessions
<1>2. w \in SUBSET Kinds
  BY <1>1
<1>3. s.shown \subseteq w /\ (k \in {"allow", "login", "name", "pass"} => k \in w)
  OBVIOUS
<1>4. t = [s EXCEPT !.shown = @ \cup ({k} \cap {"allow", "login", "name", "pass"})]
  OBVIOUS
<1> HIDE DEF w
<1>5. t \in Sessions
  BY <1>0, <1>2, Zenon DEF Sessions
<1>6. /\ t.next = s.next /\ t.written = s.written /\ t.part = s.part /\ t.posted = s.posted
      /\ t.reports = s.reports /\ t.open = s.open /\ t.taken = s.taken /\ t.stale = s.stale
      /\ t.sealed = s.sealed /\ t.early = s.early /\ t.former = s.former
      /\ t.hasher = s.hasher /\ t.rest = s.rest /\ t.connected = s.connected
      /\ t.authorized = s.authorized /\ t.shown = w /\ t.module = s.module
      /\ t.client = s.client /\ t.state = s.state
  BY <1>0 DEF Sessions
<1>7. AuthReceived(s, k) =
         CASE t.state = "WAITING_FOR_MODULE_ID" -> ModuleIdReceived(t, k)
           [] t.state = "AUTH_IN_PROGRESS" /\ k \in AuthData -> NewDataArrived(t, k)
           [] OTHER -> Finished(t, FALSE)
  BY <1>4, <1>6 DEF AuthReceived
<1> HIDE DEF t
<1>8. Listens(t)
  BY <1>6 DEF Listens, Reading
<1>9. Chain(t)
  <2>1. Vouched(s) => Vouched(t)
    BY <1>3, <1>6 DEF Vouched
  <2>2. ShownEnough(s) => ShownEnough(t)
    BY <1>3, <1>6 DEF ShownEnough
  <2>3. /\ "login" \in s.shown => "login" \in t.shown
        /\ {"login", "name"} \subseteq s.shown => {"login", "name"} \subseteq t.shown
    BY <1>3, <1>6
  <2> QED
    BY <1>6, <2>1, <2>2, <2>3 DEF Chain, Reading, ShownEnough
<1>10. Reading(t)
  BY <1>5, <1>6, <1>8, <1>9 DEF Reading
<1>11. \A answer \in Answers, state \in States : Outcome(t.part, Await(Write(t, answer), state))
  BY <1>10, StaysWell
<1>12. Outcome(t.part, Finished(t, FALSE))
  BY <1>10, ReadingEnds
<1>13. \A result \in BOOLEAN : (result => ShownEnough(t)) =>
            Outcome(t.part, AuthorizationFinished(t, result))
  BY <1>6, <1>10, AuthorizationWell
<1>14. {"LOGIN", "PASSWORD", "NACK"} \subseteq Answers /\ "AUTH_IN_PROGRESS" \in States
       /\ t.state \in States
  BY <1>1, <1>6 DEF Answers, States
<1>15. Outcome(t.part, ModuleIdReceived(t, k))
  <2>1. CASE k \in Modules /\ ~t.client
    BY <1>12, <2>1 DEF ModuleIdReceived
  <2>2. CASE k = "allow"
    <3>1. ShownEnough(t)
      BY <1>3, <1>6, <2>2 DEF ShownEnough
    <3> QED
      BY <1>12, <1>13, <2>2, <3>1 DEF ModuleIdReceived, Modules
  <2>3. CASE k = "login"
    <3>1. "login" \in t.shown
      BY <1>3, <1>6, <2>3
    <3>2. Outcome(t.part, Await(Write([t EXCEPT !.module = "LOGIN_REQUESTED"], "LOGIN"),
                        "AUTH_IN_PROGRESS"))
      BY <1>6, <1>10, <1>14, <3>1, AsksWell
    <3> QED
      BY <1>12, <2>3, <3>2 DEF ModuleIdReceived, Modules
  <2>4. CASE k = "noData"
    BY <1>12, <1>13, <2>4 DEF ModuleIdReceived, Modules
  <2>5. CASE k = "noModule"
    BY <1>11, <1>12, <1>14, <2>5 DEF ModuleIdReceived, Modules
  <2>6. CASE k \notin Modules
    BY <1>12, <2>6 DEF ModuleIdReceived, Modules
  <2> QED
    BY <2>1, <2>2, <2>3, <2>4, <2>5, <2>6 DEF Modules
<1>16. ASSUME k \in AuthData PROVE Outcome(t.part, NewDataArrived(t, k))
  <2>1. CASE t.module = "LOGIN_REQUESTED" /\ k = "name"
    <3>1. "login" \in t.shown /\ "name" \in t.shown
      BY <1>3, <1>6, <1>10, <2>1 DEF Reading, Chain
    <3>2. Outcome(t.part, Await(Write([t EXCEPT !.module = "PASSWORD_REQUESTED"], "PASSWORD"), t.state))
      BY <1>6, <1>10, <1>14, <3>1, AsksWell
    <3> QED
      BY <2>1, <3>2 DEF NewDataArrived
  <2>2. CASE ~(t.module = "LOGIN_REQUESTED" /\ k = "name")
    <3>1. t.module = "PASSWORD_REQUESTED" /\ k = "pass" => ShownEnough(t)
      BY <1>3, <1>6, <1>10 DEF ShownEnough, Reading, Chain
    <3>2. Outcome(t.part, AuthorizationFinished(t, t.module = "PASSWORD_REQUESTED" /\ k = "pass"))
      BY <1>13, <3>1
    <3> QED
      BY <2>2, <3>2 DEF NewDataArrived
  <2> QED
    BY <2>1, <2>2
<1> QED
  BY <1>6, <1>7, <1>12, <1>15, <1>16

(* So does LogsTransmitter.                                                *)
LEMMA LogsWell ==
    ASSUME NEW s, Reading(s), s.part = "logs", NEW k \in Kinds
    PROVE  Outcome(s.part, LogsReceived(s, k))
<1>0. s \in Sessions /\ s.state \in States /\ s.open
  BY DEF Reading, Sessions, Listens
<1>1. s.next = <<>> /\ Vouched(s)
  BY DEF Reading, Chain
<1>2. CASE k = "logs"
  <2> DEFINE t == [s EXCEPT !.taken = TRUE]
  <2>1. t \in Sessions
    BY <1>0, Zenon DEF Sessions
  <2>2. /\ t.next = s.next /\ t.written = s.written /\ t.part = s.part /\ t.posted = s.posted
        /\ t.reports = s.reports /\ t.open = s.open /\ t.taken /\ t.stale = s.stale
        /\ t.sealed = s.sealed /\ t.early = s.early /\ t.former = s.former
        /\ t.hasher = s.hasher /\ t.rest = s.rest /\ t.connected = s.connected
        /\ t.authorized = s.authorized /\ t.shown = s.shown /\ t.module = s.module
        /\ t.client = s.client /\ t.state = s.state
    BY <1>0 DEF Sessions
  <2>3. Write([s EXCEPT !.timer = TRUE, !.taken = TRUE], "CONFIRMED")
          = Await(Write(t, "CONFIRMED"), s.state)
    <3> DEFINE w == Append(s.written, "CONFIRMED")
    <3>1. Write([s EXCEPT !.timer = TRUE, !.taken = TRUE], "CONFIRMED")
            = [s EXCEPT !.timer = TRUE, !.taken = TRUE, !.written = w]
      BY <1>0 DEF Write, Sessions
    <3>2. Write(t, "CONFIRMED") = [s EXCEPT !.taken = TRUE, !.written = w]
      BY <1>0 DEF Write, Sessions
    <3> HIDE DEF w, t
    <3>3. [[s EXCEPT !.taken = TRUE, !.written = w] EXCEPT !.timer = TRUE, !.state = s.state]
            = [s EXCEPT !.timer = TRUE, !.taken = TRUE, !.written = w]
      BY <1>0 DEF Sessions
    <3> QED
      BY <3>1, <3>2, <3>3 DEF Await
  <2> HIDE DEF t
  <2>4. Listens(t) /\ Chain(t)
    BY <1>1, <2>2 DEF Listens, Chain, Reading, Vouched
  <2>5. Reading(t)
    BY <2>1, <2>2, <2>4 DEF Reading
  <2>6. "CONFIRMED" \in Answers
    BY DEF Answers
  <2>7. Outcome(t.part, Await(Write(t, "CONFIRMED"), s.state))
    BY <1>0, <2>5, <2>6, StaysWell
  <2> QED
    BY <1>2, <2>2, <2>3, <2>7 DEF LogsReceived
<1>3. CASE k = "logsQueued"
  <2> DEFINE t == [s EXCEPT !.state = "WRITTING_LOG", !.taken = TRUE]
  <2>1. t \in Sessions
    BY <1>0, Zenon DEF Sessions, States
  <2>2. /\ t.next = s.next /\ t.written = s.written /\ t.part = s.part /\ t.posted = s.posted
        /\ t.reports = s.reports /\ t.open = s.open /\ t.taken /\ t.stale = s.stale
        /\ t.sealed = s.sealed /\ t.early = s.early /\ t.former = s.former
        /\ t.hasher = s.hasher /\ t.rest = s.rest /\ t.connected = s.connected
        /\ t.authorized = s.authorized /\ t.shown = s.shown /\ t.module = s.module
        /\ t.client = s.client /\ t.state = "WRITTING_LOG"
    BY <1>0 DEF Sessions
  <2>3. LogsReceived(s, k) = t
    BY <1>3 DEF LogsReceived
  <2> HIDE DEF t
  <2>4. Listens(t) /\ Timed(t) /\ Chain(t)
    BY <1>1, <2>2 DEF Listens, Chain, Reading, Vouched, Timed
  <2>5. Turn(t)
    BY <1>1, <2>2, <2>4 DEF Turn, Reading, Listens, Vouched
  <2> QED
    BY <2>1, <2>2, <2>3, <2>4, <2>5 DEF Outcome, Moves, Good, Listens
<1>4. CASE k \notin {"logs", "logsQueued"}
  <2>1. Outcome(s.part, Finished(s, k = "end"))
    BY <1>1, ReadingEnds
  <2> QED
    BY <1>4, <2>1 DEF LogsReceived
<1> QED
  BY <1>2, <1>3, <1>4

(* Whatever the part and the message, a good session is left.              *)
LEMMA ReadWell ==
    ASSUME NEW s, Reading(s), NEW k \in Kinds
    PROVE  Outcome(s.part, ReadNextMessage(s, k))
<1> DEFINE t == [s EXCEPT !.timer = FALSE]
<1>0. s \in Sessions
  BY DEF Reading
<1>1. t \in Sessions
  BY <1>0, Zenon DEF Sessions
<1>2. /\ t.next = s.next /\ t.written = s.written /\ t.part = s.part /\ t.posted = s.posted
      /\ t.reports = s.reports /\ t.open = s.open /\ t.taken = s.taken /\ t.stale = s.stale
      /\ t.sealed = s.sealed /\ t.early = s.early /\ t.former = s.former
      /\ t.hasher = s.hasher /\ t.rest = s.rest /\ t.connected = s.connected
      /\ t.authorized = s.authorized /\ t.shown = s.shown /\ t.module = s.module
      /\ t.client = s.client
  BY <1>0 DEF Sessions
<1>3. ReadNextMessage(s, k) =
         CASE t.part = "init" -> InitReceived(t, k)
           [] t.part = "crypto" -> CryptoReceived(t, k)
           [] t.part = "auth" -> AuthReceived(t, k)
           [] t.part = "logs" -> LogsReceived(t, k)
  BY <1>2 DEF ReadNextMessage
<1> HIDE DEF t
<1>4. Listens(t) /\ Chain(t)
  BY <1>2 DEF Listens, Chain, Reading, Vouched
<1>5. Reading(t)
  BY <1>1, <1>2, <1>4 DEF Reading
<1>6. t.part \in {"init", "crypto", "auth", "logs"}
  BY <1>4 DEF Listens, Parts
<1> QED
  BY <1>2, <1>3, <1>5, <1>6, InitWell, CryptoWell, AuthWell, LogsWell

(* What the sinks may do to a session besides handing a message up.        *)
WithSinks(s, f, h) == [s EXCEPT !.former = f, !.hasher = h]

(* Two sessions that differ in their sinks alone.                          *)
AlikeButSinks(s, t) ==
    /\ t.next = s.next /\ t.written = s.written /\ t.part = s.part
    /\ t.posted = s.posted /\ t.reports = s.reports /\ t.open = s.open
    /\ t.taken = s.taken /\ t.stale = s.stale /\ t.sealed = s.sealed
    /\ t.early = s.early /\ t.rest = s.rest /\ t.connected = s.connected
    /\ t.authorized = s.authorized /\ t.shown = s.shown /\ t.module = s.module
    /\ t.client = s.client /\ t.timer = s.timer /\ t.state = s.state
    /\ Chain(s) => Chain(t)
    /\ Pending(s) => Pending(t)
    /\ Listens(s) => Listens(t)
    /\ Timed(s) => Timed(t)

(* It keeps what the invariant says of the rest.                           *)
LEMMA SinksWell ==
    ASSUME NEW s \in Sessions, NEW f \in Seq(Kinds), NEW h \in Seq(Kinds)
    PROVE  /\ WithSinks(s, f, h) \in Sessions
           /\ WithSinks(s, f, h).former = f /\ WithSinks(s, f, h).hasher = h
           /\ AlikeButSinks(s, WithSinks(s, f, h))
<1> DEFINE t == [s EXCEPT !.former = f, !.hasher = h]
<1>1. t \in Sessions
  BY Zenon DEF Sessions
<1>2. /\ t.former = f /\ t.hasher = h
      /\ t.next = s.next /\ t.written = s.written /\ t.part = s.part
      /\ t.posted = s.posted /\ t.reports = s.reports /\ t.open = s.open
      /\ t.taken = s.taken /\ t.stale = s.stale /\ t.sealed = s.sealed
      /\ t.early = s.early /\ t.rest = s.rest /\ t.connected = s.connected
      /\ t.authorized = s.authorized /\ t.shown = s.shown /\ t.module = s.module
      /\ t.client = s.client /\ t.timer = s.timer /\ t.state = s.state
  BY DEF Sessions
<1>0. t = WithSinks(s, f, h)
  BY DEF WithSinks
<1> HIDE DEF t
<1>3. Chain(s) => Chain(t)
  BY <1>2 DEF Chain, Vouched
<1>4. /\ Pending(s) => Pending(t)
      /\ Listens(s) => Listens(t)
      /\ Timed(s) => Timed(t)
  BY <1>2 DEF Pending, Listens, Timed
<1>5. AlikeButSinks(s, t)
  BY <1>2, <1>3, <1>4 DEF AlikeButSinks
<1> QED
  BY <1>0, <1>1, <1>2, <1>5

(* A session one of whose sinks is about to get a message.                 *)
Handed(s) ==
    /\ s \in Sessions
    /\ (Listens(s) /\ Timed(s)) \/ Pending(s)
    /\ Chain(s)
    /\ ~s.early => /\ s.connected /\ s.former = <<>> /\ s.hasher = <<>>
                   /\ s.rest = <<>> /\ s.written = <<>>

(* The buffer of a sink, with a message at its end and without the one at  *)
(* its head.                                                               *)
LEMMA OneMore ==
    ASSUME NEW q \in Seq(Kinds), NEW k \in Kinds
    PROVE  /\ Append(q, k) \in Seq(Kinds)
           /\ Tail(Append(q, k)) \in Seq(Kinds)
           /\ Head(Append(q, k)) \in Kinds
           /\ q = <<>> => Tail(Append(q, k)) = <<>>
<1>1. Append(q, k) \in Seq(Kinds) /\ Append(q, k) # <<>> /\ Len(Append(q, k)) = Len(q) + 1
  <2>1. Append(q, k) \in Seq(Kinds)
    OBVIOUS
  <2>2. Len(Append(q, k)) = Len(q) + 1 /\ Len(q) \in Nat
    OBVIOUS
  <2>3. Append(q, k) # <<>>
    BY <2>2
  <2> QED
    BY <2>1, <2>2, <2>3
<1>2. Tail(Append(q, k)) \in Seq(Kinds) /\ Head(Append(q, k)) \in Kinds
  BY <1>1
<1>3. q = <<>> => Tail(Append(q, k)) = <<>>
  BY <1>1
<1> QED
  BY <1>1, <1>2, <1>3

(* A message in the MessageFormer.                                         *)
LEMMA InFormerWell ==
    ASSUME NEW s, Handed(s), NEW k \in Kinds
    PROVE  Outcome(s.part, InFormer(s, k))
<1> DEFINE q == Append(s.former, k)
           t == WithSinks(s, Tail(q), s.hasher)
           v == WithSinks(s, q, s.hasher)
<1>0. s \in Sessions /\ s.former \in Seq(Kinds) /\ s.hasher \in Seq(Kinds)
  BY DEF Handed, Sessions
<1>1. /\ q \in Seq(Kinds) /\ Tail(q) \in Seq(Kinds) /\ Head(q) \in Kinds
      /\ s.former = <<>> => Tail(q) = <<>>
  BY <1>0, OneMore
<1>2. t = [s EXCEPT !.former = Tail(q)] /\ v = [s EXCEPT !.former = q]
  <2> HIDE DEF q
  <2> QED
    BY <1>0 DEF WithSinks, Sessions
<1>3. CASE s.connected
  <2>1. InFormer(s, k) = ReadNextMessage(t, Head(q))
    BY <1>2, <1>3 DEF InFormer
  <2>2. Listens(s)
    BY <1>3 DEF Handed, Pending
  <2> DEFINE r == Tail(q)
  <2>3. t = WithSinks(s, r, s.hasher) /\ r \in Seq(Kinds)
    BY <1>1
  <2> HIDE DEF q, r, t
  <2>4a. t \in Sessions /\ AlikeButSinks(s, t)
    BY <1>0, <2>3, SinksWell
  <2>4b. t.former = r /\ t.hasher = s.hasher
    BY <1>0, <2>3 DEF WithSinks, Sessions
  <2>5. Reading(t) /\ t.part = s.part
    BY <1>1, <2>2, <2>4a, <2>4b DEF Handed, Reading, AlikeButSinks, r
  <2> QED
    BY <1>1, <2>1, <2>5, ReadWell
<1>4. CASE ~s.connected
  <2>1. InFormer(s, k) = v
    BY <1>2, <1>4 DEF InFormer
  <2>2. Pending(s) /\ s.early
    BY <1>4 DEF Handed, Listens
  <2> HIDE DEF q
  <2>3. v = WithSinks(s, q, s.hasher)
    OBVIOUS
  <2> HIDE DEF v
  <2>4. v \in Sessions /\ AlikeButSinks(s, v)
    BY <1>0, <1>1, <2>3, SinksWell
  <2>5. Pending(v) /\ Chain(v) /\ v.early /\ v.part = s.part
    BY <2>2, <2>4 DEF Handed, AlikeButSinks
  <2> QED
    BY <2>1, <2>4, <2>5 DEF Outcome, Moves, Good, Turn, Pending
<1> QED
  BY <1>3, <1>4

(* A message in the MessageHasher.                                         *)
LEMMA InHasherWell ==
    ASSUME NEW s, Handed(s), NEW k \in Kinds
    PROVE  Outcome(s.part, InHasher(s, k))
<1> DEFINE q == Append(s.hasher, k)
           t == WithSinks(s, s.former, Tail(q))
           v == WithSinks(s, s.former, q)
<1>0. s \in Sessions /\ s.former \in Seq(Kinds) /\ s.hasher \in Seq(Kinds)
  BY DEF Handed, Sessions
<1>1. /\ q \in Seq(Kinds) /\ Tail(q) \in Seq(Kinds) /\ Head(q) \in Kinds
      /\ s.hasher = <<>> => Tail(q) = <<>>
  BY <1>0, OneMore
<1>2. t = [s EXCEPT !.hasher = Tail(q)] /\ v = [s EXCEPT !.hasher = q]
  <2> HIDE DEF q
  <2> QED
    BY <1>0 DEF WithSinks, Sessions
<1>3. CASE s.connected
  <2>1. InHasher(s, k) = ReadNextMessage(t, Head(q))
    BY <1>2, <1>3 DEF InHasher
  <2>2. Listens(s)
    BY <1>3 DEF Handed, Pending
  <2> DEFINE r == Tail(q)
  <2>3. t = WithSinks(s, s.former, r) /\ r \in Seq(Kinds)
    BY <1>1
  <2> HIDE DEF q, r, t
  <2>4a. t \in Sessions /\ AlikeButSinks(s, t)
    BY <1>0, <2>3, SinksWell
  <2>4b. t.former = s.former /\ t.hasher = r
    BY <1>0, <2>3 DEF WithSinks, Sessions
  <2>5. Reading(t) /\ t.part = s.part
    BY <1>1, <2>2, <2>4a, <2>4b DEF Handed, Reading, AlikeButSinks, r
  <2> QED
    BY <1>1, <2>1, <2>5, ReadWell
<1>4. CASE ~s.connected
  <2>1. InHasher(s, k) = v
    BY <1>2, <1>4 DEF InHasher
  <2>2. Pending(s) /\ s.early
    BY <1>4 DEF Handed, Listens
  <2> HIDE DEF q
  <2>3. v = WithSinks(s, s.former, q)
    OBVIOUS
  <2> HIDE DEF v
  <2>4. v \in Sessions /\ AlikeButSinks(s, v)
    BY <1>0, <1>1, <2>3, SinksWell
  <2>5. Pending(v) /\ Chain(v) /\ v.early /\ v.part = s.part
    BY <2>2, <2>4 DEF Handed, AlikeButSinks
  <2> QED
    BY <2>1, <2>4, <2>5 DEF Outcome, Moves, Good, Turn, Pending
<1> QED
  BY <1>3, <1>4

(* A message through the MessageCipher.                                    *)
LEMMA ThroughCipherWell ==
    ASSUME NEW s, Handed(s), s.sealed, NEW k \in Kinds
    PROVE  Outcome(s.part, ThroughCipher(s, k))
<1> DEFINE q == Append(s.former, k)
           t == WithSinks(s, Tail(q), s.hasher)
<1>0. s \in Sessions /\ s.former \in Seq(Kinds) /\ s.hasher \in Seq(Kinds)
  BY DEF Handed, Sessions
<1>1. /\ q \in Seq(Kinds) /\ Tail(q) \in Seq(Kinds) /\ Head(q) \in Kinds
      /\ s.former = <<>> => Tail(q) = <<>>
  BY <1>0, OneMore
<1>2. t = [s EXCEPT !.former = Tail(q)]
  <2> HIDE DEF q
  <2> QED
    BY <1>0 DEF WithSinks, Sessions
<1>3. ThroughCipher(s, k) = IF Head(q) \in Secret THEN InHasher(t, Head(q)) ELSE t
  BY <1>2 DEF ThroughCipher
<1> HIDE DEF q
<1>3a. t = WithSinks(s, Tail(q), s.hasher)
  OBVIOUS
<1> HIDE DEF t
<1>4. Handed(t) /\ t.sealed /\ t.part = s.part
  <2>1. /\ t \in Sessions /\ AlikeButSinks(s, t)
        /\ t.former = Tail(q) /\ t.hasher = s.hasher
    BY <1>0, <1>1, <1>3a, SinksWell
  <2> QED
    BY <1>1, <2>1 DEF Handed, AlikeButSinks
<1>5. Outcome(t.part, t)
  <2>1. Turn(t)
    BY <1>4 DEF Handed, Turn
  <2> QED
    BY <1>4, <2>1 DEF Handed, Good, Outcome, Moves, Listens, Pending
<1> QED
  BY <1>1, <1>3, <1>4, <1>5, InHasherWell

(* The next message of a read, unless it reaches the part that is to be    *)
(* deleted.                                                                *)
LEMMA ArrivedWell ==
    ASSUME NEW u, Good(u), u.rest # <<>>, ~(u.stale /\ u.open)
    PROVE  LET t == Arrived([u EXCEPT !.rest = Tail(@)], Head(u.rest))
           IN  Follows(u, t)
<1> DEFINE k == Head(u.rest)
           r == Tail(u.rest)
           s == [u EXCEPT !.rest = r]
<1>0. u \in Sessions /\ u.rest \in Seq(Kinds)
  BY DEF Good, Sessions
<1>1. k \in Kinds /\ r \in Seq(Kinds) /\ (Len(u.rest) = 1 => r = <<>>)
  <2> DEFINE w == u.rest
  <2>1. w \in Seq(Kinds) /\ w # <<>>
    BY <1>0
  <2> HIDE DEF w
  <2>2. Head(w) \in Kinds /\ Tail(w) \in Seq(Kinds)
    BY <2>1
  <2>3. Len(w) = 1 => Tail(w) = <<>>
    <3> DEFINE x == Tail(w)
    <3>1. Len(w) = 1 => Len(x) = 0
      BY <2>1
    <3>2. x \in Seq(Kinds)
      BY <2>2
    <3> HIDE DEF x
    <3>3. Len(x) = 0 => x = <<>>
      BY <3>2
    <3> QED
      BY <3>1, <3>3 DEF x
  <2>4. k = Head(w) /\ r = Tail(w) /\ u.rest = w
    BY DEF w
  <2> HIDE DEF k, r
  <2>5. k \in Kinds /\ r \in Seq(Kinds)
    BY <2>2, <2>4
  <2>6. Len(u.rest) = 1 => r = <<>>
    BY <2>3, <2>4, Zenon
  <2> QED
    BY <2>5, <2>6
<1> HIDE DEF k, r
<1>2. s \in Sessions
  BY <1>0, <1>1, Zenon DEF Sessions
<1>3. /\ s.next = u.next /\ s.written = u.written /\ s.part = u.part
      /\ s.posted = u.posted /\ s.reports = u.reports /\ s.open = u.open
      /\ s.taken = u.taken /\ s.stale = u.stale /\ s.sealed = u.sealed
      /\ s.early = u.early /\ s.rest = r /\ s.connected = u.connected
      /\ s.authorized = u.authorized /\ s.shown = u.shown /\ s.module = u.module
      /\ s.client = u.client /\ s.timer = u.timer /\ s.state = u.state
      /\ s.former = u.former /\ s.hasher = u.hasher
  BY <1>0 DEF Sessions
<1>4. s = [u EXCEPT !.rest = Tail(@)]
  BY DEF r
<1> HIDE DEF s
<1>5. ~u.early => /\ r = <<>> /\ u.written = <<>> /\ u.connected
                  /\ u.open => u.former = <<>> /\ u.hasher = <<>>
  BY <1>1 DEF Good, Turn
<1>6. Chain(s)
  BY <1>3 DEF Good, Chain, Vouched
<1>7. CASE Over(u)
  <2>1. Over(s)
    BY <1>3, <1>7 DEF Over
  <2>2. Turn(s)
    BY <1>3, <1>5, <1>7 DEF Turn, Over
  <2>3. Arrived(s, k) = s
    BY <2>1 DEF Arrived, Over
  <2> QED
    BY <1>2, <1>3, <1>4, <1>6, <2>1, <2>2, <2>3 DEF Follows, Good, Over, k
<1>8. CASE (Listens(u) /\ Timed(u)) \/ Pending(u)
  <2>1. (Listens(s) /\ Timed(s)) \/ Pending(s)
    BY <1>3, <1>8 DEF Listens, Timed, Pending
  <2>2. s.open
    BY <2>1 DEF Listens, Pending
  <2>3. Handed(s)
    BY <1>2, <1>3, <1>5, <1>6, <2>1, <2>2 DEF Handed
  <2>4. Outcome(s.part, Arrived(s, k))
    BY <1>1, <2>2, <2>3, InFormerWell, ThroughCipherWell DEF Arrived
  <2>5. u.reports = <<>> /\ u.part \in Parts \cup {"none"}
    BY <1>8 DEF Listens, Pending
  <2> QED
    BY <1>3, <1>4, <2>4, <2>5 DEF k, Outcome, Follows
<1> QED
  BY <1>7, <1>8 DEF Good, Gone

(* An event taken from the queue changes the queue alone.                  *)
LEMMA HandledWell ==
    ASSUME NEW u, Good(u), u.posted # <<>>, NEW p, p = Tail(u.posted)
    PROVE  /\ p \in Seq(Events)
           /\ LET t == [u EXCEPT !.posted = p]
              IN  /\ t \in Sessions /\ t.posted = p
                  /\ t.next = u.next /\ t.written = u.written /\ t.part = u.part
                  /\ t.reports = u.reports /\ t.open = u.open
                  /\ t.taken = u.taken /\ t.stale = u.stale /\ t.sealed = u.sealed
                  /\ t.early = u.early /\ t.rest = u.rest /\ t.connected = u.connected
                  /\ t.authorized = u.authorized /\ t.shown = u.shown /\ t.module = u.module
                  /\ t.client = u.client /\ t.timer = u.timer /\ t.state = u.state
                  /\ t.former = u.former /\ t.hasher = u.hasher
<1>1. u \in Sessions /\ u.posted \in Seq(Events)
  BY DEF Good, Sessions
<1>2. p \in Seq(Events)
  BY <1>1
<1> DEFINE t == [u EXCEPT !.posted = p]
<1>3. t \in Sessions
  BY <1>1, <1>2, Zenon DEF Sessions
<1>4. /\ t.posted = p
      /\ t.next = u.next /\ t.written = u.written /\ t.part = u.part
      /\ t.reports = u.reports /\ t.open = u.open
      /\ t.taken = u.taken /\ t.stale = u.stale /\ t.sealed = u.sealed
      /\ t.early = u.early /\ t.rest = u.rest /\ t.connected = u.connected
      /\ t.authorized = u.authorized /\ t.shown = u.shown /\ t.module = u.module
      /\ t.client = u.client /\ t.timer = u.timer /\ t.state = u.state
      /\ t.former = u.former /\ t.hasher = u.hasher
  BY <1>1 DEF Sessions
<1> QED
  BY <1>2, <1>3, <1>4

(* The event at the head of the queue tells the phase.                     *)
LEMMA PostedWell ==
    ASSUME NEW u, Good(u), u.posted # <<>>
    PROVE  /\ Head(u.posted) = "startSession" =>
                Pending(u) /\ u.part = "none" /\ ~u.stale /\ u.next = <<"init">>
                /\ Tail(u.posted) = <<>>
           /\ Head(u.posted) = "execute" =>
                Pending(u) /\ u.part \in Parts /\ ~u.stale /\ Tail(u.posted) = <<>>
           /\ Head(u.posted) = "deletePart" =>
                \/ Pending(u) /\ u.part \in Parts /\ Tail(u.posted) = <<"execute">>
                \/ Over(u) /\ Tail(u.posted) = <<"deleteSession">>
           /\ Head(u.posted) = "deleteSession" => Over(u)
<1>1. /\ Head(<<"startSession">>) = "startSession" /\ Tail(<<"startSession">>) = <<>>
      /\ Head(<<"execute">>) = "execute" /\ Tail(<<"execute">>) = <<>>
      /\ Head(<<"deletePart", "execute">>) = "deletePart"
      /\ Tail(<<"deletePart", "execute">>) = <<"execute">>
      /\ Head(<<"deletePart", "deleteSession">>) = "deletePart"
      /\ Tail(<<"deletePart", "deleteSession">>) = <<"deleteSession">>
      /\ Head(<<"deleteSession">>) = "deleteSession"
  OBVIOUS
<1>2. Pending(u) \/ Over(u)
  BY DEF Good, Listens, Gone
<1>3. CASE Pending(u)
  <2>1. CASE u.posted = <<"startSession">>
    BY <1>1, <1>3, <2>1 DEF Pending, Parts
  <2>2. CASE u.posted = <<"execute">>
    BY <1>1, <1>3, <2>2 DEF Pending, Parts
  <2>3. CASE u.posted = <<"deletePart", "execute">>
    BY <1>1, <1>3, <2>3 DEF Pending, Parts
  <2> QED
    BY <1>3, <2>1, <2>2, <2>3 DEF Pending
<1>4. CASE Over(u)
  <2>1. CASE u.posted = <<"deletePart", "deleteSession">>
    BY <1>1, <1>4, <2>1
  <2>2. CASE u.posted = <<"deleteSession">>
    BY <1>1, <1>4, <2>2
  <2> QED
    BY <1>4, <2>1, <2>2 DEF Over
<1> QED
  BY <1>2, <1>3, <1>4

(* startSession makes the first part the current one.                      *)
LEMMA StartWell ==
    ASSUME NEW u, Good(u), u.posted # <<>>, Head(u.posted) = "startSession", u.rest = <<>>
    PROVE  Outcome(u.part, TakeNextPart([u EXCEPT !.posted = Tail(@)]))
<1> DEFINE q == <<"execute">>
           n == <<>>
           t == [u EXCEPT !.part = "init", !.next = n, !.state = "NONE", !.posted = q]
<1>1. u \in Sessions /\ Pending(u) /\ u.part = "none" /\ ~u.stale /\ u.next = <<"init">>
      /\ Tail(u.posted) = <<>>
  BY PostedWell DEF Good
<1>2. Head(<<"init">>) = "init" /\ Tail(<<"init">>) = n /\ Append(<<>>, "execute") = q
      /\ q \in Seq(Events) /\ n \in Seq(Parts)
  BY DEF Events
<1>3. TakeNextPart([u EXCEPT !.posted = Tail(@)]) = t
  <2> DEFINE v == [u EXCEPT !.posted = <<>>, !.part = "init", !.next = n, !.state = "NONE"]
  <2>1. [u EXCEPT !.posted = Tail(@)] = [u EXCEPT !.posted = <<>>]
    BY <1>1
  <2>2. TakeNextPart([u EXCEPT !.posted = <<>>]) = Post(v, "execute")
    <3> HIDE DEF n
    <3> QED
      BY <1>1, <1>2 DEF TakeNextPart, Sessions
  <2>3. v.posted = <<>>
    BY <1>1 DEF Sessions
  <2>4. v \in Sessions
    <3> HIDE DEF n
    <3>1. <<>> \in Seq(Events)
      OBVIOUS
    <3> QED
      BY <1>1, <1>2, <3>1, Zenon DEF Sessions, States, Parts
  <2> HIDE DEF q
  <2>5. Post(v, "execute") = [v EXCEPT !.posted = q]
    <3> HIDE DEF v
    <3> QED
      BY <1>2, <2>3, <2>4, Posts
  <2> HIDE DEF n
  <2>6. [v EXCEPT !.posted = q] = t
    OBVIOUS
  <2> QED
    BY <2>1, <2>2, <2>5, <2>6
<1> HIDE DEF q, n
<1>4. t \in Sessions
  BY <1>1, <1>2, Zenon DEF Sessions, States, Parts
<1>5. /\ t.next = n /\ t.written = u.written /\ t.part = "init" /\ t.posted = q
      /\ t.reports = u.reports /\ t.open = u.open
      /\ t.taken = u.taken /\ t.stale = u.stale /\ t.sealed = u.sealed
      /\ t.early = u.early /\ t.rest = u.rest /\ t.connected = u.connected
      /\ t.authorized = u.authorized /\ t.shown = u.shown /\ t.module = u.module
      /\ t.client = u.client /\ t.timer = u.timer
      /\ t.former = u.former /\ t.hasher = u.hasher
  BY <1>1 DEF Sessions
<1> HIDE DEF t
<1>6. Pending(t)
  BY <1>1, <1>5 DEF Pending, q, Parts
<1>7. Chain(t)
  BY <1>1, <1>5 DEF Pending, Good, Chain, n
<1>8. Turn(t)
  BY <1>1, <1>5 DEF Pending, Good, Turn
<1> QED
  BY <1>1, <1>3, <1>4, <1>5, <1>6, <1>7, <1>8 DEF Outcome, Moves, Pending, Good, Parts

(* A part that is executed listens, and the turn is its own.               *)
LEMMA ExecutesWell ==
    ASSUME NEW u, Good(u), u.posted # <<>>, Head(u.posted) = "execute", u.rest = <<>>,
           NEW t, t = Listening([u EXCEPT !.posted = Tail(@)])
    PROVE  /\ Listens(t) /\ Chain(t) /\ t \in Sessions /\ t.part = u.part
           /\ t.early = u.early /\ t.rest = <<>> /\ t.written = u.written
           /\ ~t.early => t.former = <<>> /\ t.hasher = <<>>
           /\ ~t.early => IF u.part = "crypto" THEN Len(t.written) = 1 ELSE t.written = <<>>
           /\ u.part # "crypto" => Reading(t)
<1> DEFINE n == <<>>
<1>1. u \in Sessions /\ Pending(u) /\ u.part \in Parts /\ ~u.stale /\ Tail(u.posted) = n
      /\ n \in Seq(Events)
  BY PostedWell DEF Good
<1>2. t = [u EXCEPT !.posted = n, !.connected = TRUE]
  <2> HIDE DEF n
  <2> QED
    BY <1>1 DEF Listening
<1> HIDE DEF n
<1>3. t \in Sessions
  BY <1>1, <1>2, Zenon DEF Sessions
<1>4. /\ t.next = u.next /\ t.written = u.written /\ t.part = u.part /\ t.posted = n
      /\ t.reports = u.reports /\ t.open = u.open
      /\ t.taken = u.taken /\ t.stale = u.stale /\ t.sealed = u.sealed
      /\ t.early = u.early /\ t.rest = u.rest /\ t.connected
      /\ t.authorized = u.authorized /\ t.shown = u.shown /\ t.module = u.module
      /\ t.client = u.client /\ t.former = u.former /\ t.hasher = u.hasher
  BY <1>1, <1>2 DEF Sessions
<1>5. Listens(t)
  BY <1>1, <1>4 DEF Pending, Listens, n
<1>6. Chain(t)
  BY <1>4 DEF Good, Chain, Vouched
<1>7. /\ ~t.early => t.former = <<>> /\ t.hasher = <<>>
      /\ ~t.early => IF u.part = "crypto" THEN Len(t.written) = 1 ELSE t.written = <<>>
  BY <1>1, <1>4 DEF Pending, Good, Turn
<1> QED
  BY <1>3, <1>4, <1>5, <1>6, <1>7 DEF Reading

(* CryptographyInitializer waits for the client, which still has the ACK   *)
(* to read.                                                                *)
LEMMA CryptoStarts ==
    ASSUME NEW u, Good(u), u.posted # <<>>, Head(u.posted) = "execute", u.rest = <<>>,
           u.part = "crypto"
    PROVE  Outcome(u.part, Await(Listening([u EXCEPT !.posted = Tail(@)]), "WAITING_FOR_CLIENT_ID"))
<1> DEFINE t == Listening([u EXCEPT !.posted = Tail(@)])
           v == [t EXCEPT !.timer = TRUE, !.state = "WAITING_FOR_CLIENT_ID"]
<1>1. /\ Listens(t) /\ Chain(t) /\ t \in Sessions /\ t.rest = <<>>
      /\ ~t.early => t.former = <<>> /\ t.hasher = <<>>
      /\ ~t.early => Len(t.written) = 1
      /\ t.part = u.part
  BY ExecutesWell
<1>2. Await(t, "WAITING_FOR_CLIENT_ID") = v
  BY DEF Await
<1> HIDE DEF t
<1>3. v \in Sessions
  BY <1>1, Zenon DEF Sessions, States
<1>4. /\ v.next = t.next /\ v.written = t.written /\ v.part = t.part /\ v.posted = t.posted
      /\ v.reports = t.reports /\ v.open = t.open /\ v.timer
      /\ v.taken = t.taken /\ v.stale = t.stale /\ v.sealed = t.sealed
      /\ v.early = t.early /\ v.rest = t.rest /\ v.connected = t.connected
      /\ v.authorized = t.authorized /\ v.shown = t.shown /\ v.module = t.module
      /\ v.client = t.client /\ v.former = t.former /\ v.hasher = t.hasher
  BY <1>1 DEF Sessions
<1> HIDE DEF v
<1>5. Listens(v) /\ Timed(v)
  BY <1>1, <1>4 DEF Listens, Timed
<1>6. Chain(v)
  BY <1>1, <1>4 DEF Chain, Vouched
<1>7. Len(t.written) = 1 => t.written # <<>>
  <2> DEFINE w == t.written
  <2>1. w = <<>> => Len(w) = 0
    OBVIOUS
  <2> HIDE DEF w
  <2>2. Len(w) = 1 => w # <<>>
    BY <2>1
  <2> QED
    BY <2>2 DEF w
<1>8. Turn(v)
  <2>1. ~v.early => v.former = <<>> /\ v.hasher = <<>>
    BY <1>1, <1>4
  <2>2. v.rest = <<>> /\ v.connected
    BY <1>1, <1>4 DEF Listens
  <2>3. ~v.early => Len(v.written) = 1 /\ v.written # <<>>
    BY <1>1, <1>4, <1>7
  <2>4. ~v.early => Len(v.written) <= 1
    <3> DEFINE n == Len(v.written)
    <3>1. n = 1 => n <= 1
      OBVIOUS
    <3> QED
      BY <2>3, <3>1, Zenon
  <2> QED
    BY <2>1, <2>2, <2>3, <2>4, Zenon DEF Turn
<1> QED
  BY <1>1, <1>2, <1>3, <1>4, <1>5, <1>6, <1>8 DEF Outcome, Moves, Good, Listens, t

(* A client with no route is refused and its session ends.                 *)
LEMMA NoRouteEnds ==
    ASSUME NEW s, Reading(s), s.part = "logs"
    PROVE  LET t == Finished(Write(s, "NACK"), TRUE) IN Outcome(s.part, t) /\ Good(t) /\ Over(t)
<1> DEFINE w == Append(s.written, "NACK")
           v == [s EXCEPT !.written = w]
<1>1. s \in Sessions /\ s.open /\ s.written \in Seq(Answers)
  BY DEF Reading, Sessions, Listens
<1>2. Write(s, "NACK") = v
  BY <1>1 DEF Write
<1>3. w \in Seq(Answers)
  BY <1>1 DEF Answers
<1> HIDE DEF w
<1>4. v \in Sessions
  BY <1>1, <1>3, Zenon DEF Sessions
<1>5. /\ v.next = s.next /\ v.part = s.part /\ v.posted = s.posted
      /\ v.reports = s.reports /\ v.taken = s.taken /\ v.stale = s.stale
      /\ v.sealed = s.sealed /\ v.early = s.early /\ v.rest = s.rest
      /\ v.authorized = s.authorized /\ v.shown = s.shown /\ v.module = s.module
  BY <1>1 DEF Sessions
<1> HIDE DEF v
<1>6. /\ v.part \in Parts /\ v.posted = <<>> /\ v.reports = <<>> /\ ~v.stale /\ v.next = <<>>
      /\ ~v.early => v.rest = <<>>
  BY <1>5 DEF Reading, Listens, Chain
<1>7. Known(v) /\ (v.taken => Vouched(v))
  BY <1>5 DEF Reading, Chain, Known, Vouched
<1>8. Good(Finished(v, TRUE)) /\ Over(Finished(v, TRUE))
  BY <1>4, <1>6, <1>7, EndsWell
<1> QED
  BY <1>2, <1>8 DEF Outcome, Moves, Over, Parts

(* The deletion of the old part leaves a good session.                     *)
LEMMA DeletesPartWell ==
    ASSUME NEW u, Good(u), u.posted # <<>>, Head(u.posted) = "deletePart", u.rest = <<>>
    PROVE  LET t == [[u EXCEPT !.posted = Tail(@)] EXCEPT !.stale = FALSE]
           IN  Follows(u, t)
<1> DEFINE n == Tail(u.posted)
           t == [u EXCEPT !.posted = n, !.stale = FALSE]
<1>1. /\ u \in Sessions
      /\ \/ Pending(u) /\ u.part \in Parts /\ n = <<"execute">>
         \/ Over(u) /\ n = <<"deleteSession">>
  BY PostedWell DEF Good
<1>2. n \in Seq(Events)
  BY HandledWell
<1>3. [[u EXCEPT !.posted = Tail(@)] EXCEPT !.stale = FALSE] = t
  <2>1. [u EXCEPT !.posted = Tail(@)] = [u EXCEPT !.posted = n]
    OBVIOUS
  <2> HIDE DEF n
  <2>2. [[u EXCEPT !.posted = n] EXCEPT !.stale = FALSE] = t
    OBVIOUS
  <2> QED
    BY <2>1, <2>2
<1> HIDE DEF n
<1>4. t \in Sessions
  BY <1>1, <1>2, Zenon DEF Sessions
<1>5. /\ t.next = u.next /\ t.written = u.written /\ t.part = u.part /\ t.posted = n
      /\ t.reports = u.reports /\ t.open = u.open /\ ~t.stale
      /\ t.taken = u.taken /\ t.sealed = u.sealed
      /\ t.early = u.early /\ t.rest = u.rest /\ t.connected = u.connected
      /\ t.authorized = u.authorized /\ t.shown = u.shown /\ t.module = u.module
      /\ t.client = u.client /\ t.timer = u.timer
      /\ t.former = u.former /\ t.hasher = u.hasher
  BY <1>1 DEF Sessions
<1> HIDE DEF t
<1>6. Pending(t) \/ Over(t)
  BY <1>1, <1>5 DEF Pending, Over
<1>7. Chain(t)
  BY <1>5 DEF Good, Chain, Vouched
<1>8. Turn(t)
  BY <1>5 DEF Good, Turn
<1> QED
  BY <1>3, <1>4, <1>5, <1>6, <1>7, <1>8 DEF Follows, Good, Pending, Over

(* The record of no session.                                               *)
LEMMA NoSessionTyped == NoSession \in Sessions /\ NoSession.part = "idle" /\ NoSession.reports = <<>>
<1>1. /\ <<>> \in Seq(Parts) /\ <<>> \in Seq(Kinds) /\ <<>> \in Seq(Events)
      /\ <<>> \in Seq(Answers) /\ <<>> \in Seq(BOOLEAN) /\ {} \in SUBSET Kinds /\ 0 \in Nat
  OBVIOUS
<1>2. NoSession \in Sessions
  BY <1>1, Zenon DEF NoSession, Sessions, Parts, States
<1>3. NoSession.part = "idle" /\ NoSession.reports = <<>>
  BY DEF NoSession
<1> QED
  BY <1>2, <1>3

(* Writing back what a record holds changes nothing.                       *)
LEMMA StillIdle ==
    ASSUME NEW u \in Sessions
    PROVE  /\ \A part : [u EXCEPT !.part = part] = [u EXCEPT !.part = part, !.reports = u.reports]
           /\ u = [u EXCEPT !.part = u.part, !.reports = u.reports]
<1>1. \A part : [u EXCEPT !.part = part] = [u EXCEPT !.part = part, !.reports = u.reports]
  BY DEF Sessions
<1>2. u = [u EXCEPT !.part = u.part, !.reports = u.reports]
  BY DEF Sessions
<1> QED
  BY <1>1, <1>2

(* A session that never was, or is deleted.                                *)
Idle(part, f) == [NoSession EXCEPT !.part = part, !.reports = f]

(* It is good.                                                             *)
LEMMA IdleWell ==
    ASSUME NEW part \in {"idle", "refused", "deleted"}, NEW f \in Seq(BOOLEAN),
           part = "deleted" <=> f # <<>>
    PROVE  /\ Good(Idle(part, f)) /\ Gone(Idle(part, f))
           /\ Idle(part, f).part = part /\ Idle(part, f).reports = f
<1> DEFINE t == [NoSession EXCEPT !.part = part, !.reports = f]
<1>1. NoSession \in Sessions
  BY NoSessionTyped
<1>2. t \in Sessions
  <2> HIDE DEF NoSession
  <2> QED
    BY <1>1, Zenon DEF Sessions
<1>3. /\ ~t.open /\ ~t.connected /\ ~t.timer /\ ~t.stale /\ t.part = part /\ t.posted = <<>>
      /\ t.rest = <<>> /\ ~t.taken /\ ~t.authorized /\ t.reports = f /\ t.module = "none"
  BY DEF NoSession
<1>3a. t = Idle(part, f)
  BY DEF Idle
<1> HIDE DEF t
<1>4. Gone(t)
  BY <1>3 DEF Gone
<1>5. Chain(t) /\ Turn(t)
  BY <1>3 DEF Chain, Turn
<1> QED
  BY <1>2, <1>3, <1>3a, <1>4, <1>5 DEF Good

(* A new session is good.                                                  *)
LEMMA NewWell == Good(NewSession) /\ NewSession.part = "none" /\ NewSession.reports = <<>>
<1> DEFINE t == NewSession
<1>1. t \in Sessions
  <2>1. /\ <<"init">> \in Seq(Parts) /\ <<"startSession">> \in Seq(Events)
    BY DEF Parts, Events
  <2>2. NoSession \in Sessions
    BY NoSessionTyped
  <2> HIDE DEF NoSession
  <2> QED
    BY <2>1, <2>2, Zenon DEF NewSession, Sessions
<1>2. /\ t.open /\ ~t.connected /\ ~t.timer /\ ~t.stale /\ t.part = "none"
      /\ t.posted = <<"startSession">> /\ t.next = <<"init">>
      /\ t.rest = <<>> /\ ~t.taken /\ ~t.authorized /\ t.reports = <<>> /\ t.module = "none"
      /\ t.former = <<>> /\ t.hasher = <<>> /\ t.written = <<>>
  BY DEF NoSession, NewSession
<1> HIDE DEF t
<1>3. Pending(t)
  BY <1>2 DEF Pending
<1>4. Chain(t) /\ Turn(t)
  BY <1>2 DEF Chain, Turn
<1> QED
  BY <1>1, <1>2, <1>3, <1>4 DEF Good, t

(* A read from the socket leaves a good session.                           *)
LEMMA ReceivesWell ==
    ASSUME NEW u, Good(u), u.open, u.posted = <<>>, u.rest = <<>>,
           NEW messages \in Seq(Kinds), messages # <<>>
    PROVE  Outcome(u.part, [u EXCEPT !.rest = messages, !.written = <<>>,
                             !.early = @ \/ Len(messages) > Len(u.written)])
<1> DEFINE e == u.early \/ Len(messages) > Len(u.written)
           n == <<>>
           t == [u EXCEPT !.rest = messages, !.written = n, !.early = e]
<1>1. u \in Sessions /\ Listens(u) /\ Timed(u)
  BY DEF Good, Pending, Over, Gone
<1>2. e \in BOOLEAN /\ n \in Seq(Answers)
  BY <1>1 DEF Sessions
<1>3. [u EXCEPT !.rest = messages, !.written = <<>>,
                !.early = @ \/ Len(messages) > Len(u.written)] = t
  OBVIOUS
<1>4. ~e => ~u.early /\ Len(messages) = 1
  <2>1. ~u.early => Len(u.written) <= 1
    BY <1>1 DEF Good, Turn, Listens
  <2>2. Len(messages) \in Nat /\ Len(messages) # 0
    OBVIOUS
  <2>3. u.written \in Seq(Answers)
    BY <1>1 DEF Sessions
  <2>4. Len(u.written) \in Nat
    BY <2>3
  <2> DEFINE got == Len(messages)
             due == Len(u.written)
  <2>5. e <=> u.early \/ got > due
    OBVIOUS
  <2> HIDE DEF got, due, e
  <2>6. got \in Nat /\ got # 0 /\ due \in Nat /\ (~u.early => due <= 1)
    BY <2>1, <2>2, <2>4, Zenon DEF got, due
  <2>7. ~e => ~u.early /\ got = 1
    BY <2>5, <2>6
  <2> QED
    BY <2>7 DEF got
<1> HIDE DEF e, n
<1>5. t \in Sessions
  BY <1>1, <1>2, Zenon DEF Sessions
<1>6. /\ t.next = u.next /\ t.written = n /\ t.part = u.part /\ t.posted = u.posted
      /\ t.reports = u.reports /\ t.open = u.open /\ t.stale = u.stale
      /\ t.taken = u.taken /\ t.sealed = u.sealed
      /\ t.rest = messages /\ t.connected = u.connected
      /\ t.authorized = u.authorized /\ t.shown = u.shown /\ t.module = u.module
      /\ t.client = u.client /\ t.timer = u.timer /\ t.state = u.state
      /\ t.former = u.former /\ t.hasher = u.hasher
  BY <1>1 DEF Sessions
<1>7. t.early <=> e
  BY <1>1, <1>2 DEF Sessions
<1> HIDE DEF t
<1>8. Listens(t) /\ Timed(t)
  BY <1>1, <1>6 DEF Listens, Timed
<1>9. Chain(t)
  BY <1>6 DEF Good, Chain, Vouched
<1>10. Turn(t)
  BY <1>1, <1>4, <1>6, <1>7 DEF Good, Turn, Listens, n
<1> QED
  BY <1>3, <1>5, <1>6, <1>8, <1>9, <1>10 DEF Outcome, Moves, Good, Listens

(* So do the timeout and the end of the connection.                        *)
LEMMA TimesOutWell ==
    ASSUME NEW u, Good(u), u.open, u.posted = <<>>, u.rest = <<>>
    PROVE  /\ Outcome(u.part, Finished(u, FALSE))
           /\ Outcome(u.part, Finished([u EXCEPT !.open = FALSE], FALSE))
<1> DEFINE t == [u EXCEPT !.open = FALSE]
<1>1. u \in Sessions /\ Listens(u)
  BY DEF Good, Pending, Over, Gone
<1>2. Known(u) /\ (u.taken => Vouched(u))
  BY DEF Good, Chain, Known
<1>3. Good(Finished(u, FALSE)) /\ Over(Finished(u, FALSE))
      /\ Head(Finished(u, FALSE).reports) = FALSE
  BY <1>1, <1>2, EndsWell DEF Listens
<1>4. t \in Sessions
  BY <1>1, Zenon DEF Sessions
<1>5. /\ t.part = u.part /\ t.posted = u.posted /\ t.reports = u.reports
      /\ t.taken = u.taken /\ t.stale = u.stale /\ t.sealed = u.sealed
      /\ t.early = u.early /\ t.rest = u.rest
      /\ t.authorized = u.authorized /\ t.shown = u.shown /\ t.module = u.module
  BY <1>1 DEF Sessions
<1> HIDE DEF t
<1>6. Known(t) /\ (t.taken => Vouched(t))
  BY <1>2, <1>5 DEF Known, Vouched
<1>7. Good(Finished(t, FALSE)) /\ Over(Finished(t, FALSE))
      /\ Head(Finished(t, FALSE).reports) = FALSE
  BY <1>1, <1>4, <1>5, <1>6, EndsWell DEF Listens
<1> QED
  BY <1>1, <1>3, <1>7 DEF Outcome, Moves, Over, Listens, t

(* So does the end of the thread.                                          *)
LEMMA EndedWell ==
    ASSUME NEW u, Good(u), u.part \in {"idle", "refused"} \/ u.reports # <<>>
    PROVE  LET t == [u EXCEPT !.posted = <<>>]
           IN  Good(t) /\ t.part = u.part /\ t.reports = u.reports /\ t.open = u.open
<1> DEFINE n == <<>>
           t == [u EXCEPT !.posted = n]
<1>1. u \in Sessions /\ (Over(u) \/ Gone(u)) /\ n \in Seq(Events)
  BY DEF Good, Listens, Pending, Parts
<1> HIDE DEF n
<1>2. t \in Sessions
  BY <1>1, Zenon DEF Sessions
<1>3. /\ t.next = u.next /\ t.written = u.written /\ t.part = u.part /\ t.posted = n
      /\ t.reports = u.reports /\ t.open = u.open /\ t.stale = u.stale
      /\ t.taken = u.taken /\ t.sealed = u.sealed
      /\ t.early = u.early /\ t.rest = u.rest /\ t.connected = u.connected
      /\ t.authorized = u.authorized /\ t.shown = u.shown /\ t.module = u.module
      /\ t.client = u.client /\ t.timer = u.timer
      /\ t.former = u.former /\ t.hasher = u.hasher
  BY <1>1 DEF Sessions
<1> HIDE DEF t
<1>4. Over(t) \/ Gone(t)
  BY <1>1, <1>3 DEF Over, Gone, n
<1>5. Chain(t)
  BY <1>3 DEF Good, Chain, Vouched
<1>6. Turn(t)
  BY <1>3 DEF Good, Turn
<1> QED
  BY <1>2, <1>3, <1>4, <1>5, <1>6 DEF Good, t, n

(* The inductive invariant.                                                *)
IInv ==
    /\ ses = [c \in Conns |-> ses[c]]
    /\ \A c \in Conns : Good(ses[c])
    /\ ActiveIsUnreported
    /\ server \in {"closed", "ended"} => active = {}
    /\ server \in {"accepting", "closing", "closed", "ended", "crashed"}
    /\ quiet \subseteq Conns

(* The invariant holds at the start.                                       *)
LEMMA InitIInv == Init => IInv
<1> SUFFICES ASSUME Init PROVE IInv
  OBVIOUS
<1>1. \A c \in Conns : ses[c] = NoSession
  BY DEF Init
<1> HIDE DEF NoSession
<1>2. NoSession = [NoSession EXCEPT !.part = "idle", !.reports = <<>>]
  BY NoSessionTyped, StillIdle
<1>3. <<>> \in Seq(BOOLEAN)
  OBVIOUS
<1>4. Good(NoSession) /\ NoSession.part = "idle" /\ NoSession.reports = <<>>
  <2> DEFINE f == <<>>
  <2>1. f \in Seq(BOOLEAN) /\ NoSession = Idle("idle", f) /\ f = <<>>
    BY <1>2, <1>3 DEF Idle
  <2> HIDE DEF f
  <2>2. Good(NoSession) /\ NoSession.part = "idle" /\ NoSession.reports = f
    BY <2>1, IdleWell
  <2> QED
    BY <2>2 DEF f
<1>5. ActiveIsUnreported
  BY <1>1, <1>4 DEF ActiveIsUnreported, Init
<1>6. ses = [c \in Conns |-> ses[c]]
  <2> HIDE DEF NoSession
  <2> QED
    BY DEF Init
<1> QED
  BY <1>1, <1>4, <1>5, <1>6 DEF IInv, Init

(* A session that becomes another good one, and reports nothing less,      *)
(* keeps the invariant.                                                    *)
LEMMA BecomesKeeps ==
    ASSUME IInv, NEW c \in Conns, NEW s, Good(s), Becomes(c, s),
           ses[c].reports # <<>> => s.reports # <<>>,
           ses[c].part \in {"idle", "refused"} <=> s.part \in {"idle", "refused"}
    PROVE  IInv'
<1>1. ses' = [ses EXCEPT ![c] = s] /\ SessionFinished(c, s) /\ quiet' = quiet
  BY DEF Becomes
<1>2. ses'[c] = s /\ \A d \in Conns : d # c => ses'[d] = ses[d]
  BY <1>1 DEF IInv
<1>3. ses' = [d \in Conns |-> ses'[d]]
  BY <1>1 DEF IInv
<1>4. \A d \in Conns : Good(ses'[d])
  BY <1>2 DEF IInv
<1>5. \A d \in Conns : ses'[d].reports # <<>> => ~ses'[d].open
  BY <1>4 DEF Good, Listens, Pending, Over, Gone
<1>6. active' = IF s.reports # <<>> THEN active \ {c} ELSE active
  BY <1>1 DEF SessionFinished
<1>7. active = {d \in Conns : ses[d].part \notin {"idle", "refused"} /\ ses[d].reports = <<>>}
  BY DEF IInv, ActiveIsUnreported
<1>8. active' = {d \in Conns : ses'[d].part \notin {"idle", "refused"}
                              /\ ses'[d].reports = <<>>}
  <2>1. CASE s.reports = <<>>
    BY <1>2, <1>6, <1>7, <2>1
  <2>2. CASE s.reports # <<>>
    BY <1>2, <1>6, <1>7, <2>2
  <2> QED
    BY <2>1, <2>2
<1>9. ActiveIsUnreported'
  BY <1>5, <1>8 DEF ActiveIsUnreported
<1>10. (server' = "closed" /\ active' = {}) \/ server' = server
  BY <1>1 DEF SessionFinished
<1>11. active' \subseteq active
  BY <1>6
<1>12. /\ server' \in {"closed", "ended"} => active' = {}
       /\ server' \in {"accepting", "closing", "closed", "ended", "crashed"}
  BY <1>10, <1>11 DEF IInv
<1> QED
  BY <1>1, <1>3, <1>4, <1>9, <1>12 DEF IInv

(* The death of the process keeps it.                                      *)
LEMMA CrashKeeps == IInv /\ Crash => IInv'
BY DEF IInv, Crash, ActiveIsUnreported

(* A session of which some handler makes another.                          *)
Goes(c) == \E s : Follows(ses[c], s) /\ Becomes(c, s)

(* The process dies of a session in progress.                              *)
Dies(c) == Crash /\ ses[c].reports = <<>> /\ ses[c].part \in Parts \cup {"none"}

(* It keeps the invariant.                                                 *)
LEMMA GoesKeeps == ASSUME IInv, NEW c \in Conns, Goes(c) PROVE IInv'
<1>1. PICK s : Follows(ses[c], s) /\ Becomes(c, s)
  BY DEF Goes
<1>2. Good(s) /\ (ses[c].part \in {"idle", "refused"} <=> s.part \in {"idle", "refused"})
  BY <1>1 DEF Follows, Parts
<1>3. ses[c].reports # <<>> => s.reports # <<>>
  BY <1>1 DEF Follows
<1> QED
  BY <1>1, <1>2, <1>3, BecomesKeeps

(* A part that has not reported may leave anything that is an outcome.     *)
LEMMA OutcomeGoes ==
    ASSUME NEW c \in Conns, NEW s, Outcome(ses[c].part, s), Becomes(c, s),
           ses[c].reports = <<>>, ses[c].part \in Parts \cup {"none"}
    PROVE  Goes(c)
BY DEF Goes, Outcome, Follows

(* Who has events, messages or an open socket is a session.                *)
LEMMA Talking ==
    ASSUME NEW u, Good(u), u.posted # <<>> \/ u.rest # <<>> \/ u.open
    PROVE  /\ u.part \in Parts \cup {"none"}
           /\ u.open => u.reports = <<>>
BY DEF Good, Listens, Pending, Over, Gone, Parts

(* Every posted event but the last makes a good session; in particular the *)
(* logs part is never executed for a client that is not authorized.        *)
LEMMA PostedGoes ==
    ASSUME IInv, NEW c \in Conns, HandlePosted(c)
    PROVE  Goes(c) \/ DeleteSession(c)
<1> USE DEF Handled
<1>1. Good(ses[c]) /\ ses[c].posted # <<>> /\ ses[c].rest = <<>>
  BY DEF IInv, HandlePosted, Handle, InLoop, StartSession, Execute, ExecuteInit,
              ExecuteCrypto, ExecuteAuth, ExecuteLogs, DeletePart, DeleteSession
<1>2. ses[c].part \in Parts \cup {"none"} /\ (ses[c].open => ses[c].reports = <<>>)
  BY <1>1, Talking
<1>3. ASSUME StartSession(c) PROVE Goes(c)
  <2>1. Head(ses[c].posted) = "startSession"
        /\ Becomes(c, TakeNextPart([ses[c] EXCEPT !.posted = Tail(@)]))
    BY <1>3 DEF StartSession, Handle
  <2>2. ses[c].reports = <<>>
    BY <1>1, <2>1, PostedWell DEF Pending
  <2> QED
    BY <1>1, <1>2, <2>1, <2>2, StartWell, OutcomeGoes
<1>4. ASSUME Head(ses[c].posted) = "execute", ses[c].part # "crypto",
             NEW answer \in Answers, NEW state \in States,
             Becomes(c, Await(Write(Listening(Handled(c)), answer), state))
      PROVE  Goes(c)
  <2> DEFINE t == Listening([ses[c] EXCEPT !.posted = Tail(@)])
  <2>1. Reading(t) /\ t.part = ses[c].part
    BY <1>1, <1>4, ExecutesWell
  <2> HIDE DEF t
  <2>2a. Outcome(t.part, Await(Write(t, answer), state))
    BY <2>1, StaysWell
  <2>2. Outcome(ses[c].part, Await(Write(Listening(Handled(c)), answer), state))
    BY <2>1, <2>2a DEF t
  <2>3. ses[c].reports = <<>>
    BY <1>1, <1>4, PostedWell DEF Pending
  <2> QED
    BY <1>2, <1>4, <2>2, <2>3, OutcomeGoes
<1>5. ASSUME ExecuteInit(c) PROVE Goes(c)
  <2>1. Head(ses[c].posted) = "execute" /\ ses[c].part # "crypto"
        /\ Becomes(c, Await(Write(Listening(Handled(c)), "HELLO"), "NONE"))
    BY <1>5 DEF ExecuteInit, Execute, Handle
  <2> QED
    BY <1>4, <2>1 DEF Answers, States
<1>6. ASSUME ExecuteCrypto(c) PROVE Goes(c)
  <2>1. Head(ses[c].posted) = "execute" /\ ses[c].part = "crypto"
        /\ Becomes(c, Await(Listening(Handled(c)), "WAITING_FOR_CLIENT_ID"))
    BY <1>6 DEF ExecuteCrypto, Execute, Handle
  <2>2. Outcome(ses[c].part, Await(Listening(Handled(c)), "WAITING_FOR_CLIENT_ID"))
    BY <1>1, <2>1, CryptoStarts
  <2>3. ses[c].reports = <<>>
    BY <1>1, <2>1, PostedWell DEF Pending
  <2> QED
    BY <1>2, <2>1, <2>2, <2>3, OutcomeGoes
<1>7. ASSUME ExecuteAuth(c) PROVE Goes(c)
  <2>1. Head(ses[c].posted) = "execute" /\ ses[c].part # "crypto"
        /\ Becomes(c, Await(Write(Listening(Handled(c)), "CHOOSE_AUTH_MODULE"),
                            "WAITING_FOR_MODULE_ID"))
    BY <1>7 DEF ExecuteAuth, Execute, Handle
  <2> QED
    BY <1>4, <2>1 DEF Answers, States
<1>8. ASSUME ExecuteLogs(c) PROVE Goes(c)
  <2>1. Head(ses[c].posted) = "execute" /\ ses[c].part = "logs"
    BY <1>8 DEF ExecuteLogs, Execute, Handle
  <2>1a. ses[c].authorized
    BY <1>1, <2>1 DEF Good, Chain, Vouched
  <2>2. CASE Becomes(c, Await(Write(Listening(Handled(c)), "WAITING_FOR_LOGS"),
                              "WAITING_FOR_LOG"))
    BY <1>4, <2>1, <2>2 DEF Answers, States
  <2>3. CASE Becomes(c, Finished(Write(Listening(Handled(c)), "NACK"), TRUE))
    <3> DEFINE t == Listening([ses[c] EXCEPT !.posted = Tail(@)])
    <3>1. Reading(t) /\ t.part = "logs" /\ t.part = ses[c].part
      BY <1>1, <2>1, ExecutesWell
    <3> HIDE DEF t
    <3>2. Outcome(t.part, Finished(Write(t, "NACK"), TRUE))
      BY <3>1, NoRouteEnds
    <3>3. ses[c].reports = <<>>
      BY <1>1, <2>1, PostedWell DEF Pending
    <3> QED
      BY <1>2, <2>3, <3>1, <3>2, <3>3, OutcomeGoes DEF t
  <2> QED
    BY <1>8, <2>1a, <2>2, <2>3 DEF ExecuteLogs
<1>9. ASSUME DeletePart(c) PROVE Goes(c)
  <2>1. Head(ses[c].posted) = "deletePart"
        /\ Becomes(c, [[ses[c] EXCEPT !.posted = Tail(@)] EXCEPT !.stale = FALSE])
    BY <1>9 DEF DeletePart, Handle
  <2> QED
    BY <1>1, <2>1, DeletesPartWell DEF Goes
<1> QED
  BY <1>3, <1>5, <1>6, <1>7, <1>8, <1>9 DEF HandlePosted

(* The last one leaves nothing of a session but its report.                *)
LEMMA DeletesWell ==
    ASSUME IInv, NEW c \in Conns, DeleteSession(c)
    PROVE  LET s == [NoSession EXCEPT !.part = "deleted", !.reports = ses[c].reports]
           IN  /\ Becomes(c, s) /\ Good(s) /\ s.part = "deleted"
               /\ s.reports = ses[c].reports /\ s.reports # <<>> /\ ses[c].part = "none"
<1> DEFINE f == ses[c].reports
           s == [NoSession EXCEPT !.part = "deleted", !.reports = f]
<1>1. /\ Head(ses[c].posted) = "deleteSession" /\ Becomes(c, s) /\ Good(ses[c])
      /\ ses[c].posted # <<>>
  BY DEF DeleteSession, Handle, IInv
<1>2. f # <<>> /\ f \in Seq(BOOLEAN) /\ ses[c].part = "none"
  BY <1>1, PostedWell DEF Over, Good, Sessions
<1> HIDE DEF f, NoSession
<1>2a. s = Idle("deleted", f)
  BY DEF Idle
<1>3. Good(s) /\ s.part = "deleted" /\ s.reports = f
  <2> HIDE DEF s
  <2> QED
    BY <1>2, <1>2a, IdleWell
<1> QED
  BY <1>1, <1>2, <1>3 DEF f

(* Once a session is over nobody reads its messages.                       *)
LEMMA NobodyReads ==
    ASSUME NEW u, Good(u), Over(u), NEW k
    PROVE  Arrived([u EXCEPT !.rest = Tail(@)], k).undefined = u.undefined
<1> DEFINE s == [u EXCEPT !.rest = Tail(@)]
<1>1. ~s.open /\ s.undefined = u.undefined
  BY DEF Good, Over, Sessions
<1> HIDE DEF s
<1>2. Arrived(s, k) = s
  BY <1>1 DEF Arrived
<1> QED
  BY <1>1, <1>2 DEF s

(* So does everything a client or the clock does, unless the process dies. *)
LEMMA ClientGoes ==
    ASSUME SessionAssumption, IInv, NEW c \in Conns,
           Receive(c) \/ ReadNext(c) \/ RequestTimedOut(c) \/ PeerDisconnects(c)
    PROVE  Goes(c) \/ Dies(c)
<1>1. ASSUME Receive(c) PROVE Goes(c)
  <2>1. Good(ses[c]) /\ ses[c].open /\ ses[c].posted = <<>> /\ ses[c].rest = <<>>
    BY <1>1 DEF Receive, Ready, InLoop, IInv
  <2>2. PICK messages \in Sends[c] :
           Becomes(c, [ses[c] EXCEPT !.rest = messages, !.written = <<>>,
                                     !.early = @ \/ Len(messages) > Len(ses[c].written)])
    BY <1>1 DEF Receive
  <2>3. messages \in Seq(Kinds) /\ messages # <<>>
    BY <2>2 DEF SessionAssumption
  <2>4. ses[c].part \in Parts \cup {"none"} /\ ses[c].reports = <<>>
    BY <2>1, Talking
  <2> QED
    BY <2>1, <2>2, <2>3, <2>4, ReceivesWell, OutcomeGoes
<1>2. ASSUME ReadNext(c) PROVE Goes(c) \/ Dies(c)
  <2> DEFINE s == Arrived([ses[c] EXCEPT !.rest = Tail(@)], Head(ses[c].rest))
  <2>1. Good(ses[c]) /\ ses[c].rest # <<>>
    BY <1>2 DEF ReadNext, IInv
  <2>2. CASE ~(ses[c].stale /\ ses[c].open) /\ Becomes(c, s)
    <3>1. Follows(ses[c], s)
      BY <2>1, <2>2, ArrivedWell
    <3> HIDE DEF s
    <3> QED
      BY <2>2, <3>1 DEF Goes
  <2> HIDE DEF s
  <2>3. CASE Crash /\ ~Over(ses[c])
    <3>1. ses[c].reports = <<>> /\ ses[c].part \in Parts \cup {"none"}
      BY <2>1, <2>3 DEF Good, Listens, Pending, Gone
    <3> QED
      BY <2>3, <3>1 DEF Dies
  <2>4. CASE Over(ses[c])
    <3>1. ~ses[c].open /\ s.undefined = ses[c].undefined
      BY <2>1, <2>4, NobodyReads DEF s, Over
    <3> QED
      BY <1>2, <2>2, <3>1 DEF ReadNext, s
  <2>5. Crash \/ (~(ses[c].stale /\ ses[c].open) /\ Becomes(c, s))
    BY <1>2 DEF ReadNext, s
  <2> QED
    BY <2>2, <2>3, <2>4, <2>5
<1>3. ASSUME RequestTimedOut(c) PROVE Goes(c)
  <2>1. Good(ses[c]) /\ ses[c].open /\ ses[c].posted = <<>> /\ ses[c].rest = <<>>
    BY <1>3 DEF RequestTimedOut, Ready, InLoop, IInv
  <2>2. ses[c].part \in Parts \cup {"none"} /\ ses[c].reports = <<>>
    BY <2>1, Talking
  <2>3. Becomes(c, Finished(ses[c], FALSE))
    BY <1>3 DEF RequestTimedOut
  <2> QED
    BY <2>1, <2>2, <2>3, TimesOutWell, OutcomeGoes
<1>4. ASSUME PeerDisconnects(c) PROVE Goes(c)
  <2>1. Good(ses[c]) /\ ses[c].open /\ ses[c].posted = <<>> /\ ses[c].rest = <<>>
    BY <1>4 DEF PeerDisconnects, Ready, InLoop, IInv
  <2>2. ses[c].part \in Parts \cup {"none"} /\ ses[c].reports = <<>>
    BY <2>1, Talking
  <2>3. Becomes(c, Finished([ses[c] EXCEPT !.open = FALSE], FALSE))
    BY <1>4 DEF PeerDisconnects
  <2> QED
    BY <2>1, <2>2, <2>3, TimesOutWell, OutcomeGoes
<1> QED
  BY <1>1, <1>2, <1>3, <1>4

(* Every step keeps the invariant.                                         *)
LEMMA NextIInv == SessionAssumption /\ IInv /\ [Next]_vars => IInv'
<1> SUFFICES ASSUME SessionAssumption, IInv, [Next]_vars PROVE IInv'
  OBVIOUS
<1>1. ASSUME NEW c \in Conns, NewConnectionArrived(c) PROVE IInv'
  <2>1. /\ server = "accepting" /\ ses[c] = NoSession
        /\ ses' = [ses EXCEPT ![c] = NewSession]
        /\ active' = active \cup {c} /\ server' = server /\ quiet' = quiet
    BY <1>1 DEF NewConnectionArrived, Arrives
  <2>2. ses'[c] = NewSession /\ \A d \in Conns : d # c => ses'[d] = ses[d]
    BY <2>1 DEF IInv
  <2>3. Good(NewSession) /\ NewSession.part = "none" /\ NewSession.reports = <<>>
    BY NewWell
  <2> HIDE DEF NewSession
  <2>4. \A d \in Conns : Good(ses'[d])
    BY <2>2, <2>3 DEF IInv
  <2>5. active' = {d \in Conns : ses'[d].part \notin {"idle", "refused"}
                                /\ ses'[d].reports = <<>>}
    BY <2>1, <2>2, <2>3 DEF IInv, ActiveIsUnreported
  <2>6. \A d \in Conns : ses'[d].reports # <<>> => ~ses'[d].open
    BY <2>4 DEF Good, Listens, Pending, Over, Gone
  <2>7. ses' = [d \in Conns |-> ses'[d]]
    BY <2>1 DEF IInv
  <2> QED
    BY <2>1, <2>4, <2>5, <2>6, <2>7 DEF IInv, ActiveIsUnreported
<1>2. ASSUME NEW c \in Conns, NotConnectedSocket(c) PROVE IInv'
  <2> DEFINE s == [NoSession EXCEPT !.part = "refused"]
  <2>1. ses[c] = NoSession /\ Becomes(c, s)
    BY <1>2 DEF NotConnectedSocket, Arrives
  <2>2. s = [NoSession EXCEPT !.part = "refused", !.reports = <<>>]
    BY NoSessionTyped, StillIdle
  <2>3. <<>> \in Seq(BOOLEAN)
    OBVIOUS
  <2>4. Good(s) /\ s.part = "refused" /\ s.reports = <<>>
    <3> DEFINE f == <<>>
    <3>1. f \in Seq(BOOLEAN) /\ s = Idle("refused", f) /\ f = <<>>
      BY <2>2, <2>3 DEF Idle
    <3> HIDE DEF f, s, NoSession
    <3>2. Good(s) /\ s.part = "refused" /\ s.reports = f
      BY <3>1, IdleWell
    <3> QED
      BY <3>2 DEF f
  <2>5. NoSession.part = "idle" /\ NoSession.reports = <<>>
    BY NoSessionTyped
  <2> HIDE DEF s, NoSession
  <2> QED
    BY <2>1, <2>4, <2>5, BecomesKeeps
<1>3. ASSUME NEW c \in Conns, Goes(c) PROVE IInv'
  BY <1>3, GoesKeeps
<1>4. ASSUME NEW c \in Conns, DeleteSession(c) PROVE IInv'
  <2> DEFINE s == [NoSession EXCEPT !.part = "deleted", !.reports = ses[c].reports]
  <2>1. /\ Becomes(c, s) /\ Good(s) /\ s.part = "deleted"
        /\ s.reports = ses[c].reports /\ ses[c].part = "none"
    BY <1>4, DeletesWell
  <2> HIDE DEF s
  <2> QED
    BY <2>1, BecomesKeeps
<1>5. CASE Crash
  BY <1>5, CrashKeeps
<1>6. ASSUME NEW c \in Conns, HandlePosted(c) PROVE IInv'
  BY <1>3, <1>4, <1>6, PostedGoes
<1>7. ASSUME NEW c \in Conns,
             Receive(c) \/ ReadNext(c) \/ RequestTimedOut(c) \/ PeerDisconnects(c)
      PROVE IInv'
  BY <1>3, <1>5, <1>7, ClientGoes DEF Dies
<1>8. ASSUME NEW c \in Conns, FallSilent(c) PROVE IInv'
  BY <1>8 DEF FallSilent, IInv, ActiveIsUnreported
<1>9. CASE Close
  BY <1>9 DEF Close, IInv, ActiveIsUnreported
<1>10. CASE EndThread
  <2>1. /\ server = "closed" /\ server' = "ended" /\ active = {} /\ active' = active
        /\ ses' = [c \in Conns |-> [ses[c] EXCEPT !.posted = <<>>]]
        /\ quiet' = quiet /\ \A c \in Conns : ses[c].rest = <<>>
    BY <1>10 DEF EndThread, IInv, InLoop
  <2>2. ASSUME NEW c \in Conns
        PROVE  /\ Good(ses'[c]) /\ ses'[c].part = ses[c].part
               /\ ses'[c].reports = ses[c].reports /\ ses'[c].open = ses[c].open
    <3> DEFINE u == ses[c]
    <3>1. Good(u) /\ (u.part \in {"idle", "refused"} \/ u.reports # <<>>)
      BY <2>1 DEF IInv, ActiveIsUnreported
    <3>2. ses'[c] = [u EXCEPT !.posted = <<>>]
      BY <2>1
    <3> HIDE DEF u
    <3> QED
      BY <3>1, <3>2, EndedWell DEF u
  <2>3. ActiveIsUnreported'
    BY <2>1, <2>2 DEF ActiveIsUnreported, IInv
  <2>4. ses' = [c \in Conns |-> ses'[c]]
    BY <2>1
  <2> QED
    BY <2>1, <2>2, <2>3, <2>4 DEF IInv
<1>11. CASE UNCHANGED vars
  BY <1>11 DEF vars, IInv, ActiveIsUnreported
<1> QED
  BY <1>1, <1>2, <1>6, <1>7, <1>8, <1>9, <1>10, <1>11 DEF Next

(* The invariant holds in every state.                                     *)
THEOREM Inductive == Spec => []IInv
<1>1. SessionAssumption /\ IInv /\ [Next]_vars => IInv'
  BY NextIInv
<1> QED
  BY InitIInv, <1>1, SessionAssumption, PTL DEF Spec

(* Every variable keeps its type, over any messages in any order.          *)
THEOREM TypeCorrect == Spec => []TypeOK
<1>1. IInv => TypeOK
  <2> SUFFICES ASSUME IInv PROVE TypeOK
    OBVIOUS
  <2>1. ses \in [Conns -> Sessions]
    <3>1. \A c \in Conns : ses[c] \in Sessions
      BY DEF IInv, Good
    <3> QED
      BY <3>1 DEF IInv
  <2>2. active \subseteq Conns
    BY DEF IInv, ActiveIsUnreported
  <2> QED
    BY <2>1, <2>2 DEF IInv, TypeOK
<1> QED
  BY Inductive, <1>1, PTL

(* m_activeSessions holds exactly the sessions that have not emitted       *)
(* sessionFinished, however many times that is emitted.                    *)
THEOREM ActiveCorrect == Spec => []ActiveIsUnreported
<1>1. IInv => ActiveIsUnreported
  BY DEF IInv
<1> QED
  BY Inductive, <1>1, PTL

(* No log is taken from a client that was not authorized, by a module it   *)
(* satisfied, through the sealed sinks.                                    *)
THEOREM AuthorizedLogs == Spec => []LogsOnlyFromAuthorized
<1>1. IInv => LogsOnlyFromAuthorized
  BY DEF IInv, LogsOnlyFromAuthorized, Good, Chain, Vouched
<1> QED
  BY Inductive, <1>1, PTL

(* No part outlives its session: when the session is deleted no part has a *)
(* timer, a connection or an event left.                                   *)
THEOREM EndInOrder == Spec => []PartsEndBeforeSession
<1>1. IInv => PartsEndBeforeSession
  <2> SUFFICES ASSUME IInv, NEW c \in Conns,
                      \/ ses[c].posted # <<>> /\ Head(ses[c].posted) = "deleteSession"
                      \/ ses[c].part = "deleted"
               PROVE  /\ ses[c].part \notin Parts
                      /\ ~ses[c].timer /\ ~ses[c].connected /\ ~ses[c].stale
    BY DEF PartsEndBeforeSession
  <2>1. Good(ses[c])
    BY DEF IInv
  <2>2. CASE ses[c].posted # <<>> /\ Head(ses[c].posted) = "deleteSession"
    BY <2>1, <2>2, PostedWell DEF Over, Parts
  <2>3. CASE ses[c].part = "deleted"
    BY <2>1, <2>3 DEF Good, Listens, Pending, Over, Gone, Parts
  <2> QED
    BY <2>2, <2>3
<1> QED
  BY Inductive, <1>1, PTL

(* A part that waits listens, under its timer.                             *)
LEMMA WaitingListens ==
    ASSUME IInv, NEW c \in Conns, Waiting(c)
    PROVE  /\ Good(ses[c]) /\ Listens(ses[c]) /\ Timed(ses[c]) /\ ses[c].rest = <<>>
<1>1. Good(ses[c]) /\ ses[c].part \in Parts /\ ses[c].open /\ ses[c].posted = <<>>
      /\ ses[c].rest = <<>>
  BY DEF Waiting, Ready, InLoop, IInv
<1>2. Listens(ses[c]) /\ Timed(ses[c])
  BY <1>1 DEF Good, Pending, Over, Gone
<1> QED
  BY <1>1, <1>2

(* A part that waits for its client listens and has its timer running, but *)
(* for the portion that was queued.                                        *)
THEOREM TimedWaits == Spec => []WaitingIsTimed
<1>1. IInv => WaitingIsTimed
  BY WaitingListens DEF WaitingIsTimed, Listens, Timed
<1> QED
  BY Inductive, <1>1, PTL

(* The client that waits for every answer never has a message forgotten in *)
(* a sink, and never gets two answers, or none, to a message.              *)
THEOREM NeverBehind == Spec => []NothingLeftUnread
<1>1. IInv => NothingLeftUnread
  BY WaitingListens DEF NothingLeftUnread, Listens, Good, Turn
<1> QED
  BY Inductive, <1>1, PTL

(***************************************************************************)
(* The refinement                                                          *)
(***************************************************************************)
(* Stage, with its parameters in view.                                     *)
StageOf(s, at) ==
    IF s.reports # <<>> THEN IF Head(s.reports) THEN "ok" ELSE "failed"
    ELSE IF s.part \in {"idle", "refused"} THEN "waiting"
    ELSE IF at = "crashed" THEN "failed"
    ELSE IF s.part \in {"none", "init"} THEN "hello" ELSE s.part

Stages == [c \in Conns |-> StageOf(ses[c], server)]

(* The mapping, with its parameters in view.                               *)
LEMMA Mapping ==
    /\ Stages = [c \in Conns |-> Stage(c)]
    /\ Stages' = [c \in Conns |-> Stage(c)]'
    /\ \A c \in Conns : Stages[c] = StageOf(ses[c], server)
                          /\ Stages'[c] = StageOf(ses'[c], server')
BY DEF Stages, StageOf, Stage

(* The stage of a session, case by case.                                   *)
LEMMA StageCases ==
    ASSUME NEW s, NEW at
    PROVE  /\ s.reports # <<>> /\ Head(s.reports) => StageOf(s, at) = "ok"
           /\ s.reports # <<>> /\ ~Head(s.reports) => StageOf(s, at) = "failed"
           /\ s.reports = <<>> /\ at # "crashed" /\ s.part \in {"none", "init"}
                => StageOf(s, at) = "hello"
           /\ s.reports = <<>> /\ at # "crashed" /\ s.part \in {"crypto", "auth", "logs"}
                => StageOf(s, at) = s.part
<1>1. s.reports # <<>> /\ Head(s.reports) => StageOf(s, at) = "ok"
  BY Zenon DEF StageOf
<1>2. s.reports # <<>> /\ ~Head(s.reports) => StageOf(s, at) = "failed"
  BY Zenon DEF StageOf
<1>3. s.reports = <<>> /\ at # "crashed" /\ s.part \in {"none", "init"}
         => StageOf(s, at) = "hello"
  <2>1. s.part \in {"none", "init"} => s.part \notin {"idle", "refused"}
    OBVIOUS
  <2> QED
    BY <2>1, Zenon DEF StageOf
<1>4. s.reports = <<>> /\ at # "crashed" /\ s.part \in {"crypto", "auth", "logs"}
         => StageOf(s, at) = s.part
  <2>1. s.part \in {"crypto", "auth", "logs"} =>
           s.part \notin {"idle", "refused"} /\ s.part \notin {"none", "init"}
    OBVIOUS
  <2> QED
    BY <2>1, Zenon DEF StageOf
<1> QED
  BY <1>1, <1>2, <1>3, <1>4, Zenon

(* The stage after each.                                                   *)
LEMMA AfterEach ==
    /\ Abstract!After["hello"] = "crypto" /\ Abstract!After["crypto"] = "auth"
    /\ Abstract!After["auth"] = "logs" /\ Abstract!After["logs"] = "ok"
BY DEF Abstract!After

(* Only that the process died matters, besides the session.                *)
LEMMA SameStage ==
    ASSUME NEW s, NEW at, NEW to, (at = "crashed") <=> (to = "crashed")
    PROVE  StageOf(s, at) = StageOf(s, to)
<1>1. CASE at = "crashed"
  BY <1>1, Zenon DEF StageOf
<1>2. CASE at # "crashed"
  BY <1>2, Zenon DEF StageOf
<1> QED
  BY <1>1, <1>2

(* A session is in progress while it has not reported.                     *)
LEMMA InProgressStages ==
    ASSUME NEW s, Good(s), NEW at
    PROVE  at # "crashed" =>
             (StageOf(s, at) \in Abstract!InProgress
                <=> s.part \notin {"idle", "refused"} /\ s.reports = <<>>)
<1>1. s.reports = <<>> => s.part # "deleted"
  BY DEF Good, Listens, Pending, Over, Gone, Parts
<1>2. s.part \in {"init", "crypto", "auth", "logs", "none", "idle", "refused", "deleted"}
  BY DEF Good, Listens, Pending, Over, Gone, Parts
<1> QED
  BY <1>1, <1>2 DEF StageOf, Abstract!InProgress

(* The stages in progress are those of the active sessions.                *)
LEMMA ActiveStages ==
    ASSUME IInv, server # "crashed"
    PROVE  \A c \in Conns : Stages[c] \in Abstract!InProgress <=> c \in active
<1> SUFFICES ASSUME NEW c \in Conns
             PROVE  Stages[c] \in Abstract!InProgress <=> c \in active
  OBVIOUS
<1>1. Good(ses[c]) /\ (c \in active <=> ses[c].part \notin {"idle", "refused"} /\ ses[c].reports = <<>>)
  BY DEF IInv, ActiveIsUnreported
<1> QED
  BY <1>1, InProgressStages, Mapping

(* And after a step.                                                       *)
LEMMA ActiveStagesNext ==
    ASSUME IInv', server' # "crashed"
    PROVE  \A c \in Conns : Stages'[c] \in Abstract!InProgress <=> c \in active'
<1> SUFFICES ASSUME NEW c \in Conns
             PROVE  Stages'[c] \in Abstract!InProgress <=> c \in active'
  OBVIOUS
<1>1. Good(ses'[c])
      /\ (c \in active' <=> ses'[c].part \notin {"idle", "refused"} /\ ses'[c].reports = <<>>)
  BY DEF IInv, ActiveIsUnreported
<1> QED
  BY <1>1, InProgressStages, Mapping

(* The states of the server, as the stages see them.                       *)
Accepting == server = "accepting"
Closed == server \in {"closed", "ended"}

(* What goes on in one session is a step of its stages.                    *)
LEMMA GoesRefines ==
    ASSUME IInv, IInv', NEW c \in Conns, Goes(c), Running
    PROVE  [Abstract!Next]_(Abstract!vars)
<1>1. PICK s : Follows(ses[c], s) /\ Becomes(c, s)
  BY DEF Goes
<1> DEFINE u == ses[c]
<1>2. /\ ses' = [ses EXCEPT ![c] = s]
      /\ ses'[c] = s /\ \A d \in Conns : d # c => ses'[d] = ses[d]
  BY <1>1 DEF Becomes, IInv
<1>3. /\ server' = IF server = "closing" /\ active' = {} /\ s.reports # u.reports
                   THEN "closed" ELSE server
      /\ server \notin {"ended", "crashed"}
  BY <1>1 DEF Becomes, SessionFinished, Running
<1>4. server' # "crashed" /\ (Accepting' <=> Accepting)
      /\ (server' = server => (Closed' <=> Closed))
  BY <1>3 DEF Accepting, Closed
<1>5. \A d \in Conns : d # c => Stages'[d] = Stages[d]
  <2> SUFFICES ASSUME NEW d \in Conns, d # c PROVE Stages'[d] = Stages[d]
    OBVIOUS
  <2>1. StageOf(ses[d], server') = StageOf(ses[d], server)
    BY <1>3, <1>4, SameStage
  <2>2. ses'[d] = ses[d]
    BY <1>2
  <2> QED
    BY <2>1, <2>2, Mapping, Zenon
<1>6. Stages[c] = StageOf(u, server) /\ Stages'[c] = StageOf(s, server')
  BY <1>2, Mapping
<1>7. CASE Stages'[c] = Stages[c] /\ s.reports = u.reports
  <2>1. Stages' = Stages
    BY <1>5, <1>7 DEF Stages
  <2>2. server' = server
    BY <1>3, <1>7
  <2> QED
    BY <1>4, <2>1, <2>2, Mapping DEF Abstract!vars, Accepting, Closed
<1>8. ASSUME NEW to, Stages[c] \in Abstract!InProgress, Stages'[c] = to
      PROVE  Abstract!Go(c, to)
  <2>1. Stages' = [Stages EXCEPT ![c] = to]
    BY <1>5, <1>8 DEF Stages
  <2>2. CASE server' = server
    BY <1>4, <1>8, <2>1, <2>2, Mapping DEF Abstract!Go, Accepting, Closed
  <2>3. CASE server = "closing" /\ server' = "closed" /\ active' = {}
    <3>1. \A d \in Conns : Stages'[d] \notin Abstract!InProgress
      BY <1>4, <2>3, ActiveStagesNext
    <3>2. ~Accepting /\ Closed'
      BY <2>3 DEF Accepting, Closed
    <3> QED
      BY <1>4, <1>8, <2>1, <3>1, <3>2, Mapping DEF Abstract!Go, Accepting, Closed
  <2> QED
    BY <1>3, <2>2, <2>3
<1>9. CASE u.reports = <<>> /\ Moves(u.part, s)
  <2>1. u.part \in {"init", "crypto", "auth", "logs", "none"} /\ Good(u)
    BY <1>1 DEF Follows, Parts, IInv
  <2>2. Stages[c] = IF u.part \in {"none", "init"} THEN "hello" ELSE u.part
    BY <1>3, <1>6, <1>9, <2>1, StageCases
  <2>3. Stages[c] \in Abstract!InProgress
    BY <2>1, <2>2 DEF Abstract!InProgress
  <2>4. CASE s.reports = <<>> /\ s.part \in {u.part, "init"} /\ (s.part # u.part => u.part = "none")
    <3>1. Stages'[c] = Stages[c]
      BY <1>4, <1>6, <2>1, <2>2, <2>4, StageCases
    <3> QED
      BY <1>7, <1>9, <2>4, <3>1
  <2>5. CASE /\ s.reports = <<>>
             /\ \/ u.part = "init" /\ s.part = "crypto"
                \/ u.part = "crypto" /\ s.part = "auth"
                \/ u.part = "auth" /\ s.part = "logs"
    <3>1. Stages'[c] = Abstract!After[Stages[c]]
      <4>1. Stages'[c] = s.part
        BY <1>4, <1>6, <2>5, StageCases
      <4> QED
        BY <2>2, <2>5, <4>1, AfterEach
    <3>2. Abstract!Go(c, Abstract!After[Stages[c]])
      BY <1>8, <2>3, <3>1
    <3>3. Abstract!Advance(c)
      BY <2>3, <3>2, Mapping DEF Abstract!Advance
    <3> QED
      BY <3>3 DEF Abstract!Next
  <2>6. CASE s.reports # <<>> /\ Head(s.reports) /\ u.part = "logs"
    <3>1. Stages'[c] = Abstract!After[Stages[c]]
      <4>1. Stages'[c] = "ok"
        BY <1>6, <2>6, StageCases
      <4> QED
        BY <2>2, <2>6, <4>1, AfterEach
    <3>2. Abstract!Go(c, Abstract!After[Stages[c]])
      BY <1>8, <2>3, <3>1
    <3>3. Abstract!Advance(c)
      BY <2>3, <3>2, Mapping DEF Abstract!Advance
    <3> QED
      BY <3>3 DEF Abstract!Next
  <2>7. CASE s.reports # <<>> /\ ~Head(s.reports)
    <3>1. Stages'[c] = "failed"
      BY <1>6, <2>7, StageCases
    <3>2. Abstract!Fail(c)
      BY <1>8, <2>3, <3>1 DEF Abstract!Fail
    <3> QED
      BY <3>2 DEF Abstract!Next
  <2> QED
    BY <1>9, <2>4, <2>5, <2>6, <2>7 DEF Moves
<1>10. CASE u.reports = s.reports /\ u.part = s.part
  <2>1. Stages'[c] = Stages[c]
    BY <1>3, <1>4, <1>6, <1>10 DEF StageOf
  <2> QED
    BY <1>7, <1>10, <2>1
<1> QED
  BY <1>1, <1>9, <1>10 DEF Follows

(* A handler that throws is a crash, seen from above.                      *)
LEMMA DiesRefines ==
    ASSUME IInv, NEW c \in Conns, Dies(c), Running
    PROVE  Abstract!Next
<1>1. /\ server' = "crashed" /\ ses' = ses /\ server \notin {"ended", "crashed"}
      /\ c \in active
  BY DEF Dies, Crash, Running, IInv, ActiveIsUnreported, Parts
<1>2. server # "closed"
  BY <1>1 DEF IInv
<1>3. ~Accepting' /\ (Closed' <=> Closed)
  BY <1>1, <1>2 DEF Accepting, Closed
<1>4. ASSUME NEW d \in Conns
      PROVE  Stages'[d] = IF Stages[d] \in Abstract!InProgress THEN "failed" ELSE Stages[d]
  <2>1. Stages[d] \in Abstract!InProgress
          <=> ses[d].part \notin {"idle", "refused"} /\ ses[d].reports = <<>>
    BY <1>1, InProgressStages, Mapping DEF IInv
  <2> QED
    BY <1>1, <2>1, Mapping DEF StageOf
<1>5. Stages' = [d \in Conns |-> IF Stages[d] \in Abstract!InProgress THEN "failed" ELSE Stages[d]]
  BY <1>4 DEF Stages
<1>6. Abstract!Crash
  BY <1>3, <1>5, Mapping DEF Abstract!Crash, Accepting, Closed
<1> QED
  BY <1>6 DEF Abstract!Next

(* Nothing seen from above.                                                *)
LEMMA SameStages ==
    ASSUME \A c \in Conns : ses'[c].reports = ses[c].reports /\ ses'[c].part = ses[c].part,
           (server' = "crashed") <=> (server = "crashed")
    PROVE  Stages' = Stages
BY DEF Stages, StageOf

(* Every step of the sessions is one of their stages, or none.             *)
LEMMA StepRefines ==
    ASSUME SessionAssumption, IInv, IInv', [Next]_vars
    PROVE  [Abstract!Next]_(Abstract!vars)
<1>1. ASSUME NEW c \in Conns, NewConnectionArrived(c) PROVE Abstract!Next
  <2>1. /\ server = "accepting" /\ server' = server /\ ses[c] = NoSession
        /\ ses' = [ses EXCEPT ![c] = NewSession]
    BY <1>1 DEF NewConnectionArrived, Arrives
  <2>2. ses'[c] = NewSession /\ \A d \in Conns : d # c => ses'[d] = ses[d]
    BY <2>1 DEF IInv
  <2>3. Stages[c] = "waiting"
    <3> HIDE DEF NoSession
    <3> QED
      BY <2>1, NoSessionTyped, Mapping DEF StageOf
  <2>4. Stages'[c] = "hello"
    <3> HIDE DEF NewSession
    <3> QED
      BY <2>1, <2>2, NewWell, Mapping DEF StageOf
  <2>5. Stages' = [Stages EXCEPT ![c] = "hello"]
    <3> HIDE DEF NewSession, NoSession
    <3>1. \A d \in Conns : d # c => Stages'[d] = Stages[d]
      <4> SUFFICES ASSUME NEW d \in Conns, d # c PROVE Stages'[d] = Stages[d]
        OBVIOUS
      <4>1. ses'[d] = ses[d]
        BY <2>2
      <4> QED
        BY <2>1, <4>1, Mapping, Zenon
    <3> QED
      BY <2>4, <3>1 DEF Stages
  <2>6. Abstract!Accept(c)
    BY <2>1, <2>3, <2>5, Mapping DEF Abstract!Accept
  <2> QED
    BY <2>6 DEF Abstract!Next
<1>2. ASSUME NEW c \in Conns, NotConnectedSocket(c) PROVE UNCHANGED Abstract!vars
  <2> DEFINE s == [NoSession EXCEPT !.part = "refused"]
  <2>1. ses[c] = NoSession /\ server = "accepting" /\ Becomes(c, s)
    BY <1>2 DEF NotConnectedSocket, Arrives
  <2>2. s.part = "refused" /\ s.reports = NoSession.reports
        /\ NoSession.part = "idle" /\ NoSession.reports = <<>>
    BY NoSessionTyped DEF Sessions
  <2> HIDE DEF s
  <2>3. server' = server /\ ses'[c] = s /\ \A d \in Conns : d # c => ses'[d] = ses[d]
    BY <2>1 DEF Becomes, SessionFinished, IInv
  <2>4. \A d \in Conns : Stages'[d] = Stages[d]
    <3> HIDE DEF NoSession
    <3> QED
      <4> SUFFICES ASSUME NEW d \in Conns PROVE Stages'[d] = Stages[d]
        OBVIOUS
      <4>1. CASE d # c
        <5>1. ses'[d] = ses[d]
          BY <2>3, <4>1
        <5> QED
          BY <2>3, <5>1, Mapping, Zenon
      <4>2. ses'[c].part \in {"idle", "refused"} /\ ses[c].part \in {"idle", "refused"}
            /\ ses'[c].reports = ses[c].reports /\ ses[c].reports = <<>>
        BY <2>1, <2>2, <2>3
      <4>3. StageOf(ses'[c], server') = StageOf(ses[c], server)
        BY <4>2, Zenon DEF StageOf
      <4>4. Stages'[c] = Stages[c]
        BY <4>3, Mapping, Zenon
      <4> QED
        BY <4>1, <4>4
  <2>5. Stages' = Stages
    BY <2>4 DEF Stages
  <2> QED
    BY <2>3, <2>5, Mapping DEF Abstract!vars
<1>3. ASSUME NEW c \in Conns, DeleteSession(c) PROVE UNCHANGED Abstract!vars
  <2> DEFINE s == [NoSession EXCEPT !.part = "deleted", !.reports = ses[c].reports]
  <2>1. /\ Becomes(c, s) /\ s.part = "deleted"
        /\ s.reports = ses[c].reports /\ s.reports # <<>>
    BY <1>3, DeletesWell
  <2> HIDE DEF s
  <2>2. server' = server /\ ses'[c] = s /\ \A d \in Conns : d # c => ses'[d] = ses[d]
    BY <2>1 DEF Becomes, SessionFinished, IInv
  <2>3. ASSUME NEW d \in Conns PROVE Stages'[d] = Stages[d]
    <3>1. CASE d # c
      <4>1. ses'[d] = ses[d]
        BY <2>2, <3>1
      <4> QED
        BY <2>2, <4>1, Mapping, Zenon
    <3>2. ses'[c].reports = ses[c].reports /\ ses[c].reports # <<>>
      BY <2>1, <2>2
    <3>3. StageOf(ses'[c], server') = StageOf(ses[c], server)
      BY <3>2, Zenon DEF StageOf
    <3>4. Stages'[c] = Stages[c]
      BY <3>3, Mapping, Zenon
    <3> QED
      BY <3>1, <3>4
  <2>4. Stages' = Stages
    BY <2>3 DEF Stages
  <2> QED
    BY <2>2, <2>4, Mapping DEF Abstract!vars
<1>4. ASSUME NEW c \in Conns, Goes(c) \/ Dies(c), Running PROVE [Abstract!Next]_(Abstract!vars)
  BY <1>4, GoesRefines, DiesRefines
<1>5. ASSUME NEW c \in Conns, HandlePosted(c) PROVE [Abstract!Next]_(Abstract!vars)
  <2>1. Running
    BY <1>5 DEF HandlePosted, StartSession, Execute, ExecuteInit, ExecuteCrypto, ExecuteAuth,
                ExecuteLogs, DeletePart, DeleteSession, Handle, InLoop
  <2> QED
    BY <1>3, <1>4, <1>5, <2>1, PostedGoes
<1>6. ASSUME NEW c \in Conns,
             Receive(c) \/ ReadNext(c) \/ RequestTimedOut(c) \/ PeerDisconnects(c)
      PROVE  [Abstract!Next]_(Abstract!vars)
  <2>1. Running
    BY <1>6 DEF Receive, ReadNext, RequestTimedOut, PeerDisconnects, Ready, InLoop
  <2> QED
    BY <1>4, <1>6, <2>1, ClientGoes
<1>7. ASSUME NEW c \in Conns, FallSilent(c) PROVE UNCHANGED Abstract!vars
  <2>1. ses' = ses /\ server' = server
    BY <1>7 DEF FallSilent
  <2>2. Stages' = Stages
    BY <2>1, SameStages
  <2> QED
    BY <2>1, <2>2, Mapping DEF Abstract!vars
<1>8. CASE Close
  <2>1. /\ ses' = ses /\ server = "accepting"
        /\ server' = IF active = {} THEN "closed" ELSE "closing"
    BY <1>8 DEF Close
  <2>2. Stages' = Stages
    BY <2>1, SameStages
  <2>3. active = {} <=> \A c \in Conns : Stages[c] \notin Abstract!InProgress
    BY <2>1, ActiveStages DEF IInv, ActiveIsUnreported
  <2>4. Accepting /\ ~Accepting' /\ (Closed' <=> active = {})
    BY <2>1 DEF Accepting, Closed
  <2>5. Abstract!Close
    <3>1. server = "accepting" /\ (server' = "accepting") = FALSE
      BY <2>1
    <3>2. (server' \in {"closed", "ended"}) = (\A c \in Conns : Stages[c] \notin Abstract!InProgress)
      <4> DEFINE quietly == \A c \in Conns : Stages[c] \notin Abstract!InProgress
      <4>1. server' \in {"closed", "ended"} <=> quietly
        BY <2>3, <2>4 DEF Closed
      <4> HIDE DEF quietly
      <4>2. CASE quietly
        <5>1. quietly = TRUE
          BY <4>2 DEF quietly
        <5>2. (server' \in {"closed", "ended"}) = TRUE
          BY <4>1, <4>2
        <5> QED
          BY <5>1, <5>2, Zenon DEF quietly
      <4>3. CASE ~quietly
        <5>1. quietly = FALSE
          BY <4>3 DEF quietly
        <5>2. (server' \in {"closed", "ended"}) = FALSE
          BY <4>1, <4>3
        <5> QED
          BY <5>1, <5>2, Zenon DEF quietly
      <4> QED
        BY <4>2, <4>3
    <3> QED
      BY <2>2, <3>1, <3>2, Mapping, Zenon DEF Abstract!Close
  <2> QED
    BY <2>5 DEF Abstract!Next
<1>9. CASE EndThread
  <2>1. /\ server = "closed" /\ server' = "ended"
        /\ ses' = [c \in Conns |-> [ses[c] EXCEPT !.posted = <<>>]]
    BY <1>9 DEF EndThread
  <2>2. ASSUME NEW c \in Conns
        PROVE  ses'[c].reports = ses[c].reports /\ ses'[c].part = ses[c].part
    <3> DEFINE u == ses[c]
    <3>1. u \in Sessions /\ ses'[c] = [u EXCEPT !.posted = <<>>]
      BY <2>1 DEF IInv, Good
    <3> HIDE DEF u
    <3> QED
      BY <3>1 DEF Sessions, u
  <2>3. Stages' = Stages
    BY <2>1, <2>2, SameStages
  <2> QED
    BY <2>1, <2>3, Mapping DEF Abstract!vars
<1>10. CASE UNCHANGED vars
  <2>1. ses' = ses /\ server' = server
    BY <1>10 DEF vars
  <2>2. Stages' = Stages
    BY <2>1, SameStages
  <2> QED
    BY <2>1, <2>2, Mapping DEF Abstract!vars
<1> QED
  BY <1>1, <1>2, <1>5, <1>6, <1>7, <1>8, <1>9, <1>10 DEF Next

(* At first every stage is the one of a client that waits.                 *)
LEMMA InitRefines == Init => Abstract!Init
<1> SUFFICES ASSUME Init PROVE Abstract!Init
  OBVIOUS
<1>1. ses = [c \in Conns |-> NoSession] /\ server = "accepting"
  BY DEF Init
<1> HIDE DEF NoSession
<1>2. \A c \in Conns : Stages[c] = "waiting"
  BY <1>1, NoSessionTyped, Mapping DEF StageOf
<1>3. Stages = [c \in Conns |-> "waiting"]
  BY <1>2 DEF Stages
<1> QED
  BY <1>1, <1>3, Mapping DEF Abstract!Init

(* Every session goes through its parts in order and ends once and for     *)
(* all, and the provider is closed only when none is in progress, for any  *)
(* number of clients and whatever they send.                               *)
THEOREM SessionRefinement == Spec => ImplementsSessionStages
<1>1. SessionAssumption /\ IInv /\ IInv' /\ [Next]_vars => [Abstract!Next]_(Abstract!vars)
  BY StepRefines
<1> QED
  BY InitRefines, <1>1, Inductive, SessionAssumption, PTL
  DEF Spec, ImplementsSessionStages, Abstract!Spec

=============================================================================
