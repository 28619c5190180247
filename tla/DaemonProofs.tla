---------------------------- MODULE DaemonProofs ----------------------------
(***************************************************************************)
(* Proofs about Daemon, for any lists of providers and consumers, any      *)
(* causes and any number of shutDowns.                                     *)
(*                                                                         *)
(* The main thread handles events in loops that its own calls run, so a    *)
(* call may come on top of any call that waits. GInv says what is left of  *)
(* order: each loop knows which thread it waits for (ConnectedOK), no      *)
(* thread is started twice (StartsOnce), and whoever quits a thread waits  *)
(* until it is over (EndsOK). TypeOK needs StackOK and EventsOK, for an    *)
(* event names the loop that it quits by its place in the stack; and       *)
(* DanglingWhileEnding is the last part of EndsOK.                         *)
(*                                                                         *)
(* The steps come in three sorts: those of the other threads               *)
(* (ThreadEffect), those of the call on top (TopMoves), and those by which *)
(* calls come, return, or are told something (CallsChange). What each sort *)
(* keeps is proved once, and every action is then shown to be of its sort. *)
(***************************************************************************)
EXTENDS Daemon, FiniteSetTheorems, SequenceTheorems, TLAPS

-----------------------------------------------------------------------------
(* A call of the main thread.                                              *)
Frame == [fn : Calls, at : Places, todo : Seq(Threads), exit : BOOLEAN]

(* Where a call waits in a loop of its own.                                *)
Loops == {"starting", "closing", "ending"}

(* The calls that start threads.                                           *)
Inits == {"initDataConsumers", "initDataProviders"}

(* The calls that close providers and consumers.                           *)
Closers == {"undoProviders", "closeAllSlot"}

(* What the place in a call says of the call: only the main loop waits at  *)
(* "exec", only a call that starts waits for a start, only one that closes *)
(* for an end; and a call that waits is busy with the head of its list.    *)
IsFrame(f) ==
    /\ f \in Frame
    /\ f.fn = "exec" <=> f.at = "exec"
    /\ f.at = "starting" => f.fn \in Inits
    /\ f.at \in {"closing", "check", "connect", "ending"} => f.fn \in Closers
    /\ f.at \notin {"exec", "next"} => f.todo # <<>>

(* The main loop is at the bottom of the stack, and only there. A call     *)
(* that is not on top waits in a loop: nothing else runs another handler.  *)
StackOK ==
    /\ stack \in Seq(Frame)
    /\ \A n \in 1..Depth : IsFrame(stack[n])
    /\ \A n \in 1..Depth : n = 1 <=> stack[n].fn = "exec"
    /\ \A n \in 1..Depth : n < Depth => stack[n].at \in Loops \cup {"exec"}
    /\ phase = "launch" => stack = <<>>
    /\ phase = "running" => stack # <<>>

(* What may be posted to the main thread.                                  *)
Event == {<<"closeAllSlot">>, <<"initDataConsumers">>}
           \cup ({"start", "quit"} \X Threads) \cup ({"quitLoop"} \X Nat)

(* e is somewhere in s.                                                    *)
In(e, s) == \E i \in 1..Len(s) : s[i] = e

(* No event of one of these kinds is in s twice.                           *)
Once(s, kinds) == \A i, j \in 1..Len(s) : s[i] = s[j] /\ s[i][1] \in kinds => i = j

(* e is posted, and not handled yet.                                       *)
IsPosted(e) == In(e, events)

(* A loop that is told to exit is one that waits. No thread is asked to    *)
(* start twice, and the initialisation is posted once.                     *)
EventsOK ==
    /\ events \in Seq(Event)
    /\ \A n \in Nat : IsPosted(<<"quitLoop", n>>) => n \in 1..Depth /\ stack[n].at \in Loops
    /\ Once(events, {"start", "initDataConsumers"})

(* What is connected to a loop is a signal that it waits for, of the       *)
(* thread that its call is busy with.                                      *)
ConnectedOK ==
    \A x \in connected :
        /\ x \in Threads \X {"started", "finished", "closed"} \X (1..Depth)
        /\ stack[x[3]].at \in (CASE x[2] = "started" -> {"starting"}
                                 [] x[2] = "finished" -> {"starting", "ending"}
                                 [] x[2] = "closed" -> {"closing"})
        /\ Head(stack[x[3]].todo) = x[1]

(* The thread was not started, and was not asked to.                       *)
Unstarted(t) == thread[t] = "off" /\ ~IsPosted(<<"start", t>>)

(* s is what is left of t.                                                 *)
Suffix(s, t) == \E k \in 1..(Len(t) + 1) : s = SubSeq(t, k, Len(t))

(* No thread is started twice: there is one call that starts threads, or   *)
(* it is still posted, and those that are left in its list were not        *)
(* started.                                                                *)
StartsOnce ==
    /\ \A t \in Threads : IsPosted(<<"start", t>>) => thread[t] = "off"
    /\ \A n, m \in 1..Depth : stack[n].fn \in Inits /\ stack[m].fn \in Inits => n = m
    /\ phase = "launch" => ~IsPosted(<<"initDataConsumers">>) /\ \A t \in Threads : Unstarted(t)
    /\ IsPosted(<<"initDataConsumers">>) =>
          /\ \A t \in Threads : Unstarted(t)
          /\ \A n \in 1..Depth : stack[n].fn \notin Inits
    /\ \A n \in 1..Depth : stack[n].fn = "initDataConsumers" =>
          /\ Suffix(stack[n].todo, Consumers)
          /\ \A p \in ProviderSet : Unstarted(p)
    /\ \A n \in 1..Depth : stack[n].fn = "initDataProviders" => Suffix(stack[n].todo, Providers)
    /\ \A n \in 1..Depth : stack[n].fn \in Inits =>
          \A t \in ToSet(IF stack[n].at = "starting" THEN Tail(stack[n].todo) ELSE stack[n].todo) :
              Unstarted(t)

(* A close() waits for the end of thread t.                                *)
Ends(t) == \E n \in 1..Depth : stack[n].at = "ending" /\ Head(stack[n].todo) = t

(* Until the exit, whoever quit a thread waits for its end; such a loop is *)
(* told to exit only when the thread is over; and so only a provider whose *)
(* end is waited for has destroyed its manager.                            *)
EndsOK ==
    ~quitNow =>
        /\ \A t \in Threads :
              IsPosted(<<"quit", t>>) \/ (exited[t] /\ thread[t] # "over") => Ends(t)
        /\ \A n \in 1..Depth :
              stack[n].at = "ending" /\ (stack[n].exit \/ IsPosted(<<"quitLoop", n>>)) =>
                  thread[Head(stack[n].todo)] = "over"
        /\ \A p \in ProviderSet : manager[p] = "dead" => Ends(p)

(* What TypeOK says of the other variables.                                *)
VarsOK ==
    /\ phase \in {"launch", "running", "ended", "aborted"}
    /\ quitNow \in BOOLEAN
    /\ providers \in {Providers, <<>>}
    /\ thread \in [Threads -> {"off", "begun", "run", "loop", "returned", "over"}]
    /\ exited \in [Threads -> BOOLEAN]
    /\ manager \in [ProviderSet -> {"null", "live", "dead"}]
    /\ requests \in [ProviderSet -> Nat]
    /\ closing \in [ProviderSet -> BOOLEAN]
    /\ active \in [ProviderSet -> BOOLEAN]
    /\ pipe \in [Writers -> {"unset", "open", "error", "closed", "foreign"}]
    /\ files \in {"open", "closed"}
    /\ settled \in BOOLEAN
    /\ asked \in 0..MaxShutDowns
    /\ hasty \in BOOLEAN

(* The inductive invariant of the daemon, whatever is asked of it and      *)
(* however often.                                                          *)
GInv == VarsOK /\ StackOK /\ EventsOK /\ ConnectedOK /\ StartsOnce /\ EndsOK

-----------------------------------------------------------------------------
(* Events appended, and when they stay without repetition.                 *)
LEMMA InAppend ==
    ASSUME NEW T, NEW s \in Seq(T), NEW e \in T
    PROVE  /\ Append(s, e) \in Seq(T)
           /\ \A x : In(x, Append(s, e)) <=> In(x, s) \/ x = e
           /\ \A kinds : Once(s, kinds) /\ (e[1] \in kinds => ~In(e, s)) => Once(Append(s, e), kinds)
BY DEF In, Once

(* The first event is taken.                                               *)
LEMMA InTail ==
    ASSUME NEW T, NEW s \in Seq(T), s # <<>>
    PROVE  /\ Tail(s) \in Seq(T)
           /\ Head(s) \in T /\ In(Head(s), s)
           /\ \A x : In(x, s) <=> In(x, Tail(s)) \/ x = Head(s)
           /\ \A kinds : Once(s, kinds) => Once(Tail(s), kinds)
           /\ \A kinds : Once(s, kinds) /\ Head(s)[1] \in kinds => ~In(Head(s), Tail(s))
BY DEF In, Once

(* Several events are appended.                                            *)
LEMMA InConcat ==
    ASSUME NEW T, NEW s \in Seq(T), NEW t \in Seq(T)
    PROVE  /\ s \o t \in Seq(T)
           /\ \A x : In(x, s \o t) <=> In(x, s) \/ In(x, t)
           /\ \A kinds : Once(s, kinds) /\ (\A x : In(x, t) => x[1] \notin kinds) =>
                            Once(s \o t, kinds)
<1>1. /\ s \o t \in Seq(T) /\ Len(s \o t) = Len(s) + Len(t)
      /\ \A i \in 1..Len(s \o t) : (s \o t)[i] = IF i <= Len(s) THEN s[i] ELSE t[i - Len(s)]
  OBVIOUS
<1>2. \A i \in 1..Len(t) : (s \o t)[Len(s) + i] = t[i]
  OBVIOUS
<1>3. ASSUME NEW x, In(x, t) PROVE In(x, s \o t)
  <2>1. PICK i \in 1..Len(t) : t[i] = x
    BY <1>3 DEF In
  <2>2. Len(s) + i \in 1..Len(s \o t)
    BY <1>1
  <2> QED
    BY <1>2, <2>1, <2>2 DEF In
<1>4. ASSUME NEW x, In(x, s) PROVE In(x, s \o t)
  BY <1>1, <1>4 DEF In
<1>5. ASSUME NEW x, In(x, s \o t) PROVE In(x, s) \/ In(x, t)
  BY <1>1, <1>5 DEF In
<1>6. ASSUME NEW kinds, Once(s, kinds), \A x : In(x, t) => x[1] \notin kinds
      PROVE  Once(s \o t, kinds)
  BY <1>1, <1>6 DEF In, Once
<1> QED
  BY <1>1, <1>3, <1>4, <1>5, <1>6

(* The signals of a thread post events for the loops connected to them.    *)
LEMMA EmittedEvents ==
    ASSUME NEW t, NEW signal, Depth \in Nat
    PROVE  /\ Emitted(t, signal) \in Seq(Event)
           /\ \A x : In(x, Emitted(t, signal)) =>
                  \E n \in 1..Depth : x = <<"quitLoop", n>> /\ <<t, signal, n>> \in connected
<1> DEFINE A == {k \in 1..Depth : <<t, signal, k>> \in connected}
           S == {<<"quitLoop", n>> : n \in A}
           f == [n \in A |-> <<"quitLoop", n>>]
<1>1. IsFiniteSet(A)
  <2>1. IsFiniteSet(1..Depth)
    BY FS_Interval
  <2>2. A \in SUBSET (1..Depth)
    OBVIOUS
  <2> QED
    BY <2>1, <2>2, FS_Subset
<1>2. f \in Surjection(A, S)
  BY DEF Surjection
<1>3. IsFiniteSet(S)
  BY <1>1, <1>2, FS_Surjection
<1>4. /\ Cardinality(S) \in Nat
      /\ \E g \in [1..Cardinality(S) -> S] : IsInjective(g)
  <2>1. ExistsBijection(1..Cardinality(S), S) /\ Cardinality(S) \in Nat
    BY <1>3, FS_CardinalityType
  <2>2. PICK g \in [1..Cardinality(S) -> S] :
            \A a, b \in 1..Cardinality(S) : a # b => g[a] # g[b]
    BY <2>1 DEF ExistsBijection, Bijection, Injection, IsInjective
  <2> HIDE DEF S
  <2>3. DOMAIN g = 1..Cardinality(S)
    OBVIOUS
  <2>4. IsInjective(g)
    BY <2>2, <2>3 DEF IsInjective
  <2> QED
    BY <2>1, <2>4
<1>5. SetToSeq(S) \in [1..Cardinality(S) -> S]
  <2> HIDE DEF S
  <2> QED BY <1>4 DEF SetToSeq
<1>6. Emitted(t, signal) = SetToSeq(S)
  BY DEF Emitted
<1>7. S \subseteq Event
  <2>1. \A n \in A : n \in Nat
    OBVIOUS
  <2> HIDE DEF A
  <2> QED
    BY <2>1 DEF Event
<1>8. Len(SetToSeq(S)) = Cardinality(S) /\ SetToSeq(S) \in Seq(Event)
  <2> HIDE DEF S
  <2> QED BY <1>4, <1>5, <1>7
<1>9. \A x : In(x, SetToSeq(S)) => x \in S
  <2> HIDE DEF S
  <2> QED BY <1>4, <1>5, <1>8 DEF In
<1> QED
  BY <1>6, <1>8, <1>9

-----------------------------------------------------------------------------
(* What may become of the stack.                                           *)
LEMMA StackFacts ==
    ASSUME StackOK
    PROVE  /\ Depth \in Nat /\ stack \in Seq(Frame) /\ DOMAIN stack = 1..Depth
           /\ \A n \in 1..Depth : stack[n] \in Frame /\ IsFrame(stack[n])
           /\ \A n \in 1..Depth : n = 1 <=> stack[n].fn = "exec"
           /\ \A n \in 1..Depth : n < Depth => stack[n].at \in Loops \cup {"exec"}
           /\ phase = "running" => Depth > 0 /\ Top = stack[Depth] /\ Top \in Frame /\ IsFrame(Top)
           /\ phase = "running" /\ Top.fn # "exec" => Depth > 1
BY DEF StackOK, Depth, Top

(* When a new stack is one of calls.                                       *)
LEMMA StackMade ==
    ASSUME stack' \in Seq(Frame), phase' # "launch", Depth' > 0,
           \A n \in 1..Depth' : /\ IsFrame(stack'[n])
                                /\ n = 1 <=> stack'[n].fn = "exec"
                                /\ n < Depth' => stack'[n].at \in Loops \cup {"exec"}
    PROVE  StackOK'
BY DEF StackOK, Depth

(* What of a call does not tell whether its loop is to exit.               *)
SameButExit(f, g) == f.fn = g.fn /\ f.at = g.at /\ f.todo = g.todo

(* A call whose loop is told to exit.                                      *)
Told(f) == [f EXCEPT !.exit = TRUE]

(* To be told to exit changes nothing else of a call.                      *)
LEMMA ToldToExit ==
    ASSUME NEW f, IsFrame(f)
    PROVE  IsFrame(Told(f)) /\ Told(f) \in Frame /\ SameButExit(Told(f), f) /\ Told(f).exit
BY DEF IsFrame, Frame, Told, SameButExit

(* The call on top is replaced.                                            *)
LEMMA TopReplaced ==
    ASSUME StackOK, phase = "running", phase' \in {"running", "aborted"},
           NEW f, IsFrame(f), f.fn = "exec" <=> Top.fn = "exec",
           stack' = [stack EXCEPT ![Depth] = f]
    PROVE  /\ StackOK' /\ Depth' = Depth /\ Top' = f
           /\ \A n \in 1..Depth : stack'[n] = IF n = Depth THEN f ELSE stack[n]
<1>1. f \in Frame
  BY DEF IsFrame
<1>2. /\ stack' \in Seq(Frame) /\ Depth' = Depth /\ Top' = f
      /\ \A n \in 1..Depth : stack'[n] = IF n = Depth THEN f ELSE stack[n]
  BY <1>1, StackFacts DEF StackOK, Depth, Top
<1>3. StackOK'
  BY <1>2, StackFacts, StackMade, IsFrame(f)
<1> QED
  BY <1>2, <1>3

(* A handler is called on top of a loop.                                   *)
LEMMA CallPushed ==
    ASSUME StackOK, phase = "running", phase' = "running", Top.at \in Loops \cup {"exec"},
           NEW f, IsFrame(f), f.fn # "exec", stack' = Append(stack, f)
    PROVE  /\ StackOK' /\ Depth' = Depth + 1 /\ Top' = f
           /\ \A n \in 1..(Depth + 1) : stack'[n] = IF n = Depth + 1 THEN f ELSE stack[n]
<1>1. f \in Frame
  BY DEF IsFrame
<1>2. /\ stack' \in Seq(Frame) /\ Depth' = Depth + 1 /\ Top' = f
      /\ \A n \in 1..(Depth + 1) : stack'[n] = IF n = Depth + 1 THEN f ELSE stack[n]
  BY <1>1, StackFacts DEF StackOK, Depth, Top
<1>3. StackOK'
  BY <1>2, StackFacts, StackMade, IsFrame(f)
<1> QED
  BY <1>2, <1>3

(* The call on top returns.                                                *)
LEMMA CallReturned ==
    ASSUME StackOK, phase = "running", phase' \in {"running", "aborted"}, Top.fn # "exec",
           stack' = Front(stack)
    PROVE  /\ StackOK' /\ Depth' = Depth - 1
           /\ \A n \in 1..(Depth - 1) : stack'[n] = stack[n]
<1>1. /\ stack' \in Seq(Frame) /\ Depth' = Depth - 1
      /\ \A n \in 1..(Depth - 1) : stack'[n] = stack[n]
  BY StackFacts DEF StackOK, Depth, Front
<1>2. Depth > 1
  BY StackFacts
<1>3. StackOK'
  BY <1>1, <1>2, StackFacts, StackMade
<1> QED
  BY <1>1, <1>3

(* A loop is told to exit.                                                 *)
LEMMA LoopTold ==
    ASSUME StackOK, phase = "running", UNCHANGED phase, NEW k \in 1..Depth,
           stack' = [stack EXCEPT ![k] = Told(stack[k])]
    PROVE  /\ StackOK' /\ Depth' = Depth
           /\ \A n \in 1..Depth : /\ SameButExit(stack'[n], stack[n])
                                  /\ stack'[n].exit <=> n = k \/ stack[n].exit
<1> DEFINE f == Told(stack[k])
<1>1. stack' = [stack EXCEPT ![k] = f]
  OBVIOUS
<1>2. IsFrame(f) /\ SameButExit(f, stack[k]) /\ f.exit
  BY StackFacts, ToldToExit
<1>3. f \in Frame
  BY <1>2 DEF IsFrame
<1> HIDE DEF f
<1>4. /\ stack' \in Seq(Frame) /\ Depth' = Depth
      /\ \A n \in 1..Depth : stack'[n] = IF n = k THEN f ELSE stack[n]
  BY <1>1, <1>3, StackFacts DEF Depth
<1>5. StackOK'
  BY <1>2, <1>4, StackFacts, StackMade DEF SameButExit
<1>6. \A n \in 1..Depth : stack'[n].exit <=> n = k \/ stack[n].exit
  <2> TAKE n \in 1..Depth
  <2>1. CASE n = k
    BY <1>2, <1>4, <2>1
  <2>2. CASE n # k
    BY <1>4, <2>2
  <2> QED
    BY <2>1, <2>2
<1> QED
  BY <1>2, <1>4, <1>5, <1>6 DEF SameButExit

(* The last call returns, and every loop is told to exit.                  *)
LEMMA LoopsTold ==
    ASSUME StackOK, phase = "running", UNCHANGED phase, Top.fn # "exec",
           stack' = [n \in 1..(Depth - 1) |-> Told(stack[n])]
    PROVE  /\ StackOK' /\ Depth' = Depth - 1
           /\ \A n \in 1..(Depth - 1) : SameButExit(stack'[n], stack[n]) /\ stack'[n].exit
<1> DEFINE f(n) == Told(stack[n])
<1>1. Depth > 1 /\ Depth \in Nat
  BY StackFacts
<1>2. \A n \in 1..(Depth - 1) : IsFrame(f(n)) /\ SameButExit(f(n), stack[n]) /\ f(n).exit
  BY <1>1, StackFacts, ToldToExit
<1>3. stack' = [n \in 1..(Depth - 1) |-> f(n)]
  OBVIOUS
<1> HIDE DEF f
<1>4. \A n \in 1..(Depth - 1) : f(n) \in Frame
  BY <1>2 DEF IsFrame
<1>5. stack' \in Seq(Frame) /\ Depth' = Depth - 1
  BY <1>1, <1>3, <1>4 DEF Depth
<1>6. \A n \in 1..(Depth - 1) : stack'[n] = f(n)
  BY <1>3
<1>7. StackOK'
  <2>1. \A n \in 1..(Depth - 1) :
            IsFrame(stack'[n]) /\ SameButExit(stack'[n], stack[n]) /\ n \in 1..Depth /\ n < Depth
    BY <1>1, <1>2, <1>6
  <2>2. phase' # "launch"
    OBVIOUS
  <2> QED
    BY <1>1, <1>5, <2>1, <2>2, StackFacts, StackMade DEF SameButExit
<1> QED
  BY <1>2, <1>5, <1>6, <1>7

-----------------------------------------------------------------------------
(* The lists of threads                                                    *)

(* The members of a list.                                                  *)
LEMMA SetOf ==
    ASSUME NEW T, NEW s \in Seq(T)
    PROVE  /\ ToSet(s) = {s[i] : i \in 1..Len(s)}
           /\ ToSet(s) \subseteq T
           /\ s = <<>> <=> ToSet(s) = {}
<1>1. DOMAIN s = 1..Len(s) /\ Len(s) \in Nat
  OBVIOUS
<1>2. ToSet(s) = {s[i] : i \in 1..Len(s)}
  BY <1>1 DEF ToSet
<1>3. ToSet(s) \subseteq T
  BY <1>1, <1>2
<1>4. s # <<>> => 1 \in 1..Len(s)
  BY <1>1
<1>5. s # <<>> => s[1] \in ToSet(s)
  BY <1>2, <1>4
<1>6. s = <<>> => ToSet(s) = {}
  BY <1>2
<1> QED
  BY <1>2, <1>3, <1>5, <1>6

(* The members of a list are its head and those of its tail, and in a list *)
(* without repetition the tail has not the head.                           *)
LEMMA HeadAndTail ==
    ASSUME NEW T, NEW s \in Seq(T), s # <<>>
    PROVE  /\ Head(s) \in T /\ Tail(s) \in Seq(T)
           /\ ToSet(s) = {Head(s)} \cup ToSet(Tail(s))
           /\ IsInjective(s) => Head(s) \notin ToSet(Tail(s))
<1>1. /\ Len(s) \in Nat /\ Len(s) > 0 /\ Head(s) = s[1]
      /\ Tail(s) \in Seq(T) /\ Len(Tail(s)) = Len(s) - 1
      /\ \A i \in 1..(Len(s) - 1) : Tail(s)[i] = s[i + 1]
      /\ DOMAIN s = 1..Len(s)
  OBVIOUS
<1>2. ToSet(s) = {s[i] : i \in 1..Len(s)} /\ ToSet(Tail(s)) = {Tail(s)[i] : i \in 1..(Len(s) - 1)}
  <2>1. ToSet(s) = {s[i] : i \in 1..Len(s)}
    BY SetOf
  <2>2. ToSet(Tail(s)) = {Tail(s)[i] : i \in 1..Len(Tail(s))}
    BY <1>1, SetOf
  <2>3. 1..Len(Tail(s)) = 1..(Len(s) - 1)
    BY <1>1
  <2> QED
    BY <2>1, <2>2, <2>3
<1>3. Head(s) \in T
  BY <1>1
<1>4. ToSet(s) \subseteq {Head(s)} \cup ToSet(Tail(s))
  <2> SUFFICES ASSUME NEW i \in 1..Len(s) PROVE s[i] \in {Head(s)} \cup ToSet(Tail(s))
    BY <1>2
  <2>1. CASE i = 1
    BY <1>1, <2>1
  <2>2. CASE i # 1
    <3>1. i - 1 \in 1..(Len(s) - 1) /\ Tail(s)[i - 1] = s[i]
      BY <1>1, <2>2
    <3> QED
      BY <1>2, <3>1
  <2> QED
    BY <2>1, <2>2
<1>5. {Head(s)} \cup ToSet(Tail(s)) \subseteq ToSet(s)
  <2>1. \A i \in 1..(Len(s) - 1) : i + 1 \in 1..Len(s)
    BY <1>1
  <2>2. 1 \in 1..Len(s)
    BY <1>1
  <2> QED
    BY <1>1, <1>2, <2>1, <2>2
<1>6. ASSUME IsInjective(s) PROVE Head(s) \notin ToSet(Tail(s))
  <2>1. \A i \in 1..(Len(s) - 1) : i + 1 \in 1..Len(s) /\ i + 1 # 1 /\ 1 \in 1..Len(s)
    BY <1>1
  <2>2. \A i, j \in 1..Len(s) : s[i] = s[j] => i = j
    BY <1>1, <1>6 DEF IsInjective
  <2> QED
    BY <1>1, <1>2, <2>1, <2>2
<1> QED
  BY <1>1, <1>3, <1>4, <1>5, <1>6

(* What is left of a list, as its members are dealt with one by one.       *)
LEMMA SuffixFacts ==
    ASSUME NEW T, NEW t \in Seq(T), NEW s, Suffix(s, t)
    PROVE  /\ s \in Seq(T) /\ ToSet(s) \subseteq ToSet(t)
           /\ IsInjective(t) => IsInjective(s)
           /\ s # <<>> => Suffix(Tail(s), t)
<1>1. PICK k \in 1..(Len(t) + 1) : s = SubSeq(t, k, Len(t))
  BY DEF Suffix
<1>2. /\ s \in Seq(T) /\ Len(s) = Len(t) - k + 1 /\ Len(t) \in Nat
      /\ \A i \in 1..Len(s) : s[i] = t[k + i - 1]
      /\ DOMAIN s = 1..Len(s) /\ DOMAIN t = 1..Len(t)
  BY <1>1
<1>3. \A i \in 1..Len(s) : k + i - 1 \in 1..Len(t)
  BY <1>2
<1>4. ToSet(s) \subseteq ToSet(t)
  <2>1. ToSet(s) = {s[i] : i \in 1..Len(s)} /\ ToSet(t) = {t[i] : i \in 1..Len(t)}
    BY <1>2, SetOf
  <2>2. \A i \in 1..Len(s) : s[i] \in ToSet(t)
    BY <1>2, <1>3, <2>1
  <2> QED
    BY <2>1, <2>2
<1>5. ASSUME IsInjective(t) PROVE IsInjective(s)
  <2>1. \A i, j \in 1..Len(t) : t[i] = t[j] => i = j
    BY <1>2, <1>5 DEF IsInjective
  <2>2. ASSUME NEW i \in 1..Len(s), NEW j \in 1..Len(s), s[i] = s[j] PROVE i = j
    <3>1. k + i - 1 = k + j - 1
      BY <1>2, <1>3, <2>1, <2>2
    <3> QED
      BY <1>2, <3>1
  <2> QED
    BY <1>2, <2>2 DEF IsInjective
<1>6. ASSUME s # <<>> PROVE Suffix(Tail(s), t)
  <2>1. Len(s) > 0 /\ k \in 1..Len(t)
    BY <1>2, <1>6
  <2>2. Tail(s) = SubSeq(t, k + 1, Len(t))
    BY <1>1, <1>2, <2>1
  <2>3. k + 1 \in 1..(Len(t) + 1)
    BY <1>2, <2>1
  <2> QED
    BY <2>2, <2>3 DEF Suffix
<1> QED
  BY <1>2, <1>4, <1>5, <1>6

(* At first all of a list is left.                                         *)
LEMMA WholeIsSuffix == ASSUME NEW T, NEW t \in Seq(T) PROVE Suffix(t, t)
<1>1. t = SubSeq(t, 1, Len(t)) /\ 1 \in 1..(Len(t) + 1)
  OBVIOUS
<1> QED
  BY <1>1 DEF Suffix

(* What the assumption says of the configured lists: they have no member   *)
(* twice, nor in common.                                                   *)
LEMMA ListsOfThreads ==
    /\ Providers \in Seq(ProviderSet) /\ Consumers \in Seq(ConsumerSet)
    /\ ToSet(Providers) = ProviderSet /\ ToSet(Consumers) = ConsumerSet
    /\ IsInjective(Providers) /\ IsInjective(Consumers)
    /\ ProviderSet \cap ConsumerSet = {}
    /\ ProviderSet \subseteq Threads /\ ConsumerSet \subseteq Threads
    /\ Providers \in Seq(Threads) /\ Consumers \in Seq(Threads)
<1> DEFINE both == Providers \o Consumers
<1>1. Providers \in Seq(ProviderSet) /\ Consumers \in Seq(ConsumerSet) /\ IsInjective(both)
  BY DaemonAssumption
<1>2. Providers \in Seq(Threads) /\ Consumers \in Seq(Threads)
  BY <1>1 DEF Threads
<1>3. /\ Len(both) = Len(Providers) + Len(Consumers) /\ DOMAIN both = 1..Len(both)
      /\ DOMAIN Providers = 1..Len(Providers) /\ DOMAIN Consumers = 1..Len(Consumers)
      /\ Len(Providers) \in Nat /\ Len(Consumers) \in Nat
      /\ \A i \in 1..Len(Providers) : i \in 1..Len(both) /\ both[i] = Providers[i]
      /\ \A i \in 1..Len(Consumers) : /\ Len(Providers) + i \in 1..Len(both)
                                      /\ both[Len(Providers) + i] = Consumers[i]
  BY <1>2
<1>4. \A i, j \in 1..Len(both) : both[i] = both[j] => i = j
  BY <1>1, <1>3 DEF IsInjective
<1> HIDE DEF both
<1>5. IsInjective(Providers)
  BY <1>3, <1>4 DEF IsInjective
<1>6. IsInjective(Consumers)
  <2>1. ASSUME NEW i \in 1..Len(Consumers), NEW j \in 1..Len(Consumers), Consumers[i] = Consumers[j]
        PROVE  i = j
    <3>1. Len(Providers) + i = Len(Providers) + j
      BY <1>3, <1>4, <2>1
    <3> QED
      BY <1>3, <3>1
  <2> QED
    BY <1>3, <2>1 DEF IsInjective
<1>7. /\ ProviderSet = {Providers[i] : i \in 1..Len(Providers)}
      /\ ConsumerSet = {Consumers[i] : i \in 1..Len(Consumers)}
  BY <1>1, SetOf DEF ProviderSet, ConsumerSet
<1>8. ProviderSet \cap ConsumerSet = {}
  <2>1. ASSUME NEW i \in 1..Len(Providers), NEW j \in 1..Len(Consumers), Providers[i] = Consumers[j]
        PROVE  FALSE
    <3>1. i = Len(Providers) + j
      BY <1>3, <1>4, <2>1
    <3> QED
      BY <1>3, <3>1
  <2> QED
    BY <1>7, <2>1
<1> QED
  BY <1>1, <1>2, <1>5, <1>6, <1>8 DEF ProviderSet, ConsumerSet, Threads

(* m_dataProviders lists providers, none of them twice.                    *)
LEMMA ProvidersListed ==
    ASSUME GInv
    PROVE  /\ providers \in Seq(ProviderSet) /\ providers \in Seq(Threads)
           /\ IsInjective(providers) /\ ToSet(providers) \subseteq ProviderSet
           /\ ProviderSet \subseteq Threads
<1>1. providers = Providers \/ providers = <<>>
  BY DEF GInv, VarsOK
<1>2. CASE providers = Providers
  BY <1>2, ListsOfThreads
<1>3. CASE providers = <<>>
  <2>1. IsInjective(<<>>)
    BY DEF IsInjective
  <2>2. <<>> \in Seq(ProviderSet) /\ <<>> \in Seq(Threads)
    OBVIOUS
  <2>3. ToSet(<<>>) = {}
    BY <2>2, SetOf
  <2> QED
    BY <1>3, <2>1, <2>2, <2>3, ListsOfThreads
<1> QED
  BY <1>1, <1>2, <1>3

-----------------------------------------------------------------------------
(* The threads                                                             *)

(* What a step of a thread does that the main thread could see.            *)
ThreadEffect ==
    /\ phase \in {"launch", "running"} /\ UNCHANGED <<main, connected>>
    /\ events' \in Seq(Event)
    /\ \A e : IsPosted(e)' => \/ IsPosted(e) \/ e = <<"closeAllSlot">>
                              \/ \E n \in 1..Depth :
                                    /\ e = <<"quitLoop", n>>
                                    /\ stack[n].at \in Loops
                                    /\ stack[n].at = "ending" => thread'[Head(stack[n].todo)] = "over"
    /\ Once(events, {"start", "initDataConsumers"}) => Once(events', {"start", "initDataConsumers"})
    /\ \A t \in Threads : thread'[t] = "off" <=> thread[t] = "off"
    /\ \A t \in Threads : thread[t] = "over" => thread'[t] = "over"
    /\ exited' = exited
    /\ \A p \in ProviderSet : manager'[p] = "dead" => manager[p] = "dead" \/ (~quitNow => Ends(p))

(* A step that the main thread sees no more of keeps the invariant.        *)
LEMMA ThreadKeeps ==
    ASSUME GInv, ThreadEffect, VarsOK'
    PROVE  GInv'
<1> USE DEF main
<1>1. StackOK' /\ Depth' = Depth /\ stack' = stack
  BY DEF GInv, ThreadEffect, StackOK, Depth
<1>2. Depth \in Nat /\ \A n \in 1..Depth : IsFrame(stack[n]) /\ stack[n].todo \in Seq(Threads)
  BY StackFacts DEF GInv, Frame
<1>3. EventsOK'
  BY <1>1, <1>2 DEF GInv, ThreadEffect, EventsOK, Event
<1>4. ConnectedOK'
  BY <1>1 DEF GInv, ThreadEffect, ConnectedOK
<1>5. /\ \A t \in Threads : IsPosted(<<"start", t>>)' => IsPosted(<<"start", t>>)
      /\ \A t \in Threads : IsPosted(<<"quit", t>>)' => IsPosted(<<"quit", t>>)
      /\ IsPosted(<<"initDataConsumers">>)' => IsPosted(<<"initDataConsumers">>)
  BY DEF ThreadEffect
<1>6. \A t \in Threads : Unstarted(t) => Unstarted(t)'
  BY <1>5 DEF ThreadEffect, Unstarted
<1>7. StartsOnce'
  <2>1. /\ \A t \in Threads : IsPosted(<<"start", t>>)' => thread'[t] = "off"
    BY <1>5 DEF GInv, StartsOnce, ThreadEffect
  <2> DEFINE Pending(n) ==
               ToSet(IF stack[n].at = "starting" THEN Tail(stack[n].todo) ELSE stack[n].todo)
  <2>2. \A n \in 1..Depth : stack[n].fn \in Inits => \A t \in Pending(n) : Unstarted(t)'
    <3>1. \A n \in 1..Depth : Pending(n) \subseteq Threads
      BY <1>2 DEF ToSet, IsFrame
    <3> HIDE DEF Pending
    <3>2. \A n \in 1..Depth : stack[n].fn \in Inits => \A t \in Pending(n) : Unstarted(t)
      BY DEF GInv, StartsOnce, Pending
    <3> QED
      BY <1>6, <3>1, <3>2
  <2> HIDE DEF Pending
  <2>3. \A n \in 1..Depth : stack'[n].fn \in Inits =>
          \A t \in ToSet(IF stack'[n].at = "starting" THEN Tail(stack'[n].todo) ELSE stack'[n].todo) :
              Unstarted(t)'
    BY <1>1, <2>2 DEF Pending
  <2>4. ProviderSet \subseteq Threads
    BY DEF Threads
  <2> QED
    BY <1>1, <1>5, <1>6, <2>1, <2>3, <2>4 DEF GInv, StartsOnce, ThreadEffect
<1>8. EndsOK'
  <2>1. \A t : Ends(t)' <=> Ends(t)
    BY <1>1 DEF Ends
  <2>2. \A n \in 1..Depth : stack[n].at = "ending" => Head(stack[n].todo) \in Threads
    BY <1>2 DEF IsFrame
  <2>3. \A n \in 1..Depth : IsPosted(<<"quitLoop", n>>)' =>
            IsPosted(<<"quitLoop", n>>) \/ (stack[n].at = "ending" => thread'[Head(stack[n].todo)] = "over")
    BY DEF ThreadEffect
  <2> QED
    BY <1>1, <1>5, <2>1, <2>2, <2>3 DEF GInv, EndsOK, ThreadEffect
<1> QED
  BY <1>1, <1>3, <1>4, <1>7, <1>8 DEF GInv

(* What a thread emits comes to the loops that wait for it.                *)
LEMMA Emits ==
    ASSUME GInv, NEW t \in Threads, NEW signal \in {"started", "finished", "closed"},
           events' = events \o Emitted(t, signal), signal = "finished" => thread'[t] = "over"
    PROVE  /\ events' \in Seq(Event)
           /\ \A e : IsPosted(e)' => \/ IsPosted(e)
                                     \/ \E n \in 1..Depth :
                                           /\ e = <<"quitLoop", n>>
                                           /\ stack[n].at \in Loops
                                           /\ stack[n].at = "ending" => thread'[Head(stack[n].todo)] = "over"
           /\ Once(events, {"start", "initDataConsumers"}) =>
                  Once(events', {"start", "initDataConsumers"})
<1>1. events \in Seq(Event) /\ Depth \in Nat
  BY StackFacts DEF GInv, EventsOK
<1>2. /\ Emitted(t, signal) \in Seq(Event)
      /\ \A x : In(x, Emitted(t, signal)) =>
             \E n \in 1..Depth : x = <<"quitLoop", n>> /\ <<t, signal, n>> \in connected
  BY <1>1, EmittedEvents
<1>3. /\ events' \in Seq(Event)
      /\ \A x : IsPosted(x)' <=> IsPosted(x) \/ In(x, Emitted(t, signal))
      /\ \A kinds : Once(events, kinds) /\ (\A x : In(x, Emitted(t, signal)) => x[1] \notin kinds) =>
             Once(events', kinds)
  BY <1>1, <1>2, InConcat DEF IsPosted
<1>4. ASSUME NEW n \in 1..Depth, <<t, signal, n>> \in connected
      PROVE  /\ stack[n].at \in Loops
             /\ stack[n].at = "ending" => thread'[Head(stack[n].todo)] = "over"
  <2>1. /\ stack[n].at \in (CASE signal = "started" -> {"starting"}
                              [] signal = "finished" -> {"starting", "ending"}
                              [] signal = "closed" -> {"closing"})
        /\ Head(stack[n].todo) = t
    BY <1>4 DEF GInv, ConnectedOK
  <2>2. CASE signal = "started"
    BY <2>1, <2>2 DEF Loops
  <2>3. CASE signal = "finished"
    BY <2>1, <2>3 DEF Loops
  <2>4. CASE signal = "closed"
    BY <2>1, <2>4 DEF Loops
  <2> QED
    BY <2>2, <2>3, <2>4
<1>5. \A x : In(x, Emitted(t, signal)) => x[1] \notin {"start", "initDataConsumers"}
  <2>1. \A n : <<"quitLoop", n>>[1] \notin {"start", "initDataConsumers"}
    OBVIOUS
  <2> QED
    BY <1>2, <2>1
<1> QED
  BY <1>2, <1>3, <1>4, <1>5

(* A step may post nothing.                                                *)
LEMMA NothingPosted ==
    ASSUME GInv, UNCHANGED events
    PROVE  /\ events' \in Seq(Event) /\ \A e : IsPosted(e)' <=> IsPosted(e)
BY DEF GInv, EventsOK, IsPosted

(* A shutDown posts closeAllSlot and no more.                              *)
LEMMA ShutDownPosted ==
    ASSUME GInv, NEW hastily \in BOOLEAN, ShutDown(hastily)
    PROVE  /\ events' \in Seq(Event)
           /\ \A e : IsPosted(e)' <=> IsPosted(e) \/ e = <<"closeAllSlot">>
           /\ Once(events, {"start", "initDataConsumers"}) =>
                  Once(events', {"start", "initDataConsumers"})
           /\ asked' \in 0..MaxShutDowns /\ hasty' \in BOOLEAN
<1>1. events \in Seq(Event) /\ <<"closeAllSlot">> \in Event
  BY DEF GInv, EventsOK, Event
<1>2. events' = Append(events, <<"closeAllSlot">>)
  BY DEF ShutDown
<1>3. asked' \in 0..MaxShutDowns
  BY DaemonAssumption DEF ShutDown, GInv, VarsOK
<1>4. hasty' \in BOOLEAN
  BY DEF ShutDown
<1> QED
  BY <1>1, <1>2, <1>3, <1>4, InAppend DEF IsPosted

(* The handler of SIGINT keeps the invariant.                              *)
LEMMA SignalKeeps == ASSUME GInv, Signal PROVE GInv'
<1>1. ShutDown(FALSE) /\ phase \in {"launch", "running"}
  BY DEF Signal
<1>2. ThreadEffect
  BY <1>1, ShutDownPosted DEF Signal, ThreadEffect, service
<1>3. VarsOK'
  BY <1>1, ShutDownPosted DEF Signal, GInv, VarsOK, main, service
<1> QED
  BY <1>2, <1>3, ThreadKeeps

(* A thread that begins keeps the invariant.                               *)
LEMMA ThreadBeginsKeeps == ASSUME GInv, NEW t \in Threads, ThreadBegins(t) PROVE GInv'
<1> USE DEF ThreadBegins, Does, Become
<1>1. thread' \in [Threads -> {"off", "begun", "run", "loop", "returned", "over"}]
  BY DEF GInv, VarsOK
<1>2. \A u \in Threads : thread'[u] = IF u = t THEN "run" ELSE thread[u]
  BY DEF GInv, VarsOK
<1>3. UNCHANGED stack
  BY DEF main
<1>4. ThreadEffect
  <2>1. events' = events \o Emitted(t, "started")
    OBVIOUS
  <2> QED
  BY <1>2, <1>3, Emits DEF ThreadEffect, service
<1>5. VarsOK'
  BY <1>1 DEF GInv, VarsOK, main, service, history
<1> QED
  BY <1>4, <1>5, ThreadKeeps

(* One thread goes on, and the others stay where they are.                 *)
LEMMA ThreadBecomes ==
    ASSUME GInv, NEW t \in Threads,
           NEW what \in {"begun", "run", "loop", "returned", "over"}, Become(t, what)
    PROVE  /\ thread' \in [Threads -> {"off", "begun", "run", "loop", "returned", "over"}]
           /\ \A u \in Threads : thread'[u] = IF u = t THEN what ELSE thread[u]
BY DEF GInv, VarsOK, Become

(* A provider that listens, or cannot, keeps the invariant.                *)
LEMMA ProviderBeginsKeeps ==
    ASSUME GInv, NEW p \in ProviderSet, ListenFails(p) \/ Listen(p)
    PROVE  GInv'
<1>1. p \in Threads
  BY DEF Threads
<1>2. CASE ListenFails(p)
  <2>1. Does(p, "run") /\ ShutDown(TRUE) /\ Become(p, "returned")
    BY <1>2 DEF ListenFails
  <2>2. UNCHANGED <<main, exited, service, connected, pipe>>
    BY <1>2 DEF ListenFails
  <2>3. ThreadEffect
    BY <1>1, <2>1, <2>2, ShutDownPosted, ThreadBecomes DEF Does, ThreadEffect, service
  <2>4. VarsOK'
    BY <1>1, <2>1, <2>2, ShutDownPosted, ThreadBecomes DEF GInv, VarsOK, main, service
  <2> QED
    BY <2>3, <2>4, ThreadKeeps
<1>3. CASE Listen(p)
  <2>1. Does(p, "run") /\ Become(p, "loop") /\ manager' = [manager EXCEPT ![p] = "live"]
    BY <1>3 DEF Listen
  <2>2. UNCHANGED <<main, events, exited, requests, closing, active, connected, pipe, history>>
    BY <1>3 DEF Listen
  <2>3. ThreadEffect
    BY <1>1, <2>1, <2>2, NothingPosted, ThreadBecomes
       DEF Does, ThreadEffect, service, GInv, VarsOK
  <2>4. VarsOK'
    BY <1>1, <2>1, <2>2, ThreadBecomes DEF GInv, VarsOK, main, history
  <2> QED
    BY <2>3, <2>4, ThreadKeeps
<1> QED
  BY <1>2, <1>3

(* A consumer that comes to its loop keeps the invariant.                  *)
LEMMA ConsumerBeginsKeeps ==
    ASSUME GInv, NEW c \in ConsumerSet, PrinterStarts(c) \/ (c \in Writers /\ (OpenPipe(c) \/ OpenFails(c)))
    PROVE  GInv'
<1>1. c \in Threads
  BY DEF Threads
<1>2. CASE PrinterStarts(c)
  <2>1. Does(c, "run") /\ Become(c, "loop")
    BY <1>2 DEF PrinterStarts
  <2>2. UNCHANGED <<main, events, exited, service, connected, pipe, history>>
    BY <1>2 DEF PrinterStarts
  <2>3. ThreadEffect
    BY <1>1, <2>1, <2>2, NothingPosted, ThreadBecomes DEF Does, ThreadEffect, service
  <2>4. VarsOK'
    BY <1>1, <2>1, <2>2, ThreadBecomes DEF GInv, VarsOK, main, service, history
  <2> QED
    BY <2>3, <2>4, ThreadKeeps
<1>3. CASE c \in Writers /\ OpenPipe(c)
  <2>1. Does(c, "run") /\ Become(c, "loop") /\ pipe' = [pipe EXCEPT ![c] = "open"]
    BY <1>3 DEF OpenPipe
  <2>2. UNCHANGED <<main, events, exited, service, connected, history>>
    BY <1>3 DEF OpenPipe
  <2>3. ThreadEffect
    BY <1>1, <2>1, <2>2, NothingPosted, ThreadBecomes DEF Does, ThreadEffect, service
  <2>4. VarsOK'
    BY <1>1, <2>1, <2>2, ThreadBecomes DEF GInv, VarsOK, main, service, history
  <2> QED
    BY <2>3, <2>4, ThreadKeeps
<1>4. CASE c \in Writers /\ OpenFails(c)
  <2>1. Does(c, "run") /\ ShutDown(FALSE) /\ Become(c, "loop") /\ pipe' = [pipe EXCEPT ![c] = "error"]
    BY <1>4 DEF OpenFails
  <2>2. UNCHANGED <<main, exited, service, connected>>
    BY <1>4 DEF OpenFails
  <2>3. ThreadEffect
    BY <1>1, <2>1, <2>2, ShutDownPosted, ThreadBecomes DEF Does, ThreadEffect, service
  <2>4. VarsOK'
    BY <1>1, <2>1, <2>2, ShutDownPosted, ThreadBecomes DEF GInv, VarsOK, main, service
  <2> QED
    BY <2>3, <2>4, ThreadKeeps
<1> QED
  BY <1>2, <1>3, <1>4

(* A consumer that cannot write keeps the invariant.                       *)
LEMMA WriteFailsKeeps == ASSUME GInv, NEW c \in Writers, WriteFails(c) PROVE GInv'
<1>1. ShutDown(FALSE) /\ phase = "running"
  BY DEF WriteFails, Does
<1>2. UNCHANGED <<main, thread, exited, service, connected, pipe>>
  BY DEF WriteFails
<1>3. ThreadEffect
  BY <1>1, <1>2, ShutDownPosted DEF ThreadEffect, service
<1>4. VarsOK'
  BY <1>1, <1>2, ShutDownPosted DEF GInv, VarsOK, main, service
<1> QED
  BY <1>3, <1>4, ThreadKeeps

(* The sessions of a provider, and the close() of its manager, keep the    *)
(* invariant.                                                              *)
LEMMA SessionsKeep ==
    ASSUME GInv, NEW p \in ProviderSet,
           SessionStarts(p) \/ LastSessionFinished(p) \/ CloseManager(p)
    PROVE  GInv'
<1>1. p \in Threads /\ UNCHANGED <<main, thread, exited, manager, connected, pipe, history>>
  BY DEF SessionStarts, LastSessionFinished, CloseManager, Threads
<1>2. phase = "running"
  BY DEF SessionStarts, LastSessionFinished, CloseManager, Does
<1>3. events' = events \/ events' = events \o Emitted(p, "closed")
  BY DEF SessionStarts, LastSessionFinished, CloseManager
<1>4. ThreadEffect
  BY <1>1, <1>2, <1>3, Emits, NothingPosted DEF ThreadEffect
<1>5. /\ requests' \in [ProviderSet -> Nat]
      /\ closing' \in [ProviderSet -> BOOLEAN]
      /\ active' \in [ProviderSet -> BOOLEAN]
  <2>1. requests' = requests \/ (requests[p] > 0 /\ requests' = [requests EXCEPT ![p] = @ - 1])
    BY DEF SessionStarts, LastSessionFinished, CloseManager
  <2>2. closing' = closing \/ closing' = [closing EXCEPT ![p] = TRUE]
    BY DEF SessionStarts, LastSessionFinished, CloseManager
  <2>3. active' = active \/ active' = [active EXCEPT ![p] = TRUE]
            \/ active' = [active EXCEPT ![p] = FALSE]
    BY DEF SessionStarts, LastSessionFinished, CloseManager
  <2>4. requests \in [ProviderSet -> Nat] /\ closing \in [ProviderSet -> BOOLEAN]
    BY DEF GInv, VarsOK
  <2>5. active \in [ProviderSet -> BOOLEAN]
    BY DEF GInv, VarsOK
  <2>6. requests' \in [ProviderSet -> Nat]
    BY <2>1, <2>4
  <2>7. closing' \in [ProviderSet -> BOOLEAN]
    BY <2>2, <2>4
  <2>8. active' \in [ProviderSet -> BOOLEAN]
    BY <2>3, <2>5
  <2> QED
    BY <2>6, <2>7, <2>8
<1>6. VarsOK'
  BY <1>1, <1>5 DEF GInv, VarsOK, main, history
<1> QED
  BY <1>4, <1>6, ThreadKeeps

(* A thread that ends keeps the invariant: its provider destroys the       *)
(* manager only after a quit, that is, while its end is waited for.        *)
LEMMA ThreadEndsKeeps ==
    ASSUME GInv, NEW t \in Threads, LoopOfThreadEnds(t) \/ ThreadFinishes(t)
    PROVE  GInv'
<1>1. CASE LoopOfThreadEnds(t)
  <2>1. Does(t, "loop") /\ exited[t] /\ Become(t, "returned")
    BY <1>1 DEF LoopOfThreadEnds
  <2>2. UNCHANGED <<main, events, exited, closing, connected, pipe, history>>
    BY <1>1 DEF LoopOfThreadEnds
  <2>3. manager' = [p \in ProviderSet |-> IF p = t /\ manager[p] = "live" THEN "dead"
                                           ELSE manager[p]]
    BY <1>1 DEF LoopOfThreadEnds
  <2>4. requests' \in [ProviderSet -> Nat] /\ active' \in [ProviderSet -> BOOLEAN]
    <3>1. requests' = [p \in ProviderSet |-> IF p = t THEN 0 ELSE requests[p]]
      BY <1>1 DEF LoopOfThreadEnds
    <3>2. active' = [p \in ProviderSet |-> IF p = t THEN FALSE ELSE active[p]]
      BY <1>1 DEF LoopOfThreadEnds
    <3>3. requests \in [ProviderSet -> Nat] /\ active \in [ProviderSet -> BOOLEAN]
      BY DEF GInv, VarsOK
    <3> QED
      BY <3>1, <3>2, <3>3
  <2>5. ~quitNow => Ends(t)
    BY <2>1 DEF GInv, EndsOK, Does
  <2>6. ThreadEffect
    BY <2>1, <2>2, <2>3, <2>5, NothingPosted, ThreadBecomes DEF Does, ThreadEffect
  <2>7. VarsOK'
    BY <2>1, <2>2, <2>3, <2>4, ThreadBecomes DEF GInv, VarsOK, main, history
  <2> QED
    BY <2>6, <2>7, ThreadKeeps
<1>2. CASE ThreadFinishes(t)
  <2>1. Does(t, "returned") /\ Become(t, "over") /\ events' = events \o Emitted(t, "finished")
    BY <1>2 DEF ThreadFinishes
  <2>2. UNCHANGED <<main, exited, service, connected, pipe, history>>
    BY <1>2 DEF ThreadFinishes
  <2>3. thread'[t] = "over"
    BY <2>1, ThreadBecomes
  <2>4. /\ \A u \in Threads : thread'[u] = "off" <=> thread[u] = "off"
        /\ \A u \in Threads : thread[u] = "over" => thread'[u] = "over"
    BY <2>1, ThreadBecomes DEF Does
  <2>5. ThreadEffect
    BY <2>1, <2>2, <2>3, <2>4, Emits DEF Does, ThreadEffect, service
  <2>6. VarsOK'
    BY <2>1, <2>2, ThreadBecomes DEF GInv, VarsOK, main, service, history
  <2> QED
    BY <2>5, <2>6, ThreadKeeps
<1> QED
  BY <1>1, <1>2

-----------------------------------------------------------------------------
(* The main thread: the call on top goes on                                *)

(* The events that a call posts.                                           *)
Orders == {"start", "quit"} \X Threads

(* The call on top becomes f.                                              *)
TopMoves(f) ==
    /\ phase = "running" /\ phase' \in {"running", "aborted"}
    /\ IsFrame(f)
    /\ f.fn = "exec" <=> Top.fn = "exec"
    /\ stack' = [stack EXCEPT ![Depth] = f]
    /\ UNCHANGED <<thread, exited, quitNow, providers>>
    /\ Top.at \in Loops => events = <<>>
    /\ \/ events' = events
       \/ \E e \in Orders :
             /\ events' = Append(events, e)
             /\ e[1] = "start" => ~IsPosted(e)
             /\ e[1] = "quit" => quitNow \/ (f.at = "ending" /\ Head(f.todo) = e[2])
    /\ \A x \in connected' :
          \/ x \in connected /\ x[3] # Depth
          \/ \E signal \in {"started", "finished", "closed"} :
                /\ x = <<Head(f.todo), signal, Depth>>
                /\ Head(f.todo) \in Threads
                /\ f.at \in (CASE signal = "started" -> {"starting"}
                               [] signal = "finished" -> {"starting", "ending"}
                               [] signal = "closed" -> {"closing"})
    /\ f.at = "ending" => ~f.exit
    /\ \A p \in ProviderSet : manager'[p] = "dead" =>
          manager[p] = "dead" /\ ~(Top.at = "ending" /\ Head(Top.todo) = p)
    /\ Top.at = "ending" => Top.exit /\ f.at # "ending"

(* What becomes of the stack when the call on top goes on.                 *)
LEMMA TopMovesStack ==
    ASSUME GInv, NEW f, TopMoves(f)
    PROVE  /\ StackOK' /\ Depth' = Depth /\ Top' = f /\ Top = stack[Depth]
           /\ Depth \in Nat /\ Depth > 0
           /\ \A n \in 1..Depth : stack'[n] = IF n = Depth THEN f ELSE stack[n]
BY StackFacts, TopReplaced DEF GInv, TopMoves

(* What becomes of the events then.                                        *)
LEMMA TopMovesEvents ==
    ASSUME GInv, NEW f, TopMoves(f)
    PROVE  /\ EventsOK'
           /\ \A e : IsPosted(e) => IsPosted(e)'
           /\ \A e : IsPosted(e)' /\ ~IsPosted(e) =>
                  /\ e \in Orders
                  /\ events' = Append(events, e)
                  /\ e[1] = "quit" => quitNow \/ (f.at = "ending" /\ Head(f.todo) = e[2])
<1>1. /\ Depth' = Depth /\ Top = stack[Depth] /\ Depth \in Nat /\ Depth > 0
      /\ \A n \in 1..Depth : stack'[n] = IF n = Depth THEN f ELSE stack[n]
  BY TopMovesStack
<1>2. events \in Seq(Event) /\ Once(events, {"start", "initDataConsumers"})
  BY DEF GInv, EventsOK
<1>3. Orders \subseteq Event /\ \A e \in Orders : e[1] # "quitLoop" /\ e[1] # "initDataConsumers"
  BY DEF Orders, Event
<1>4. CASE events' = events
  <2>1. \A e : IsPosted(e)' <=> IsPosted(e)
    BY <1>4 DEF IsPosted
  <2>2. Top.at \in Loops => \A e : ~IsPosted(e)
    BY DEF TopMoves, IsPosted, In
  <2>3. EventsOK'
    BY <1>1, <1>2, <1>4, <2>1, <2>2 DEF GInv, EventsOK
  <2> QED
    BY <2>1, <2>3
<1>5. ASSUME NEW e \in Orders, events' = Append(events, e),
             e[1] = "start" => ~IsPosted(e),
             e[1] = "quit" => quitNow \/ (f.at = "ending" /\ Head(f.todo) = e[2])
      PROVE  /\ EventsOK'
             /\ \A x : IsPosted(x)' <=> IsPosted(x) \/ x = e
  <2>1. /\ events' \in Seq(Event)
        /\ \A x : IsPosted(x)' <=> IsPosted(x) \/ x = e
    BY <1>2, <1>3, <1>5, InAppend DEF IsPosted
  <2>2. Once(events', {"start", "initDataConsumers"})
    BY <1>2, <1>3, <1>5, InAppend DEF IsPosted
  <2>3. Top.at \in Loops => \A x : ~IsPosted(x)
    BY DEF TopMoves, IsPosted, In
  <2>4. \A n : <<"quitLoop", n>> # e
    BY <1>3
  <2>5. \A n \in Nat : IsPosted(<<"quitLoop", n>>)' => n \in 1..Depth /\ stack'[n].at \in Loops
    BY <1>1, <2>1, <2>3, <2>4 DEF GInv, EventsOK
  <2> QED
    BY <1>1, <2>1, <2>2, <2>5 DEF EventsOK
<1> QED
  BY <1>4, <1>5 DEF TopMoves

(* What becomes of the connections then.                                   *)
LEMMA TopMovesConnected ==
    ASSUME GInv, NEW f, TopMoves(f)
    PROVE  ConnectedOK'
<1>1. /\ Depth' = Depth /\ Depth \in Nat /\ Depth > 0
      /\ \A n \in 1..Depth : stack'[n] = IF n = Depth THEN f ELSE stack[n]
  BY TopMovesStack
<1> SUFFICES ASSUME NEW x \in connected'
             PROVE  /\ x \in Threads \X {"started", "finished", "closed"} \X (1..Depth)
                    /\ stack'[x[3]].at \in (CASE x[2] = "started" -> {"starting"}
                                              [] x[2] = "finished" -> {"starting", "ending"}
                                              [] x[2] = "closed" -> {"closing"})
                    /\ Head(stack'[x[3]].todo) = x[1]
  BY <1>1 DEF ConnectedOK
<1>2. CASE x \in connected /\ x[3] # Depth
  BY <1>1, <1>2 DEF GInv, ConnectedOK
<1>3. ASSUME NEW signal \in {"started", "finished", "closed"},
             x = <<Head(f.todo), signal, Depth>>, Head(f.todo) \in Threads,
             f.at \in (CASE signal = "started" -> {"starting"}
                         [] signal = "finished" -> {"starting", "ending"}
                         [] signal = "closed" -> {"closing"})
      PROVE  /\ x \in Threads \X {"started", "finished", "closed"} \X (1..Depth)
             /\ stack'[x[3]].at \in (CASE x[2] = "started" -> {"starting"}
                                       [] x[2] = "finished" -> {"starting", "ending"}
                                       [] x[2] = "closed" -> {"closing"})
             /\ Head(stack'[x[3]].todo) = x[1]
  <2>1. x[1] = Head(f.todo) /\ x[2] = signal /\ x[3] = Depth
    BY <1>3
  <2> QED
    BY <1>1, <1>3, <2>1
<1> QED
  BY <1>2, <1>3 DEF TopMoves

(* What becomes of the threads that were quit then.                        *)
LEMMA TopMovesEnds ==
    ASSUME GInv, NEW f, TopMoves(f)
    PROVE  EndsOK'
<1>1. /\ Depth' = Depth /\ Top = stack[Depth] /\ Depth \in Nat /\ Depth > 0
      /\ \A n \in 1..Depth : stack'[n] = IF n = Depth THEN f ELSE stack[n]
  BY TopMovesStack
<1>2. UNCHANGED <<thread, exited, quitNow>>
  BY DEF TopMoves
<1> SUFFICES ASSUME ~quitNow PROVE EndsOK'
  BY <1>2 DEF EndsOK
<1>3. Top.at = "ending" => thread[Head(Top.todo)] = "over"
  <2>1. Depth \in 1..Depth
    BY <1>1
  <2>2. ASSUME Top.at = "ending" PROVE stack[Depth].at = "ending" /\ stack[Depth].exit
    BY <1>1, <2>2 DEF TopMoves
  <2> QED
    BY <1>1, <2>1, <2>2 DEF GInv, EndsOK
<1>4. Top.at = "ending" => \A e : ~IsPosted(e)
  BY DEF TopMoves, IsPosted, In, Loops
<1>5. ASSUME NEW t, Ends(t) PROVE Ends(t)' \/ (Top.at = "ending" /\ Head(Top.todo) = t)
  BY <1>1, <1>5 DEF Ends
<1>6. ASSUME NEW t \in Threads, IsPosted(<<"quit", t>>)' PROVE Ends(t)'
  <2>1. CASE IsPosted(<<"quit", t>>)
    BY <1>4, <1>5, <2>1 DEF GInv, EndsOK
  <2>2. CASE ~IsPosted(<<"quit", t>>)
    <3>1. f.at = "ending" /\ Head(f.todo) = t
      BY <1>6, <2>2, TopMovesEvents
    <3> QED
      BY <1>1, <3>1 DEF Ends
  <2> QED
    BY <2>1, <2>2
<1>7. ASSUME NEW t \in Threads, exited[t] /\ thread[t] # "over" PROVE Ends(t)'
  BY <1>3, <1>5, <1>7 DEF GInv, EndsOK
<1>8. ASSUME NEW n \in 1..Depth, stack'[n].at = "ending",
             stack'[n].exit \/ IsPosted(<<"quitLoop", n>>)'
      PROVE  thread[Head(stack'[n].todo)] = "over"
  <2>1. IsPosted(<<"quitLoop", n>>)' => IsPosted(<<"quitLoop", n>>)
    BY TopMovesEvents DEF Orders
  <2>2. CASE n = Depth
    <3>1. IsPosted(<<"quitLoop", n>>)
      BY <1>1, <1>8, <2>1, <2>2 DEF TopMoves
    <3>2. Top.at \in Loops
      BY <1>1, <2>2, <3>1 DEF GInv, EventsOK
    <3> QED
      BY <3>1, <3>2 DEF TopMoves, IsPosted, In
  <2>3. CASE n # Depth
    BY <1>1, <1>8, <2>1, <2>3 DEF GInv, EndsOK
  <2> QED
    BY <2>2, <2>3
<1>9. ASSUME NEW p \in ProviderSet, manager'[p] = "dead" PROVE Ends(p)'
  BY <1>5, <1>9 DEF TopMoves, GInv, EndsOK
<1> QED
  BY <1>1, <1>2, <1>6, <1>7, <1>8, <1>9 DEF EndsOK

(* A call that goes on keeps the invariant, once it is known to start no   *)
(* thread twice.                                                           *)
LEMMA TopMovesKeeps ==
    ASSUME GInv, NEW f, TopMoves(f), VarsOK', StartsOnce'
    PROVE  GInv'
BY TopMovesStack, TopMovesEvents, TopMovesConnected, TopMovesEnds DEF GInv

-----------------------------------------------------------------------------
(* The calls that close                                                    *)

(* The head of a list of threads is a thread of it.                        *)
LEMMA HeadOf ==
    ASSUME NEW s \in Seq(Threads), s # <<>>
    PROVE  Head(s) \in Threads /\ Tail(s) \in Seq(Threads) /\ Head(s) \in ToSet(s)
<1>1. Len(s) \in Nat /\ Len(s) > 0 /\ Head(s) = s[1] /\ DOMAIN s = 1..Len(s)
  OBVIOUS
<1>2. ToSet(s) = {s[i] : i \in DOMAIN s}
  BY DEF ToSet
<1> QED
  BY <1>1, <1>2

(* The call on top is one that the invariant speaks of.                    *)
LEMMA TopFacts ==
    ASSUME GInv, NEW where, At(where)
    PROVE  /\ phase = "running" /\ Top.at \in where
           /\ Depth \in Nat /\ Depth > 0 /\ Depth \in 1..Depth /\ Top = stack[Depth]
           /\ Top \in Frame /\ IsFrame(Top) /\ Top.todo \in Seq(Threads)
           /\ Top.todo # <<>> => Head(Top.todo) \in Threads /\ Tail(Top.todo) \in Seq(Threads)
<1>1. /\ phase = "running" /\ Top.at \in where
      /\ Depth \in Nat /\ Depth > 0 /\ Depth \in 1..Depth /\ Top = stack[Depth]
      /\ Top \in Frame /\ IsFrame(Top)
  BY StackFacts DEF GInv, At
<1>2. Top.todo \in Seq(Threads)
  BY <1>1 DEF Frame
<1> QED
  BY <1>1, <1>2, HeadOf

(* What a call that closes does is no matter of the threads not started.   *)
LEMMA ClosersStartNothing ==
    ASSUME GInv, NEW f, TopMoves(f), Top.fn \in Closers, f.fn \in Closers,
           events' = events \/ \E t \in Threads : events' = Append(events, <<"quit", t>>)
    PROVE  StartsOnce'
<1>1. /\ Depth' = Depth /\ Top = stack[Depth] /\ Depth \in Nat /\ Depth > 0
      /\ \A n \in 1..Depth : stack'[n] = IF n = Depth THEN f ELSE stack[n]
  BY TopMovesStack
<1>2. UNCHANGED <<thread, providers>> /\ phase' # "launch"
  BY DEF TopMoves
<1>3. /\ \A t : IsPosted(<<"start", t>>)' <=> IsPosted(<<"start", t>>)
      /\ IsPosted(<<"initDataConsumers">>)' <=> IsPosted(<<"initDataConsumers">>)
  <2>1. events \in Seq(Event) /\ \A t \in Threads : <<"quit", t>> \in Event
    BY DEF GInv, EventsOK, Event
  <2>2. CASE events' = events
    BY <2>2 DEF IsPosted
  <2>3. ASSUME NEW t \in Threads, events' = Append(events, <<"quit", t>>)
        PROVE  \A e : IsPosted(e)' <=> IsPosted(e) \/ e = <<"quit", t>>
    BY <2>1, <2>3, InAppend DEF IsPosted
  <2> QED
    BY <2>2, <2>3
<1>4. \A t : Unstarted(t)' <=> Unstarted(t)
  BY <1>2, <1>3 DEF Unstarted
<1>5. \A n \in 1..Depth : /\ stack'[n].fn \in Inits <=> stack[n].fn \in Inits
                          /\ stack'[n].fn \in Inits => stack'[n] = stack[n]
  BY <1>1 DEF Closers, Inits
<1>6. "initDataConsumers" \in Inits /\ "initDataProviders" \in Inits
  BY DEF Inits
<1> QED
  BY <1>1, <1>2, <1>3, <1>4, <1>5, <1>6 DEF GInv, StartsOnce

(* Who waits for the end of something closes it.                           *)
LEMMA CloserAt ==
    ASSUME GInv, NEW where, At(where), where \subseteq {"closing", "check", "connect", "ending"}
    PROVE  Top.fn \in Closers /\ Top.todo # <<>> /\ Head(Top.todo) \in Threads
BY TopFacts DEF IsFrame

(* No loop is connected to but those that wait.                            *)
LEMMA NotConnected ==
    ASSUME GInv, Top = stack[Depth], Top.at \notin Loops
    PROVE  \A x \in connected : x[3] # Depth
BY DEF GInv, ConnectedOK, Loops

(* A call that goes to another place of the same item moves as TopMoves    *)
(* allows.                                                                 *)
LEMMA GotoMoves ==
    ASSUME GInv, NEW where \in {"check", "connect"}, phase = "running", phase' = "running",
           Top.fn \in Closers, Top.todo # <<>>, Goto(where),
           Top.at \notin Loops \/ (Top.at = "closing" /\ events = <<>>),
           UNCHANGED <<thread, exited, quitNow, providers, events, manager>>,
           \A x \in connected' : x \in connected /\ (Top.at \in Loops => x[3] # Depth)
    PROVE  /\ TopMoves([Top EXCEPT !.at = where])
           /\ StartsOnce'
<1> DEFINE f == [Top EXCEPT !.at = where]
<1>1. Top = stack[Depth] /\ Top \in Frame /\ IsFrame(Top)
  BY StackFacts DEF GInv
<1>2. IsFrame(f) /\ f.fn = Top.fn /\ f.at = where
  BY <1>1 DEF IsFrame, Frame, Places, Closers
<1>3. stack' = [stack EXCEPT ![Depth] = f]
  BY <1>1 DEF Goto
<1> HIDE DEF f
<1>4. Top.at # "ending" /\ (Top.at \in Loops => events = <<>>)
  BY DEF Loops
<1>5. \A x \in connected' : x \in connected /\ x[3] # Depth
  BY <1>1, NotConnected
<1>6. TopMoves(f)
  BY <1>2, <1>3, <1>4, <1>5 DEF TopMoves
<1> QED
  BY <1>2, <1>6, ClosersStartNothing DEF f

(* The close of a consumer keeps the invariant.                            *)
LEMMA CloseConsumerKeeps == ASSUME GInv, CloseConsumer PROVE GInv'
<1>1. At({"next"}) /\ Top.fn \in Closers /\ Top.todo # <<>> /\ Goto("check")
  BY DEF CloseConsumer, Working, Closers
<1>2. UNCHANGED <<phase, quitNow, providers, files, settled, events, thread, exited, service,
                  connected, pipe, history>>
  BY DEF CloseConsumer
<1>3. Top.at \notin Loops
  BY <1>1 DEF At, Loops
<1>4. TopMoves([Top EXCEPT !.at = "check"]) /\ StartsOnce'
  BY <1>1, <1>2, <1>3, GotoMoves DEF At, service
<1>5. VarsOK'
  BY <1>2 DEF GInv, VarsOK, service, history
<1> QED
  BY <1>4, <1>5, TopMovesKeeps

(* The call that waits is the call on top, with another place.             *)
LEMMA WaitIs ==
    ASSUME GInv, phase = "running", NEW where \in Loops, NEW connections, Wait(where, connections)
    PROVE  \E f : /\ stack' = [stack EXCEPT ![Depth] = f]
                  /\ f \in Frame /\ f.fn = Top.fn /\ f.at = where /\ f.todo = Top.todo /\ ~f.exit
<1> DEFINE f == [Top EXCEPT !.at = where, !.exit = FALSE]
<1>1. Top = stack[Depth] /\ Top \in Frame /\ Depth \in 1..Depth /\ DOMAIN stack = 1..Depth
  BY StackFacts DEF GInv
<1>2. f \in Frame /\ f.fn = Top.fn /\ f.at = where /\ f.todo = Top.todo /\ f.exit = FALSE
  BY <1>1 DEF Frame, Places, Loops
<1>3. stack' = [stack EXCEPT ![Depth] = f]
  BY <1>1 DEF Wait
<1> QED
  BY <1>2, <1>3

(* The call that proceeds is the call on top, with the tail of its list.   *)
LEMMA ProceedIs ==
    ASSUME GInv, phase = "running", Top.todo # <<>>, Proceed
    PROVE  \E f : /\ stack' = [stack EXCEPT ![Depth] = f]
                  /\ f \in Frame /\ f.fn = Top.fn /\ f.at = "next" /\ f.todo = Tail(Top.todo)
                  /\ f.exit = Top.exit
<1> DEFINE f == [Top EXCEPT !.at = "next", !.todo = Tail(@)]
<1>1. Top = stack[Depth] /\ Top \in Frame /\ Depth \in 1..Depth /\ DOMAIN stack = 1..Depth
  BY StackFacts DEF GInv
<1>2. Tail(Top.todo) \in Seq(Threads)
  BY <1>1, HeadOf DEF Frame
<1>3. f \in Frame /\ f.fn = Top.fn /\ f.at = "next" /\ f.todo = Tail(Top.todo) /\ f.exit = Top.exit
  BY <1>1, <1>2 DEF Frame, Places
<1>4. stack' = [stack EXCEPT ![Depth] = f]
  BY <1>1 DEF Proceed
<1> QED
  BY <1>3, <1>4

(* The close of a provider keeps the invariant, even if its manager was    *)
(* destroyed.                                                              *)
LEMMA CloseProviderKeeps == ASSUME GInv, CloseProvider PROVE GInv'
<1> DEFINE p == Head(Top.todo)
<1>1. At({"next"}) /\ Top.fn \in Closers /\ Top.todo # <<>> /\ p \in ProviderSet
  BY DEF CloseProvider, Working, Closers
<1>2. UNCHANGED <<quitNow, providers, files, settled, events, thread, exited, manager, closing,
                   active, pipe, history>>
  BY DEF CloseProvider
<1>3. phase = "running" /\ Top.at = "next" /\ Top \in Frame /\ Top.todo \in Seq(Threads) /\ p \in Threads
  BY <1>1, TopFacts DEF Threads
<1>4. /\ requests' \in [ProviderSet -> Nat] /\ phase' \in {"running", "aborted"}
  <2>1. requests' = requests \/ requests' = [requests EXCEPT ![p] = @ + 1]
    BY DEF CloseProvider
  <2>2. requests \in [ProviderSet -> Nat]
    BY DEF GInv, VarsOK
  <2>3. requests' \in [ProviderSet -> Nat]
    BY <1>1, <2>1, <2>2
  <2> QED
    BY <1>3, <2>3 DEF CloseProvider
<1>5. VarsOK'
  BY <1>2, <1>4 DEF GInv, VarsOK, history
<1>6. \/ Goto("check") /\ UNCHANGED <<phase, connected>>
      \/ Wait("closing", {}) /\ UNCHANGED phase
      \/ Wait("closing", {<<p, "closed", Depth>>}) /\ UNCHANGED phase
      \/ phase' = "aborted" /\ UNCHANGED <<stack, connected>>
  BY DEF CloseProvider, WaitForManager
<1>7. CASE Goto("check") /\ UNCHANGED <<phase, connected>>
  <2>1. TopMoves([Top EXCEPT !.at = "check"]) /\ StartsOnce'
    BY <1>1, <1>2, <1>3, <1>7, GotoMoves DEF Loops
  <2> QED
    BY <1>5, <2>1, TopMovesKeeps
<1>8. ASSUME NEW connections \in SUBSET {<<p, "closed", Depth>>}, Wait("closing", connections),
             UNCHANGED phase
      PROVE  GInv'
  <2>1. PICK f : /\ stack' = [stack EXCEPT ![Depth] = f]
                 /\ f \in Frame /\ f.fn = Top.fn /\ f.at = "closing" /\ f.todo = Top.todo /\ ~f.exit
    BY <1>3, <1>8, WaitIs DEF Loops
  <2>2. IsFrame(f) /\ f.fn # "exec" /\ Top.fn # "exec"
    BY <1>1, <2>1 DEF IsFrame, Closers
  <2>3. \A x \in connected' : \/ x \in connected /\ x[3] # Depth
                              \/ x = <<p, "closed", Depth>>
    <3>1. connected' = connected \cup connections
      BY <1>8 DEF Wait
    <3> QED
      BY <1>3, <1>8, <3>1, NotConnected, TopFacts, <1>1 DEF Loops
  <2>4. TopMoves(f)
    BY <1>2, <1>3, <1>8, <2>1, <2>2, <2>3 DEF TopMoves, Loops
  <2> QED
    BY <1>1, <1>2, <1>5, <2>1, <2>4, ClosersStartNothing, TopMovesKeeps
<1>9. CASE phase' = "aborted" /\ UNCHANGED <<stack, connected>>
  <2>1. stack' = [stack EXCEPT ![Depth] = Top]
    BY <1>1, <1>9, StackFacts DEF GInv, At
  <2>2. IsFrame(Top) /\ Top.fn # "exec"
    BY <1>1, TopFacts DEF Closers
  <2>3. \A x \in connected : x[3] # Depth
    BY <1>1, <1>3, TopFacts, NotConnected DEF Loops
  <2>4. TopMoves(Top)
    BY <1>2, <1>3, <1>9, <2>1, <2>2, <2>3 DEF TopMoves, Loops
  <2> QED
    BY <1>1, <1>2, <1>5, <2>4, ClosersStartNothing, TopMovesKeeps
<1> QED
  BY <1>6, <1>7, <1>8, <1>9

(* The end of a close keeps the types of what it changes.                  *)
LEMMA ClosedVars ==
    ASSUME GInv, Closed
    PROVE  /\ manager' \in [ProviderSet -> {"null", "live", "dead"}]
           /\ pipe' \in [Writers -> {"unset", "open", "error", "closed", "foreign"}]
           /\ \A p \in ProviderSet : manager'[p] = "dead" => manager[p] = "dead" /\ Head(Top.todo) # p
<1> DEFINE t == Head(Top.todo)
<1>1. manager' = [p \in ProviderSet |-> IF p = t THEN "null" ELSE manager[p]]
  BY DEF Closed
<1>2. pipe' = [c \in Writers |->
                   IF c # t \/ pipe[c] = "error" THEN pipe[c]
                   ELSE IF pipe[c] = "open" THEN "closed" ELSE "foreign"]
  BY DEF Closed
<1>3. manager \in [ProviderSet -> {"null", "live", "dead"}]
  BY DEF GInv, VarsOK
<1>4. pipe \in [Writers -> {"unset", "open", "error", "closed", "foreign"}]
  BY DEF GInv, VarsOK
<1> HIDE DEF t
<1>5. manager' \in [ProviderSet -> {"null", "live", "dead"}]
  BY <1>1, <1>3
<1>6. pipe' \in [Writers -> {"unset", "open", "error", "closed", "foreign"}]
  BY <1>2, <1>4
<1>7. \A p \in ProviderSet : manager'[p] = "dead" => manager[p] = "dead" /\ t # p
  BY <1>1, <1>3
<1> QED
  BY <1>5, <1>6, <1>7 DEF t

(* The close of one thread returns.                                        *)
LEMMA ClosedMoves ==
    ASSUME GInv, phase = "running", phase' = "running", Closed,
           Top.fn \in Closers, Top.todo # <<>>,
           UNCHANGED <<thread, exited, quitNow, providers>>,
           Top.at \in {"check", "connect"} \/ (Top.at = "ending" /\ events = <<>> /\ Top.exit),
           \/ events' = events
           \/ quitNow /\ events' = Append(events, <<"quit", Head(Top.todo)>>),
           \A x \in connected' : x \in connected /\ (Top.at = "ending" => x[3] # Depth)
    PROVE  StartsOnce' /\ \E f : TopMoves(f)
<1>1. PICK f : /\ stack' = [stack EXCEPT ![Depth] = f]
               /\ f \in Frame /\ f.fn = Top.fn /\ f.at = "next" /\ f.todo = Tail(Top.todo)
               /\ f.exit = Top.exit
  BY ProceedIs DEF Closed
<1>2. IsFrame(f) /\ f.fn # "exec" /\ Top.fn # "exec" /\ f.fn \in Closers
  BY <1>1 DEF IsFrame, Closers
<1>3. Top = stack[Depth] /\ Head(Top.todo) \in Threads
  BY StackFacts, HeadOf DEF GInv, Frame
<1>4. \A x \in connected' : x \in connected /\ x[3] # Depth
  <2>1. Top.at # "ending" => Top.at \notin Loops
    BY DEF Loops
  <2> QED
    BY <1>3, <2>1, NotConnected
<1>5. Top.at \in Loops => Top.at = "ending" /\ events = <<>> /\ Top.exit
  BY DEF Loops
<1>6. Top.at = "ending" => Top.exit
  OBVIOUS
<1>7. \/ events' = events
      \/ \E e \in Orders :
             /\ events' = Append(events, e)
             /\ e[1] = "start" => ~IsPosted(e)
             /\ e[1] = "quit" => quitNow \/ (f.at = "ending" /\ Head(f.todo) = e[2])
  <2>1. <<"quit", Head(Top.todo)>> \in Orders /\ <<"quit", Head(Top.todo)>>[1] # "start"
    BY <1>3 DEF Orders
  <2> QED
    BY <2>1
<1>8. \A p \in ProviderSet : manager'[p] = "dead" =>
          manager[p] = "dead" /\ ~(Top.at = "ending" /\ Head(Top.todo) = p)
  BY ClosedVars
<1>9. TopMoves(f)
  <2>1. f.at # "ending"
    BY <1>1
  <2> QED
    BY <1>1, <1>2, <1>4, <1>5, <1>6, <1>7, <1>8, <2>1 DEF TopMoves
<1> QED
  BY <1>2, <1>3, <1>9, ClosersStartNothing

(* endThread keeps the invariant, whether the thread runs or not.          *)
LEMMA EndThreadKeeps == ASSUME GInv, EndThread PROVE GInv'
<1>1. At({"check"}) /\ UNCHANGED <<phase, quitNow, providers, files, settled, events, thread,
                      exited, requests, closing, active, connected, history>>
  BY DEF EndThread
<1>2. Top.fn \in Closers /\ Top.todo # <<>> /\ phase = "running" /\ Top.at = "check"
  BY <1>1, CloserAt, TopFacts
<1>3. CASE Goto("connect") /\ UNCHANGED <<manager, pipe>>
  <2>1. TopMoves([Top EXCEPT !.at = "connect"]) /\ StartsOnce'
    BY <1>1, <1>2, <1>3, GotoMoves DEF Loops
  <2>2. VarsOK'
    BY <1>1, <1>3 DEF GInv, VarsOK, history
  <2> QED
    BY <2>1, <2>2, TopMovesKeeps
<1>4. CASE Closed
  <2>1. StartsOnce' /\ \E f : TopMoves(f)
    BY <1>1, <1>2, <1>4, ClosedMoves
  <2>2. VarsOK'
    BY <1>1, <1>4, ClosedVars DEF GInv, VarsOK, history
  <2> QED
    BY <2>1, <2>2, TopMovesKeeps
<1> QED
  BY <1>3, <1>4 DEF EndThread

(* The quit of a thread keeps the invariant, for its end is waited for.    *)
LEMMA WaitForThreadKeeps == ASSUME GInv, WaitForThread PROVE GInv'
<1> DEFINE t == Head(Top.todo)
<1>1. At({"connect"}) /\ UNCHANGED <<phase, quitNow, providers, files, settled, thread, exited,
                      requests, closing, active, history>>
  BY DEF WaitForThread
<1>2. Top.fn \in Closers /\ Top.todo # <<>> /\ phase = "running" /\ Top.at = "connect" /\ t \in Threads
  BY <1>1, CloserAt, TopFacts
<1>3. events' = Append(events, <<"quit", t>>)
  BY DEF WaitForThread
<1>4. CASE quitNow /\ Closed /\ UNCHANGED connected
  <2>1. StartsOnce' /\ \E f : TopMoves(f)
    BY <1>1, <1>2, <1>3, <1>4, ClosedMoves
  <2>2. VarsOK'
    BY <1>1, <1>4, ClosedVars DEF GInv, VarsOK, history
  <2> QED
    BY <2>1, <2>2, TopMovesKeeps
<1>5. CASE Wait("ending", {<<t, "finished", Depth>>}) /\ UNCHANGED <<manager, pipe>>
  <2>1. PICK f : /\ stack' = [stack EXCEPT ![Depth] = f]
                 /\ f \in Frame /\ f.fn = Top.fn /\ f.at = "ending" /\ f.todo = Top.todo /\ ~f.exit
    BY <1>2, <1>5, WaitIs DEF Loops
  <2>2. IsFrame(f) /\ f.fn # "exec" /\ Top.fn # "exec"
    BY <1>2, <2>1 DEF IsFrame, Closers
  <2>3. \A x \in connected' : \/ x \in connected /\ x[3] # Depth
                              \/ x = <<t, "finished", Depth>>
    <3>1. connected' = connected \cup {<<t, "finished", Depth>>}
      BY <1>5 DEF Wait
    <3>2. \A x \in connected : x[3] # Depth
      BY <1>1, <1>2, TopFacts, NotConnected DEF Loops
    <3> QED
      BY <3>1, <3>2
  <2>4. <<"quit", t>> \in Orders /\ <<"quit", t>>[1] # "start" /\ <<"quit", t>>[2] = t
    BY <1>2 DEF Orders
  <2>5. \E e \in Orders :
             /\ events' = Append(events, e)
             /\ e[1] = "start" => ~IsPosted(e)
             /\ e[1] = "quit" => quitNow \/ (f.at = "ending" /\ Head(f.todo) = e[2])
    BY <1>3, <2>1, <2>4
  <2>6. TopMoves(f)
    BY <1>1, <1>2, <1>5, <2>1, <2>2, <2>3, <2>5 DEF TopMoves, Loops
  <2>7. VarsOK'
    BY <1>1, <1>5 DEF GInv, VarsOK, history
  <2>8. StartsOnce'
    BY <1>2, <1>3, <2>1, <2>6, ClosersStartNothing
  <2> QED
    BY <2>6, <2>7, <2>8, TopMovesKeeps
<1> QED
  BY <1>4, <1>5 DEF WaitForThread

-----------------------------------------------------------------------------
(* The calls that start                                                    *)

(* The threads that a call has still to start.                             *)
Pending(f) == ToSet(IF f.at = "starting" THEN Tail(f.todo) ELSE f.todo)

(* What StartsOnce says of one call.                                       *)
StartsWell(f) ==
    /\ f.fn = "initDataConsumers" =>
          Suffix(f.todo, Consumers) /\ \A p \in ProviderSet : Unstarted(p)
    /\ f.fn = "initDataProviders" => Suffix(f.todo, Providers)
    /\ \A t \in Pending(f) : Unstarted(t)

(* What StartsOnce says of the call on top.                                *)
LEMMA TopStartsWell ==
    ASSUME GInv, phase = "running", Top.fn \in Inits
    PROVE  /\ StartsWell(Top)
           /\ ~IsPosted(<<"initDataConsumers">>)
           /\ \A n \in 1..Depth : n # Depth => stack[n].fn \notin Inits
           /\ Pending(Top) \subseteq Threads /\ IsInjective(Top.todo)
           /\ Top.fn = "initDataConsumers" => ToSet(Top.todo) \subseteq ConsumerSet
           /\ Top.fn = "initDataProviders" => ToSet(Top.todo) \subseteq ProviderSet
<1>1. Top = stack[Depth] /\ Depth \in 1..Depth /\ Top.todo \in Seq(Threads) /\ IsFrame(Top)
  BY StackFacts DEF GInv, Frame
<1>2. /\ ~IsPosted(<<"initDataConsumers">>)
      /\ \A n \in 1..Depth : n # Depth => stack[n].fn \notin Inits
  BY <1>1 DEF GInv, StartsOnce
<1>3. StartsWell(Top)
  <2>1. Top.fn = "initDataConsumers" =>
          Suffix(Top.todo, Consumers) /\ \A p \in ProviderSet : Unstarted(p)
    BY <1>1 DEF GInv, StartsOnce
  <2>2. Top.fn = "initDataProviders" => Suffix(Top.todo, Providers)
    BY <1>1 DEF GInv, StartsOnce
  <2>3. \A t \in Pending(Top) : Unstarted(t)
    BY <1>1 DEF GInv, StartsOnce, Pending
  <2> QED
    BY <2>1, <2>2, <2>3 DEF StartsWell
<1>4. Pending(Top) \subseteq Threads
  <2>1. CASE Top.at = "starting"
    <3>1. Tail(Top.todo) \in Seq(Threads)
      BY <1>1, <2>1, HeadOf DEF IsFrame
    <3> QED
      BY <2>1, <3>1, SetOf DEF Pending
  <2>2. CASE Top.at # "starting"
    BY <1>1, <2>2, SetOf DEF Pending
  <2> QED
    BY <2>1, <2>2
<1>5. CASE Top.fn = "initDataConsumers"
  <2>1. Suffix(Top.todo, Consumers)
    BY <1>3, <1>5 DEF StartsWell
  <2>2. IsInjective(Top.todo) /\ ToSet(Top.todo) \subseteq ConsumerSet
    BY <2>1, ListsOfThreads, SuffixFacts
  <2> QED
    BY <1>2, <1>3, <1>4, <1>5, <2>2
<1>6. CASE Top.fn = "initDataProviders"
  <2>1. Suffix(Top.todo, Providers)
    BY <1>3, <1>6 DEF StartsWell
  <2>2. Providers \in Seq(ProviderSet) /\ IsInjective(Providers)
    BY ListsOfThreads
  <2>3. IsInjective(Top.todo) /\ Top.todo \in Seq(ProviderSet)
    BY <2>1, <2>2, SuffixFacts
  <2> QED
    BY <1>2, <1>3, <1>4, <1>6, <2>3, SetOf
<1> QED
  BY <1>1, <1>5, <1>6 DEF Inits

(* A call that starts threads goes on, and keeps the invariant.            *)
LEMMA InitMoves ==
    ASSUME GInv, NEW f, TopMoves(f), Top.fn \in Inits,
           \/ events' = events
           \/ \E t \in Threads : events' = Append(events, <<"start", t>>) /\ thread[t] = "off",
           f.fn \in Inits => StartsWell(f)'
    PROVE  StartsOnce'
<1>1. /\ Depth' = Depth /\ Top = stack[Depth] /\ Depth \in Nat /\ Depth > 0
      /\ \A n \in 1..Depth : stack'[n] = IF n = Depth THEN f ELSE stack[n]
  BY TopMovesStack
<1>2. UNCHANGED <<thread, providers>> /\ phase' # "launch" /\ phase = "running"
  BY DEF TopMoves
<1>3. /\ \A t \in Threads : IsPosted(<<"start", t>>)' => IsPosted(<<"start", t>>) \/ thread[t] = "off"
      /\ IsPosted(<<"initDataConsumers">>)' => IsPosted(<<"initDataConsumers">>)
  <2>1. events \in Seq(Event) /\ \A t \in Threads : <<"start", t>> \in Event
    BY DEF GInv, EventsOK, Event
  <2>2. CASE events' = events
    BY <2>2 DEF IsPosted
  <2>3. ASSUME NEW t \in Threads, events' = Append(events, <<"start", t>>), thread[t] = "off"
        PROVE  /\ \A e : IsPosted(e)' <=> IsPosted(e) \/ e = <<"start", t>>
               /\ thread[t] = "off"
    BY <2>1, <2>3, InAppend DEF IsPosted
  <2> QED
    BY <2>2, <2>3
<1>4. ~IsPosted(<<"initDataConsumers">>)'
  BY <1>2, <1>3, TopStartsWell
<1>5. \A t \in Threads : IsPosted(<<"start", t>>)' => thread'[t] = "off"
  BY <1>2, <1>3 DEF GInv, StartsOnce
<1>6. \A n \in 1..Depth : stack'[n].fn \in Inits => n = Depth /\ stack'[n] = f
  BY <1>1, <1>2, TopStartsWell
<1>7. "initDataConsumers" \in Inits /\ "initDataProviders" \in Inits
  BY DEF Inits
<1>8. f.fn \in Inits => \A t \in ToSet(IF f.at = "starting" THEN Tail(f.todo) ELSE f.todo) : Unstarted(t)'
  BY DEF StartsWell, Pending
<1>9. /\ f.fn = "initDataConsumers" =>
              Suffix(f.todo, Consumers) /\ \A p \in ProviderSet : Unstarted(p)'
      /\ f.fn = "initDataProviders" => Suffix(f.todo, Providers)
  BY <1>2, <1>7 DEF StartsWell
<1> QED
  BY <1>1, <1>2, <1>4, <1>5, <1>6, <1>7, <1>8, <1>9 DEF StartsOnce

(* A start keeps the invariant.                                            *)
LEMMA StartThreadKeeps == ASSUME GInv, StartThread PROVE GInv'
<1> DEFINE t == Head(Top.todo)
<1>1. /\ At({"next"}) /\ Top.fn \in Inits /\ Top.todo # <<>>
      /\ events' = Append(events, <<"start", t>>)
      /\ UNCHANGED <<phase, quitNow, providers, files, settled, thread, exited, service, pipe,
                     history>>
  BY DEF StartThread, Working, Inits
<1>2. /\ phase = "running" /\ Top.at = "next" /\ Top \in Frame /\ IsFrame(Top) /\ Top.todo \in Seq(Threads)
      /\ t \in Threads /\ Tail(Top.todo) \in Seq(Threads) /\ Top = stack[Depth]
  BY <1>1, TopFacts
<1>3. /\ StartsWell(Top) /\ IsInjective(Top.todo) /\ Pending(Top) = ToSet(Top.todo)
      /\ Top.fn = "initDataConsumers" => ToSet(Top.todo) \subseteq ConsumerSet
      /\ Pending(Top) \subseteq Threads
  BY <1>1, <1>2, TopStartsWell DEF Pending
<1>4. ToSet(Top.todo) = {t} \cup ToSet(Tail(Top.todo)) /\ t \notin ToSet(Tail(Top.todo))
  BY <1>1, <1>2, <1>3, HeadAndTail
<1>5. Unstarted(t)
  BY <1>3, <1>4 DEF StartsWell
<1>6. \A u : u # t => (Unstarted(u)' <=> Unstarted(u))
  <2>1. events \in Seq(Event) /\ <<"start", t>> \in Event
    BY <1>2 DEF GInv, EventsOK, Event
  <2>2. \A e : IsPosted(e)' <=> IsPosted(e) \/ e = <<"start", t>>
    BY <1>1, <2>1, InAppend DEF IsPosted
  <2> QED
    BY <1>1, <2>2 DEF Unstarted
<1>7. \A u \in ToSet(Tail(Top.todo)) : Unstarted(u)'
  BY <1>3, <1>4, <1>6 DEF StartsWell
<1>8. Top.fn = "initDataConsumers" => \A p \in ProviderSet : Unstarted(p)'
  BY <1>3, <1>4, <1>6, ListsOfThreads DEF StartsWell
<1>9. \E e \in Orders :
             /\ events' = Append(events, e)
             /\ e[1] = "start" => ~IsPosted(e)
             /\ e[1] # "quit"
  <2>1. <<"start", t>> \in Orders /\ <<"start", t>>[1] # "quit"
    BY <1>2 DEF Orders
  <2> QED
    BY <1>1, <1>5, <2>1 DEF Unstarted
<1>10. \A x \in connected : x[3] # Depth
  BY <1>2, NotConnected DEF Loops
<1>11. VarsOK'
  BY <1>1 DEF GInv, VarsOK, service, history
<1>12. CASE Proceed /\ UNCHANGED connected
  <2>1. PICK f : /\ stack' = [stack EXCEPT ![Depth] = f]
                 /\ f \in Frame /\ f.fn = Top.fn /\ f.at = "next" /\ f.todo = Tail(Top.todo)
                 /\ f.exit = Top.exit
    BY <1>1, <1>2, <1>12, ProceedIs
  <2>2. IsFrame(f) /\ f.fn # "exec" /\ Top.fn # "exec"
    BY <1>1, <2>1 DEF IsFrame, Inits
  <2>3. TopMoves(f)
    BY <1>1, <1>2, <1>9, <1>10, <1>12, <2>1, <2>2 DEF TopMoves, service, Loops
  <2>4. StartsWell(f)'
    <3>1. /\ f.fn = "initDataConsumers" => Suffix(f.todo, Consumers)
          /\ f.fn = "initDataProviders" => Suffix(f.todo, Providers)
      <4>1. /\ Top.fn = "initDataConsumers" => Suffix(Top.todo, Consumers)
            /\ Top.fn = "initDataProviders" => Suffix(Top.todo, Providers)
        BY <1>3 DEF StartsWell
      <4>2. Consumers \in Seq(Threads) /\ Providers \in Seq(Threads)
        BY ListsOfThreads
      <4> QED
        BY <1>1, <2>1, <4>1, <4>2, SuffixFacts
    <3>2. Pending(f) = ToSet(Tail(Top.todo))
      BY <2>1 DEF Pending
    <3> QED
      BY <1>1, <1>7, <1>8, <2>1, <3>1, <3>2 DEF StartsWell, Pending
  <2>5. StartsOnce'
    BY <1>1, <1>2, <1>5, <2>3, <2>4, InitMoves DEF Unstarted
  <2> QED
    BY <1>11, <2>3, <2>5, TopMovesKeeps
<1>13. CASE Wait("starting", {<<t, "started", Depth>>, <<t, "finished", Depth>>})
  <2>1. PICK f : /\ stack' = [stack EXCEPT ![Depth] = f]
                 /\ f \in Frame /\ f.fn = Top.fn /\ f.at = "starting" /\ f.todo = Top.todo /\ ~f.exit
    BY <1>2, <1>13, WaitIs DEF Loops
  <2>2. IsFrame(f) /\ f.fn # "exec" /\ Top.fn # "exec"
    BY <1>1, <2>1 DEF IsFrame, Inits
  <2>3. \A x \in connected' : \/ x \in connected /\ x[3] # Depth
                              \/ x = <<t, "started", Depth>>
                              \/ x = <<t, "finished", Depth>>
    BY <1>10, <1>13 DEF Wait
  <2>4. TopMoves(f)
    BY <1>1, <1>2, <1>9, <2>1, <2>2, <2>3 DEF TopMoves, service, Loops
  <2>5. StartsWell(f)'
    <3>1. /\ f.fn = "initDataConsumers" => Suffix(f.todo, Consumers)
          /\ f.fn = "initDataProviders" => Suffix(f.todo, Providers)
      BY <1>3, <2>1 DEF StartsWell
    <3>2. Pending(f) = ToSet(Tail(Top.todo))
      BY <2>1 DEF Pending
    <3> QED
      BY <1>1, <1>7, <1>8, <2>1, <3>1, <3>2 DEF StartsWell, Pending
  <2>6. StartsOnce'
    BY <1>1, <1>2, <1>5, <2>4, <2>5, InitMoves DEF Unstarted
  <2> QED
    BY <1>11, <2>4, <2>6, TopMovesKeeps
<1> QED
  BY <1>12, <1>13 DEF StartThread

(* The change from the consumers to the providers keeps the invariant: no  *)
(* provider was started before.                                            *)
LEMMA ConsumersReadyKeeps == ASSUME GInv, ConsumersReady PROVE GInv'
<1>0. PICK f : f = Call("initDataProviders", providers)
  OBVIOUS
<1>1. /\ At({"next"}) /\ Top.fn = "initDataConsumers" /\ Top.fn \in Inits
      /\ stack' = [stack EXCEPT ![Depth] = f]
      /\ UNCHANGED <<phase, quitNow, providers, files, settled, events, thread, exited, service,
                     connected, pipe, history>>
  BY <1>0 DEF ConsumersReady, Working, Inits
<1>2. phase = "running" /\ Top.at = "next" /\ Top = stack[Depth]
  BY <1>1, TopFacts
<1>3. providers \in Seq(Threads) /\ ToSet(providers) \subseteq ProviderSet
  BY ProvidersListed
<1>4. /\ f \in Frame /\ f.fn = "initDataProviders" /\ f.at = "next" /\ f.todo = providers /\ ~f.exit
  BY <1>0, <1>3 DEF Call, Frame, Calls, Places
<1>5. IsFrame(f)
  BY <1>4 DEF IsFrame
<1>6. \A x \in connected : x[3] # Depth
  BY <1>2, NotConnected DEF Loops
<1>7. TopMoves(f)
  BY <1>1, <1>2, <1>4, <1>5, <1>6 DEF TopMoves, service, Loops
<1>8. StartsWell(f)'
  <2>1. \A u : Unstarted(u)' <=> Unstarted(u)
    BY <1>1 DEF Unstarted, IsPosted
  <2>2. \A p \in ProviderSet : Unstarted(p)
    BY <1>1, <1>2, TopStartsWell DEF StartsWell
  <2>3. Suffix(providers, Providers)
    <3>1. providers = Providers \/ providers = <<>>
      BY DEF GInv, VarsOK
    <3>2. Len(Providers) \in Nat
      BY ListsOfThreads
    <3>3. <<>> = SubSeq(Providers, Len(Providers) + 1, Len(Providers))
      BY <3>2, ListsOfThreads
    <3>4. Suffix(<<>>, Providers)
      BY <3>2, <3>3 DEF Suffix
    <3> QED
      BY <3>1, <3>4, ListsOfThreads, WholeIsSuffix
  <2>4. \A p \in ToSet(providers) : Unstarted(p)'
    BY <1>3, <2>1, <2>2
  <2>6. Pending(f) = ToSet(providers)
    BY <1>4 DEF Pending
  <2>7. \A t \in Pending(f) : Unstarted(t)'
    BY <2>4, <2>6
  <2>8. f.fn = "initDataProviders" => Suffix(f.todo, Providers)
    BY <1>4, <2>3
  <2>9. f.fn # "initDataConsumers"
    BY <1>4
  <2> QED
    BY <2>7, <2>8, <2>9 DEF StartsWell, Pending
<1>9. StartsOnce'
  BY <1>1, <1>7, <1>8, InitMoves
<1>10. VarsOK'
  BY <1>1 DEF GInv, VarsOK, service, history
<1> QED
  BY <1>7, <1>9, <1>10, TopMovesKeeps

(* The retreat from wrong options keeps the invariant.                     *)
LEMMA WrongOptionsKeeps == ASSUME GInv, WrongOptions PROVE GInv'
<1> DEFINE done == SubSeq(Providers, 1, Len(Providers) - Len(Top.todo))
           f == [Top EXCEPT !.fn = "undoProviders", !.todo = done]
<1>1. /\ At({"next"}) /\ Top.fn = "initDataProviders" /\ Top.fn \in Inits
      /\ UNCHANGED <<phase, quitNow, providers, files, settled, events, thread, exited, service,
                     connected, pipe, history>>
  BY DEF WrongOptions, Working, Inits
<1>2. phase = "running" /\ Top.at = "next" /\ Top \in Frame /\ Top = stack[Depth] /\ Depth \in 1..Depth
      /\ Top.todo \in Seq(Threads) /\ DOMAIN stack = 1..Depth
  BY <1>1, TopFacts, StackFacts DEF GInv
<1>3. done \in Seq(Threads)
  BY <1>2, ListsOfThreads
<1> HIDE DEF done
<1>4. stack' = [stack EXCEPT ![Depth] = f]
  BY <1>2 DEF WrongOptions, done
<1>5. f \in Frame /\ f.fn = "undoProviders" /\ f.at = "next"
  BY <1>2, <1>3 DEF Frame, Calls
<1> HIDE DEF f
<1>6. IsFrame(f) /\ f.fn \notin Inits /\ f.fn # "exec" /\ Top.fn # "exec"
  BY <1>1, <1>5 DEF IsFrame, Inits
<1>7. \A x \in connected : x[3] # Depth
  BY <1>2, NotConnected DEF Loops
<1>8. TopMoves(f)
  BY <1>1, <1>2, <1>4, <1>5, <1>6, <1>7 DEF TopMoves, service, Loops
<1>9. StartsOnce'
  BY <1>1, <1>6, <1>8, InitMoves
<1>10. VarsOK'
  BY <1>1 DEF GInv, VarsOK, service, history
<1> QED
  BY <1>8, <1>9, <1>10, TopMovesKeeps

(* A loop that returns keeps the invariant; nobody waits for a thread any  *)
(* more that is over.                                                      *)
LEMMA LoopReturnsKeeps == ASSUME GInv, LoopReturns PROVE GInv'
<1>1. /\ At({"exec", "starting", "closing", "ending"}) /\ Top.exit /\ events = <<>>
      /\ connected' = {x \in connected : x[3] # Depth}
      /\ UNCHANGED <<phase, quitNow, providers, files, settled, events, thread, exited, requests,
                     closing, active, history>>
  BY DEF LoopReturns, InLoop
<1>2. phase = "running" /\ Top = stack[Depth] /\ Top \in Frame /\ IsFrame(Top) /\ Depth \in 1..Depth
  BY <1>1, TopFacts
<1>3. CASE Top.at = "starting" /\ Proceed /\ UNCHANGED <<manager, pipe>>
  <2>1. Top.fn \in Inits /\ Top.todo # <<>> /\ Top.todo \in Seq(Threads)
    BY <1>2, <1>3 DEF IsFrame, Frame
  <2>2. PICK f : /\ stack' = [stack EXCEPT ![Depth] = f]
                 /\ f \in Frame /\ f.fn = Top.fn /\ f.at = "next" /\ f.todo = Tail(Top.todo)
                 /\ f.exit = Top.exit
    BY <1>2, <1>3, <2>1, ProceedIs
  <2>3. IsFrame(f) /\ f.fn # "exec" /\ Top.fn # "exec"
    BY <2>1, <2>2 DEF IsFrame, Inits
  <2>4. TopMoves(f)
    BY <1>1, <1>2, <1>3, <2>2, <2>3 DEF TopMoves
  <2>5. StartsWell(f)'
    <3>1. \A u : Unstarted(u)' <=> Unstarted(u)
      BY <1>1 DEF Unstarted, IsPosted
    <3>2. StartsWell(Top)
      BY <1>2, <2>1, TopStartsWell
    <3>3. Pending(f) = Pending(Top)
      BY <1>3, <2>2 DEF Pending
    <3>4. /\ f.fn = "initDataConsumers" => Suffix(f.todo, Consumers)
          /\ f.fn = "initDataProviders" => Suffix(f.todo, Providers)
      <4>1. Consumers \in Seq(Threads) /\ Providers \in Seq(Threads)
        BY ListsOfThreads
      <4> QED
        BY <2>1, <2>2, <3>2, <4>1, SuffixFacts DEF StartsWell
    <3> QED
      BY <1>1, <2>2, <3>1, <3>2, <3>3, <3>4 DEF StartsWell, Pending
  <2>6. StartsOnce'
    BY <1>1, <2>1, <2>4, <2>5, InitMoves
  <2>7. VarsOK'
    BY <1>1, <1>3 DEF GInv, VarsOK, history
  <2> QED
    BY <2>4, <2>6, <2>7, TopMovesKeeps
<1>4. CASE Top.at = "closing" /\ Goto("check") /\ UNCHANGED <<manager, pipe>>
  <2>1. Top.fn \in Closers /\ Top.todo # <<>>
    BY <1>2, <1>4 DEF IsFrame
  <2>2. TopMoves([Top EXCEPT !.at = "check"]) /\ StartsOnce'
    BY <1>1, <1>2, <1>4, <2>1, GotoMoves
  <2>3. VarsOK'
    BY <1>1, <1>4 DEF GInv, VarsOK, history
  <2> QED
    BY <2>2, <2>3, TopMovesKeeps
<1>5. CASE Top.at = "ending" /\ Closed
  <2>1. Top.fn \in Closers /\ Top.todo # <<>>
    BY <1>2, <1>5 DEF IsFrame
  <2>2. StartsOnce' /\ \E f : TopMoves(f)
    BY <1>1, <1>2, <1>5, <2>1, ClosedMoves
  <2>3. VarsOK'
    BY <1>1, <1>5, ClosedVars DEF GInv, VarsOK, history
  <2> QED
    BY <2>2, <2>3, TopMovesKeeps
<1> QED
  BY <1>3, <1>4, <1>5 DEF LoopReturns

-----------------------------------------------------------------------------
(* The main thread: its calls come and return, and it handles events       *)

(* The initialisation is posted.                                           *)
InitPosted == IsPosted(<<"initDataConsumers">>)

(* The calls below the top wait in their loops, and know of nothing but    *)
(* that they are to exit.                                                  *)
CallsChange ==
    /\ phase = "running" /\ phase' # "launch" /\ StackOK' /\ Depth' \in Nat /\ Depth' >= Depth - 1
    /\ \A n \in 1..Depth' : n <= Depth =>
          /\ SameButExit(stack'[n], stack[n])
          /\ stack'[n].exit => stack[n].exit \/ quitNow' \/ IsPosted(<<"quitLoop", n>>)
    /\ \A n \in 1..Depth' : n > Depth =>
          /\ stack'[n].at = "next" /\ n = Depth + 1
          /\ stack'[n].fn \in Inits =>
                /\ stack'[n].fn = "initDataConsumers" /\ stack'[n].todo = Consumers
                /\ InitPosted /\ ~InitPosted'
    /\ Depth' < Depth => Top.at = "next"
    /\ events' \in Seq(Event)
    /\ \A e : IsPosted(e)' => IsPosted(e)
    /\ Once(events', {"start", "initDataConsumers"})
    /\ \A t \in Threads :
          \/ thread'[t] = thread[t]
          \/ thread[t] = "off" /\ IsPosted(<<"start", t>>) /\ ~IsPosted(<<"start", t>>)'
    /\ \A t \in Threads : exited'[t] => exited[t] \/ IsPosted(<<"quit", t>>)
    /\ UNCHANGED <<manager, connected>>
    /\ quitNow => quitNow'

(* Such a step keeps what is said of the events and the connections, and   *)
(* whoever waits goes on waiting.                                          *)
LEMMA CallsChangeStack ==
    ASSUME GInv, CallsChange
    PROVE  /\ EventsOK' /\ ConnectedOK'
           /\ \A t : Ends(t) => Ends(t)'
<1>1. Depth \in Nat /\ Depth > 0 /\ Top = stack[Depth]
  BY StackFacts DEF GInv, CallsChange
<1>2. \A n \in 1..Depth : stack[n].at # "next" =>
         n \in 1..Depth' /\ stack'[n].at = stack[n].at /\ stack'[n].todo = stack[n].todo
  <2> SUFFICES ASSUME NEW n \in 1..Depth, stack[n].at # "next"
               PROVE  n \in 1..Depth' /\ stack'[n].at = stack[n].at /\ stack'[n].todo = stack[n].todo
    OBVIOUS
  <2>1. Depth' < Depth => n # Depth
    BY <1>1 DEF CallsChange
  <2>2. n \in 1..Depth'
    BY <1>1, <2>1 DEF CallsChange
  <2>3. n <= Depth
    BY <1>1
  <2>4. SameButExit(stack'[n], stack[n])
    BY <2>2, <2>3, Zenon DEF CallsChange
  <2> QED
    BY <2>2, <2>4 DEF SameButExit
<1>3. EventsOK'
  <2>1. \A n \in Nat : IsPosted(<<"quitLoop", n>>)' => n \in 1..Depth' /\ stack'[n].at \in Loops
    <3>1. \A n \in Nat : IsPosted(<<"quitLoop", n>>)' => n \in 1..Depth /\ stack[n].at \in Loops
      BY DEF GInv, EventsOK, CallsChange
    <3> QED
      BY <1>2, <3>1 DEF Loops
  <2> QED
    BY <2>1 DEF EventsOK, CallsChange
<1>4. ConnectedOK'
  <2> SUFFICES ASSUME NEW x \in connected
               PROVE  /\ x \in Threads \X {"started", "finished", "closed"} \X (1..Depth')
                      /\ stack'[x[3]].at \in (CASE x[2] = "started" -> {"starting"}
                                                [] x[2] = "finished" -> {"starting", "ending"}
                                                [] x[2] = "closed" -> {"closing"})
                      /\ Head(stack'[x[3]].todo) = x[1]
    BY DEF ConnectedOK, CallsChange
  <2>1. /\ x \in Threads \X {"started", "finished", "closed"} \X (1..Depth)
        /\ stack[x[3]].at \in (CASE x[2] = "started" -> {"starting"}
                                 [] x[2] = "finished" -> {"starting", "ending"}
                                 [] x[2] = "closed" -> {"closing"})
        /\ Head(stack[x[3]].todo) = x[1]
    BY DEF GInv, ConnectedOK
  <2>2. x[3] \in 1..Depth /\ stack[x[3]].at # "next"
    BY <2>1
  <2>3. x[3] \in 1..Depth' /\ stack'[x[3]].at = stack[x[3]].at /\ stack'[x[3]].todo = stack[x[3]].todo
    BY <1>2, <2>2
  <2> QED
    BY <2>1, <2>3
<1>5. ASSUME NEW t, Ends(t) PROVE Ends(t)'
  <2>1. PICK n \in 1..Depth : stack[n].at = "ending" /\ Head(stack[n].todo) = t
    BY <1>5 DEF Ends
  <2> QED
    BY <1>2, <2>1 DEF Ends
<1> QED
  BY <1>3, <1>4, <1>5

(* Such a step starts no thread twice.                                     *)
LEMMA CallsChangeStarts ==
    ASSUME GInv, CallsChange
    PROVE  StartsOnce'
<1>1. Depth \in Nat /\ Depth > 0 /\ Depth' \in Nat
  BY StackFacts DEF GInv, CallsChange
<1>2. \A t \in Threads : Unstarted(t) => Unstarted(t)'
  BY DEF Unstarted, CallsChange
<1>3. \A t \in Threads : IsPosted(<<"start", t>>)' => thread'[t] = "off"
  BY DEF GInv, StartsOnce, CallsChange
<1>4. \A n \in 1..Depth' : n <= Depth => SameButExit(stack'[n], stack[n]) /\ n \in 1..Depth
  <2>1. \A n \in 1..Depth' : n <= Depth => SameButExit(stack'[n], stack[n])
    BY Zenon DEF CallsChange
  <2>2. \A n \in 1..Depth' : n <= Depth => n \in 1..Depth
    BY <1>1
  <2> QED
    BY <2>1, <2>2
<1>5. \A n \in 1..Depth' : n > Depth /\ stack'[n].fn \in Inits =>
          /\ stack'[n].fn = "initDataConsumers" /\ stack'[n].todo = Consumers /\ stack'[n].at = "next"
          /\ InitPosted /\ ~InitPosted' /\ n = Depth + 1
  BY <1>1 DEF CallsChange
<1>6. InitPosted => (\A t \in Threads : Unstarted(t)) /\ \A n \in 1..Depth : stack[n].fn \notin Inits
  BY DEF GInv, StartsOnce, InitPosted
<1>7. ASSUME NEW n \in 1..Depth', NEW m \in 1..Depth', stack'[n].fn \in Inits, stack'[m].fn \in Inits
      PROVE  n = m
  <2>1. \A k \in 1..Depth' : k <= Depth /\ stack'[k].fn \in Inits => stack[k].fn \in Inits /\ ~InitPosted
    BY <1>4, <1>6 DEF SameButExit
  <2>2. CASE n <= Depth /\ m <= Depth
    BY <1>4, <1>7, <2>1, <2>2 DEF GInv, StartsOnce
  <2>3. CASE n > Depth /\ m > Depth
    BY <1>5, <1>7, <2>3
  <2>4. CASE n <= Depth /\ m > Depth
    BY <1>5, <1>7, <2>1, <2>4
  <2>5. CASE n > Depth /\ m <= Depth
    BY <1>5, <1>7, <2>1, <2>5
  <2> QED
    BY <1>1, <2>2, <2>3, <2>4, <2>5
<1>8. InitPosted' => (\A t \in Threads : Unstarted(t)') /\ \A n \in 1..Depth' : stack'[n].fn \notin Inits
  <2> SUFFICES ASSUME InitPosted'
               PROVE  (\A t \in Threads : Unstarted(t)') /\ \A n \in 1..Depth' : stack'[n].fn \notin Inits
    OBVIOUS
  <2>1. InitPosted
    BY DEF CallsChange, InitPosted
  <2>2. \A n \in 1..Depth' : stack'[n].fn \notin Inits
    BY <1>1, <1>4, <1>5, <1>6, <2>1 DEF SameButExit
  <2> QED
    BY <1>2, <1>6, <2>1, <2>2
<1> DEFINE Rests(n) ==
               ToSet(IF stack[n].at = "starting" THEN Tail(stack[n].todo) ELSE stack[n].todo)
<1>9. \A n \in 1..Depth : stack[n].fn \in Inits =>
         Rests(n) \subseteq Threads /\ \A t \in Rests(n) : Unstarted(t)
  <2> SUFFICES ASSUME NEW n \in 1..Depth, stack[n].fn \in Inits
               PROVE  Rests(n) \subseteq Threads /\ \A t \in Rests(n) : Unstarted(t)
    OBVIOUS
  <2>1. \A t \in Rests(n) : Unstarted(t)
    BY DEF GInv, StartsOnce
  <2>2. stack[n].todo \in Seq(Threads) /\ IsFrame(stack[n])
    BY StackFacts DEF GInv, Frame
  <2>3. CASE stack[n].at = "starting"
    <3>1. Tail(stack[n].todo) \in Seq(Threads)
      BY <2>2, <2>3, HeadOf DEF IsFrame
    <3> QED
      BY <2>1, <2>3, <3>1, SetOf
  <2>4. CASE stack[n].at # "starting"
    BY <2>1, <2>2, <2>4, SetOf
  <2> QED
    BY <2>3, <2>4
<1> HIDE DEF Rests
<1>10. \A n \in 1..Depth' : stack'[n].fn \in Inits =>
          \A t \in ToSet(IF stack'[n].at = "starting" THEN Tail(stack'[n].todo) ELSE stack'[n].todo) :
              Unstarted(t)'
  <2> SUFFICES ASSUME NEW n \in 1..Depth', stack'[n].fn \in Inits,
                      NEW t \in ToSet(IF stack'[n].at = "starting" THEN Tail(stack'[n].todo)
                                                                    ELSE stack'[n].todo)
               PROVE  Unstarted(t)'
    OBVIOUS
  <2>1. CASE n <= Depth
    <3>1. n \in 1..Depth /\ stack[n].fn \in Inits /\ t \in Rests(n)
      BY <1>4, <2>1 DEF SameButExit, Rests
    <3> QED
      BY <1>2, <1>9, <3>1
  <2>2. CASE n > Depth
    <3>1. InitPosted /\ t \in ToSet(Consumers)
      BY <1>5, <2>2
    <3> QED
      BY <1>2, <1>6, <3>1, ListsOfThreads
  <2> QED
    BY <1>1, <2>1, <2>2
<1>11. ASSUME NEW n \in 1..Depth', stack'[n].fn = "initDataConsumers"
       PROVE  Suffix(stack'[n].todo, Consumers) /\ \A p \in ProviderSet : Unstarted(p)'
  <2>1. CASE n <= Depth
    <3>1. n \in 1..Depth /\ stack[n].fn = "initDataConsumers" /\ stack'[n].todo = stack[n].todo
      BY <1>4, <1>11, <2>1 DEF SameButExit
    <3>2. Suffix(stack[n].todo, Consumers) /\ \A p \in ProviderSet : Unstarted(p)
      BY <3>1 DEF GInv, StartsOnce
    <3> QED
      BY <1>2, <3>1, <3>2, ListsOfThreads
  <2>2. CASE n > Depth
    <3>1. InitPosted /\ stack'[n].todo = Consumers
      BY <1>5, <1>11, <2>2 DEF Inits
    <3> QED
      BY <1>2, <1>6, <3>1, ListsOfThreads, WholeIsSuffix
  <2> QED
    BY <1>1, <2>1, <2>2
<1>12. ASSUME NEW n \in 1..Depth', stack'[n].fn = "initDataProviders"
       PROVE  Suffix(stack'[n].todo, Providers)
  <2>1. n <= Depth
    BY <1>1, <1>5, <1>12 DEF Inits
  <2>2. n \in 1..Depth /\ stack[n].fn = "initDataProviders" /\ stack'[n].todo = stack[n].todo
    BY <1>4, <1>12, <2>1 DEF SameButExit
  <2> QED
    BY <2>2 DEF GInv, StartsOnce
<1>13. phase' # "launch"
  BY DEF CallsChange
<1> QED
  BY <1>3, <1>7, <1>8, <1>10, <1>11, <1>12, <1>13 DEF StartsOnce, InitPosted

(* Such a step keeps the invariant.                                        *)
LEMMA CallsChangeKeeps ==
    ASSUME GInv, CallsChange, VarsOK'
    PROVE  GInv'
<1>1. EventsOK' /\ ConnectedOK' /\ StartsOnce' /\ \A t : Ends(t) => Ends(t)'
  BY CallsChangeStack, CallsChangeStarts
<1>2. Depth \in Nat /\ Depth > 0 /\ Depth' \in Nat
  BY StackFacts DEF GInv, CallsChange
<1>3. EndsOK'
  <2> SUFFICES ASSUME ~quitNow' PROVE EndsOK'
    BY DEF EndsOK
  <2>1. ~quitNow
    BY DEF CallsChange
  <2>2. ASSUME NEW t \in Threads, IsPosted(<<"quit", t>>)' \/ (exited'[t] /\ thread'[t] # "over")
        PROVE  Ends(t)'
    <3>1. IsPosted(<<"quit", t>>) \/ (exited[t] /\ thread[t] # "over")
      BY <2>2 DEF CallsChange
    <3> QED
      BY <1>1, <2>1, <3>1 DEF GInv, EndsOK
  <2>3. ASSUME NEW n \in 1..Depth', stack'[n].at = "ending",
               stack'[n].exit \/ IsPosted(<<"quitLoop", n>>)'
        PROVE  thread'[Head(stack'[n].todo)] = "over"
    <3>1. n \in 1..Depth /\ SameButExit(stack'[n], stack[n])
      BY <1>2, <2>3 DEF CallsChange
    <3>2. stack[n].exit \/ IsPosted(<<"quitLoop", n>>)
      BY <2>3, <3>1 DEF CallsChange
    <3>3. thread[Head(stack[n].todo)] = "over"
      BY <2>1, <2>3, <3>1, <3>2 DEF GInv, EndsOK, SameButExit
    <3>4. Head(stack[n].todo) \in Threads
      <4>1. IsFrame(stack[n]) /\ stack[n].at = "ending" /\ stack[n].todo \in Seq(Threads)
        BY <2>3, <3>1, StackFacts DEF GInv, SameButExit, Frame
      <4> QED
        BY <4>1, HeadOf DEF IsFrame
    <3> QED
      BY <3>1, <3>3, <3>4 DEF SameButExit, CallsChange
  <2>4. \A p \in ProviderSet : manager'[p] = "dead" => Ends(p)'
    BY <1>1, <2>1 DEF GInv, EndsOK, CallsChange
  <2> QED
    BY <2>2, <2>3, <2>4 DEF EndsOK
<1> QED
  BY <1>1, <1>3 DEF GInv, CallsChange

(* The rest of CallsChange, for a step that posts and handles nothing.     *)
LEMMA NothingHandled ==
    ASSUME GInv, UNCHANGED <<events, thread, exited>>
    PROVE  /\ events' \in Seq(Event)
           /\ \A e : IsPosted(e)' => IsPosted(e)
           /\ Once(events', {"start", "initDataConsumers"})
           /\ \A t \in Threads : exited'[t] => exited[t] \/ IsPosted(<<"quit", t>>)
BY DEF GInv, EventsOK, IsPosted

(* A call that starts threads returns, after success or after a retreat,   *)
(* and the invariant is kept.                                              *)
LEMMA ReturnKeeps ==
    ASSUME GInv, ProvidersReady \/ ClearProviders
    PROVE  GInv'
<1>1. /\ At({"next"}) /\ Top.fn \in {"initDataProviders", "undoProviders"}
      /\ stack' = Front(stack) /\ phase' \in {phase, "aborted"} /\ settled' = TRUE
      /\ providers' \in {providers, <<>>}
      /\ UNCHANGED <<quitNow, files, events, thread, exited, service, connected, pipe, history>>
  BY DEF ProvidersReady, ClearProviders, Working
<1>2. phase = "running" /\ Top.at = "next" /\ Top.fn # "exec" /\ phase' \in {"running", "aborted"}
  BY <1>1, TopFacts
<1>3. /\ StackOK' /\ Depth' = Depth - 1
      /\ \A n \in 1..(Depth - 1) : stack'[n] = stack[n]
  BY <1>1, <1>2, CallReturned DEF GInv
<1>4. Depth \in Nat /\ Depth > 1
  BY <1>2, StackFacts DEF GInv
<1>5. \A n \in 1..Depth' :
          /\ n <= Depth
          /\ SameButExit(stack'[n], stack[n])
          /\ stack'[n].exit => stack[n].exit \/ quitNow' \/ IsPosted(<<"quitLoop", n>>)
  BY <1>3, <1>4 DEF SameButExit
<1>6. CallsChange
  BY <1>1, <1>2, <1>3, <1>4, <1>5, NothingHandled DEF CallsChange, service
<1>7. VarsOK'
  BY <1>1, <1>2 DEF GInv, VarsOK, service, history
<1> QED
  BY <1>6, <1>7, CallsChangeKeeps

(* The end of closeAllSlot keeps the invariant.                            *)
LEMMA CloseFilesKeeps == ASSUME GInv, CloseFiles PROVE GInv'
<1>1. /\ At({"next"}) /\ Top.fn = "closeAllSlot"
      /\ files' = "closed" /\ quitNow' = TRUE
      /\ stack' = [n \in 1..(Depth - 1) |-> Told(stack[n])]
      /\ UNCHANGED <<phase, providers, settled, events, thread, exited, service, connected, pipe,
                     history>>
  BY DEF CloseFiles, Working, Told
<1>2. phase = "running" /\ Top.at = "next" /\ Top.fn # "exec"
  BY <1>1, TopFacts
<1>3. /\ StackOK' /\ Depth' = Depth - 1
      /\ \A n \in 1..(Depth - 1) : SameButExit(stack'[n], stack[n])
  BY <1>1, <1>2, LoopsTold DEF GInv
<1>4. Depth \in Nat /\ Depth > 1
  BY <1>2, StackFacts DEF GInv
<1>5. \A n \in 1..Depth' :
          /\ n <= Depth
          /\ SameButExit(stack'[n], stack[n])
          /\ stack'[n].exit => stack[n].exit \/ quitNow' \/ IsPosted(<<"quitLoop", n>>)
  BY <1>1, <1>3, <1>4
<1>6. CallsChange
  BY <1>1, <1>2, <1>3, <1>4, <1>5, NothingHandled DEF CallsChange, service
<1>7. VarsOK'
  BY <1>1, <1>2 DEF GInv, VarsOK, service, history
<1> QED
  BY <1>6, <1>7, CallsChangeKeeps

(* The loop on top handles the first event.                                *)
LEMMA Handled ==
    ASSUME GInv, NEW kind, Posted(kind)
    PROVE  /\ phase = "running" /\ Top.at \in Loops \cup {"exec"}
           /\ Depth \in Nat /\ Depth > 0 /\ Head(events) \in Event /\ Head(events)[1] = kind
           /\ events' \in Seq(Event)
           /\ IsPosted(Head(events))
           /\ \A e : IsPosted(e) <=> IsPosted(e)' \/ e = Head(events)
           /\ Once(events', {"start", "initDataConsumers"})
           /\ \A e : e = Head(events) /\ kind \in {"start", "initDataConsumers"} => ~IsPosted(e)'
<1>1. phase = "running" /\ Top.at \in Loops \cup {"exec"} /\ Depth \in Nat /\ Depth > 0
  BY TopFacts DEF Posted, InLoop, Loops
<1>2. events \in Seq(Event) /\ events # <<>> /\ Head(events)[1] = kind /\ events' = Tail(events)
  BY DEF Posted, GInv, EventsOK
<1>3. Once(events, {"start", "initDataConsumers"})
  BY DEF GInv, EventsOK
<1>4. /\ Tail(events) \in Seq(Event)
      /\ Head(events) \in Event /\ In(Head(events), events)
      /\ \A x : In(x, events) <=> In(x, Tail(events)) \/ x = Head(events)
      /\ Once(Tail(events), {"start", "initDataConsumers"})
      /\ Head(events)[1] \in {"start", "initDataConsumers"} => ~In(Head(events), Tail(events))
  BY <1>2, <1>3, InTail
<1> QED
  BY <1>1, <1>2, <1>4 DEF IsPosted

(* A handler that is called in a loop keeps the invariant.                 *)
LEMMA CallKeeps ==
    ASSUME GInv, HandleInit \/ HandleCloseAll
    PROVE  GInv'
<1>1. PICK f : /\ stack' = Append(stack, f)
               /\ \/ Posted("initDataConsumers") /\ f = Call("initDataConsumers", Consumers)
                  \/ Posted("closeAllSlot") /\ f = Call("closeAllSlot", providers \o Consumers)
  BY DEF HandleInit, HandleCloseAll
<1>2. UNCHANGED <<phase, quitNow, providers, files, settled, thread, exited, service, connected,
                  pipe, history>>
  BY DEF HandleInit, HandleCloseAll
<1>3. /\ phase = "running" /\ Top.at \in Loops \cup {"exec"} /\ Depth \in Nat
      /\ events' \in Seq(Event)
      /\ \A e : IsPosted(e)' => IsPosted(e)
      /\ Once(events', {"start", "initDataConsumers"})
  BY <1>1, Handled
<1>4. Consumers \in Seq(Threads) /\ providers \o Consumers \in Seq(Threads)
  BY ListsOfThreads, ProvidersListed
<1>5. /\ f \in Frame /\ f.at = "next"
      /\ \/ f.fn = "closeAllSlot"
         \/ f.fn = "initDataConsumers" /\ f.todo = Consumers /\ Posted("initDataConsumers")
  <2>1. CASE Posted("initDataConsumers") /\ f = Call("initDataConsumers", Consumers)
    BY <1>4, <2>1 DEF Call, Frame, Calls, Places
  <2>2. CASE f = Call("closeAllSlot", providers \o Consumers)
    BY <1>4, <2>2 DEF Call, Frame, Calls, Places
  <2> QED
    BY <1>1, <2>1, <2>2
<1>6. IsFrame(f) /\ f.fn # "exec"
  BY <1>5 DEF IsFrame
<1>7. /\ StackOK' /\ Depth' = Depth + 1
      /\ \A n \in 1..(Depth + 1) : stack'[n] = IF n = Depth + 1 THEN f ELSE stack[n]
  BY <1>1, <1>2, <1>3, <1>6, CallPushed DEF GInv
<1>8. \A n \in 1..Depth' : n <= Depth =>
          /\ SameButExit(stack'[n], stack[n])
          /\ stack'[n].exit => stack[n].exit \/ quitNow' \/ IsPosted(<<"quitLoop", n>>)
  BY <1>3, <1>7 DEF SameButExit
<1>9. f.fn \in Inits => InitPosted /\ ~InitPosted'
  <2> SUFFICES ASSUME Posted("initDataConsumers") PROVE InitPosted /\ ~InitPosted'
    BY <1>5 DEF Inits
  <2>1. Head(events) \in Event /\ Head(events)[1] = "initDataConsumers"
    BY Handled
  <2>2. Head(events) = <<"initDataConsumers">>
    BY <2>1 DEF Event
  <2> QED
    BY <2>2, Handled DEF InitPosted
<1>10. \A n \in 1..Depth' : n > Depth =>
          /\ stack'[n].at = "next" /\ n = Depth + 1
          /\ stack'[n].fn \in Inits =>
                /\ stack'[n].fn = "initDataConsumers" /\ stack'[n].todo = Consumers
                /\ InitPosted /\ ~InitPosted'
  <2>1. \A n \in 1..Depth' : n > Depth => n = Depth + 1 /\ stack'[n] = f
    BY <1>3, <1>7
  <2> QED
    BY <1>5, <1>9, <2>1 DEF Inits
<1>11. \A t \in Threads : exited'[t] => exited[t] \/ IsPosted(<<"quit", t>>)
  BY <1>2
<1>12. CallsChange
  BY <1>2, <1>3, <1>7, <1>8, <1>10, <1>11 DEF CallsChange, service
<1>13. VarsOK'
  BY <1>2 DEF GInv, VarsOK, service, history
<1> QED
  BY <1>12, <1>13, CallsChangeKeeps

(* An event that starts or quits a thread keeps the invariant.             *)
LEMMA HandleForThreadKeeps ==
    ASSUME GInv, HandleStart \/ HandleQuit
    PROVE  GInv'
<1>0. PICK t : t = Head(events)[2]
  OBVIOUS
<1>1. PICK kind \in {"start", "quit"} :
          /\ Posted(kind)
          /\ kind = "start" => HandleStart
          /\ kind = "quit" => HandleQuit
  BY DEF HandleStart, HandleQuit
<1>2. UNCHANGED <<main, service, connected, pipe, history>>
  BY DEF HandleStart, HandleQuit
<1>3. /\ phase = "running" /\ Depth \in Nat
      /\ Head(events) \in Event /\ Head(events)[1] = kind /\ IsPosted(Head(events))
      /\ events' \in Seq(Event)
      /\ \A e : IsPosted(e)' => IsPosted(e)
      /\ Once(events', {"start", "initDataConsumers"})
      /\ \A e : e = Head(events) /\ kind = "start" => ~IsPosted(e)'
  BY <1>1, Handled
<1>4. t \in Threads /\ Head(events) = <<kind, t>>
  BY <1>0, <1>1, <1>3 DEF Event
<1>5. StackOK' /\ Depth' = Depth /\ stack' = stack /\ phase' = "running"
  BY <1>2, <1>3 DEF main, GInv, StackOK, Depth
<1>6. thread \in [Threads -> {"off", "begun", "run", "loop", "returned", "over"}]
  BY DEF GInv, VarsOK
<1>7. exited \in [Threads -> BOOLEAN]
  BY DEF GInv, VarsOK
<1>8. \/ thread' = thread
      \/ kind = "start" /\ thread' = [thread EXCEPT ![t] = "begun"]
  BY <1>0, <1>1 DEF HandleStart, HandleQuit
<1>9. \/ exited' = exited
      \/ kind = "start" /\ exited' = [exited EXCEPT ![t] = FALSE]
      \/ kind = "quit" /\ exited' = [exited EXCEPT ![t] = TRUE]
  BY <1>0, <1>1 DEF HandleStart, HandleQuit
<1>10. thread' \in [Threads -> {"off", "begun", "run", "loop", "returned", "over"}]
  BY <1>6, <1>8
<1>11. exited' \in [Threads -> BOOLEAN]
  BY <1>7, <1>9
<1>12. \A u \in Threads :
          \/ thread'[u] = thread[u]
          \/ thread[u] = "off" /\ IsPosted(<<"start", u>>) /\ ~IsPosted(<<"start", u>>)'
  <2>1. kind = "start" => thread[t] = "off" /\ IsPosted(<<"start", t>>) /\ ~IsPosted(<<"start", t>>)'
    BY <1>3, <1>4 DEF GInv, StartsOnce
  <2>2. \A u \in Threads : thread'[u] = thread[u] \/ (kind = "start" /\ u = t)
    <3>1. CASE thread' = thread
      BY <3>1
    <3>2. CASE kind = "start" /\ thread' = [thread EXCEPT ![t] = "begun"]
      BY <1>6, <3>2
    <3> QED
      BY <1>8, <3>1, <3>2
  <2> QED
    BY <2>1, <2>2
<1>13. \A u \in Threads : exited'[u] => exited[u] \/ IsPosted(<<"quit", u>>)
  <2>1. \A u \in Threads : exited'[u] => exited[u] \/ (kind = "quit" /\ u = t)
    BY <1>7, <1>9
  <2> QED
    BY <1>3, <1>4, <2>1
<1>14. \A n \in 1..Depth' :
          /\ n <= Depth
          /\ SameButExit(stack'[n], stack[n])
          /\ stack'[n].exit => stack[n].exit \/ quitNow' \/ IsPosted(<<"quitLoop", n>>)
  BY <1>3, <1>5 DEF SameButExit
<1>15. CallsChange
  <2>1. UNCHANGED <<manager, connected, quitNow>>
    BY <1>2 DEF main, service
  <2> QED
    BY <1>3, <1>5, <1>12, <1>13, <1>14, <2>1 DEF CallsChange
<1>16. VarsOK'
  BY <1>2, <1>10, <1>11 DEF GInv, VarsOK, main, service, history
<1> QED
  BY <1>15, <1>16, CallsChangeKeeps

(* An event that quits a loop keeps the invariant.                         *)
LEMMA HandleQuitLoopKeeps == ASSUME GInv, HandleQuitLoop PROVE GInv'
<1>0. PICK k : k = Head(events)[2]
  OBVIOUS
<1>1. /\ Posted("quitLoop") /\ stack' = [stack EXCEPT ![k].exit = TRUE]
      /\ UNCHANGED <<phase, quitNow, providers, files, settled, thread, exited, service, connected,
                     pipe, history>>
  BY <1>0 DEF HandleQuitLoop
<1>2. /\ phase = "running" /\ Depth \in Nat
      /\ Head(events) \in Event /\ Head(events)[1] = "quitLoop" /\ IsPosted(Head(events))
      /\ events' \in Seq(Event)
      /\ \A e : IsPosted(e)' => IsPosted(e)
      /\ Once(events', {"start", "initDataConsumers"})
  BY <1>1, Handled
<1>3. k \in Nat /\ Head(events) = <<"quitLoop", k>>
  BY <1>0, <1>2 DEF Event
<1>4. k \in 1..Depth
  BY <1>2, <1>3 DEF GInv, EventsOK
<1>5. stack' = [stack EXCEPT ![k] = Told(stack[k])]
  BY <1>1, <1>4, StackFacts DEF GInv, Told
<1>6. /\ StackOK' /\ Depth' = Depth
      /\ \A n \in 1..Depth : /\ SameButExit(stack'[n], stack[n])
                             /\ stack'[n].exit <=> n = k \/ stack[n].exit
  BY <1>1, <1>2, <1>4, <1>5, LoopTold DEF GInv
<1>7. \A n \in 1..Depth' :
          /\ n <= Depth
          /\ SameButExit(stack'[n], stack[n])
          /\ stack'[n].exit => stack[n].exit \/ quitNow' \/ IsPosted(<<"quitLoop", n>>)
  BY <1>2, <1>3, <1>6
<1>8. UNCHANGED <<phase, thread, exited, manager, connected, quitNow>>
  BY <1>1 DEF service
<1>9. CallsChange
  BY <1>2, <1>6, <1>7, <1>8 DEF CallsChange
<1>10. VarsOK'
  BY <1>1 DEF GInv, VarsOK, service, history
<1> QED
  BY <1>9, <1>10, CallsChangeKeeps

(* The end of the program keeps the invariant.                             *)
LEMMA EndProgramKeeps == ASSUME GInv, EndProgram PROVE GInv'
<1>1. /\ At({"exec"}) /\ phase' \in {"ended", "aborted"}
      /\ UNCHANGED <<stack, quitNow, providers, files, settled, events, thread, exited, service,
                     connected, pipe, history>>
  BY DEF EndProgram
<1>2. phase = "running" /\ Depth \in Nat
  BY <1>1, TopFacts
<1>3. StackOK' /\ Depth' = Depth /\ stack' = stack
  BY <1>1, <1>2 DEF GInv, StackOK, Depth
<1>4. \A n \in 1..Depth' :
          /\ n <= Depth
          /\ SameButExit(stack'[n], stack[n])
          /\ stack'[n].exit => stack[n].exit \/ quitNow' \/ IsPosted(<<"quitLoop", n>>)
  BY <1>2, <1>3 DEF SameButExit
<1>5. CallsChange
  BY <1>1, <1>2, <1>3, <1>4, NothingHandled DEF CallsChange, service
<1>6. VarsOK'
  BY <1>1 DEF GInv, VarsOK, service, history
<1> QED
  BY <1>5, <1>6, CallsChangeKeeps

-----------------------------------------------------------------------------
(* The beginning                                                           *)

(* Before the program is started nothing is.                               *)
LEMMA NothingStarted ==
    ASSUME GInv, phase = "launch"
    PROVE  /\ stack = <<>> /\ Depth = 0 /\ connected = {}
           /\ events \in Seq(Event)
           /\ \A n \in Nat : ~IsPosted(<<"quitLoop", n>>)
           /\ \A t : ~Ends(t)
           /\ ~InitPosted /\ \A t \in Threads : Unstarted(t)
<1>1. stack = <<>> /\ Depth = 0
  BY DEF GInv, StackOK, Depth
<1>2. connected = {}
  BY <1>1 DEF GInv, ConnectedOK
<1>3. /\ events \in Seq(Event)
      /\ \A n \in Nat : ~IsPosted(<<"quitLoop", n>>)
  BY <1>1 DEF GInv, EventsOK
<1>4. ~InitPosted /\ \A t \in Threads : Unstarted(t)
  BY DEF GInv, StartsOnce, InitPosted
<1>5. \A t : ~Ends(t)
  BY <1>1 DEF Ends
<1> QED
  BY <1>1, <1>2, <1>3, <1>4, <1>5

(* startProgram keeps the invariant.                                       *)
LEMMA StartProgramKeeps == ASSUME GInv, StartProgram PROVE GInv'
<1>1. PICK f : f = [Call("exec", <<>>) EXCEPT !.at = "exec"]
  OBVIOUS
<1>2. /\ phase = "launch" /\ phase' = "running" /\ providers' \in {Providers, <<>>}
      /\ stack' = <<f>> /\ events' = Append(events, <<"initDataConsumers">>)
      /\ UNCHANGED <<quitNow, files, settled, thread, exited, service, connected, pipe, history>>
  BY <1>1 DEF StartProgram
<1>3. f \in Frame /\ f.fn = "exec" /\ f.at = "exec" /\ IsFrame(f)
  <2>1. f = [fn |-> "exec", at |-> "exec", todo |-> <<>>, exit |-> FALSE]
    BY <1>1 DEF Call
  <2>2. <<>> \in Seq(Threads)
    OBVIOUS
  <2>3. f \in Frame /\ f.fn = "exec" /\ f.at = "exec"
    BY <2>1, <2>2 DEF Frame, Calls, Places
  <2> QED
    BY <2>3 DEF IsFrame
<1>4. Depth' = 1 /\ stack'[1] = f /\ stack' \in Seq(Frame)
  BY <1>2, <1>3 DEF Depth
<1>5. StackOK'
  BY <1>2, <1>3, <1>4, StackMade
<1>6. /\ events \in Seq(Event) /\ <<"initDataConsumers">> \in Event
      /\ \A n \in Nat : ~IsPosted(<<"quitLoop", n>>)
      /\ \A t : ~Ends(t)
      /\ ~InitPosted /\ connected = {} /\ \A t \in Threads : Unstarted(t)
  BY <1>2, NothingStarted DEF Event
<1>7. /\ events' \in Seq(Event)
      /\ \A e : IsPosted(e)' <=> IsPosted(e) \/ e = <<"initDataConsumers">>
      /\ Once(events', {"start", "initDataConsumers"})
  BY <1>2, <1>6, InAppend DEF IsPosted, InitPosted, GInv, EventsOK
<1>8. EventsOK'
  <2>1. \A n \in Nat : ~IsPosted(<<"quitLoop", n>>)'
    BY <1>6, <1>7
  <2> QED
    BY <1>7, <2>1 DEF EventsOK
<1>9. ConnectedOK'
  BY <1>2, <1>6 DEF ConnectedOK
<1>10. \A t : /\ IsPosted(<<"start", t>>)' <=> IsPosted(<<"start", t>>)
              /\ IsPosted(<<"quit", t>>)' <=> IsPosted(<<"quit", t>>)
  BY <1>7
<1>11. StartsOnce'
  <2>1. \A t \in Threads : Unstarted(t)'
    BY <1>2, <1>6, <1>10 DEF Unstarted
  <2>2. \A t \in Threads : IsPosted(<<"start", t>>)' => thread'[t] = "off"
    BY <2>1 DEF Unstarted
  <2>3. \A n \in 1..Depth' : stack'[n].fn = "exec"
    BY <1>3, <1>4
  <2>4. "exec" \notin Inits /\ "initDataConsumers" \in Inits /\ "initDataProviders" \in Inits
    BY DEF Inits
  <2>5. \A n \in 1..Depth' : stack'[n].fn \notin Inits
    BY <2>3, <2>4
  <2> QED
    BY <1>2, <2>1, <2>2, <2>4, <2>5 DEF StartsOnce
<1>12. EndsOK'
  <2> SUFFICES ASSUME ~quitNow' PROVE EndsOK'
    BY DEF EndsOK
  <2>1. ~quitNow
    BY <1>2
  <2>2. /\ \A t \in Threads : ~(IsPosted(<<"quit", t>>) \/ (exited[t] /\ thread[t] # "over"))
        /\ \A p \in ProviderSet : manager[p] # "dead"
    BY <1>6, <2>1 DEF GInv, EndsOK
  <2>3. \A n \in 1..Depth' : stack'[n].at # "ending"
    BY <1>3, <1>4
  <2>4. UNCHANGED <<thread, exited, manager>>
    BY <1>2 DEF service
  <2> QED
    BY <1>10, <2>2, <2>3, <2>4 DEF EndsOK
<1>13. VarsOK'
  BY <1>2 DEF GInv, VarsOK, service, history
<1> QED
  BY <1>5, <1>8, <1>9, <1>11, <1>12, <1>13 DEF GInv

(* So it does when it fails.                                               *)
LEMMA StartProgramFailsKeeps == ASSUME GInv, StartProgramFails PROVE GInv'
<1>1. /\ phase = "launch" /\ phase' = "ended"
      /\ UNCHANGED <<stack, quitNow, providers, files, settled, events, thread, exited, service,
                   connected, pipe, history>>
  BY DEF StartProgramFails
<1>2. StackOK'
  BY <1>1 DEF GInv, StackOK, Depth
<1>3. EventsOK'
  BY <1>1 DEF GInv, EventsOK, Depth, IsPosted
<1>4. ConnectedOK'
  BY <1>1 DEF GInv, ConnectedOK, Depth
<1>5. StartsOnce'
  BY <1>1 DEF GInv, StartsOnce, Depth, Unstarted, IsPosted
<1>6. EndsOK'
  BY <1>1 DEF GInv, EndsOK, Depth, Ends, IsPosted, service
<1>7. VarsOK'
  BY <1>1 DEF GInv, VarsOK, service, history
<1> QED
  BY <1>2, <1>3, <1>4, <1>5, <1>6, <1>7 DEF GInv

(* The invariant holds at first.                                           *)
LEMMA GInvInit == ASSUME Init PROVE GInv
<1>1. /\ phase = "launch" /\ stack = <<>> /\ events = <<>> /\ quitNow = FALSE /\ providers = <<>>
      /\ thread = [t \in Threads |-> "off"] /\ exited = [t \in Threads |-> FALSE]
      /\ manager = [p \in ProviderSet |-> "null"] /\ connected = {}
  BY DEF Init
<1>2. \A e : ~IsPosted(e)
  BY <1>1 DEF IsPosted, In
<1>3. Depth = 0
  BY <1>1 DEF Depth
<1>4. StackOK
  BY <1>1, <1>3 DEF StackOK
<1>5. EventsOK
  <2>1. Once(events, {"start", "initDataConsumers"})
    BY <1>1 DEF Once
  <2> QED
    BY <1>1, <1>2, <2>1 DEF EventsOK
<1>6. ConnectedOK
  BY <1>1 DEF ConnectedOK
<1>7. StartsOnce
  BY <1>1, <1>2, <1>3 DEF StartsOnce, Unstarted
<1>8. EndsOK
  <2>1. /\ \A t \in Threads : ~exited[t]
        /\ \A p \in ProviderSet : manager[p] # "dead"
    BY <1>1
  <2>2. 1..Depth = {}
    BY <1>3
  <2> QED
    BY <1>2, <2>1, <2>2 DEF EndsOK
<1>9. VarsOK
  <2>1. requests \in [ProviderSet -> Nat] /\ asked \in 0..MaxShutDowns
    BY DaemonAssumption DEF Init
  <2>2. /\ thread \in [Threads -> {"off", "begun", "run", "loop", "returned", "over"}]
        /\ exited \in [Threads -> BOOLEAN]
        /\ manager \in [ProviderSet -> {"null", "live", "dead"}]
    BY <1>1
  <2>3. closing \in [ProviderSet -> BOOLEAN] /\ active \in [ProviderSet -> BOOLEAN]
    BY DEF Init
  <2>4. pipe \in [Writers -> {"unset", "open", "error", "closed", "foreign"}]
    BY DEF Init
  <2> QED
    BY <2>1, <2>2, <2>3, <2>4 DEF Init, VarsOK
<1> QED
  BY <1>4, <1>5, <1>6, <1>7, <1>8, <1>9 DEF GInv

-----------------------------------------------------------------------------
(* Every step                                                              *)

(* Every step of the main thread keeps the invariant.                      *)
LEMMA MainStepKeeps == ASSUME GInv, MainStep PROVE GInv'
BY StartThreadKeeps, WrongOptionsKeeps, ConsumersReadyKeeps, ReturnKeeps, CloseProviderKeeps,
   CloseConsumerKeeps, EndThreadKeeps, WaitForThreadKeeps, CloseFilesKeeps, CallKeeps,
   HandleForThreadKeeps, HandleQuitLoopKeeps, LoopReturnsKeeps, EndProgramKeeps DEF MainStep

(* So does the step of somebody else.                                      *)
LEMMA StutterKeeps == ASSUME GInv, UNCHANGED vars PROVE GInv'
BY DEF vars, main, service, history, GInv, VarsOK, StackOK, EventsOK, ConnectedOK, StartsOnce,
       EndsOK, Depth, Unstarted, IsPosted, Ends

(* The invariant is inductive.                                             *)
LEMMA GInvStep == ASSUME GInv, [Next]_vars PROVE GInv'
<1>1. ASSUME NEW t \in Threads, ThreadStep(t) PROVE GInv'
  BY <1>1, ThreadBeginsKeeps, ThreadEndsKeeps DEF ThreadStep
<1>2. ASSUME NEW p \in ProviderSet,
             ProviderStep(p) \/ ListenFails(p) \/ SessionStarts(p) \/ LastSessionFinished(p)
      PROVE  GInv'
  BY <1>2, ProviderBeginsKeeps, SessionsKeep DEF ProviderStep
<1>3. Writers \subseteq ConsumerSet
  BY DaemonAssumption
<1>4. ASSUME NEW c \in ConsumerSet, PrinterStarts(c) PROVE GInv'
  BY <1>4, ConsumerBeginsKeeps
<1>5. ASSUME NEW c \in Writers, OpenPipe(c) \/ OpenFails(c) \/ WriteFails(c) PROVE GInv'
  BY <1>3, <1>5, ConsumerBeginsKeeps, WriteFailsKeeps
<1>6. CASE Next
  BY <1>1, <1>2, <1>4, <1>5, <1>6, SignalKeeps, StartProgramKeeps, StartProgramFailsKeeps,
     MainStepKeeps DEF Next
<1> QED
  BY <1>6, StutterKeeps

(* The invariant holds in every reachable state.                           *)
THEOREM Inductive == Spec => []GInv
<1>1. Init => GInv
  BY GInvInit
<1>2. GInv /\ [Next]_vars => GInv'
  BY GInvStep
<1> QED
  BY <1>1, <1>2, PTL DEF Spec

(* The calls on the stack of the main thread, the threads, the managers    *)
(* and the pipes have their types: for any providers and consumers,        *)
(* however many shutDowns are asked, and whatever goes wrong.              *)
THEOREM TypeCorrect == Spec => []TypeOK
<1>1. GInv => TypeOK
  <2> SUFFICES ASSUME GInv PROVE TypeOK
    OBVIOUS
  <2>1. \A n \in 1..Depth : /\ stack[n].fn \in Calls
                            /\ stack[n].at \in Places
                            /\ stack[n].todo \in Seq(Threads)
                            /\ stack[n].exit \in BOOLEAN
    BY StackFacts DEF GInv, Frame
  <2>2. connected \subseteq Threads \X {"started", "finished", "closed"} \X (1..Depth)
    BY DEF GInv, ConnectedOK
  <2> QED
    BY <2>1, <2>2 DEF GInv, VarsOK, TypeOK
<1> QED
  BY <1>1, Inductive, PTL

(* Until QCoreApplication::exit, m_connectionManager of a provider points  *)
(* to a destroyed manager only while a close() waits for the end of the    *)
(* thread of that provider: for any configuration, however many shutDowns  *)
(* are asked.                                                              *)
THEOREM ManagersDangleWhileEnding == Spec => []DanglingWhileEnding
<1>1. GInv => DanglingWhileEnding
  BY DEF GInv, EndsOK, Ends, DanglingWhileEnding
<1> QED
  BY <1>1, Inductive, PTL
=============================================================================
