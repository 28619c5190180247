--------------------------- MODULE ShutDownProofs ---------------------------
(***************************************************************************)
(* Proofs about Daemon, of the runs with at most one shutDown, asked after *)
(* the initialisation: the consumers outlive the providers, and the        *)
(* program ends clean.                                                     *)
(*                                                                         *)
(* In such a run no two calls are on the stack at once. The place in the   *)
(* only one tells of each thread whether it works (Up), is being started   *)
(* or closed (Current), or is idle (Down); this is Fine. It is proved      *)
(* beside GInv, which says that no thread is started twice and that a loop *)
(* that waits for an end returns no sooner.                                *)
(***************************************************************************)
EXTENDS DaemonProofs

-----------------------------------------------------------------------------
(* Threads that work, that do nothing, and that the call is busy with.     *)
Alive(t) == thread[t] \in {"begun", "run", "loop"} /\ ~exited[t] /\ ~IsPosted(<<"quit", t>>)

(* It was never started, or is over.                                       *)
Idle(t) == thread[t] \in {"off", "over"} /\ ~IsPosted(<<"start", t>>)

(* The thread that is waited for to start: it works, or nobody told the    *)
(* loop to exit.                                                           *)
Starting(t) ==
    /\ ~exited[t] /\ ~IsPosted(<<"quit", t>>)
    /\ \/ thread[t] \in {"begun", "run", "loop"}
       \/ thread[t] = "off" /\ ~Top.exit /\ ~IsPosted(<<"quitLoop", Depth>>)

(* The thread that is waited for to end.                                   *)
Ending(t) == Running(t) \/ (thread[t] = "over" /\ ~IsPosted(<<"start", t>>))

(* What the place in the call says of the thread that it is busy with.     *)
Busy(t) ==
    /\ Top.at = "starting" => Starting(t)
    /\ Top.at = "ending" => Ending(t)
    /\ Top.at \in {"closing", "check", "connect"} => Alive(t)

(* The thread that a call is busy with, and those that work.               *)
CurrentOf(f) == IF f.at = "next" THEN {} ELSE {Head(f.todo)}

(* The threads that work while the call is f: those it started, or those   *)
(* it has not closed.                                                      *)
UpOf(f) ==
    CASE f.fn = "initDataConsumers" -> ConsumerSet \ ToSet(f.todo)
      [] f.fn = "initDataProviders" -> (ConsumerSet \cup ToSet(providers)) \ ToSet(f.todo)
      [] f.fn = "undoProviders" -> ConsumerSet \cup (ToSet(f.todo) \ CurrentOf(f))
      [] f.fn = "closeAllSlot" -> ToSet(f.todo) \ CurrentOf(f)

(* The thread that the main thread is busy with.                           *)
Current == IF Depth = 2 THEN CurrentOf(Top) ELSE {}

(* The threads that work. Between the calls they are all the threads, from *)
(* the end of the initialisation to the end of closeAllSlot.               *)
Up ==
    IF Depth = 2 THEN UpOf(Top)
    ELSE IF settled /\ files = "open" THEN ConsumerSet \cup ToSet(providers)
    ELSE {}

(* The threads that do not.                                                *)
Down == Threads \ (Up \cup Current)

(* closeAllSlot is posted.                                                 *)
ClosePosted == IsPosted(<<"closeAllSlot">>)

(* closeAllSlot is called.                                                 *)
Closing == Depth = 2 /\ Top.fn = "closeAllSlot"

(* What is left of the list of a call.                                     *)
ListOK(f) ==
    /\ f.fn = "initDataProviders" => Suffix(f.todo, providers)
    /\ f.fn = "undoProviders" => ToSet(f.todo) \subseteq ProviderSet /\ IsInjective(f.todo)
    /\ f.fn = "closeAllSlot" => Suffix(f.todo, providers \o Consumers)

(* The order of an ordinary run: the initialisation comes first, then at   *)
(* most one closeAllSlot, and no two calls are on the stack at once.       *)
Stage ==
    /\ phase # "aborted"
    /\ Depth <= 2
    /\ quitNow <=> files = "closed"
    /\ Depth > 0 /\ stack[1].exit => quitNow
    /\ asked = 0 => ~ClosePosted /\ ~Closing /\ ~quitNow
    /\ ClosePosted => ~Closing /\ ~quitNow
    /\ Closing => ~quitNow
    /\ asked = 1 => settled
    /\ Once(events, {"closeAllSlot"})
    /\ settled => ~InitPosted /\ (Depth = 2 => Closing) /\ phase # "launch"
    /\ phase = "ended" /\ settled => files = "closed"
    /\ InitPosted => Depth = 1
    /\ Depth = 1 /\ ~settled => InitPosted
    /\ Depth = 2 => ListOK(Top)

(* The threads do what the calls of the main thread say.                   *)
Lives ==
    /\ \A t \in Up : Alive(t)
    /\ \A t \in Down : Idle(t)
    /\ \A t \in Current : Busy(t)
    /\ \A t \in Threads : thread[t] = "off" => ~exited[t] /\ ~IsPosted(<<"quit", t>>)
    /\ \A t \in Threads : thread[t] = "returned" => exited[t]
    /\ settled => \A c \in ConsumerSet : thread[c] # "off"

(* A pipe is open, or could not be opened, as long as its thread works,    *)
(* and is closed when the close() of its consumer returns.                 *)
Pipes ==
    \A c \in Writers :
        /\ thread[c] \in {"loop", "returned"} => pipe[c] \in {"open", "error"}
        /\ thread[c] = "over" => pipe[c] \in IF c \in Current THEN {"open", "error"}
                                                              ELSE {"closed", "error"}

(* What holds of an ordinary run.                                          *)
Fine == Stage /\ Lives /\ Pipes

(* The invariant of the ordinary runs; it is inductive beside GInv.        *)
OInv == Ordinary => Fine

-----------------------------------------------------------------------------
(* The call                                                                *)

(* When there is a call besides the main loop, it is on top.               *)
LEMMA CallFacts ==
    ASSUME GInv, Depth = 2
    PROVE  /\ Top = stack[2] /\ Top \in Frame /\ IsFrame(Top) /\ Top.todo \in Seq(Threads)
           /\ Top.fn \in Inits \cup Closers /\ Top.fn # "exec" /\ Top.at # "exec"
           /\ Top.at # "next" => Top.todo # <<>> /\ Head(Top.todo) \in Threads
           /\ stack[1].fn = "exec" /\ stack[1].at = "exec"
           /\ Current = CurrentOf(Top) /\ Up = UpOf(Top)
<1>1. 1 \in 1..Depth /\ 2 \in 1..Depth
  OBVIOUS
<1>2. Top = stack[2] /\ Top \in Frame /\ IsFrame(Top) /\ Top.fn # "exec"
  BY <1>1, StackFacts DEF GInv, Top
<1>3. stack[1].fn = "exec" /\ stack[1].at = "exec"
  BY <1>1, StackFacts DEF GInv, IsFrame
<1>4. Top.todo \in Seq(Threads) /\ Top.fn \in Inits \cup Closers /\ Top.at # "exec"
  BY <1>2 DEF Frame, IsFrame, Calls, Inits, Closers
<1>5. Top.at # "next" => Top.todo # <<>> /\ Head(Top.todo) \in Threads
  BY <1>2, <1>4, HeadOf DEF IsFrame
<1> QED
  BY <1>2, <1>3, <1>4, <1>5 DEF Current, Up

(* These are sets of threads.                                              *)
LEMMA SetsOfThreads ==
    ASSUME GInv
    PROVE  Up \subseteq Threads /\ Current \subseteq Threads /\ Down \subseteq Threads
<1>1. ToSet(providers) \subseteq Threads /\ ConsumerSet \subseteq Threads
  BY ProvidersListed, ListsOfThreads
<1>2. CASE Depth = 2
  <2>1. ToSet(Top.todo) \subseteq Threads
    BY <1>2, CallFacts, SetOf
  <2> QED
    BY <1>1, <1>2, <2>1, CallFacts DEF UpOf, CurrentOf, Inits, Closers, Down
<1>3. CASE Depth # 2
  BY <1>1, <1>3 DEF Up, Current, Down
<1> QED
  BY <1>2, <1>3

(* The same, in a form that can be primed.                                 *)
LEMMA UpInThreads == GInv => Up \subseteq Threads
BY SetsOfThreads

(* The same, in the next state.                                            *)
LEMMA UpStaysInThreads == (GInv => Up \subseteq Threads)'
BY UpInThreads, PTL

(* The list that closeAllSlot goes through has every provider and every    *)
(* consumer once.                                                          *)
LEMMA BothListed ==
    ASSUME GInv
    PROVE  /\ providers \o Consumers \in Seq(Threads) /\ IsInjective(providers \o Consumers)
           /\ ToSet(providers \o Consumers) = ToSet(providers) \cup ConsumerSet
<1> DEFINE both == providers \o Consumers
<1>1. /\ providers \in Seq(Threads) /\ Consumers \in Seq(Threads)
      /\ IsInjective(providers) /\ IsInjective(Consumers)
      /\ ToSet(providers) \cap ToSet(Consumers) = {} /\ ToSet(Consumers) = ConsumerSet
  BY ProvidersListed, ListsOfThreads
<1>2. /\ both \in Seq(Threads) /\ Len(both) = Len(providers) + Len(Consumers)
      /\ Len(providers) \in Nat /\ Len(Consumers) \in Nat
      /\ \A i \in 1..Len(both) : both[i] = IF i <= Len(providers) THEN providers[i]
                                                                    ELSE Consumers[i - Len(providers)]
      /\ DOMAIN both = 1..Len(both) /\ DOMAIN providers = 1..Len(providers)
      /\ DOMAIN Consumers = 1..Len(Consumers)
  BY <1>1
<1> HIDE DEF both
<1>3. /\ ToSet(both) = {both[i] : i \in 1..Len(both)}
      /\ ToSet(providers) = {providers[i] : i \in 1..Len(providers)}
      /\ ToSet(Consumers) = {Consumers[i] : i \in 1..Len(Consumers)}
  BY <1>1, <1>2, SetOf
<1>4. \A i \in 1..Len(both) : /\ i <= Len(providers) => i \in 1..Len(providers)
                              /\ i > Len(providers) => i - Len(providers) \in 1..Len(Consumers)
  BY <1>2
<1>5. IsInjective(both)
  <2> SUFFICES ASSUME NEW i \in 1..Len(both), NEW j \in 1..Len(both), both[i] = both[j]
               PROVE  i = j
    BY <1>2 DEF IsInjective
  <2>1. /\ \A a, b \in 1..Len(providers) : providers[a] = providers[b] => a = b
        /\ \A a, b \in 1..Len(Consumers) : Consumers[a] = Consumers[b] => a = b
    BY <1>1, <1>2 DEF IsInjective
  <2>2. \A a \in 1..Len(providers), b \in 1..Len(Consumers) : providers[a] # Consumers[b]
    BY <1>1, <1>3
  <2>3. CASE i <= Len(providers) /\ j <= Len(providers)
    BY <1>2, <1>4, <2>1, <2>3
  <2>4. CASE i > Len(providers) /\ j > Len(providers)
    <3>1. both[i] = Consumers[i - Len(providers)] /\ both[j] = Consumers[j - Len(providers)]
      BY <1>2, <2>4
    <3>2. i - Len(providers) = j - Len(providers)
      BY <1>4, <2>1, <2>4, <3>1
    <3> QED
      BY <1>2, <3>2
  <2>5. CASE i <= Len(providers) /\ j > Len(providers)
    <3>1. both[i] = providers[i] /\ both[j] = Consumers[j - Len(providers)]
      BY <1>2, <2>5
    <3> QED
      BY <1>4, <2>2, <2>5, <3>1
  <2>6. CASE i > Len(providers) /\ j <= Len(providers)
    <3>1. both[j] = providers[j] /\ both[i] = Consumers[i - Len(providers)]
      BY <1>2, <2>6
    <3> QED
      BY <1>4, <2>2, <2>6, <3>1
  <2> QED
    BY <1>2, <2>3, <2>4, <2>5, <2>6
<1>6. ToSet(both) \subseteq ToSet(providers) \cup ToSet(Consumers)
  BY <1>2, <1>3, <1>4
<1>7. ToSet(providers) \subseteq ToSet(both)
  <2>1. \A i \in 1..Len(providers) : i \in 1..Len(both) /\ both[i] = providers[i]
    BY <1>2
  <2> QED
    BY <1>3, <2>1
<1>8. ToSet(Consumers) \subseteq ToSet(both)
  <2>1. \A i \in 1..Len(Consumers) :
            Len(providers) + i \in 1..Len(both) /\ both[Len(providers) + i] = Consumers[i]
    BY <1>2
  <2> QED
    BY <1>3, <2>1
<1> QED
  BY <1>1, <1>2, <1>5, <1>6, <1>7, <1>8 DEF both

-----------------------------------------------------------------------------
(* The threads                                                             *)

(* What a thread may do by itself.                                         *)
Goes(t) ==
    \/ thread'[t] = thread[t]
    \/ thread[t] = "begun" /\ thread'[t] = "run"
    \/ thread[t] = "run" /\ thread'[t] = "loop"
    \/ thread[t] = "loop" /\ thread'[t] = "returned" /\ exited[t]
    \/ thread[t] = "returned" /\ thread'[t] = "over"

(* What it may do to its pipe.                                             *)
PipeGoes(c) ==
    IF thread[c] = "run" /\ thread'[c] = "loop" THEN pipe'[c] \in {"open", "error"}
    ELSE pipe'[c] = pipe[c]

(* What a step of a thread that is not the main one may do.                *)
ThreadGoes ==
    /\ UNCHANGED <<main, exited>>
    /\ \A e : IsPosted(e) => IsPosted(e)'
    /\ \A e : IsPosted(e)' =>
          \/ IsPosted(e)
          \/ e = <<"closeAllSlot">> /\ asked = 0 /\ asked' = 1 /\ settled
          \/ \E n \in 1..Depth : e = <<"quitLoop", n>> /\ thread[Head(stack[n].todo)] # "off"
    /\ Once(events', {"closeAllSlot"})
    /\ asked' = asked \/ (asked = 0 /\ asked' = 1 /\ settled)
    /\ \A t \in Threads : Goes(t)
    /\ \A c \in Writers : PipeGoes(c)

(* Such a step changes nothing of the order of the run.                    *)
LEMMA ThreadGoesStage ==
    ASSUME GInv, Fine, ThreadGoes
    PROVE  Stage' /\ Depth' = Depth /\ Current' = Current /\ Up' = Up /\ Down' = Down
<1>1. /\ UNCHANGED <<phase, stack, quitNow, providers, files, settled>>
      /\ Depth' = Depth /\ Top' = Top
  BY DEF ThreadGoes, main, Depth, Top
<1>2. Current' = Current
  BY <1>1 DEF Current, CurrentOf
<1>3. Up' = Up
  BY <1>1 DEF Up, UpOf, CurrentOf
<1>4. /\ InitPosted' => InitPosted
      /\ ClosePosted' => ClosePosted \/ (asked = 0 /\ asked' = 1)
  BY DEF ThreadGoes, InitPosted, ClosePosted
<1>5. InitPosted => InitPosted'
  BY DEF ThreadGoes, InitPosted
<1>6. Closing' <=> Closing
  BY <1>1 DEF Closing
<1>7. ListOK(Top)' <=> ListOK(Top)
  BY <1>1 DEF ListOK
<1>8. Stage'
  <2>1. (Depth > 0 /\ stack[1].exit => quitNow)'
    BY <1>1, Zenon DEF Fine, Stage
  <2>2. /\ (asked = 0 => ~ClosePosted /\ ~Closing /\ ~quitNow)'
        /\ (ClosePosted => ~Closing /\ ~quitNow)'
        /\ (Closing => ~quitNow)'
        /\ (asked = 1 => settled)'
    BY <1>1, <1>4, <1>6 DEF Fine, Stage, ThreadGoes
  <2>3. Once(events', {"closeAllSlot"})
    BY DEF ThreadGoes
  <2>4. /\ (settled => ~InitPosted /\ (Depth = 2 => Closing) /\ phase # "launch")'
        /\ (phase = "ended" /\ settled => files = "closed")'
        /\ (InitPosted => Depth = 1)'
        /\ (Depth = 1 /\ ~settled => InitPosted)'
        /\ (Depth = 2 => ListOK(Top))'
    BY <1>1, <1>4, <1>5, <1>6, <1>7 DEF Fine, Stage
  <2>5. /\ phase' # "aborted" /\ Depth' <= 2
        /\ (quitNow <=> files = "closed")'
    BY <1>1 DEF Fine, Stage
  <2> QED
    BY <2>1, <2>2, <2>3, <2>4, <2>5 DEF Stage
<1> QED
  BY <1>1, <1>2, <1>3, <1>8 DEF Down

(* Such a step keeps the invariant.                                        *)
LEMMA ThreadGoesLives ==
    ASSUME GInv, Fine, ThreadGoes
    PROVE  Fine'
<1>1. Stage' /\ Depth' = Depth /\ Current' = Current /\ Up' = Up /\ Down' = Down
  BY ThreadGoesStage
<1>2. UNCHANGED <<stack, exited, settled>> /\ Top' = Top
  BY <1>1 DEF ThreadGoes, main, Top
<1>3. \A t : /\ IsPosted(<<"start", t>>)' => IsPosted(<<"start", t>>)
             /\ IsPosted(<<"quit", t>>)' => IsPosted(<<"quit", t>>)
  BY DEF ThreadGoes
<1>4. \A t \in Threads : Goes(t)
  BY DEF ThreadGoes
<1>5. Up \subseteq Threads /\ Current \subseteq Threads /\ Down \subseteq Threads
  BY SetsOfThreads
<1>6. \A t \in Up : Alive(t)'
  BY <1>1, <1>2, <1>3, <1>4, <1>5 DEF Fine, Lives, Alive, Goes
<1>7. \A t \in Down : Idle(t)'
  BY <1>1, <1>2, <1>3, <1>4, <1>5 DEF Fine, Lives, Idle, Goes
<1>8. \A t \in Current : Busy(t)'
  <2> SUFFICES ASSUME NEW t \in Current PROVE Busy(t)'
    OBVIOUS
  <2>1. t \in Threads /\ Goes(t) /\ Busy(t)
    BY <1>4, <1>5 DEF Fine, Lives
  <2>2. ASSUME Top.at = "starting" PROVE Starting(t)'
    <3>1. Starting(t)
      BY <2>1, <2>2 DEF Busy
    <3>2. thread[t] = "off" => ~Top.exit /\ ~IsPosted(<<"quitLoop", Depth>>) /\ thread'[t] = "off"
      BY <2>1, <3>1 DEF Starting, Goes
    <3>3. ASSUME thread[t] = "off" PROVE ~IsPosted(<<"quitLoop", Depth>>)'
      <4>1. Depth = 2 /\ t = Head(Top.todo) /\ Top = stack[Depth]
        BY DEF Current, CurrentOf, Top
      <4>2. <<"quitLoop", Depth>> # <<"closeAllSlot">>
        OBVIOUS
      <4> QED
        BY <1>1, <3>2, <3>3, <4>1, <4>2 DEF ThreadGoes
    <3>4. thread'[t] \in {"begun", "run", "loop"} \/ (thread[t] = "off" /\ thread'[t] = "off")
      BY <2>1, <3>1 DEF Starting, Goes
    <3> QED
      BY <1>1, <1>2, <1>3, <3>1, <3>2, <3>3, <3>4 DEF Starting
  <2>3. ASSUME Top.at = "ending" PROVE Ending(t)'
    <3>1. Ending(t)
      BY <2>1, <2>3 DEF Busy
    <3>2. IsPosted(<<"start", t>>) => thread[t] = "off"
      BY <2>1 DEF GInv, StartsOnce
    <3> QED
      BY <1>3, <2>1, <3>1, <3>2 DEF Ending, Running, Goes
  <2>4. ASSUME Top.at \in {"closing", "check", "connect"} PROVE Alive(t)'
    BY <1>2, <1>3, <2>1, <2>4 DEF Busy, Alive, Goes
  <2> QED
    BY <1>2, <2>2, <2>3, <2>4 DEF Busy
<1>9. /\ \A t \in Threads : thread'[t] = "off" => ~exited'[t] /\ ~IsPosted(<<"quit", t>>)'
      /\ \A t \in Threads : thread'[t] = "returned" => exited'[t]
      /\ settled' => \A c \in ConsumerSet : thread'[c] # "off"
  <2>1. \A t \in Threads : thread'[t] = "off" => thread[t] = "off"
    BY <1>4 DEF Goes
  <2>2. \A t \in Threads : thread'[t] = "returned" => exited[t]
    BY <1>4 DEF Fine, Lives, Goes
  <2>3. ConsumerSet \subseteq Threads
    BY ListsOfThreads
  <2> QED
    BY <1>2, <1>3, <2>1, <2>2, <2>3 DEF Fine, Lives
<1>10. Lives'
  BY <1>1, <1>6, <1>7, <1>8, <1>9 DEF Lives
<1>11. Pipes'
  <2> SUFFICES ASSUME NEW c \in Writers
               PROVE  /\ thread'[c] \in {"loop", "returned"} => pipe'[c] \in {"open", "error"}
                      /\ thread'[c] = "over" => pipe'[c] \in IF c \in Current THEN {"open", "error"}
                                                              ELSE {"closed", "error"}
    BY <1>1 DEF Pipes
  <2>1. c \in Threads /\ Goes(c) /\ PipeGoes(c)
    BY <1>4, ListsOfThreads, DaemonAssumption DEF ThreadGoes
  <2>2. /\ thread[c] \in {"loop", "returned"} => pipe[c] \in {"open", "error"}
        /\ thread[c] = "over" => pipe[c] \in IF c \in Current THEN {"open", "error"}
                                                              ELSE {"closed", "error"}
    BY DEF Fine, Pipes
  <2>3. thread[c] = "returned" => c \in Current
    <3>1. thread[c] = "returned" => ~Alive(c) /\ ~Idle(c)
      BY DEF Alive, Idle
    <3> QED
      BY <2>1, <3>1 DEF Fine, Lives, Down
  <2> QED
    BY <2>1, <2>2, <2>3 DEF Goes, PipeGoes
<1> QED
  BY <1>1, <1>10, <1>11 DEF Fine

(* The shutDown of an ordinary run is the first, and comes after the       *)
(* initialisation.                                                         *)
LEMMA AskedOnce ==
    ASSUME GInv, Fine, Ordinary', NEW hastily \in BOOLEAN, ShutDown(hastily)
    PROVE  /\ asked = 0 /\ asked' = 1 /\ settled /\ ~hastily
           /\ \A e : IsPosted(e)' <=> IsPosted(e) \/ e = <<"closeAllSlot">>
           /\ Once(events', {"closeAllSlot"})
<1>1. asked = 0 /\ asked' = 1
  <2>1. asked \in Nat /\ asked' = asked + 1 /\ asked' <= 1
    BY DaemonAssumption DEF GInv, VarsOK, ShutDown, Ordinary
  <2> QED
    BY <2>1
<1>2. settled /\ ~hastily
  BY DEF ShutDown, Ordinary
<1>3. events \in Seq(Event) /\ <<"closeAllSlot">> \in Event /\ Once(events, {"closeAllSlot"})
  BY DEF GInv, EventsOK, Event, Fine, Stage
<1>4. ~ClosePosted
  BY <1>1 DEF Fine, Stage
<1>5. events' = Append(events, <<"closeAllSlot">>)
  BY DEF ShutDown
<1> QED
  BY <1>1, <1>2, <1>3, <1>4, <1>5, InAppend DEF IsPosted, ClosePosted

(* What a thread emits comes to the loops that wait for it.                *)
LEMMA EmitsToItsLoops ==
    ASSUME GInv, Fine, NEW t, NEW signal, thread[t] # "off", events' = events \o Emitted(t, signal)
    PROVE  /\ \A e : IsPosted(e) => IsPosted(e)'
           /\ \A e : IsPosted(e)' =>
                 \/ IsPosted(e)
                 \/ \E n \in 1..Depth : e = <<"quitLoop", n>> /\ thread[Head(stack[n].todo)] # "off"
           /\ Once(events', {"closeAllSlot"})
<1>1. events \in Seq(Event) /\ Depth \in Nat /\ Once(events, {"closeAllSlot"})
  BY StackFacts DEF GInv, EventsOK, Fine, Stage
<1>2. /\ Emitted(t, signal) \in Seq(Event)
      /\ \A x : In(x, Emitted(t, signal)) =>
             \E n \in 1..Depth : x = <<"quitLoop", n>> /\ <<t, signal, n>> \in connected
  BY <1>1, EmittedEvents
<1>3. \A x : In(x, Emitted(t, signal)) => x[1] \notin {"closeAllSlot"}
  <2>1. \A n : <<"quitLoop", n>>[1] \notin {"closeAllSlot"}
    OBVIOUS
  <2> QED
    BY <1>2, <2>1
<1>4. /\ \A x : IsPosted(x)' <=> IsPosted(x) \/ In(x, Emitted(t, signal))
      /\ Once(events', {"closeAllSlot"})
  BY <1>1, <1>2, <1>3, InConcat DEF IsPosted
<1>5. \A n \in 1..Depth : <<t, signal, n>> \in connected => Head(stack[n].todo) = t
  BY DEF GInv, ConnectedOK
<1> QED
  BY <1>2, <1>4, <1>5

(* A step may post nothing.                                                *)
LEMMA PostsNothing ==
    ASSUME Fine, UNCHANGED events
    PROVE  (\A e : IsPosted(e)' <=> IsPosted(e)) /\ Once(events', {"closeAllSlot"})
BY DEF IsPosted, Fine, Stage

(* A thread that goes on does what Goes allows.                            *)
LEMMA BecomesGoes ==
    ASSUME GInv, NEW t \in Threads, NEW what \in {"run", "loop", "returned", "over"}, Become(t, what),
           \/ what = "run" /\ thread[t] = "begun"
           \/ what = "loop" /\ thread[t] = "run"
           \/ what = "returned" /\ thread[t] = "loop" /\ exited[t]
           \/ what = "over" /\ thread[t] = "returned",
           UNCHANGED pipe, what = "loop" => t \notin Writers
    PROVE  (\A u \in Threads : Goes(u)) /\ \A c \in Writers : PipeGoes(c)
<1>1. \A u \in Threads : thread'[u] = IF u = t THEN what ELSE thread[u]
  BY ThreadBecomes
<1>2. Writers \subseteq Threads
  BY DaemonAssumption, ListsOfThreads
<1> QED
  BY <1>1, <1>2 DEF Goes, PipeGoes

(* SIGINT keeps the invariant, if the run stays ordinary.                  *)
LEMMA SignalFine == ASSUME GInv, Fine, Ordinary', Signal PROVE Fine'
<1>1. ShutDown(FALSE) /\ UNCHANGED <<main, thread, exited, pipe>>
  BY DEF Signal
<1>2. ThreadGoes
  BY <1>1, AskedOnce DEF ThreadGoes, Goes, PipeGoes
<1> QED
  BY <1>2, ThreadGoesLives

(* So does a consumer that cannot write.                                   *)
LEMMA WriteFailsFine == ASSUME GInv, Fine, Ordinary', NEW c \in Writers, WriteFails(c) PROVE Fine'
<1>1. ShutDown(FALSE) /\ UNCHANGED <<main, thread, exited, pipe>>
  BY DEF WriteFails
<1>2. ThreadGoes
  BY <1>1, AskedOnce DEF ThreadGoes, Goes, PipeGoes
<1> QED
  BY <1>2, ThreadGoesLives

(* So does a thread that begins or ends.                                   *)
LEMMA ThreadStepFine == ASSUME GInv, Fine, NEW t \in Threads, ThreadStep(t) PROVE Fine'
<1>1. UNCHANGED <<main, exited, pipe>> /\ UNCHANGED asked
  BY DEF ThreadStep, ThreadBegins, LoopOfThreadEnds, ThreadFinishes, history
<1>2. (\A u \in Threads : Goes(u)) /\ \A c \in Writers : PipeGoes(c)
  BY BecomesGoes DEF ThreadStep, ThreadBegins, LoopOfThreadEnds, ThreadFinishes, Does
<1>3. /\ \A e : IsPosted(e) => IsPosted(e)'
      /\ \A e : IsPosted(e)' =>
                 \/ IsPosted(e)
                 \/ \E n \in 1..Depth : e = <<"quitLoop", n>> /\ thread[Head(stack[n].todo)] # "off"
      /\ Once(events', {"closeAllSlot"})
  <2>1. CASE UNCHANGED events
    BY <2>1, PostsNothing
  <2>2. thread[t] # "off"
    BY DEF ThreadStep, ThreadBegins, LoopOfThreadEnds, ThreadFinishes, Does
  <2>3. CASE events' = events \o Emitted(t, "started")
    BY <2>2, <2>3, EmitsToItsLoops
  <2>4. CASE events' = events \o Emitted(t, "finished")
    BY <2>2, <2>4, EmitsToItsLoops
  <2> QED
    BY <2>1, <2>3, <2>4 DEF ThreadStep, ThreadBegins, LoopOfThreadEnds, ThreadFinishes
<1>4. ThreadGoes
  BY <1>1, <1>2, <1>3 DEF ThreadGoes
<1> QED
  BY <1>4, ThreadGoesLives

(* So does a provider. It cannot fail to listen, for such a shutDown is    *)
(* not ordinary.                                                           *)
LEMMA ProviderFine ==
    ASSUME GInv, Fine, Ordinary', NEW p \in ProviderSet,
           ProviderStep(p) \/ ListenFails(p) \/ SessionStarts(p) \/ LastSessionFinished(p)
    PROVE  Fine'
<1>1. p \in Threads /\ p \notin Writers
  BY ListsOfThreads, DaemonAssumption
<1>2. ~ListenFails(p)
  <2>1. ListenFails(p) => ShutDown(TRUE)
    BY DEF ListenFails
  <2> QED
    BY <2>1, AskedOnce
<1>3. UNCHANGED <<main, exited, pipe>> /\ UNCHANGED asked
  BY <1>2 DEF ProviderStep, Listen, CloseManager, SessionStarts, LastSessionFinished, history
<1>4. (\A u \in Threads : Goes(u)) /\ \A c \in Writers : PipeGoes(c)
  <2>1. CASE UNCHANGED thread
    BY <1>3, <2>1 DEF Goes, PipeGoes
  <2>2. CASE Listen(p)
    BY <1>1, <1>3, <2>2, BecomesGoes DEF Listen, Does
  <2> QED
    BY <1>2, <2>1, <2>2 DEF ProviderStep, CloseManager, SessionStarts, LastSessionFinished
<1>5. /\ \A e : IsPosted(e) => IsPosted(e)'
      /\ \A e : IsPosted(e)' =>
                 \/ IsPosted(e)
                 \/ \E n \in 1..Depth : e = <<"quitLoop", n>> /\ thread[Head(stack[n].todo)] # "off"
      /\ Once(events', {"closeAllSlot"})
  <2>1. CASE UNCHANGED events
    BY <2>1, PostsNothing
  <2>2. CASE events' = events \o Emitted(p, "closed") /\ thread[p] # "off"
    BY <2>2, EmitsToItsLoops
  <2> QED
    BY <1>2, <2>1, <2>2
       DEF ProviderStep, Listen, CloseManager, SessionStarts, LastSessionFinished, Does
<1>6. ThreadGoes
  BY <1>3, <1>4, <1>5 DEF ThreadGoes
<1> QED
  BY <1>6, ThreadGoesLives

(* So does a consumer that prints.                                         *)
LEMMA PrinterFine == ASSUME GInv, Fine, NEW c \in ConsumerSet, PrinterStarts(c) PROVE Fine'
<1>1. c \in Threads /\ c \notin Writers /\ Become(c, "loop") /\ thread[c] = "run"
  BY ListsOfThreads DEF PrinterStarts, Does
<1>2. UNCHANGED <<main, exited, pipe, events, asked>>
  BY DEF PrinterStarts, history
<1>3. (\A u \in Threads : Goes(u)) /\ \A x \in Writers : PipeGoes(x)
  BY <1>1, <1>2, BecomesGoes
<1>4. ThreadGoes
  BY <1>2, <1>3, PostsNothing DEF ThreadGoes
<1> QED
  BY <1>4, ThreadGoesLives

(* So does one that opens a pipe, or cannot.                               *)
LEMMA PipeFine == ASSUME GInv, Fine, Ordinary', NEW c \in Writers, OpenPipe(c) \/ OpenFails(c) PROVE Fine'
<1>1. c \in Threads /\ Become(c, "loop") /\ thread[c] = "run"
  BY ListsOfThreads, DaemonAssumption DEF OpenPipe, OpenFails, Does
<1>2. PICK outcome \in {"open", "error"} : pipe' = [pipe EXCEPT ![c] = outcome]
  BY DEF OpenPipe, OpenFails
<1>3. UNCHANGED <<main, exited>>
  BY DEF OpenPipe, OpenFails
<1>4. \A u \in Threads : thread'[u] = IF u = c THEN "loop" ELSE thread[u]
  BY <1>1, ThreadBecomes
<1>5. pipe \in [Writers -> {"unset", "open", "error", "closed", "foreign"}] /\ Writers \subseteq Threads
  BY ListsOfThreads, DaemonAssumption DEF GInv, VarsOK
<1>6. (\A u \in Threads : Goes(u)) /\ \A x \in Writers : PipeGoes(x)
  BY <1>1, <1>2, <1>4, <1>5 DEF Goes, PipeGoes
<1>7. CASE OpenPipe(c)
  <2>1. UNCHANGED <<events, asked>>
    BY <1>7 DEF OpenPipe, history
  <2>2. ThreadGoes
    BY <1>3, <1>6, <2>1, PostsNothing DEF ThreadGoes
  <2> QED
    BY <2>2, ThreadGoesLives
<1>8. CASE OpenFails(c)
  <2>1. ShutDown(FALSE)
    BY <1>8 DEF OpenFails
  <2>2. ThreadGoes
    BY <1>3, <1>6, <2>1, AskedOnce DEF ThreadGoes
  <2> QED
    BY <2>2, ThreadGoesLives
<1> QED
  BY <1>7, <1>8

-----------------------------------------------------------------------------
(* The call goes on                                                        *)

(* Within a call the program does not exit yet, and only closeAllSlot      *)
(* comes after the initialisation.                                         *)
LEMMA InTheCall ==
    ASSUME GInv, Fine, Ordinary, phase = "running", Top.fn # "exec"
    PROVE  Depth = 2 /\ ~quitNow /\ (~settled => asked = 0) /\ (settled <=> Closing) /\ files = "open"
<1>1. Depth = 2
  BY StackFacts DEF GInv, Fine, Stage
<1>2. ~settled => asked = 0
  BY DaemonAssumption DEF GInv, VarsOK, Ordinary, Fine, Stage
<1>3. Closing => settled
  BY <1>2 DEF Fine, Stage
<1>4. ~quitNow
  BY <1>1, <1>2 DEF Fine, Stage
<1>5. files = "open"
  BY <1>4 DEF GInv, VarsOK, Fine, Stage
<1> QED
  BY <1>1, <1>2, <1>3, <1>4, <1>5 DEF Fine, Stage

(* The call on top becomes f.                                              *)
CallBecomes(f) ==
    /\ phase = "running" /\ Top.fn # "exec"
    /\ IsFrame(f) /\ f.fn # "exec" /\ (f.fn = "closeAllSlot" <=> Top.fn = "closeAllSlot") /\ ListOK(f)
    /\ stack' = [stack EXCEPT ![Depth] = f]
    /\ UNCHANGED <<phase, quitNow, providers, files, settled, thread, exited, asked>>
    /\ UNCHANGED events \/ \E e \in Orders : events' = Append(events, e)

(* The call stays in the order of the run.                                 *)
LEMMA TopStage ==
    ASSUME GInv, Fine, Ordinary, NEW f, CallBecomes(f)
    PROVE  /\ Stage' /\ Depth = 2 /\ Depth' = 2 /\ Top' = f /\ ~quitNow
           /\ Current = CurrentOf(Top) /\ Current' = CurrentOf(f)
           /\ Up = UpOf(Top) /\ Up' = UpOf(f)
           /\ UNCHANGED <<thread, exited, providers, settled>>
<1>1. Depth = 2 /\ ~quitNow /\ files = "open" /\ phase = "running"
  BY InTheCall DEF CallBecomes
<1>2. /\ Depth' = 2 /\ Top' = f
      /\ \A n \in 1..Depth : stack'[n] = IF n = Depth THEN f ELSE stack[n]
  BY <1>1, TopReplaced DEF GInv, CallBecomes
<1>3. Current = CurrentOf(Top) /\ Up = UpOf(Top)
  BY <1>1, CallFacts
<1>4. UNCHANGED <<phase, thread, exited, providers, quitNow, files, settled, asked>>
  BY DEF CallBecomes
<1>5. Current' = CurrentOf(f) /\ Up' = UpOf(f)
  BY <1>2, <1>4 DEF Current, Up, CurrentOf, UpOf
<1>6. /\ events \in Seq(Event) /\ Once(events, {"closeAllSlot"})
      /\ \A e \in Orders : e \in Event /\ e # <<"closeAllSlot">> /\ e # <<"initDataConsumers">>
                           /\ e[1] # "closeAllSlot"
  BY DEF GInv, EventsOK, Fine, Stage, Orders, Event
<1>7. /\ Once(events', {"closeAllSlot"})
      /\ ClosePosted' <=> ClosePosted
      /\ InitPosted' <=> InitPosted
  <2>1. CASE UNCHANGED events
    BY <1>6, <2>1 DEF ClosePosted, InitPosted, IsPosted
  <2>2. ASSUME NEW e \in Orders, events' = Append(events, e)
        PROVE  Once(events', {"closeAllSlot"}) /\ \A x : IsPosted(x)' <=> IsPosted(x) \/ x = e
    BY <1>6, <2>2, InAppend DEF IsPosted
  <2> QED
    BY <1>6, <2>1, <2>2 DEF CallBecomes, ClosePosted, InitPosted
<1>8. Closing' <=> Closing
  BY <1>1, <1>2 DEF Closing, CallBecomes
<1>9. ListOK(Top)'
  BY <1>2, <1>4 DEF ListOK, CallBecomes
<1>10. Stage'
  <2>1. (Depth > 0 /\ stack[1].exit => quitNow)'
    <3>1. stack'[1] = stack[1]
      BY <1>1, <1>2
    <3>2. Depth > 0 /\ Depth' > 0
      BY <1>1, <1>2
    <3> QED
      BY <1>4, <3>1, <3>2, Zenon DEF Fine, Stage
  <2>2. /\ (asked = 0 => ~ClosePosted /\ ~Closing /\ ~quitNow)'
        /\ (ClosePosted => ~Closing /\ ~quitNow)'
        /\ (Closing => ~quitNow)'
        /\ (asked = 1 => settled)'
    BY <1>4, <1>7, <1>8 DEF Fine, Stage
  <2>3. /\ (settled => ~InitPosted /\ (Depth = 2 => Closing) /\ phase # "launch")'
        /\ (phase = "ended" /\ settled => files = "closed")'
        /\ (InitPosted => Depth = 1)'
        /\ (Depth = 1 /\ ~settled => InitPosted)'
        /\ (Depth = 2 => ListOK(Top))'
    BY <1>1, <1>2, <1>4, <1>7, <1>8, <1>9 DEF Fine, Stage
  <2>4. /\ phase' # "aborted" /\ Depth' <= 2
        /\ (quitNow <=> files = "closed")'
    BY <1>1, <1>2, <1>4 DEF Fine, Stage
  <2> QED
    BY <1>7, <2>1, <2>2, <2>3, <2>4 DEF Stage
<1> QED
  BY <1>1, <1>2, <1>3, <1>4, <1>5, <1>10

(* What the main thread posts goes to the thread it is busy with.          *)
LEMMA TopLives ==
    ASSUME GInv, GInv', Fine, UNCHANGED <<thread, exited, settled>>,
           \/ UNCHANGED events
           \/ \E t \in Threads : \E kind \in {"start", "quit"} :
                 /\ events' = Append(events, <<kind, t>>)
                 /\ t \in Current' /\ t \notin Up'
                 /\ kind = "quit" => thread[t] # "off",
           \A u \in Up' : u \in Up \/ Alive(u),
           \A u \in Down' : u \in Down \/ Idle(u),
           \A u \in Current' : Busy(u)'
    PROVE  Lives'
<1>1. \A t \in Threads :
         /\ IsPosted(<<"start", t>>)' => IsPosted(<<"start", t>>) \/ t \in Current'
         /\ IsPosted(<<"quit", t>>)' =>
               IsPosted(<<"quit", t>>) \/ (t \in Current' /\ t \notin Up' /\ thread[t] # "off")
  <2>1. CASE UNCHANGED events
    BY <2>1 DEF IsPosted
  <2>2. ASSUME NEW t \in Threads, NEW kind \in {"start", "quit"}, events' = Append(events, <<kind, t>>)
        PROVE  \A e : IsPosted(e)' <=> IsPosted(e) \/ e = <<kind, t>>
    <3>1. events \in Seq(Event) /\ <<kind, t>> \in Event
      BY <2>2 DEF GInv, EventsOK, Event
    <3> QED
      BY <2>2, <3>1, InAppend DEF IsPosted
  <2> QED
    BY <2>1, <2>2
<1>2. Up' \subseteq Threads /\ Down' \subseteq Threads /\ \A t \in Down' : t \notin Current'
  <2>1. Up' \subseteq Threads
    BY UpStaysInThreads
  <2> QED
    BY <2>1 DEF Down
<1> QED
  BY <1>1, <1>2 DEF Fine, Lives, Alive, Idle

(* No pipe changes.                                                        *)
LEMMA TopPipes ==
    ASSUME Fine, UNCHANGED <<thread, pipe>>,
           \A c \in Writers : thread[c] = "over" => (c \in Current' <=> c \in Current)
    PROVE  Pipes'
BY DEF Fine, Pipes

(* The start of a thread keeps the invariant.                              *)
LEMMA StartThreadFine == ASSUME GInv, GInv', Fine, Ordinary, StartThread PROVE Fine'
<1>0. PICK t : t = Head(Top.todo)
  OBVIOUS
<1>1. /\ At({"next"}) /\ Top.fn \in Inits /\ Top.todo # <<>>
      /\ events' = Append(events, <<"start", t>>)
      /\ quitNow \/ Wait("starting", {<<t, "started", Depth>>, <<t, "finished", Depth>>})
      /\ UNCHANGED <<phase, quitNow, providers, files, settled, thread, exited, pipe, asked>>
  BY <1>0 DEF StartThread, Working, Inits, history
<1>2. phase = "running" /\ Top.at = "next" /\ Top.fn # "exec" /\ IsFrame(Top) /\ t \in Threads
      /\ Top = stack[Depth] /\ Top.todo \in Seq(Threads)
  BY <1>0, <1>1, TopFacts DEF Inits
<1>3. Depth = 2 /\ ~quitNow
  BY <1>2, InTheCall
<1>4. Wait("starting", {<<t, "started", Depth>>, <<t, "finished", Depth>>})
  BY <1>1, <1>3
<1>5. PICK f : /\ stack' = [stack EXCEPT ![Depth] = f]
               /\ f \in Frame /\ f.fn = Top.fn /\ f.at = "starting" /\ f.todo = Top.todo /\ ~f.exit
  BY <1>2, <1>4, WaitIs DEF Loops
<1>6. ListOK(f)
  BY <1>3, <1>5 DEF Fine, Stage, ListOK
<1>7. CallBecomes(f)
  <2>1. IsFrame(f) /\ f.fn # "exec"
    BY <1>1, <1>2, <1>5 DEF IsFrame
  <2>2. <<"start", t>> \in Orders
    BY <1>2 DEF Orders
  <2> QED
    BY <1>1, <1>2, <1>5, <1>6, <2>1, <2>2 DEF CallBecomes
<1>8. /\ Stage' /\ Depth' = 2 /\ Top' = f
      /\ Current = CurrentOf(Top) /\ Current' = CurrentOf(f)
      /\ Up = UpOf(Top) /\ Up' = UpOf(f)
      /\ UNCHANGED <<thread, exited, providers, settled>>
  BY <1>7, TopStage
<1>9. Current = {} /\ Current' = {t} /\ Up' = Up
  BY <1>0, <1>1, <1>2, <1>5, <1>8 DEF CurrentOf, UpOf, Inits
<1>10. t \in ToSet(Top.todo) /\ t \notin Up
  BY <1>0, <1>1, <1>2, <1>8, HeadOf DEF UpOf, Inits
<1>11. Unstarted(t)
  <2>1. StartsWell(Top)
    BY <1>1, <1>2, TopStartsWell
  <2> QED
    BY <1>2, <1>10, <2>1 DEF StartsWell, Pending
<1>12. \A e : IsPosted(e)' <=> IsPosted(e) \/ e = <<"start", t>>
  <2>1. events \in Seq(Event) /\ <<"start", t>> \in Event
    BY <1>2 DEF GInv, EventsOK, Event
  <2> QED
    BY <1>1, <2>1, InAppend DEF IsPosted
<1>13. Starting(t)'
  <2>1. thread'[t] = "off" /\ ~exited'[t] /\ ~IsPosted(<<"quit", t>>)'
    BY <1>2, <1>8, <1>11, <1>12 DEF Unstarted, Fine, Lives
  <2>2. ~IsPosted(<<"quitLoop", 2>>)'
    BY <1>2, <1>3, <1>12 DEF GInv, EventsOK, Loops
  <2> QED
    BY <1>5, <1>8, <2>1, <2>2 DEF Starting
<1>14. \A u \in Current' : Busy(u)'
  BY <1>5, <1>8, <1>9, <1>13 DEF Busy
<1>15. Down' \subseteq Down
  BY <1>9 DEF Down
<1>16. Lives'
  <2>1. \A u \in Up' : u \in Up
    BY <1>9
  <2>2. \A u \in Down' : u \in Down
    BY <1>15
  <2>3. t \in Current' /\ t \notin Up' /\ "start" \in {"start", "quit"} /\ "start" # "quit"
    BY <1>9, <1>10
  <2> QED
    BY <1>1, <1>2, <1>8, <1>14, <2>1, <2>2, <2>3, TopLives
<1>17. Pipes'
  BY <1>1, <1>9, <1>11, TopPipes DEF Unstarted
<1> QED
  BY <1>8, <1>16, <1>17 DEF Fine

(* The empty list has no member.                                           *)
LEMMA NoneOf == ToSet(<<>>) = {}
BY DEF ToSet

(* The change from the consumers to the providers keeps it.                *)
LEMMA ConsumersReadyFine == ASSUME GInv, GInv', Fine, Ordinary, ConsumersReady PROVE Fine'
<1>0. PICK f : f = Call("initDataProviders", providers)
  OBVIOUS
<1>1. /\ At({"next"}) /\ Top.fn = "initDataConsumers" /\ Top.todo = <<>>
      /\ stack' = [stack EXCEPT ![Depth] = f]
      /\ UNCHANGED <<phase, quitNow, providers, files, settled, events, thread, exited, pipe, asked>>
  BY <1>0 DEF ConsumersReady, Working, history
<1>2. phase = "running" /\ Top.at = "next" /\ Top.fn # "exec"
  BY <1>1, TopFacts
<1>3. f \in Frame /\ f.fn = "initDataProviders" /\ f.at = "next" /\ f.todo = providers
  BY <1>0, ProvidersListed DEF Call, Frame, Calls, Places
<1>4. CallBecomes(f)
  <2>1. IsFrame(f)
    BY <1>3 DEF IsFrame
  <2>2. ListOK(f)
    BY <1>3, ProvidersListed, WholeIsSuffix DEF ListOK
  <2> QED
    BY <1>1, <1>2, <1>3, <2>1, <2>2 DEF CallBecomes
<1>5. /\ Stage' /\ Depth' = 2 /\ Top' = f
      /\ Current = CurrentOf(Top) /\ Current' = CurrentOf(f)
      /\ Up = UpOf(Top) /\ Up' = UpOf(f)
      /\ UNCHANGED <<thread, exited, providers, settled>>
  BY <1>4, TopStage
<1>6. Current = {} /\ Current' = {}
  BY <1>2, <1>3, <1>5 DEF CurrentOf
<1>7. Up' = Up
  <2>1. Up = ConsumerSet
    BY <1>1, <1>5, NoneOf DEF UpOf
  <2>2. Up' = (ConsumerSet \cup ToSet(providers)) \ ToSet(providers)
    BY <1>3, <1>5 DEF UpOf
  <2> QED
    BY <2>1, <2>2, ProvidersListed, ListsOfThreads
<1>8. Down' = Down
  BY <1>6, <1>7 DEF Down
<1>9. Lives'
  BY <1>1, <1>5, <1>6, <1>7, <1>8, TopLives
<1>10. Pipes'
  BY <1>1, <1>6, TopPipes
<1> QED
  BY <1>5, <1>9, <1>10 DEF Fine

(* A list is what is left of it and what was done.                         *)
LEMMA DoneBefore ==
    ASSUME NEW T, NEW t \in Seq(T), IsInjective(t), NEW s, Suffix(s, t)
    PROVE  LET d == SubSeq(t, 1, Len(t) - Len(s))
           IN  d \in Seq(T) /\ IsInjective(d) /\ ToSet(d) = ToSet(t) \ ToSet(s)
<1> DEFINE d == SubSeq(t, 1, Len(t) - Len(s))
<1>1. PICK k \in 1..(Len(t) + 1) : s = SubSeq(t, k, Len(t))
  BY DEF Suffix
<1>2. /\ s \in Seq(T) /\ Len(s) = Len(t) - k + 1 /\ Len(t) \in Nat
      /\ \A i \in 1..Len(s) : s[i] = t[k + i - 1]
  BY <1>1
<1>3. /\ d \in Seq(T) /\ Len(d) = k - 1 /\ \A i \in 1..Len(d) : d[i] = t[i]
      /\ DOMAIN d = 1..Len(d) /\ DOMAIN t = 1..Len(t)
  <2>1. Len(t) - Len(s) = k - 1 /\ k - 1 \in 0..Len(t)
    BY <1>2
  <2> QED
    BY <1>2, <2>1
<1> HIDE DEF d
<1>4. \A i, j \in 1..Len(t) : t[i] = t[j] => i = j
  BY <1>3 DEF IsInjective
<1>5. IsInjective(d)
  <2>1. \A i \in 1..Len(d) : i \in 1..Len(t)
    BY <1>2, <1>3
  <2> QED
    BY <1>3, <1>4, <2>1 DEF IsInjective
<1>6. /\ ToSet(d) = {d[i] : i \in 1..Len(d)} /\ ToSet(t) = {t[i] : i \in 1..Len(t)}
      /\ ToSet(s) = {s[i] : i \in 1..Len(s)}
  BY <1>2, <1>3, SetOf
<1>7. ASSUME NEW x \in ToSet(d) PROVE x \in ToSet(t) /\ x \notin ToSet(s)
  <2>1. PICK i \in 1..(k - 1) : x = t[i] /\ i \in 1..Len(t)
    BY <1>2, <1>3, <1>6
  <2>2. ASSUME NEW j \in 1..Len(s), s[j] = x PROVE FALSE
    <3>1. k + j - 1 \in 1..Len(t) /\ t[k + j - 1] = t[i]
      BY <1>2, <2>1, <2>2
    <3>2. k + j - 1 = i
      BY <1>4, <2>1, <3>1
    <3> QED
      BY <1>2, <3>2
  <2> QED
    BY <1>6, <2>1, <2>2
<1>8. ASSUME NEW x \in ToSet(t), x \notin ToSet(s) PROVE x \in ToSet(d)
  <2>1. PICK i \in 1..Len(t) : x = t[i]
    BY <1>6
  <2>2. i < k
    <3> SUFFICES ASSUME i >= k PROVE FALSE
      BY <2>1
    <3>1. i - k + 1 \in 1..Len(s) /\ s[i - k + 1] = t[i]
      BY <1>2, <2>1
    <3> QED
      BY <1>6, <1>8, <2>1, <3>1
  <2>3. i \in 1..Len(d) /\ d[i] = x
    BY <1>3, <2>1, <2>2
  <2> QED
    BY <1>6, <2>3
<1> QED
  BY <1>3, <1>5, <1>7, <1>8 DEF d

(* The retreat from wrong options keeps it: the providers that it goes     *)
(* through are those that were started.                                    *)
LEMMA WrongOptionsFine == ASSUME GInv, GInv', Fine, Ordinary, WrongOptions PROVE Fine'
<1>0. PICK done : done = SubSeq(Providers, 1, Len(Providers) - Len(Top.todo))
  OBVIOUS
<1>1. /\ At({"next"}) /\ Top.fn = "initDataProviders" /\ Top.todo # <<>>
      /\ UNCHANGED <<phase, quitNow, providers, files, settled, events, thread, exited, pipe, asked>>
  BY DEF WrongOptions, Working, history
<1>2. phase = "running" /\ Top.at = "next" /\ Top.fn # "exec" /\ Top \in Frame /\ Top = stack[Depth]
      /\ Depth \in 1..Depth /\ DOMAIN stack = 1..Depth
  BY <1>1, TopFacts, StackFacts DEF GInv
<1>3. Depth = 2
  BY <1>2, InTheCall
<1>4. Suffix(Top.todo, providers)
  BY <1>1, <1>3 DEF Fine, Stage, ListOK
<1>5. providers = Providers
  <2> SUFFICES ASSUME providers = <<>> PROVE FALSE
    BY DEF GInv, VarsOK
  <2>1. Len(Top.todo) = 0 /\ Top.todo \in Seq(ProviderSet)
    <3>1. PICK k \in 1..(Len(providers) + 1) : Top.todo = SubSeq(providers, k, Len(providers))
      BY <1>4 DEF Suffix
    <3>2. providers \in Seq(ProviderSet) /\ Len(providers) = 0
      BY ProvidersListed
    <3>3. k = 1
      BY <3>1, <3>2
    <3> QED
      BY <3>1, <3>2, <3>3
  <2> QED
    BY <1>1, <2>1
<1>6. done \in Seq(ProviderSet) /\ IsInjective(done) /\ ToSet(done) = ProviderSet \ ToSet(Top.todo)
  BY <1>0, <1>4, <1>5, DoneBefore, ListsOfThreads
<1>7. ToSet(Top.todo) \subseteq ProviderSet
  BY <1>4, <1>5, ListsOfThreads, SuffixFacts
<1>8. PICK f : f = [Top EXCEPT !.fn = "undoProviders", !.todo = done]
  OBVIOUS
<1>9. stack' = [stack EXCEPT ![Depth] = f]
  BY <1>0, <1>2, <1>8 DEF WrongOptions
<1>10. f \in Frame /\ f.fn = "undoProviders" /\ f.at = "next" /\ f.todo = done
  <2>1. done \in Seq(Threads)
    BY <1>6, ListsOfThreads
  <2> QED
    BY <1>2, <1>8, <2>1 DEF Frame, Calls
<1>11. CallBecomes(f)
  <2>1. IsFrame(f)
    BY <1>10 DEF IsFrame
  <2>2. ListOK(f)
    BY <1>6, <1>10 DEF ListOK
  <2> QED
    BY <1>1, <1>2, <1>9, <1>10, <2>1, <2>2 DEF CallBecomes
<1>12. /\ Stage' /\ Depth' = 2 /\ Top' = f
      /\ Current = CurrentOf(Top) /\ Current' = CurrentOf(f)
      /\ Up = UpOf(Top) /\ Up' = UpOf(f)
      /\ UNCHANGED <<thread, exited, providers, settled>>
  BY <1>11, TopStage
<1>13. Current = {} /\ Current' = {} /\ CurrentOf(f) = {}
  BY <1>2, <1>10, <1>12 DEF CurrentOf
<1>14. Up' = Up
  <2>1. Up = (ConsumerSet \cup ProviderSet) \ ToSet(Top.todo)
    BY <1>1, <1>5, <1>12, ListsOfThreads DEF UpOf
  <2>2. Up' = ConsumerSet \cup ToSet(done)
    BY <1>10, <1>12, <1>13 DEF UpOf
  <2> QED
    BY <1>6, <1>7, <2>1, <2>2, ListsOfThreads
<1>15. Down' = Down
  BY <1>13, <1>14 DEF Down
<1>16. Lives'
  BY <1>1, <1>12, <1>13, <1>14, <1>15, TopLives
<1>17. Pipes'
  BY <1>1, <1>13, TopPipes
<1> QED
  BY <1>12, <1>16, <1>17 DEF Fine

-----------------------------------------------------------------------------
(* The calls that close                                                    *)

(* The call stays with the thread at the head of its list, or comes to it. *)
SameList(f) == f.fn = Top.fn /\ f.todo = Top.todo

(* The list of a call stays what it is.                                    *)
LEMMA ListOfTop == ASSUME GInv, Fine, Depth = 2, NEW f, SameList(f) PROVE ListOK(f)
BY DEF Fine, Stage, ListOK, SameList

(* The close of a thread that works begins.                                *)
LEMMA CloserBegins ==
    ASSUME GInv, GInv', Fine, Ordinary, NEW f, CallBecomes(f), SameList(f),
           Top.fn \in Closers, Top.todo # <<>>, Top.at = "next", f.at \in {"closing", "check"},
           UNCHANGED <<events, pipe>>
    PROVE  Fine'
<1>0. PICK t : t = Head(Top.todo)
  OBVIOUS
<1>1. /\ Stage' /\ Depth = 2 /\ Depth' = 2 /\ Top' = f
      /\ Current = CurrentOf(Top) /\ Current' = CurrentOf(f)
      /\ Up = UpOf(Top) /\ Up' = UpOf(f)
      /\ UNCHANGED <<thread, exited, providers, settled>>
  BY TopStage
<1>2. /\ Top.todo \in Seq(Threads) /\ t \in ToSet(Top.todo) /\ t \in Threads
      /\ Top.fn = "undoProviders" => ToSet(Top.todo) \subseteq ProviderSet
      /\ ProviderSet \cap ConsumerSet = {}
  BY <1>0, <1>1, CallFacts, HeadOf, ListsOfThreads DEF Fine, Stage, ListOK
<1>3. Current = {} /\ Current' = {t} /\ CurrentOf(f) = {t} /\ CurrentOf(Top) = {}
  BY <1>0, <1>1 DEF CurrentOf, SameList
<1>4. Up' = Up \ {t} /\ t \in Up
  BY <1>1, <1>2, <1>3 DEF UpOf, SameList, Closers
<1>5. Alive(t)
  BY <1>4 DEF Fine, Lives
<1>6. \A u \in Current' : Busy(u)'
  <2>1. Alive(t)'
    BY <1>1, <1>5 DEF Alive, IsPosted
  <2> QED
    BY <1>1, <1>3, <2>1 DEF Busy
<1>7. Down' = Down
  BY <1>3, <1>4 DEF Down
<1>8. Lives'
  BY <1>1, <1>4, <1>6, <1>7, TopLives
<1>9. Pipes'
  <2>1. thread[t] # "over"
    BY <1>5 DEF Alive
  <2> QED
    BY <1>1, <1>3, <2>1, TopPipes
<1> QED
  BY <1>1, <1>8, <1>9 DEF Fine

(* The close goes on, with a thread that still works.                      *)
LEMMA CloserGoesOn ==
    ASSUME GInv, GInv', Fine, Ordinary, NEW f, CallBecomes(f), SameList(f),
           Top.fn \in Closers, Top.at \in {"closing", "check", "connect"},
           f.at \in {"check", "connect", "ending"}, UNCHANGED pipe,
           \/ UNCHANGED events
           \/ f.at = "ending" /\ events' = Append(events, <<"quit", Head(Top.todo)>>)
    PROVE  Fine'
<1>0. PICK t : t = Head(Top.todo)
  OBVIOUS
<1>1. /\ Stage' /\ Depth = 2 /\ Depth' = 2 /\ Top' = f
      /\ Current = CurrentOf(Top) /\ Current' = CurrentOf(f)
      /\ Up = UpOf(Top) /\ Up' = UpOf(f)
      /\ UNCHANGED <<thread, exited, providers, settled>>
  BY TopStage
<1>2. t \in Threads
  BY <1>0, <1>1, CallFacts
<1>3. Current = {t} /\ Current' = {t} /\ CurrentOf(f) = {t} /\ CurrentOf(Top) = {t}
  BY <1>0, <1>1 DEF CurrentOf, SameList
<1>4. Up' = Up
  BY <1>1, <1>3 DEF UpOf, SameList, Closers
<1>5. t \notin Up'
  <2>1. Top.fn = "undoProviders" => t \in ProviderSet
    BY <1>0, <1>1, CallFacts, HeadOf DEF Fine, Stage, ListOK
  <2> QED
    BY <1>1, <1>3, <1>4, <2>1, ListsOfThreads DEF UpOf, Closers
<1>6. Alive(t)
  BY <1>3 DEF Fine, Lives, Busy
<1>7. \A u \in Current' : Busy(u)'
  <2>1. CASE UNCHANGED events
    <3>1. Alive(t)' /\ Running(t)'
      BY <1>1, <1>6, <2>1 DEF Alive, IsPosted, Running
    <3> QED
      BY <1>1, <1>3, <3>1 DEF Busy, Ending
  <2>2. CASE f.at = "ending"
    <3>1. Running(t)'
      BY <1>1, <1>6 DEF Alive, Running
    <3> QED
      BY <1>1, <1>3, <2>2, <3>1 DEF Busy, Ending
  <2> QED
    BY <2>1, <2>2
<1>8. Down' = Down
  BY <1>3, <1>4 DEF Down
<1>9. Lives'
  <2>1. \/ UNCHANGED events
        \/ events' = Append(events, <<"quit", t>>) /\ t \in Current' /\ t \notin Up' /\ thread[t] # "off"
    BY <1>0, <1>3, <1>5, <1>6 DEF Alive
  <2>2. \/ UNCHANGED events
        \/ \E u \in Threads : \E kind \in {"start", "quit"} :
                 /\ events' = Append(events, <<kind, u>>)
                 /\ u \in Current' /\ u \notin Up'
                 /\ kind = "quit" => thread[u] # "off"
    BY <1>2, <2>1
  <2> QED
    BY <1>1, <1>4, <1>7, <1>8, <2>2, TopLives
<1>10. Pipes'
  BY <1>1, <1>3, TopPipes
<1> QED
  BY <1>1, <1>9, <1>10 DEF Fine

(* The close ends when its thread is over, and its pipe is closed.         *)
LEMMA CloserReturns ==
    ASSUME GInv, GInv', Fine, Ordinary, NEW f, CallBecomes(f),
           f.fn = Top.fn, f.todo = Tail(Top.todo), f.at = "next",
           Top.fn \in Closers, Top.at = "ending", Closed,
           thread[Head(Top.todo)] = "over", events = <<>>, UNCHANGED events
    PROVE  Fine'
<1>0. PICK t : t = Head(Top.todo)
  OBVIOUS
<1>1. /\ Stage' /\ Depth = 2 /\ Depth' = 2 /\ Top' = f
      /\ Current = CurrentOf(Top) /\ Current' = CurrentOf(f)
      /\ Up = UpOf(Top) /\ Up' = UpOf(f)
      /\ UNCHANGED <<thread, exited, providers, settled>>
  BY TopStage
<1>2. /\ Top.todo \in Seq(Threads) /\ Top.todo # <<>> /\ t \in Threads
      /\ IsInjective(Top.todo)
  <2>1. Top.todo \in Seq(Threads) /\ Top.todo # <<>> /\ t \in Threads
    BY <1>0, <1>1, CallFacts
  <2>2. CASE Top.fn = "undoProviders"
    BY <1>1, <2>1, <2>2 DEF Fine, Stage, ListOK
  <2>3. CASE Top.fn = "closeAllSlot"
    <3>1. Suffix(Top.todo, providers \o Consumers)
      BY <1>1, <2>3 DEF Fine, Stage, ListOK
    <3>2. providers \o Consumers \in Seq(Threads) /\ IsInjective(providers \o Consumers)
      BY BothListed
    <3> QED
      BY <2>1, <3>1, <3>2, SuffixFacts
  <2> QED
    BY <2>2, <2>3 DEF Closers
<1>3. ToSet(Top.todo) = {t} \cup ToSet(f.todo) /\ t \notin ToSet(f.todo)
  BY <1>0, <1>2, HeadAndTail
<1>4. Current = {t} /\ Current' = {} /\ CurrentOf(f) = {} /\ CurrentOf(Top) = {t}
  BY <1>0, <1>1 DEF CurrentOf
<1>5. Up' = Up
  BY <1>1, <1>3, <1>4 DEF UpOf, Closers
<1>6. Idle(t)
  BY <1>0 DEF Idle, IsPosted, In
<1>7. \A u \in Down' : u \in Down \/ Idle(u)
  BY <1>4, <1>5, <1>6 DEF Down
<1>8. Lives'
  BY <1>1, <1>4, <1>5, <1>7, TopLives
<1>9. Pipes'
  <2> SUFFICES ASSUME NEW c \in Writers
               PROVE  /\ thread[c] \in {"loop", "returned"} => pipe'[c] \in {"open", "error"}
                      /\ thread[c] = "over" => pipe'[c] \in {"closed", "error"}
    BY <1>1, <1>4 DEF Pipes
  <2>1. pipe'[c] = IF c # t \/ pipe[c] = "error" THEN pipe[c]
                   ELSE IF pipe[c] = "open" THEN "closed" ELSE "foreign"
    BY <1>0 DEF Closed
  <2>2. /\ thread[c] \in {"loop", "returned"} => pipe[c] \in {"open", "error"}
        /\ thread[c] = "over" => pipe[c] \in IF c = t THEN {"open", "error"} ELSE {"closed", "error"}
    BY <1>4 DEF Fine, Pipes
  <2> QED
    BY <1>0, <2>1, <2>2
<1> QED
  BY <1>1, <1>8, <1>9 DEF Fine

(* The call that goes to another place is the call on top, with that       *)
(* place.                                                                  *)
LEMMA GotoIs ==
    ASSUME GInv, phase = "running", NEW where \in Places, Goto(where)
    PROVE  \E f : /\ stack' = [stack EXCEPT ![Depth] = f]
                  /\ f \in Frame /\ f.fn = Top.fn /\ f.at = where /\ f.todo = Top.todo
<1> DEFINE f == [Top EXCEPT !.at = where]
<1>1. Top = stack[Depth] /\ Top \in Frame
  BY StackFacts DEF GInv
<1>2. f \in Frame /\ f.fn = Top.fn /\ f.at = where /\ f.todo = Top.todo
  BY <1>1 DEF Frame
<1>3. stack' = [stack EXCEPT ![Depth] = f]
  BY <1>1 DEF Goto
<1> QED
  BY <1>2, <1>3

(* The call on top stays with its list, and becomes f.                     *)
LEMMA CloserBecomes ==
    ASSUME GInv, Fine, Ordinary, NEW f, SameList(f),
           f \in Frame, f.at \in {"closing", "check", "connect", "ending"},
           phase = "running", Top.fn \in Closers, Top.todo # <<>>,
           stack' = [stack EXCEPT ![Depth] = f],
           UNCHANGED <<phase, quitNow, providers, files, settled, thread, exited, asked>>,
           UNCHANGED events \/ events' = Append(events, <<"quit", Head(Top.todo)>>)
    PROVE  CallBecomes(f)
<1>1. Top.fn # "exec"
  BY DEF Closers
<1>2. Depth = 2
  BY <1>1, InTheCall
<1>3. ListOK(f)
  BY <1>2, ListOfTop
<1>4. IsFrame(f)
  BY <1>1 DEF IsFrame, SameList
<1>5. <<"quit", Head(Top.todo)>> \in Orders
  BY <1>2, CallFacts, HeadOf DEF Orders
<1> QED
  BY <1>1, <1>3, <1>4, <1>5 DEF CallBecomes, SameList

(* The close of a consumer keeps the invariant.                            *)
LEMMA CloseConsumerFine == ASSUME GInv, GInv', Fine, Ordinary, CloseConsumer PROVE Fine'
<1>1. At({"next"}) /\ Top.fn \in Closers /\ Top.todo # <<>> /\ Goto("check")
  BY DEF CloseConsumer, Working, Closers
<1>2. UNCHANGED <<phase, quitNow, providers, files, settled, events, thread, exited, pipe, asked>>
  BY DEF CloseConsumer, history
<1>3. phase = "running" /\ Top.at = "next"
  BY <1>1, TopFacts
<1>4. PICK f : /\ stack' = [stack EXCEPT ![Depth] = f]
               /\ f \in Frame /\ f.fn = Top.fn /\ f.at = "check" /\ f.todo = Top.todo
  BY <1>1, <1>3, GotoIs DEF Places
<1>5. SameList(f)
  BY <1>4 DEF SameList
<1>6. CallBecomes(f)
  BY <1>1, <1>2, <1>3, <1>4, <1>5, CloserBecomes
<1> QED
  BY <1>1, <1>2, <1>3, <1>4, <1>5, <1>6, CloserBegins

(* In an ordinary shutDown no manager dangles while it is asked to close.  *)
LEMMA CloseProviderFine == ASSUME GInv, GInv', Fine, Ordinary, CloseProvider PROVE Fine'
<1>0. PICK p : p = Head(Top.todo)
  OBVIOUS
<1>1. At({"next"}) /\ Top.fn \in Closers /\ Top.todo # <<>> /\ p \in ProviderSet
  BY <1>0 DEF CloseProvider, Working, Closers
<1>2. UNCHANGED <<quitNow, providers, files, settled, events, thread, exited, pipe, asked>>
  BY DEF CloseProvider, history
<1>3. phase = "running" /\ Top.at = "next" /\ Top = stack[Depth]
  BY <1>1, TopFacts
<1>4. Depth = 2 /\ ~quitNow
  BY <1>1, <1>3, InTheCall DEF Closers
<1>5. manager[p] # "dead"
  <2> SUFFICES ASSUME manager[p] = "dead" PROVE FALSE
    OBVIOUS
  <2>1. PICK n \in 1..Depth : stack[n].at = "ending"
    BY <1>1, <1>4 DEF GInv, EndsOK, Ends
  <2>2. stack[1].at # "ending" /\ stack[2].at # "ending"
    BY <1>3, <1>4, CallFacts
  <2> QED
    BY <1>4, <2>1, <2>2
<1>6. \E where \in {"check", "closing"} :
          \E f : /\ stack' = [stack EXCEPT ![Depth] = f]
                 /\ f \in Frame /\ f.fn = Top.fn /\ f.at = where /\ f.todo = Top.todo
  <2>1. CASE Goto("check")
    BY <1>3, <2>1, GotoIs DEF Places
  <2>2. CASE Wait("closing", {<<p, "closed", Depth>>})
    BY <1>3, <2>2, WaitIs DEF Loops
  <2> QED
    BY <1>0, <1>4, <1>5, <2>1, <2>2 DEF CloseProvider, WaitForManager
<1>7. UNCHANGED phase
  BY <1>0, <1>5 DEF CloseProvider
<1>8. PICK f : /\ stack' = [stack EXCEPT ![Depth] = f]
               /\ f \in Frame /\ f.fn = Top.fn /\ f.at \in {"closing", "check"} /\ f.todo = Top.todo
  BY <1>6
<1>9. SameList(f)
  BY <1>8 DEF SameList
<1>10. CallBecomes(f)
  BY <1>1, <1>2, <1>3, <1>7, <1>8, <1>9, CloserBecomes
<1> QED
  BY <1>1, <1>2, <1>3, <1>8, <1>9, <1>10, CloserBegins

(* endThread keeps the invariant, and finds its thread running.            *)
LEMMA EndThreadFine == ASSUME GInv, GInv', Fine, Ordinary, EndThread PROVE Fine'
<1>1. At({"check"}) /\ UNCHANGED <<phase, quitNow, providers, files, settled, events, thread,
                      exited, asked>>
  BY DEF EndThread, history
<1>2. Top.fn \in Closers /\ Top.todo # <<>> /\ phase = "running" /\ Top.at = "check"
  BY <1>1, CloserAt, TopFacts
<1>3. Depth = 2
  BY <1>2, InTheCall DEF Closers
<1>4. Running(Head(Top.todo))
  <2>1. Head(Top.todo) \in Current
    BY <1>2, <1>3, CallFacts DEF CurrentOf
  <2>2. Alive(Head(Top.todo))
    BY <1>2, <2>1 DEF Fine, Lives, Busy
  <2> QED
    BY <2>2 DEF Alive, Running
<1>5. Goto("connect") /\ UNCHANGED pipe
  BY <1>4 DEF EndThread
<1>6. PICK f : /\ stack' = [stack EXCEPT ![Depth] = f]
               /\ f \in Frame /\ f.fn = Top.fn /\ f.at = "connect" /\ f.todo = Top.todo
  BY <1>2, <1>5, GotoIs DEF Places
<1>7. SameList(f)
  BY <1>6 DEF SameList
<1>8. CallBecomes(f)
  BY <1>1, <1>2, <1>6, <1>7, CloserBecomes
<1> QED
  BY <1>1, <1>2, <1>5, <1>6, <1>7, <1>8, CloserGoesOn

(* The quit of a thread keeps it.                                          *)
LEMMA WaitForThreadFine == ASSUME GInv, GInv', Fine, Ordinary, WaitForThread PROVE Fine'
<1>1. At({"connect"}) /\ UNCHANGED <<phase, quitNow, providers, files, settled, thread, exited, asked>>
  BY DEF WaitForThread, history
<1>2. Top.fn \in Closers /\ Top.todo # <<>> /\ phase = "running" /\ Top.at = "connect"
  BY <1>1, CloserAt, TopFacts
<1>3. ~quitNow
  BY <1>2, InTheCall DEF Closers
<1>4. /\ events' = Append(events, <<"quit", Head(Top.todo)>>) /\ UNCHANGED pipe
      /\ Wait("ending", {<<Head(Top.todo), "finished", Depth>>})
  BY <1>3 DEF WaitForThread
<1>5. PICK f : /\ stack' = [stack EXCEPT ![Depth] = f]
               /\ f \in Frame /\ f.fn = Top.fn /\ f.at = "ending" /\ f.todo = Top.todo
  BY <1>2, <1>4, WaitIs DEF Loops
<1>6. SameList(f)
  BY <1>5 DEF SameList
<1>7. CallBecomes(f)
  BY <1>1, <1>2, <1>4, <1>5, <1>6, CloserBecomes
<1> QED
  BY <1>2, <1>4, <1>5, <1>6, <1>7, CloserGoesOn

(* A loop that returns keeps it: after a start the thread works, and after *)
(* an end it is over.                                                      *)
LEMMA LoopReturnsFine == ASSUME GInv, GInv', Fine, Ordinary, LoopReturns PROVE Fine'
<1>1. /\ At({"exec", "starting", "closing", "ending"}) /\ Top.exit /\ events = <<>>
      /\ UNCHANGED <<phase, quitNow, providers, files, settled, events, thread, exited, asked>>
      /\ \/ Top.at = "starting" /\ Proceed /\ UNCHANGED pipe
         \/ Top.at = "closing" /\ Goto("check") /\ UNCHANGED pipe
         \/ Top.at = "ending" /\ Closed
  BY DEF LoopReturns, InLoop, history
<1>2. phase = "running" /\ Top = stack[Depth] /\ IsFrame(Top) /\ Top.fn # "exec"
  BY <1>1, TopFacts DEF IsFrame
<1>3. Depth = 2 /\ ~quitNow
  BY <1>2, InTheCall
<1>4. /\ Top.todo # <<>> /\ Top.todo \in Seq(Threads)
      /\ Head(Top.todo) \in Threads /\ Head(Top.todo) \in ToSet(Top.todo)
  BY <1>1, <1>3, CallFacts, HeadOf
<1>5. CASE Top.at = "starting" /\ Proceed /\ UNCHANGED pipe
  <2>1. PICK f : /\ stack' = [stack EXCEPT ![Depth] = f]
                 /\ f \in Frame /\ f.fn = Top.fn /\ f.at = "next" /\ f.todo = Tail(Top.todo)
    BY <1>2, <1>4, <1>5, ProceedIs
  <2>2. Top.fn \in Inits
    BY <1>2, <1>5 DEF IsFrame
  <2>3. IsInjective(Top.todo) /\ (Top.fn = "initDataConsumers" => ToSet(Top.todo) \subseteq ConsumerSet)
    BY <1>2, <2>2, TopStartsWell
  <2>4. /\ Top.fn = "initDataProviders" => Suffix(Top.todo, providers)
        /\ Top.fn = "initDataProviders" => ToSet(Top.todo) \subseteq ToSet(providers)
    BY <1>3, ProvidersListed, SuffixFacts DEF Fine, Stage, ListOK
  <2>5. CallBecomes(f)
    <3>1. IsFrame(f)
      BY <1>2, <2>1 DEF IsFrame
    <3>2. ListOK(f)
      BY <1>4, <2>1, <2>2, <2>4, ProvidersListed, SuffixFacts DEF ListOK, Inits
    <3> QED
      BY <1>1, <1>2, <2>1, <3>1, <3>2 DEF CallBecomes
  <2>6. /\ Stage' /\ Depth' = 2 /\ Top' = f
        /\ Current = CurrentOf(Top) /\ Current' = CurrentOf(f)
        /\ Up = UpOf(Top) /\ Up' = UpOf(f)
        /\ UNCHANGED <<thread, exited, providers, settled>>
    BY <2>5, TopStage
  <2>7. PICK t : t = Head(Top.todo)
    OBVIOUS
  <2>8. ToSet(Top.todo) = {t} \cup ToSet(f.todo) /\ t \notin ToSet(f.todo)
    BY <1>4, <2>1, <2>3, <2>7, HeadAndTail
  <2>9. Current = {t} /\ Current' = {} /\ Up' = Up \cup {t}
    BY <1>5, <2>1, <2>2, <2>3, <2>4, <2>6, <2>7, <2>8 DEF CurrentOf, UpOf, Inits
  <2>10. Alive(t)
    <3>1. Starting(t)
      BY <1>5, <2>9 DEF Fine, Lives, Busy
    <3> QED
      BY <1>1, <3>1 DEF Starting, Alive
  <2>11. Down' = Down
    BY <2>9 DEF Down
  <2>12. Lives'
    BY <1>1, <2>6, <2>9, <2>10, <2>11, TopLives
  <2>13. Pipes'
    BY <1>5, <2>6, <2>9, <2>10, TopPipes DEF Alive
  <2> QED
    BY <2>6, <2>12, <2>13 DEF Fine
<1>6. CASE Top.at = "closing" /\ Goto("check") /\ UNCHANGED pipe
  <2>1. Top.fn \in Closers
    BY <1>2, <1>6 DEF IsFrame
  <2>2. PICK f : /\ stack' = [stack EXCEPT ![Depth] = f]
                 /\ f \in Frame /\ f.fn = Top.fn /\ f.at = "check" /\ f.todo = Top.todo
    BY <1>2, <1>6, GotoIs DEF Places
  <2>3. SameList(f)
    BY <2>2 DEF SameList
  <2>4. CallBecomes(f)
    BY <1>1, <1>2, <1>4, <2>1, <2>2, <2>3, CloserBecomes
  <2> QED
    BY <1>1, <1>6, <2>1, <2>2, <2>3, <2>4, CloserGoesOn
<1>7. CASE Top.at = "ending" /\ Closed
  <2>1. Top.fn \in Closers
    BY <1>2, <1>7 DEF IsFrame
  <2>2. PICK f : /\ stack' = [stack EXCEPT ![Depth] = f]
                 /\ f \in Frame /\ f.fn = Top.fn /\ f.at = "next" /\ f.todo = Tail(Top.todo)
    BY <1>2, <1>4, <1>7, ProceedIs DEF Closed
  <2>3. CallBecomes(f)
    <3>1. IsFrame(f)
      BY <1>2, <2>2 DEF IsFrame
    <3>2. ListOK(f)
      <4>1. CASE Top.fn = "closeAllSlot"
        <5>1. Suffix(Top.todo, providers \o Consumers)
          BY <1>3, <4>1 DEF Fine, Stage, ListOK
        <5>2. Suffix(Tail(Top.todo), providers \o Consumers)
          BY <1>4, <5>1, BothListed, SuffixFacts
        <5> QED
          BY <2>2, <4>1, <5>2 DEF ListOK
      <4>2. CASE Top.fn = "undoProviders"
        <5>1. ToSet(Top.todo) \subseteq ProviderSet /\ IsInjective(Top.todo)
          BY <1>3, <4>2 DEF Fine, Stage, ListOK
        <5>2. ToSet(Tail(Top.todo)) \subseteq ToSet(Top.todo)
          BY <1>4, HeadAndTail
        <5>3. Suffix(Tail(Top.todo), Top.todo)
          BY <1>4, WholeIsSuffix, SuffixFacts
        <5>4. IsInjective(Tail(Top.todo))
          BY <1>4, <5>1, <5>3, SuffixFacts
        <5> QED
          BY <2>2, <4>2, <5>1, <5>2, <5>4 DEF ListOK
      <4> QED
        BY <2>1, <4>1, <4>2 DEF Closers
    <3> QED
      BY <1>1, <1>2, <2>2, <3>1, <3>2 DEF CallBecomes
  <2>4. thread[Head(Top.todo)] = "over"
    <3>1. Depth \in 1..Depth /\ stack[Depth].at = "ending" /\ stack[Depth].exit
      BY <1>1, <1>2, <1>3, <1>7
    <3> QED
      BY <1>2, <1>3, <3>1 DEF GInv, EndsOK
  <2> QED
    BY <1>1, <1>7, <2>1, <2>2, <2>3, <2>4, CloserReturns
<1> QED
  BY <1>1, <1>5, <1>6, <1>7

-----------------------------------------------------------------------------
(* Calls come and return                                                   *)

(* No thread moves, and the call is busy with none.                        *)
Calm ==
    /\ UNCHANGED <<thread, exited, pipe>>
    /\ \A t : /\ IsPosted(<<"start", t>>)' => IsPosted(<<"start", t>>)
              /\ IsPosted(<<"quit", t>>)' => IsPosted(<<"quit", t>>)
    /\ Current = {} /\ Current' = {} /\ Up' = Up
    /\ settled' => settled \/ ConsumerSet \subseteq Up

(* Such a step keeps the invariant, if the order of the run is kept.       *)
LEMMA CalmFine == ASSUME GInv, Fine, Calm, Stage' PROVE Fine'
<1>1. Down' = Down
  BY DEF Calm, Down
<1>2. \A t \in Up : Alive(t)'
  BY DEF Calm, Fine, Lives, Alive
<1>3. \A t \in Down : Idle(t)'
  BY DEF Calm, Fine, Lives, Idle
<1>4. settled' => \A c \in ConsumerSet : thread'[c] # "off"
  <2>1. \A t \in Up : thread[t] # "off"
    BY DEF Fine, Lives, Alive
  <2> QED
    BY <2>1 DEF Calm, Fine, Lives
<1>5. Lives'
  BY <1>1, <1>2, <1>3, <1>4 DEF Calm, Fine, Lives
<1>6. Pipes'
  BY DEF Calm, Fine, Pipes
<1> QED
  BY <1>5, <1>6 DEF Fine

(* The main event loop is not told to exit.                                *)
LEMMA MainLoopGoesOn ==
    ASSUME Fine, Depth > 0, UNCHANGED quitNow, stack'[1].exit => stack[1].exit
    PROVE  (Depth > 0 /\ stack[1].exit => quitNow)'
BY Zenon DEF Fine, Stage

(* The end of the initialisation, or of a retreat, keeps it. No provider   *)
(* runs when a retreat clears m_dataProviders, so none is destroyed while  *)
(* it runs.                                                                *)
LEMMA ReturnFine ==
    ASSUME GInv, GInv', Fine, Ordinary, ProvidersReady \/ ClearProviders
    PROVE  Fine'
<1>1. /\ At({"next"}) /\ Top.fn \in {"initDataProviders", "undoProviders"} /\ Top.todo = <<>>
      /\ stack' = Front(stack) /\ phase' \in {phase, "aborted"} /\ settled' = TRUE
      /\ UNCHANGED <<quitNow, files, events, thread, exited, pipe, asked>>
      /\ Top.fn = "initDataProviders" => UNCHANGED providers
      /\ Top.fn = "undoProviders" => providers' = <<>>
  BY DEF ProvidersReady, ClearProviders, Working, history
<1>2. phase = "running" /\ Top.at = "next" /\ Top.fn # "exec" /\ phase' \in {"running", "aborted"}
  BY <1>1, TopFacts
<1>3. /\ Depth' = Depth - 1 /\ \A n \in 1..(Depth - 1) : stack'[n] = stack[n]
  BY <1>1, <1>2, CallReturned DEF GInv
<1>4. Depth = 2 /\ ~quitNow /\ ~settled /\ asked = 0 /\ files = "open"
  <2>1. Top.fn # "closeAllSlot"
    BY <1>1
  <2> QED
    BY <1>2, <2>1, InTheCall DEF Closing
<1>5. Depth' = 1 /\ stack'[1] = stack[1]
  BY <1>3, <1>4
<1>6. Current = {} /\ Current' = {}
  BY <1>2, <1>4, <1>5 DEF Current, CurrentOf
<1>7. Up = ConsumerSet \cup (IF Top.fn = "initDataProviders" THEN ToSet(providers) ELSE {})
  <2>1. Up = UpOf(Top)
    BY <1>4 DEF Up
  <2> QED
    BY <1>1, <2>1, NoneOf DEF UpOf
<1>8. Up' = ConsumerSet \cup ToSet(providers')
  BY <1>1, <1>4, <1>5 DEF Up
<1>9. Up' = Up
  BY <1>1, <1>7, <1>8, NoneOf
<1>10. phase' = "running"
  <2>1. CASE ProvidersReady
    BY <1>2, <2>1 DEF ProvidersReady
  <2>2. CASE ClearProviders
    <3>1. Top.fn = "undoProviders"
      BY <2>2 DEF ClearProviders, Working
    <3>2. \A p \in ProviderSet : p \in Down
      BY <1>6, <1>7, <3>1, ListsOfThreads DEF Down
    <3>3. \A p \in ProviderSet : ~Running(p)
      BY <3>2 DEF Fine, Lives, Idle, Running
    <3> QED
      BY <1>2, <2>2, <3>3 DEF ClearProviders
  <2> QED
    BY <2>1, <2>2
<1>11. \A e : IsPosted(e)' <=> IsPosted(e)
  BY <1>1 DEF IsPosted
<1>12. Calm
  BY <1>1, <1>6, <1>7, <1>9, <1>11 DEF Calm
<1>13. Stage'
  <2>1. (Depth > 0 /\ stack[1].exit => quitNow)'
    <3>1. Depth > 0 /\ (stack'[1].exit => stack[1].exit)
      BY <1>4, <1>5
    <3> QED
      BY <1>1, <3>1, MainLoopGoesOn
  <2>2. ~ClosePosted' /\ ~InitPosted' /\ ~Closing'
    BY <1>4, <1>5, <1>11 DEF Fine, Stage, ClosePosted, InitPosted, Closing
  <2>3. Once(events', {"closeAllSlot"})
    BY <1>1 DEF Fine, Stage
  <2>4. (quitNow <=> files = "closed")' /\ ~quitNow'
    BY <1>1, <1>4 DEF Fine, Stage
  <2>5. settled'
    BY <1>1
  <2>6. Depth' # 2 /\ Depth' <= 2
    BY <1>5
  <2> QED
    BY <1>10, <2>1, <2>2, <2>3, <2>4, <2>5, <2>6 DEF Stage
<1> QED
  BY <1>12, <1>13, CalmFine

(* The end of closeAllSlot keeps it: no thread works any more.             *)
LEMMA CloseFilesFine == ASSUME GInv, GInv', Fine, Ordinary, CloseFiles PROVE Fine'
<1>1. /\ At({"next"}) /\ Top.fn = "closeAllSlot" /\ Top.todo = <<>>
      /\ files' = "closed" /\ quitNow' = TRUE
      /\ stack' = [n \in 1..(Depth - 1) |-> Told(stack[n])]
      /\ UNCHANGED <<phase, providers, settled, events, thread, exited, pipe, asked>>
  BY DEF CloseFiles, Working, Told, history
<1>2. phase = "running" /\ Top.at = "next" /\ Top.fn # "exec"
  BY <1>1, TopFacts
<1>3. Depth' = Depth - 1
  BY <1>1, <1>2, LoopsTold DEF GInv
<1>4. Depth = 2 /\ Closing /\ settled
  BY <1>1, <1>2, InTheCall DEF Closing
<1>5. Depth' = 1
  BY <1>3, <1>4
<1>6. Current = {} /\ Current' = {}
  BY <1>2, <1>4, <1>5 DEF Current, CurrentOf
<1>7. Up = {}
  <2>1. Up = UpOf(Top)
    BY <1>4 DEF Up
  <2> QED
    BY <1>1, <2>1, NoneOf DEF UpOf
<1>8. Up' = {}
  BY <1>1, <1>5 DEF Up
<1>9. \A e : IsPosted(e)' <=> IsPosted(e)
  BY <1>1 DEF IsPosted
<1>10. Calm
  BY <1>1, <1>6, <1>7, <1>8, <1>9 DEF Calm
<1>11. Stage'
  <2>1. ~ClosePosted' /\ ~InitPosted' /\ ~Closing'
    BY <1>4, <1>5, <1>9 DEF Fine, Stage, ClosePosted, InitPosted, Closing
  <2>2. Once(events', {"closeAllSlot"})
    BY <1>1 DEF Fine, Stage
  <2>3. asked' # 0
    BY <1>1, <1>4 DEF Fine, Stage
  <2>4. Depth' # 2 /\ Depth' <= 2 /\ phase' = "running" /\ settled' /\ quitNow' /\ files' = "closed"
    BY <1>1, <1>2, <1>4, <1>5
  <2> QED
    BY <2>1, <2>2, <2>3, <2>4 DEF Stage
<1> QED
  BY <1>10, <1>11, CalmFine

(* A call comes on top of the main event loop.                             *)
LEMMA CallFine ==
    ASSUME GInv, GInv', Fine, Ordinary, HandleInit \/ HandleCloseAll
    PROVE  Fine'
<1>1. PICK kind, list :
          /\ \/ kind = "initDataConsumers" /\ list = Consumers
             \/ kind = "closeAllSlot" /\ list = providers \o Consumers
          /\ Posted(kind)
          /\ stack' = Append(stack, Call(kind, list))
  BY DEF HandleInit, HandleCloseAll
<1>2. UNCHANGED <<phase, quitNow, providers, files, settled, thread, exited, pipe, asked>>
  BY DEF HandleInit, HandleCloseAll, history
<1>3. PICK f : f = Call(kind, list)
  OBVIOUS
<1>4. /\ phase = "running" /\ Top.at \in Loops \cup {"exec"} /\ Depth \in Nat /\ Depth > 0
      /\ Head(events) \in Event /\ Head(events)[1] = kind
      /\ \A e : IsPosted(e) <=> IsPosted(e)' \/ e = Head(events)
      /\ \A e : e = Head(events) /\ kind \in {"start", "initDataConsumers"} => ~IsPosted(e)'
  BY <1>1, Handled
<1>5. Head(events) = <<kind>>
  BY <1>1, <1>4 DEF Event
<1>6. /\ Once(events', {"closeAllSlot"})
      /\ kind = "closeAllSlot" => ~ClosePosted'
  <2>1. events \in Seq(Event) /\ events # <<>> /\ events' = Tail(events) /\ Once(events, {"closeAllSlot"})
    BY <1>1 DEF Posted, GInv, EventsOK, Fine, Stage
  <2> QED
    BY <1>5, <2>1, InTail DEF ClosePosted, IsPosted
<1>7. list \in Seq(Threads) /\ kind \in {"initDataConsumers", "closeAllSlot"}
  BY <1>1, ListsOfThreads, BothListed
<1>8. f \in Frame /\ f.at = "next" /\ f.fn = kind /\ f.todo = list
  BY <1>3, <1>7 DEF Call, Frame, Calls, Places
<1>9. IsFrame(f) /\ f.fn # "exec"
  BY <1>7, <1>8 DEF IsFrame
<1>10. /\ Depth' = Depth + 1 /\ Top' = f
       /\ \A n \in 1..(Depth + 1) : stack'[n] = IF n = Depth + 1 THEN f ELSE stack[n]
  BY <1>1, <1>2, <1>3, <1>4, <1>9, CallPushed DEF GInv
<1>11. asked \in {0, 1}
  BY DaemonAssumption DEF GInv, VarsOK, Ordinary
<1>12. Depth = 1 /\ ~quitNow /\ files = "open"
  <2>1. CASE kind = "initDataConsumers"
    <3>1. InitPosted
      BY <1>4, <1>5, <2>1 DEF InitPosted
    <3> QED
      BY <1>11, <3>1 DEF Fine, Stage, GInv, VarsOK
  <2>2. CASE kind = "closeAllSlot"
    <3>1. ClosePosted
      BY <1>4, <1>5, <2>2 DEF ClosePosted
    <3> QED
      BY <1>4, <1>11, <3>1 DEF Fine, Stage, GInv, VarsOK
  <2> QED
    BY <1>7, <2>1, <2>2
<1>13. Depth' = 2 /\ stack'[1] = stack[1]
  BY <1>10, <1>12
<1>14. Current = {} /\ Current' = {}
  BY <1>8, <1>10, <1>12, <1>13 DEF Current, CurrentOf
<1>15. \A e : IsPosted(e)' => IsPosted(e)
  BY <1>4
<1>16. CASE kind = "initDataConsumers"
  <2>1. /\ f.todo = Consumers /\ f.fn = "initDataConsumers"
    BY <1>1, <1>8, <1>16
  <2>2. InitPosted /\ ~InitPosted' /\ ~settled
    BY <1>4, <1>5, <1>16 DEF Fine, Stage, InitPosted
  <2>3. Up = {} /\ Up' = {}
    <3>1. Up = {}
      BY <1>12, <2>2 DEF Up
    <3>2. Up' = ConsumerSet \ ToSet(Consumers)
      BY <1>10, <1>13, <2>1 DEF Up, UpOf
    <3> QED
      BY <3>1, <3>2, ListsOfThreads
  <2>4. Calm
    BY <1>2, <1>14, <1>15, <2>2, <2>3 DEF Calm
  <2>5. asked = 0
    BY <1>11, <2>2 DEF Fine, Stage
  <2>6. Stage'
    <3>1. (Depth > 0 /\ stack[1].exit => quitNow)'
      <4>1. Depth > 0 /\ (stack'[1].exit => stack[1].exit)
        BY <1>12, <1>13
      <4> QED
        BY <1>2, <4>1, MainLoopGoesOn
    <3>2. ~Closing' /\ ~ClosePosted' /\ ~quitNow' /\ files' = "open" /\ ~settled' /\ phase' = "running"
      BY <1>2, <1>4, <1>10, <1>12, <1>15, <2>1, <2>2, <2>5 DEF Fine, Stage, Closing, ClosePosted
    <3>3. ListOK(Top)'
      BY <1>10, <2>1 DEF ListOK
    <3>4. ~InitPosted' /\ Depth' = 2 /\ asked' = 0
      BY <1>2, <1>13, <2>2, <2>5
    <3> QED
      BY <1>6, <3>1, <3>2, <3>3, <3>4 DEF Stage
  <2> QED
    BY <2>4, <2>6, CalmFine
<1>17. CASE kind = "closeAllSlot"
  <2>1. /\ f.todo = providers \o Consumers /\ f.fn = "closeAllSlot"
    BY <1>1, <1>8, <1>17
  <2>2. ClosePosted /\ ~ClosePosted'
    BY <1>4, <1>5, <1>6, <1>17 DEF ClosePosted
  <2>3. asked = 1 /\ settled
    BY <1>11, <2>2 DEF Fine, Stage
  <2>4. Up' = Up
    <3>1. Up = ConsumerSet \cup ToSet(providers)
      BY <1>12, <2>3 DEF Up
    <3>2. Up' = ToSet(providers \o Consumers)
      <4>1. Up' = ToSet(f.todo) \ {}
        BY <1>8, <1>10, <1>13, <2>1 DEF Up, UpOf, CurrentOf
      <4> QED
        BY <2>1, <4>1
    <3> QED
      BY <3>1, <3>2, BothListed
  <2>5. Calm
    BY <1>2, <1>14, <1>15, <2>3, <2>4 DEF Calm
  <2>6. Stage'
    <3>1. (Depth > 0 /\ stack[1].exit => quitNow)'
      <4>1. Depth > 0 /\ (stack'[1].exit => stack[1].exit)
        BY <1>12, <1>13
      <4> QED
        BY <1>2, <4>1, MainLoopGoesOn
    <3>2. Closing' /\ ~ClosePosted' /\ ~quitNow' /\ files' = "open" /\ settled' /\ phase' = "running"
      BY <1>2, <1>4, <1>10, <1>12, <1>13, <2>1, <2>2, <2>3 DEF Closing
    <3>3. ListOK(Top)'
      <4>1. Suffix(f.todo, providers \o Consumers)
        BY <2>1, BothListed, WholeIsSuffix
      <4> QED
        BY <1>2, <1>10, <2>1, <4>1 DEF ListOK
    <3>4. ~InitPosted' /\ Depth' = 2 /\ asked' = 1
      BY <1>2, <1>13, <1>15, <2>3 DEF Fine, Stage, InitPosted
    <3> QED
      BY <1>6, <3>1, <3>2, <3>3, <3>4 DEF Stage
  <2> QED
    BY <2>5, <2>6, CalmFine
<1> QED
  BY <1>7, <1>16, <1>17

-----------------------------------------------------------------------------
(* The loop handles an event for a thread, or for a loop                   *)

(* An event that calls nothing changes nothing of the order of the run.    *)
LEMMA HandledStage ==
    ASSUME GInv, Fine, NEW kind \in {"start", "quit", "quitLoop"}, Posted(kind),
           UNCHANGED <<phase, quitNow, providers, files, settled, asked>>,
           Depth' = Depth, \A n \in 1..Depth : SameButExit(stack'[n], stack[n]),
           stack'[1].exit => stack[1].exit
    PROVE  /\ Stage' /\ Current' = Current /\ Up' = Up /\ Down' = Down
           /\ SameButExit(Top', Top)
           /\ \A e : IsPosted(e)' => IsPosted(e)
<1>1. /\ phase = "running" /\ Depth \in Nat /\ Depth > 0
      /\ Head(events) \in Event /\ Head(events)[1] = kind
      /\ \A e : IsPosted(e) <=> IsPosted(e)' \/ e = Head(events)
  BY Handled
<1>2. /\ InitPosted' <=> InitPosted
      /\ ClosePosted' <=> ClosePosted
  <2>1. Head(events) # <<"closeAllSlot">> /\ Head(events) # <<"initDataConsumers">>
    BY <1>1
  <2> QED
    BY <1>1, <2>1 DEF InitPosted, ClosePosted
<1>3. Once(events', {"closeAllSlot"})
  <2>1. events \in Seq(Event) /\ events # <<>> /\ events' = Tail(events) /\ Once(events, {"closeAllSlot"})
    BY DEF Posted, GInv, EventsOK, Fine, Stage
  <2> QED
    BY <2>1, InTail
<1>4. SameButExit(Top', Top)
  BY <1>1 DEF Top
<1>5. Current' = Current
  BY <1>4 DEF Current, CurrentOf, SameButExit
<1>6. Up' = Up
  <2>1. UpOf(Top)' = UpOf(Top)
    BY <1>4 DEF UpOf, CurrentOf, SameButExit
  <2> QED
    BY <2>1 DEF Up
<1>7. (Closing' <=> Closing) /\ (ListOK(Top)' <=> ListOK(Top))
  BY <1>4 DEF Closing, ListOK, SameButExit
<1>8. (Depth > 0 /\ stack[1].exit => quitNow)'
  BY <1>1, MainLoopGoesOn
<1>9. Stage'
  <2>1. /\ (asked = 0 => ~ClosePosted /\ ~Closing /\ ~quitNow)'
        /\ (ClosePosted => ~Closing /\ ~quitNow)'
        /\ (Closing => ~quitNow)'
        /\ (asked = 1 => settled)'
    BY <1>2, <1>7 DEF Fine, Stage
  <2>2. /\ (settled => ~InitPosted /\ (Depth = 2 => Closing) /\ phase # "launch")'
        /\ (phase = "ended" /\ settled => files = "closed")'
        /\ (InitPosted => Depth = 1)'
        /\ (Depth = 1 /\ ~settled => InitPosted)'
        /\ (Depth = 2 => ListOK(Top))'
    BY <1>2, <1>7 DEF Fine, Stage
  <2>3. /\ phase' # "aborted" /\ Depth' <= 2
        /\ (quitNow <=> files = "closed")'
    BY DEF Fine, Stage
  <2> QED
    BY <1>3, <1>8, <2>1, <2>2, <2>3 DEF Stage
<1> QED
  BY <1>1, <1>4, <1>5, <1>6, <1>9 DEF Down

(* The event that starts a thread keeps the invariant: it is the thread    *)
(* that the call waits for.                                                *)
LEMMA HandleStartFine == ASSUME GInv, Fine, HandleStart PROVE Fine'
<1>0. PICK t : t = Head(events)[2]
  OBVIOUS
<1>1. Posted("start") /\ UNCHANGED <<main, pipe, asked>>
  BY DEF HandleStart, history
<1>2. UNCHANGED <<phase, stack, quitNow, providers, files, settled>> /\ Depth' = Depth
  BY <1>1 DEF main, Depth
<1>3. /\ phase = "running" /\ Head(events) \in Event /\ Head(events)[1] = "start"
      /\ IsPosted(Head(events))
  BY <1>1, Handled
<1>4. t \in Threads /\ Head(events) = <<"start", t>> /\ IsPosted(<<"start", t>>)
  BY <1>0, <1>3 DEF Event
<1>5. thread[t] = "off"
  BY <1>4 DEF GInv, StartsOnce
<1>6. t \in Current
  BY <1>4, <1>5 DEF Fine, Lives, Alive, Idle, Down
<1>7. Depth = 2 /\ t \in CurrentOf(Top)
  BY <1>6 DEF Current
<1>8. Top.at # "next" /\ t = Head(Top.todo)
  BY <1>7 DEF CurrentOf
<1>9. Top.at = "starting" /\ Starting(t)
  <2>1. Top.at \in Places /\ Top.at # "exec" /\ Busy(t)
    BY <1>6, <1>7, CallFacts DEF Fine, Lives, Frame
  <2>2. ~Alive(t) /\ ~Ending(t)
    BY <1>5 DEF Alive, Ending, Running
  <2> QED
    BY <1>8, <2>1, <2>2 DEF Busy, Places
<1>10. Top.fn \in Inits /\ t \in ToSet(Top.todo)
  BY <1>7, <1>8, <1>9, CallFacts, HeadOf DEF IsFrame
<1>11. Exists(t)
  <2>1. CASE Top.fn = "initDataConsumers"
    BY <1>3, <1>10, <2>1, TopStartsWell DEF Exists
  <2>2. CASE Top.fn = "initDataProviders"
    <3>1. Suffix(Top.todo, providers)
      BY <1>7, <2>2 DEF Fine, Stage, ListOK
    <3> QED
      BY <1>10, <3>1, ProvidersListed, SuffixFacts DEF Exists
  <2> QED
    BY <1>10, <2>1, <2>2 DEF Inits
<1>12. thread' = [thread EXCEPT ![t] = "begun"] /\ exited' = [exited EXCEPT ![t] = FALSE]
  BY <1>0, <1>11 DEF HandleStart
<1>13. /\ \A u \in Threads : thread'[u] = IF u = t THEN "begun" ELSE thread[u]
       /\ \A u \in Threads : exited'[u] <=> u # t /\ exited[u]
  BY <1>12 DEF GInv, VarsOK
<1>14. /\ Stage' /\ Current' = Current /\ Up' = Up /\ Down' = Down /\ Top' = Top
       /\ \A e : IsPosted(e)' => IsPosted(e)
  <2>1. \A n \in 1..Depth : SameButExit(stack'[n], stack[n])
    BY <1>2 DEF SameButExit
  <2>2. stack'[1].exit => stack[1].exit
    BY <1>2
  <2> QED
    BY <1>1, <1>2, <2>1, <2>2, HandledStage DEF Top
<1>15. /\ Up \subseteq Threads /\ Current \subseteq Threads /\ Down \subseteq Threads
       /\ ConsumerSet \subseteq Threads
  BY SetsOfThreads, ListsOfThreads
<1>16. Current = {t}
  BY <1>7, <1>8 DEF Current, CurrentOf
<1>17. Busy(t)'
  BY <1>4, <1>9, <1>13, <1>14 DEF Busy, Starting
<1>18. Lives'
  <2>1. \A u \in Up : Alive(u)'
    BY <1>13, <1>14, <1>15 DEF Fine, Lives, Alive
  <2>2. \A u \in Down : Idle(u)'
    <3>1. \A u \in Down : u # t
      BY <1>16 DEF Down
    <3> QED
      BY <1>13, <1>14, <1>15, <3>1 DEF Fine, Lives, Idle
  <2>3. /\ \A u \in Threads : thread'[u] = "off" => ~exited'[u] /\ ~IsPosted(<<"quit", u>>)'
        /\ \A u \in Threads : thread'[u] = "returned" => exited'[u]
        /\ settled' => \A c \in ConsumerSet : thread'[c] # "off"
    BY <1>2, <1>13, <1>14, <1>15 DEF Fine, Lives
  <2> QED
    BY <1>14, <1>16, <1>17, <2>1, <2>2, <2>3 DEF Lives
<1>19. Pipes'
  <2>1. Writers \subseteq Threads
    BY <1>15, DaemonAssumption
  <2> QED
    BY <1>1, <1>13, <1>14, <2>1 DEF Fine, Pipes
<1> QED
  BY <1>14, <1>18, <1>19 DEF Fine

(* The event that quits a thread keeps it.                                 *)
LEMMA HandleQuitFine == ASSUME GInv, Fine, HandleQuit PROVE Fine'
<1>0. PICK t : t = Head(events)[2]
  OBVIOUS
<1>1. Posted("quit") /\ UNCHANGED <<main, thread, pipe, asked>>
  BY DEF HandleQuit, history
<1>2. UNCHANGED <<phase, stack, quitNow, providers, files, settled>> /\ Depth' = Depth
  BY <1>1 DEF main, Depth
<1>3. /\ phase = "running" /\ Head(events) \in Event /\ Head(events)[1] = "quit"
      /\ IsPosted(Head(events))
  BY <1>1, Handled
<1>4. t \in Threads /\ IsPosted(<<"quit", t>>)
  BY <1>0, <1>3 DEF Event
<1>5. exited' = exited \/ exited' = [exited EXCEPT ![t] = TRUE]
  BY <1>0 DEF HandleQuit
<1>6. \A u \in Threads : /\ exited[u] => exited'[u]
                         /\ exited'[u] => exited[u] \/ u = t
  BY <1>5 DEF GInv, VarsOK
<1>7. /\ Stage' /\ Current' = Current /\ Up' = Up /\ Down' = Down /\ Top' = Top
      /\ \A e : IsPosted(e)' => IsPosted(e)
  <2>1. \A n \in 1..Depth : SameButExit(stack'[n], stack[n])
    BY <1>2 DEF SameButExit
  <2>2. stack'[1].exit => stack[1].exit
    BY <1>2
  <2> QED
    BY <1>1, <1>2, <2>1, <2>2, HandledStage DEF Top
<1>8. /\ Up \subseteq Threads /\ Current \subseteq Threads /\ Down \subseteq Threads
      /\ ConsumerSet \subseteq Threads
  BY SetsOfThreads, ListsOfThreads
<1>9. \A u \in Threads : ~IsPosted(<<"quit", u>>) /\ ~exited[u] => ~exited'[u] /\ ~IsPosted(<<"quit", u>>)'
  BY <1>4, <1>6, <1>7
<1>10. Lives'
  <2>1. \A u \in Up : Alive(u)'
    BY <1>1, <1>7, <1>8, <1>9 DEF Fine, Lives, Alive
  <2>2. \A u \in Down : Idle(u)'
    BY <1>1, <1>7, <1>8 DEF Fine, Lives, Idle
  <2>3. \A u \in Current : Busy(u)'
    <3> SUFFICES ASSUME NEW u \in Current PROVE Busy(u)'
      OBVIOUS
    <3>1. u \in Threads /\ Busy(u)
      BY <1>8 DEF Fine, Lives
    <3>2. Alive(u) => Alive(u)'
      BY <1>1, <1>7, <1>9, <3>1 DEF Alive
    <3>3. Ending(u) => Ending(u)'
      BY <1>1, <1>7 DEF Ending, Running
    <3>4. Starting(u) => Starting(u)'
      BY <1>1, <1>2, <1>7, <1>9, <3>1 DEF Starting
    <3> QED
      BY <1>7, <3>1, <3>2, <3>3, <3>4 DEF Busy
  <2>4. /\ \A u \in Threads : thread'[u] = "off" => ~exited'[u] /\ ~IsPosted(<<"quit", u>>)'
        /\ \A u \in Threads : thread'[u] = "returned" => exited'[u]
        /\ settled' => \A c \in ConsumerSet : thread'[c] # "off"
    BY <1>1, <1>2, <1>6, <1>9 DEF Fine, Lives
  <2> QED
    BY <1>7, <2>1, <2>2, <2>3, <2>4 DEF Lives
<1>11. Pipes'
  BY <1>1, <1>7 DEF Fine, Pipes
<1> QED
  BY <1>7, <1>10, <1>11 DEF Fine

(* The event that quits a loop keeps it: it comes after the start of the   *)
(* thread that the call waits for.                                         *)
LEMMA HandleQuitLoopFine == ASSUME GInv, Fine, HandleQuitLoop PROVE Fine'
<1>0. PICK k : k = Head(events)[2]
  OBVIOUS
<1>1. /\ Posted("quitLoop") /\ stack' = [stack EXCEPT ![k].exit = TRUE]
      /\ UNCHANGED <<phase, quitNow, providers, files, settled, thread, exited, pipe, asked>>
  BY <1>0 DEF HandleQuitLoop, history
<1>2. /\ phase = "running" /\ Depth \in Nat
      /\ Head(events) \in Event /\ Head(events)[1] = "quitLoop" /\ IsPosted(Head(events))
  BY <1>1, Handled
<1>3. k \in Nat /\ IsPosted(<<"quitLoop", k>>)
  BY <1>0, <1>2 DEF Event
<1>4. k \in 1..Depth /\ stack[k].at \in Loops
  BY <1>3 DEF GInv, EventsOK
<1>5. stack' = [stack EXCEPT ![k] = Told(stack[k])]
  BY <1>1, <1>4, StackFacts DEF GInv, Told
<1>6. /\ Depth' = Depth
      /\ \A n \in 1..Depth : /\ SameButExit(stack'[n], stack[n])
                             /\ stack'[n].exit <=> n = k \/ stack[n].exit
  BY <1>1, <1>2, <1>4, <1>5, LoopTold DEF GInv
<1>7. k # 1 /\ 1 \in 1..Depth
  <2>1. 1 \in 1..Depth
    BY <1>2, <1>4
  <2>2. stack[1].at = "exec"
    BY <2>1, StackFacts DEF GInv, IsFrame
  <2> QED
    BY <1>4, <2>1, <2>2 DEF Loops
<1>8. Depth = 2 /\ k = 2
  BY <1>2, <1>4, <1>7 DEF Fine, Stage
<1>9. stack'[1].exit => stack[1].exit
  BY <1>6, <1>7
<1>10. /\ Stage' /\ Current' = Current /\ Up' = Up /\ Down' = Down /\ SameButExit(Top', Top)
       /\ \A e : IsPosted(e)' => IsPosted(e)
  BY <1>1, <1>6, <1>9, HandledStage
<1>11. Lives'
  <2>1. \A u \in Up : Alive(u)'
    BY <1>1, <1>10 DEF Fine, Lives, Alive
  <2>2. \A u \in Down : Idle(u)'
    BY <1>1, <1>10 DEF Fine, Lives, Idle
  <2>3. \A u \in Current : Busy(u)'
    <3> SUFFICES ASSUME NEW u \in Current PROVE Busy(u)'
      OBVIOUS
    <3>1. Busy(u)
      BY DEF Fine, Lives
    <3>2. Alive(u) => Alive(u)'
      BY <1>1, <1>10 DEF Alive
    <3>3. Ending(u) => Ending(u)'
      BY <1>1, <1>10 DEF Ending, Running
    <3>4. Starting(u) => Starting(u)'
      <4>1. Starting(u) => thread[u] # "off"
        BY <1>3, <1>8 DEF Starting
      <4> QED
        BY <1>1, <1>10, <4>1 DEF Starting
    <3> QED
      BY <1>10, <3>1, <3>2, <3>3, <3>4 DEF Busy, SameButExit
  <2>4. /\ \A u \in Threads : thread'[u] = "off" => ~exited'[u] /\ ~IsPosted(<<"quit", u>>)'
        /\ \A u \in Threads : thread'[u] = "returned" => exited'[u]
        /\ settled' => \A c \in ConsumerSet : thread'[c] # "off"
    BY <1>1, <1>10 DEF Fine, Lives
  <2> QED
    BY <1>10, <2>1, <2>2, <2>3, <2>4 DEF Lives
<1>12. Pipes'
  BY <1>1, <1>10 DEF Fine, Pipes
<1> QED
  BY <1>10, <1>11, <1>12 DEF Fine

-----------------------------------------------------------------------------
(* The beginning and the end                                               *)

(* The end of the program keeps it, and no thread runs then.               *)
LEMMA EndProgramFine == ASSUME GInv, Fine, EndProgram PROVE Fine'
<1>1. /\ At({"exec"}) /\ Top.exit
      /\ phase' = IF \E t \in Threads : Running(t) THEN "aborted" ELSE "ended"
      /\ UNCHANGED <<stack, quitNow, providers, files, settled, events, thread, exited, pipe, asked>>
  BY DEF EndProgram, history
<1>2. phase = "running" /\ Top.at = "exec" /\ Top = stack[Depth] /\ IsFrame(Top) /\ Depth \in 1..Depth
  BY <1>1, TopFacts
<1>3. Depth = 1
  BY <1>2, StackFacts DEF GInv, IsFrame
<1>4. Depth' = 1
  BY <1>1, <1>3 DEF Depth
<1>5. quitNow /\ files = "closed"
  <2>1. Depth > 0 /\ stack[1].exit
    BY <1>1, <1>2, <1>3
  <2>2. quitNow
    BY <2>1, Zenon DEF Fine, Stage
  <2> QED
    BY <2>2 DEF Fine, Stage
<1>6. Up = {} /\ Current = {} /\ Up' = {} /\ Current' = {}
  BY <1>1, <1>3, <1>4, <1>5 DEF Up, Current
<1>7. phase' = "ended"
  <2>1. \A t \in Threads : Idle(t)
    BY <1>6 DEF Fine, Lives, Down
  <2> QED
    BY <1>1, <2>1 DEF Idle, Running
<1>8. \A e : IsPosted(e)' <=> IsPosted(e)
  BY <1>1 DEF IsPosted
<1>9. Calm
  BY <1>1, <1>6, <1>8 DEF Calm
<1>10. Stage'
  <2>1. /\ ClosePosted' <=> ClosePosted
        /\ InitPosted' <=> InitPosted
        /\ ~Closing /\ ~Closing'
    BY <1>3, <1>4, <1>8 DEF ClosePosted, InitPosted, Closing
  <2>2. (Depth > 0 /\ stack[1].exit => quitNow)'
    BY <1>1, <1>5
  <2>3. Once(events', {"closeAllSlot"})
    BY <1>1 DEF Fine, Stage
  <2> QED
    BY <1>1, <1>3, <1>4, <1>5, <1>7, <2>1, <2>2, <2>3 DEF Fine, Stage
<1> QED
  BY <1>9, <1>10, CalmFine

(* Before the start nothing was asked for.                                 *)
LEMMA NothingAsked ==
    ASSUME GInv, Fine, Ordinary, phase = "launch"
    PROVE  /\ asked = 0 /\ ~settled /\ ~quitNow /\ files = "open" /\ ~ClosePosted
           /\ Depth = 0 /\ Up = {} /\ Current = {}
<1>1. Depth = 0
  BY NothingStarted
<1>2. ~settled /\ asked = 0
  BY DaemonAssumption DEF GInv, VarsOK, Ordinary, Fine, Stage
<1>3. ~quitNow /\ files = "open" /\ ~ClosePosted
  BY <1>2 DEF GInv, VarsOK, Fine, Stage
<1> QED
  BY <1>1, <1>2, <1>3 DEF Up, Current

(* startProgram keeps it.                                                  *)
LEMMA StartProgramFine == ASSUME GInv, Fine, Ordinary, StartProgram PROVE Fine'
<1>1. PICK f : f = [Call("exec", <<>>) EXCEPT !.at = "exec"]
  OBVIOUS
<1>2. /\ phase = "launch" /\ phase' = "running"
      /\ stack' = <<f>> /\ events' = Append(events, <<"initDataConsumers">>)
      /\ UNCHANGED <<quitNow, files, settled, thread, exited, pipe, asked>>
  BY <1>1 DEF StartProgram, history
<1>3. Depth' = 1 /\ stack'[1] = f /\ f.exit = FALSE
  BY <1>1, <1>2 DEF Depth, Call
<1>4. /\ asked = 0 /\ ~settled /\ ~quitNow /\ files = "open" /\ ~ClosePosted
      /\ Up = {} /\ Current = {}
  BY <1>2, NothingAsked
<1>5. /\ \A e : IsPosted(e)' <=> IsPosted(e) \/ e = <<"initDataConsumers">>
      /\ Once(events', {"closeAllSlot"})
  <2>1. /\ events \in Seq(Event) /\ <<"initDataConsumers">> \in Event
        /\ Once(events, {"closeAllSlot"}) /\ <<"initDataConsumers">>[1] \notin {"closeAllSlot"}
    BY DEF GInv, EventsOK, Event, Fine, Stage
  <2> QED
    BY <1>2, <2>1, InAppend DEF IsPosted
<1>6. Up' = {} /\ Current' = {}
  BY <1>2, <1>3, <1>4 DEF Up, Current
<1>7. Calm
  BY <1>2, <1>4, <1>5, <1>6 DEF Calm
<1>8. Stage'
  <2>1. InitPosted' /\ ~ClosePosted' /\ ~Closing'
    BY <1>3, <1>4, <1>5 DEF InitPosted, ClosePosted, Closing
  <2>2. (Depth > 0 /\ stack[1].exit => quitNow)'
    BY <1>3
  <2> QED
    BY <1>2, <1>3, <1>4, <1>5, <2>1, <2>2 DEF Stage
<1> QED
  BY <1>7, <1>8, CalmFine

(* So it does when it fails.                                               *)
LEMMA StartProgramFailsFine == ASSUME GInv, Fine, Ordinary, StartProgramFails PROVE Fine'
<1>1. /\ phase = "launch" /\ phase' = "ended"
      /\ UNCHANGED <<stack, quitNow, files, settled, events, thread, exited, pipe, asked>>
  BY DEF StartProgramFails, history
<1>2. /\ asked = 0 /\ ~settled /\ ~quitNow /\ files = "open" /\ ~ClosePosted
      /\ Depth = 0 /\ Up = {} /\ Current = {}
  BY <1>1, NothingAsked
<1>3. Depth' = 0
  BY <1>1, <1>2 DEF Depth
<1>4. \A e : IsPosted(e)' <=> IsPosted(e)
  BY <1>1 DEF IsPosted
<1>5. Up' = {} /\ Current' = {}
  BY <1>1, <1>2, <1>3 DEF Up, Current
<1>6. Calm
  BY <1>1, <1>2, <1>4, <1>5 DEF Calm
<1>7. Stage'
  <2>1. ~InitPosted' /\ ~ClosePosted' /\ ~Closing'
    BY <1>1, <1>2, <1>3, <1>4, NothingStarted DEF InitPosted, ClosePosted, Closing
  <2>2. Once(events', {"closeAllSlot"})
    BY <1>1 DEF Fine, Stage
  <2> QED
    BY <1>1, <1>2, <1>3, <2>1, <2>2 DEF Stage
<1> QED
  BY <1>6, <1>7, CalmFine

(* The invariant holds at first.                                           *)
LEMMA FineInit == ASSUME Init PROVE Fine
<1>1. /\ phase = "launch" /\ Depth = 0 /\ quitNow = FALSE /\ files = "open" /\ settled = FALSE
      /\ asked = 0 /\ events = <<>>
  BY DEF Init, Depth
<1>2. \A e : ~IsPosted(e)
  BY <1>1 DEF IsPosted, In
<1>3. Up = {} /\ Current = {} /\ Down = Threads
  BY <1>1 DEF Up, Current, Down
<1>4. Stage
  <2>1. ~InitPosted /\ ~ClosePosted /\ ~Closing
    BY <1>1, <1>2 DEF InitPosted, ClosePosted, Closing
  <2>2. Once(events, {"closeAllSlot"})
    BY <1>1 DEF Once
  <2> QED
    BY <1>1, <2>1, <2>2 DEF Stage
<1>5. \A t \in Threads : thread[t] = "off" /\ ~exited[t]
  BY DEF Init
<1>6. Lives
  BY <1>1, <1>2, <1>3, <1>5 DEF Lives, Idle
<1>7. Pipes
  BY <1>5, DaemonAssumption, ListsOfThreads DEF Pipes
<1> QED
  BY <1>4, <1>6, <1>7 DEF Fine

-----------------------------------------------------------------------------
(* Every step                                                              *)

(* What was not ordinary never is again.                                   *)
LEMMA OrdinaryBefore == ASSUME GInv, [Next]_vars, Ordinary' PROVE Ordinary
<1>1. ASSUME UNCHANGED history PROVE Ordinary
  BY <1>1 DEF history, Ordinary
<1>2. ASSUME NEW hastily \in BOOLEAN, ShutDown(hastily) PROVE Ordinary
  BY <1>2, DaemonAssumption DEF ShutDown, Ordinary, GInv, VarsOK
<1>3. CASE UNCHANGED vars
  BY <1>1, <1>3 DEF vars
<1>4. CASE Signal \/ StartProgram \/ StartProgramFails
  BY <1>1, <1>2, <1>4 DEF Signal, StartProgram, StartProgramFails
<1>5. CASE MainStep
  BY <1>1, <1>5 DEF MainStep, StartThread, WrongOptions, ConsumersReady, ProvidersReady, ClearProviders,
     CloseProvider, CloseConsumer, EndThread, WaitForThread, CloseFiles, HandleInit, HandleCloseAll,
     HandleStart, HandleQuit, HandleQuitLoop, LoopReturns, EndProgram
<1>6. ASSUME NEW t \in Threads, ThreadStep(t) PROVE Ordinary
  BY <1>1, <1>6 DEF ThreadStep, ThreadBegins, LoopOfThreadEnds, ThreadFinishes
<1>7. ASSUME NEW p \in ProviderSet,
             ProviderStep(p) \/ ListenFails(p) \/ SessionStarts(p) \/ LastSessionFinished(p)
      PROVE  Ordinary
  BY <1>1, <1>2, <1>7 DEF ProviderStep, Listen, CloseManager, ListenFails, SessionStarts,
                          LastSessionFinished
<1>8. ASSUME NEW c \in ConsumerSet, PrinterStarts(c) PROVE Ordinary
  BY <1>1, <1>8 DEF PrinterStarts
<1>9. ASSUME NEW c \in Writers, OpenPipe(c) \/ OpenFails(c) \/ WriteFails(c) PROVE Ordinary
  BY <1>1, <1>2, <1>9 DEF OpenPipe, OpenFails, WriteFails
<1> QED
  BY <1>3, <1>4, <1>5, <1>6, <1>7, <1>8, <1>9 DEF Next

(* Every step of the main thread keeps it.                                 *)
LEMMA MainStepFine == ASSUME GInv, GInv', Fine, Ordinary, MainStep PROVE Fine'
BY StartThreadFine, WrongOptionsFine, ConsumersReadyFine, ReturnFine, CloseProviderFine,
   CloseConsumerFine, EndThreadFine, WaitForThreadFine, CloseFilesFine, CallFine,
   HandleStartFine, HandleQuitFine, HandleQuitLoopFine, LoopReturnsFine, EndProgramFine DEF MainStep

(* So does the step of somebody else.                                      *)
LEMMA StutterFine == ASSUME Fine, UNCHANGED vars PROVE Fine'
<1>1. UNCHANGED <<phase, stack, quitNow, providers, files, settled, events, thread, exited, pipe, asked>>
  BY DEF vars, main, history
<1>2. /\ Depth' = Depth /\ Top' = Top
      /\ \A e : IsPosted(e)' <=> IsPosted(e)
  BY <1>1 DEF Depth, Top, IsPosted
<1>3. Current' = Current /\ Up' = Up /\ Down' = Down
  BY <1>1, <1>2 DEF Current, CurrentOf, Up, UpOf, Down
<1>4. Stage'
  <2>1. /\ InitPosted' <=> InitPosted
        /\ ClosePosted' <=> ClosePosted
        /\ Closing' <=> Closing
        /\ ListOK(Top)' <=> ListOK(Top)
    BY <1>1, <1>2 DEF InitPosted, ClosePosted, Closing, ListOK
  <2>2. (Depth > 0 /\ stack[1].exit => quitNow)'
    BY <1>1, <1>2, Zenon DEF Fine, Stage
  <2> QED
    BY <1>1, <1>2, <2>1, <2>2 DEF Fine, Stage
<1>5. Lives'
  BY <1>1, <1>2, <1>3 DEF Fine, Lives, Alive, Idle, Busy, Starting, Ending, Running
<1>6. Pipes'
  BY <1>1, <1>3 DEF Fine, Pipes
<1> QED
  BY <1>4, <1>5, <1>6 DEF Fine

(* The invariant is inductive beside GInv.                                 *)
LEMMA OInvStep == ASSUME GInv, GInv', OInv, [Next]_vars PROVE OInv'
<1> SUFFICES ASSUME Ordinary' PROVE Fine'
  BY DEF OInv
<1>1. Ordinary /\ Fine
  BY OrdinaryBefore DEF OInv
<1>2. ASSUME NEW t \in Threads, ThreadStep(t) PROVE Fine'
  BY <1>1, <1>2, ThreadStepFine
<1>3. ASSUME NEW p \in ProviderSet,
             ProviderStep(p) \/ ListenFails(p) \/ SessionStarts(p) \/ LastSessionFinished(p)
      PROVE  Fine'
  BY <1>1, <1>3, ProviderFine
<1>4. ASSUME NEW c \in ConsumerSet, PrinterStarts(c) PROVE Fine'
  BY <1>1, <1>4, PrinterFine
<1>5. ASSUME NEW c \in Writers, OpenPipe(c) \/ OpenFails(c) \/ WriteFails(c) PROVE Fine'
  BY <1>1, <1>5, PipeFine, WriteFailsFine
<1>6. CASE Next
  BY <1>1, <1>2, <1>3, <1>4, <1>5, <1>6, SignalFine, StartProgramFine, StartProgramFailsFine,
     MainStepFine DEF Next
<1> QED
  BY <1>1, <1>6, StutterFine

(* Both invariants hold in every reachable state.                          *)
THEOREM OrdinaryInductive == Spec => [](GInv /\ OInv)
<1>1. Init => GInv /\ OInv
  BY GInvInit, FineInit DEF OInv
<1>2. GInv /\ OInv /\ [Next]_vars => (GInv /\ OInv)'
  BY GInvStep, OInvStep
<1> QED
  BY <1>1, <1>2, PTL DEF Spec

-----------------------------------------------------------------------------
(* What follows                                                            *)

(* Once no event loop may run, every thread is down.                       *)
LEMMA AllDown ==
    ASSUME GInv, Fine, Ordinary, files = "closed"
    PROVE  Up = {} /\ Current = {} /\ \A t \in Threads : Idle(t)
<1>1. quitNow /\ asked # 0
  BY DEF Fine, Stage
<1>2. asked = 1
  BY <1>1, DaemonAssumption DEF GInv, VarsOK, Ordinary
<1>3. Depth # 2
  BY <1>1, <1>2 DEF Fine, Stage
<1>4. Up = {} /\ Current = {}
  BY <1>3 DEF Up, Current
<1> QED
  BY <1>4 DEF Fine, Lives, Down

(* Once a consumer was dealt with, or is, no provider is left in the list. *)
LEMMA ConsumersAreLast ==
    ASSUME NEW T, NEW p \in Seq(T), NEW c \in Seq(T), IsInjective(p \o c),
           NEW s, Suffix(s, p \o c), NEW x \in ToSet(c),
           x \notin ToSet(s) \/ (s # <<>> /\ x = Head(s))
    PROVE  ToSet(s) \subseteq ToSet(c)
<1> DEFINE both == p \o c
<1>1. /\ both \in Seq(T) /\ Len(both) = Len(p) + Len(c) /\ Len(p) \in Nat /\ Len(c) \in Nat
      /\ \A i \in 1..Len(c) : both[Len(p) + i] = c[i]
      /\ DOMAIN both = 1..Len(both)
  OBVIOUS
<1>2. IsInjective(both) /\ Suffix(s, both)
  OBVIOUS
<1> HIDE DEF both
<1>3. PICK k \in 1..(Len(both) + 1) : s = SubSeq(both, k, Len(both))
  BY <1>2 DEF Suffix
<1>4. /\ s \in Seq(T) /\ Len(s) = Len(both) - k + 1
      /\ \A i \in 1..Len(s) : s[i] = both[k + i - 1]
      /\ s # <<>> => Len(s) > 0 /\ Head(s) = s[1]
  BY <1>1, <1>3
<1>5. ToSet(s) = {s[i] : i \in 1..Len(s)} /\ ToSet(c) = {c[i] : i \in 1..Len(c)}
  BY <1>4, SetOf
<1>6. PICK j \in 1..Len(c) : x = c[j]
  BY <1>5
<1>7. Len(p) + j \in 1..Len(both) /\ both[Len(p) + j] = x
  BY <1>1, <1>6
<1>8. k > Len(p)
  <2>1. CASE x \notin ToSet(s)
    <3> SUFFICES ASSUME k <= Len(p) PROVE FALSE
      BY <1>1, <1>3
    <3>1. Len(p) + j - k + 1 \in 1..Len(s) /\ k + (Len(p) + j - k + 1) - 1 = Len(p) + j
      BY <1>1, <1>4, <1>6
    <3>2. s[Len(p) + j - k + 1] = x
      BY <1>4, <1>7, <3>1
    <3> QED
      BY <1>5, <2>1, <3>1, <3>2
  <2>2. CASE s # <<>> /\ x = Head(s)
    <3>1. 1 \in 1..Len(s) /\ s[1] = x
      BY <1>4, <2>2
    <3>2. k \in 1..Len(both) /\ both[k] = x
      BY <1>1, <1>3, <1>4, <3>1
    <3>3. k = Len(p) + j
      BY <1>1, <1>2, <1>7, <3>2 DEF IsInjective
    <3> QED
      BY <1>1, <1>6, <3>3
  <2> QED
    BY <2>1, <2>2
<1>9. ASSUME NEW i \in 1..Len(s) PROVE s[i] \in ToSet(c)
  <2>1. k + i - 1 - Len(p) \in 1..Len(c) /\ Len(p) + (k + i - 1 - Len(p)) = k + i - 1
    BY <1>1, <1>4, <1>8
  <2>2. s[i] = c[k + i - 1 - Len(p)]
    BY <1>1, <1>4, <2>1
  <2> QED
    BY <1>5, <2>1, <2>2
<1> QED
  BY <1>5, <1>9

(* A consumer is quit when no provider runs: it is behind them all in the  *)
(* list of closeAllSlot.                                                   *)
LEMMA ConsumersOutlive ==
    ASSUME GInv, Fine, Ordinary, NEW c \in ConsumerSet, exited[c]
    PROVE  \A p \in ProviderSet : ~Running(p)
<1>1. c \in Threads /\ c \notin Up
  BY ListsOfThreads DEF Fine, Lives, Alive
<1> SUFFICES Up \cap ProviderSet = {} /\ Current \cap ProviderSet = {}
  BY ListsOfThreads DEF Fine, Lives, Down, Idle, Running
<1>2. CASE Depth # 2
  BY <1>1, <1>2, ListsOfThreads DEF Up, Current
<1>3. CASE Depth = 2
  <2>1. thread[c] # "off"
    BY <1>1 DEF Fine, Lives
  <2>2. /\ Current = CurrentOf(Top) /\ Up = UpOf(Top)
        /\ Top.todo \in Seq(Threads) /\ Top.fn \in Inits \cup Closers
        /\ Top.at # "exec" /\ (Top.at # "next" => Top.todo # <<>>) /\ IsFrame(Top) /\ Top.at \in Places
    BY <1>3, CallFacts DEF Frame
  <2>3. c \in Current => Top.at = "ending"
    <3>1. c \in Current => Busy(c) /\ Top.at # "next"
      BY <2>2 DEF Fine, Lives, CurrentOf
    <3> QED
      BY <2>2, <3>1 DEF Busy, Starting, Alive, Places
  <2>4. ProviderSet \cap ConsumerSet = {}
    BY ListsOfThreads
  <2>5. Top.fn = "closeAllSlot"
    <3>1. CASE Top.fn = "initDataConsumers"
      <4>1. c \in ToSet(Top.todo)
        BY <1>1, <2>2, <3>1 DEF UpOf
      <4>2. Top = stack[2] /\ 2 \in 1..Depth
        BY <1>3 DEF Top
      <4>3. Top.at = "starting" \/ Top.at # "starting"
        OBVIOUS
      <4>4. \A t \in Pending(Top) : Unstarted(t)
        BY <3>1, <4>2 DEF GInv, StartsOnce, Pending, Inits
      <4>5. c \notin Pending(Top)
        BY <2>1, <4>4 DEF Unstarted
      <4>6. Top.at = "starting" /\ c \in Current
        <5>1. Top.at = "starting"
          BY <4>1, <4>5 DEF Pending
        <5>2. c = Head(Top.todo)
          BY <2>2, <4>1, <4>5, <5>1, HeadAndTail DEF Pending
        <5> QED
          BY <2>2, <5>1, <5>2 DEF CurrentOf
      <4> QED
        BY <2>3, <4>6
    <3>2. CASE Top.fn = "initDataProviders"
      <4>1. Suffix(Top.todo, providers)
        BY <1>3, <3>2 DEF Fine, Stage, ListOK
      <4>2. ToSet(Top.todo) \subseteq ProviderSet
        BY <4>1, ProvidersListed, SuffixFacts
      <4> QED
        BY <1>1, <2>2, <2>4, <3>2, <4>2 DEF UpOf
    <3>3. CASE Top.fn = "undoProviders"
      BY <1>1, <2>2, <3>3 DEF UpOf
    <3> QED
      BY <2>2, <3>1, <3>2, <3>3 DEF Inits, Closers
  <2>6. c \notin ToSet(Top.todo) \/ (Top.todo # <<>> /\ c = Head(Top.todo))
    BY <1>1, <2>2, <2>5 DEF UpOf, CurrentOf
  <2>7. ToSet(Top.todo) \subseteq ConsumerSet
    <3>1. Suffix(Top.todo, providers \o Consumers)
      BY <1>3, <2>5 DEF Fine, Stage, ListOK
    <3> QED
      BY <2>6, <3>1, BothListed, ProvidersListed, ListsOfThreads, ConsumersAreLast
  <2>8. Current \subseteq ToSet(Top.todo)
    BY <2>2, HeadOf DEF CurrentOf
  <2> QED
    BY <2>2, <2>4, <2>5, <2>7, <2>8 DEF UpOf
<1> QED
  BY <1>2, <1>3

(* In an ordinary shutDown no consumer is quit while a provider runs, and  *)
(* the files are closed when no thread runs: for any configuration, at     *)
(* whatever moment it is asked.                                            *)
THEOREM OrdinaryStopsInOrder == Spec => []StopsInOrder
<1>1. GInv /\ OInv => StopsInOrder
  <2> SUFFICES ASSUME GInv, OInv, Ordinary
               PROVE  /\ (\E c \in ConsumerSet : exited[c]) => \A p \in ProviderSet : ~Running(p)
                      /\ files = "closed" => \A t \in Threads : ~Running(t)
    BY DEF StopsInOrder
  <2>1. Fine
    BY DEF OInv
  <2>2. (\E c \in ConsumerSet : exited[c]) => \A p \in ProviderSet : ~Running(p)
    BY <2>1, ConsumersOutlive
  <2>3. files = "closed" => \A t \in Threads : ~Running(t)
    BY <2>1, AllDown DEF Idle, Running
  <2> QED
    BY <2>2, <2>3
<1> QED
  BY <1>1, OrdinaryInductive, PTL

(* An ordinary shutDown destroys no thread that runs, and leaves every     *)
(* pipe closed, once: for any configuration.                               *)
THEOREM OrdinaryEndsClean == Spec => []CleanEnd
<1>1. GInv /\ OInv => CleanEnd
  <2> SUFFICES ASSUME GInv, OInv, Ordinary
               PROVE  /\ phase # "aborted"
                      /\ phase = "ended" /\ settled =>
                            files = "closed" /\ \A c \in Writers : pipe[c] \in {"closed", "error"}
    BY DEF CleanEnd
  <2>1. Fine
    BY DEF OInv
  <2>2. phase # "aborted" /\ (phase = "ended" /\ settled => files = "closed")
    BY <2>1 DEF Fine, Stage
  <2>3. ASSUME settled, files = "closed", NEW c \in Writers
        PROVE  pipe[c] \in {"closed", "error"}
    <3>1. c \in ConsumerSet /\ c \in Threads
      BY DaemonAssumption, ListsOfThreads
    <3>2. Current = {} /\ Idle(c)
      BY <2>1, <2>3, <3>1, AllDown
    <3>3. thread[c] = "over"
      BY <2>1, <2>3, <3>1, <3>2 DEF Fine, Lives, Idle
    <3> QED
      BY <2>1, <3>2, <3>3 DEF Fine, Pipes
  <2> QED
    BY <2>2, <2>3
<1> QED
  BY <1>1, OrdinaryInductive, PTL
=============================================================================
