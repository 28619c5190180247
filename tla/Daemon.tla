------------------------------- MODULE Daemon -------------------------------
(***************************************************************************)
(* The life of the daemon: MyNscaMain starts the threads of the consumers  *)
(* and then those of the providers, and ends all of them at a shutDown.    *)
(*                                                                         *)
(* The main thread waits for the others in event loops that it runs inside *)
(* a handler. Such a loop handles every event that is posted, another      *)
(* shutDown among them, so the calls of the main thread form a stack.      *)
(*                                                                         *)
(* A loop returns once it was told to exit and the posted events have been *)
(* handled, for they are handled together; after QCoreApplication::exit    *)
(* (quitNow) a new one returns at once and handles nothing.                *)
(*                                                                         *)
(* A definition Mut... is a plausible slip in the one that follows it, for *)
(* comparison; no specification uses it.                                   *)
(***************************************************************************)
EXTENDS Integers, Sequences, SequencesExt

CONSTANTS
    Providers,   \* the providers of the configuration, in the order of the map
    Consumers,   \* the consumers, likewise
    Writers,     \* the consumers that write into a pipe (ToIcingaWritter)
    Causes,      \* the causes of a shutDown, and the faults, that may happen
    MaxShutDowns \* bound on the calls of shutDown

ProviderSet == ToSet(Providers)
ConsumerSet == ToSet(Consumers)
Threads == ProviderSet \cup ConsumerSet

ASSUME DaemonAssumption ==
    /\ Providers \in Seq(ProviderSet) /\ Consumers \in Seq(ConsumerSet)
    /\ IsInjective(Providers \o Consumers)
    /\ Writers \subseteq ConsumerSet
    /\ Causes \subseteq {"early", "SIGINT", "listen", "open", "write", "options"}
    /\ MaxShutDowns \in Nat

VARIABLES
    phase,       \* "launch", "running", "ended" or "aborted"
    stack,       \* the calls of the main thread, the innermost last
    events,      \* the events posted to the main thread
    quitNow,     \* whether the main thread may run no event loop any more
    providers,   \* m_dataProviders
    thread,      \* [Threads -> what the thread does]
    exited,      \* [Threads -> whether quit was called]
    manager,     \* m_connectionManager: what it points to, for each provider
    requests,    \* [ProviderSet -> close() events posted to the manager]
    closing,     \* [ProviderSet -> whether the manager handled one]
    active,      \* [ProviderSet -> whether sessions are in progress]
    connected,   \* <<thread, signal, n>>: the signal quits the loop of stack[n]
    pipe,        \* [Writers -> what m_pipeDesc is]
    files,       \* "open" or "closed": the files of the buffers
    settled,     \* whether the initialisation is over
    asked,       \* how many times shutDown was called
    hasty        \* whether one of them came before the initialisation was over,
                 \* or from a thread that ends by itself

main == <<phase, stack, quitNow, providers, files, settled>>
service == <<manager, requests, closing, active>>
history == <<asked, hasty>>
vars == <<main, events, thread, exited, service, connected, pipe, history>>

-----------------------------------------------------------------------------
Call(fn, todo) == [fn |-> fn, at |-> "next", todo |-> todo, exit |-> FALSE]

Init ==
    /\ phase = "launch"
    /\ stack = <<>>
    /\ events = <<>>
    /\ quitNow = FALSE
    /\ providers = <<>>
    /\ thread = [t \in Threads |-> "off"]
    /\ exited = [t \in Threads |-> FALSE]
    /\ manager = [p \in ProviderSet |-> "null"]
    /\ requests = [p \in ProviderSet |-> 0]
    /\ closing = [p \in ProviderSet |-> FALSE]
    /\ active = [p \in ProviderSet |-> FALSE]
    /\ connected = {}
    /\ pipe = [c \in Writers |-> "unset"]
    /\ files = "open"
    /\ settled = FALSE
    /\ asked = 0
    /\ hasty = FALSE

Depth == Len(stack)
Top == stack[Depth]

Running(t) == thread[t] \notin {"off", "over"}

(* The events by which a signal of thread t quits the loops connected to   *)
(* it.                                                                     *)
Emitted(t, signal) ==
    SetToSeq({<<"quitLoop", n>> : n \in {k \in 1..Depth : <<t, signal, k>> \in connected}})

(* shutDown, in whatever thread: closeAllSlot is posted to the main thread.*)
ShutDown(hastily) ==
    /\ asked < MaxShutDowns
    /\ asked' = asked + 1
    /\ events' = Append(events, <<"closeAllSlot">>)
    /\ hasty' = (hasty \/ hastily \/ ~settled)

(* The handler of SIGINT is installed before anything is started.          *)
Signal ==
    /\ phase \in {"launch", "running"}
    /\ "SIGINT" \in Causes
    /\ settled \/ "early" \in Causes
    /\ ShutDown(FALSE)
    /\ UNCHANGED <<main, thread, exited, service, connected, pipe>>

(* startProgram and startOnlyConsumers, up to the main event loop. In the  *)
(* latter there are no providers.                                          *)
StartProgram ==
    /\ phase = "launch"
    /\ phase' = "running"
    /\ providers' \in {Providers, <<>>}
    /\ stack' = <<[Call("exec", <<>>) EXCEPT !.at = "exec"]>>
    /\ events' = Append(events, <<"initDataConsumers">>)
    /\ UNCHANGED <<quitNow, files, settled, thread, exited, service, connected, pipe, history>>

(* A wrong configuration, or a buffer file that cannot be used.            *)
StartProgramFails ==
    /\ phase = "launch"
    /\ phase' = "ended"
    /\ UNCHANGED <<stack, quitNow, providers, files, settled, events, thread, exited, service,
                   connected, pipe, history>>

-----------------------------------------------------------------------------
(* The main thread: the calls it is in                                     *)

At(where) == phase = "running" /\ Top.at \in where

Goto(where) == stack' = [stack EXCEPT ![Depth].at = where]

(* loop.exec(), unless quitNow: the handler waits at the loop, to which    *)
(* signals are connected.                                                  *)
Wait(where, connections) ==
    /\ stack' = [stack EXCEPT ![Depth].at = where, ![Depth].exit = FALSE]
    /\ connected' = connected \cup connections

(* The next item of the list that the call works on.                       *)
Proceed ==
    stack' = [stack EXCEPT ![Depth].at = "next", ![Depth].todo = Tail(@)]

Working(fns) == At({"next"}) /\ Top.fn \in fns

(* init of a consumer or provider: AdditionalThread::startThread           *)
StartThread ==
    /\ Working({"initDataConsumers", "initDataProviders"})
    /\ Top.todo # <<>>
    /\ LET t == Head(Top.todo)
       IN  /\ events' = Append(events, <<"start", t>>)
           /\ IF quitNow THEN Proceed /\ UNCHANGED connected
              ELSE Wait("starting", {<<t, "started", Depth>>, <<t, "finished", Depth>>})
    /\ UNCHANGED <<phase, quitNow, providers, files, settled, thread, exited, service, pipe,
                   history>>

(* parseOptions refuses: those that come before in the list are closed.    *)
WrongOptions ==
    /\ Working({"initDataProviders"})
    /\ "options" \in Causes
    /\ Top.todo # <<>>
    /\ stack' = [stack EXCEPT ![Depth].fn = "undoProviders",
                              ![Depth].todo = SubSeq(Providers, 1, Len(Providers) - Len(@))]
    /\ UNCHANGED <<phase, quitNow, providers, files, settled, events, thread, exited, service,
                   connected, pipe, history>>

(* dataConsummersReady is connected to initDataProviders, which it calls.  *)
ConsumersReady ==
    /\ Working({"initDataConsumers"})
    /\ Top.todo = <<>>
    /\ stack' = [stack EXCEPT ![Depth] = Call("initDataProviders", providers)]
    /\ UNCHANGED <<phase, quitNow, providers, files, settled, events, thread, exited, service,
                   connected, pipe, history>>

ProvidersReady ==
    /\ Working({"initDataProviders"})
    /\ Top.todo = <<>>
    /\ settled' = TRUE
    /\ stack' = Front(stack)
    /\ UNCHANGED <<phase, quitNow, providers, files, events, thread, exited, service, connected,
                   pipe, history>>

(* m_dataProviders.clear() destroys the threads; emergencyShutdown is      *)
(* connected to nothing.                                                   *)
ClearProviders ==
    /\ Working({"undoProviders"})
    /\ Top.todo = <<>>
    /\ phase' = IF \E p \in ProviderSet : Running(p) THEN "aborted" ELSE phase
    /\ providers' = <<>>
    /\ settled' = TRUE
    /\ stack' = Front(stack)
    /\ UNCHANGED <<quitNow, files, events, thread, exited, service, connected, pipe, history>>

(* loop.exec() in DefaultTcpProvider::close                                *)
WaitForManager(connections) ==
    IF quitNow THEN Goto("check") /\ UNCHANGED connected
    ELSE Wait("closing", connections)

(* DefaultTcpProvider::close: the manager is asked to close, if there is   *)
(* one. One that was destroyed may do anything; mostly nothing.            *)
CloseProvider ==
    /\ Working({"closeAllSlot", "undoProviders"})
    /\ Top.todo # <<>>
    /\ LET p == Head(Top.todo)
       IN  /\ p \in ProviderSet
           /\ \/ /\ manager[p] = "null"
                 /\ Goto("check")
                 /\ UNCHANGED <<phase, requests, connected>>
              \/ /\ manager[p] = "live"
                 /\ requests' = [requests EXCEPT ![p] = @ + 1]
                 /\ WaitForManager({<<p, "closed", Depth>>})
                 /\ UNCHANGED phase
              \/ /\ manager[p] = "dead"
                 /\ \/ WaitForManager({}) /\ UNCHANGED phase
                    \/ phase' = "aborted" /\ UNCHANGED <<stack, connected>>
                 /\ UNCHANGED requests
    /\ UNCHANGED <<quitNow, providers, files, settled, events, thread, exited, manager, closing,
                   active, pipe, history>>

CloseConsumer ==
    /\ Working({"closeAllSlot"})
    /\ Top.todo # <<>>
    /\ Head(Top.todo) \in ConsumerSet
    /\ Goto("check")
    /\ UNCHANGED <<phase, quitNow, providers, files, settled, events, thread, exited, service,
                   connected, pipe, history>>

(* What follows endThread in the close of a provider or consumer. The      *)
(* descriptor of a pipe is closed whatever it is.                          *)
MutClosedKeepsManager ==
    LET t == Head(Top.todo)
    IN  /\ manager' = manager
        /\ pipe' = [c \in Writers |->
                       IF c # t \/ pipe[c] = "error" THEN pipe[c]
                       ELSE IF pipe[c] = "open" THEN "closed" ELSE "foreign"]
        /\ Proceed

Closed ==
    LET t == Head(Top.todo)
    IN  /\ manager' = [p \in ProviderSet |-> IF p = t THEN "null" ELSE manager[p]]
        /\ pipe' = [c \in Writers |->
                       IF c # t \/ pipe[c] = "error" THEN pipe[c]
                       ELSE IF pipe[c] = "open" THEN "closed" ELSE "foreign"]
        /\ Proceed

(* AdditionalThread::endThread. The thread may end before the signal       *)
(* finished is connected.                                                  *)
EndThread ==
    /\ At({"check"})
    /\ IF Running(Head(Top.todo))
       THEN Goto("connect") /\ UNCHANGED <<manager, pipe>>
       ELSE Closed
    /\ UNCHANGED <<phase, quitNow, providers, files, settled, events, thread, exited, requests,
                   closing, active, connected, history>>

MutWaitForThreadDoesNot ==
    /\ At({"connect"})
    /\ events' = Append(events, <<"quit", Head(Top.todo)>>)
    /\ Closed
    /\ UNCHANGED <<phase, quitNow, providers, files, settled, thread, exited, requests, closing,
                   active, connected, history>>

WaitForThread ==
    /\ At({"connect"})
    /\ LET t == Head(Top.todo)
       IN  /\ events' = Append(events, <<"quit", t>>)
           /\ IF quitNow THEN Closed /\ UNCHANGED connected
              ELSE /\ Wait("ending", {<<t, "finished", Depth>>})
                   /\ UNCHANGED <<manager, pipe>>
    /\ UNCHANGED <<phase, quitNow, providers, files, settled, thread, exited, requests, closing,
                   active, history>>

(* closeFile for every buffer, and QCoreApplication::exit, which makes     *)
(* every loop of the main thread exit.                                     *)
CloseFiles ==
    /\ Working({"closeAllSlot"})
    /\ Top.todo = <<>>
    /\ files' = "closed"
    /\ quitNow' = TRUE
    /\ stack' = [n \in 1..(Depth - 1) |-> [stack[n] EXCEPT !.exit = TRUE]]
    /\ UNCHANGED <<phase, providers, settled, events, thread, exited, service, connected, pipe,
                   history>>

-----------------------------------------------------------------------------
(* The event loops of the main thread                                      *)

InLoop == At({"exec", "starting", "closing", "ending"})

Posted(kind) == InLoop /\ events # <<>> /\ Head(events)[1] = kind /\ events' = Tail(events)

HandleInit ==
    /\ Posted("initDataConsumers")
    /\ stack' = Append(stack, Call("initDataConsumers", Consumers))
    /\ UNCHANGED <<phase, quitNow, providers, files, settled, thread, exited, service, connected,
                   pipe, history>>

MutConsumersFirst ==
    /\ Posted("closeAllSlot")
    /\ stack' = Append(stack, Call("closeAllSlot", Consumers \o providers))
    /\ UNCHANGED <<phase, quitNow, providers, files, settled, thread, exited, service, connected,
                   pipe, history>>

HandleCloseAll ==
    /\ Posted("closeAllSlot")
    /\ stack' = Append(stack, Call("closeAllSlot", providers \o Consumers))
    /\ UNCHANGED <<phase, quitNow, providers, files, settled, thread, exited, service, connected,
                   pipe, history>>

(* What is posted to a thread that was destroyed is removed with it.       *)
Exists(t) == t \in ToSet(providers) \cup ConsumerSet

HandleStart ==
    /\ Posted("start")
    /\ LET t == Head(events)[2]
       IN  IF Exists(t)
           THEN /\ thread' = [thread EXCEPT ![t] = "begun"]
                /\ exited' = [exited EXCEPT ![t] = FALSE]
           ELSE UNCHANGED <<thread, exited>>
    /\ UNCHANGED <<main, service, connected, pipe, history>>

HandleQuit ==
    /\ Posted("quit")
    /\ LET t == Head(events)[2]
       IN  exited' = IF Exists(t) THEN [exited EXCEPT ![t] = TRUE] ELSE exited
    /\ UNCHANGED <<main, thread, service, connected, pipe, history>>

HandleQuitLoop ==
    /\ Posted("quitLoop")
    /\ stack' = [stack EXCEPT ![Head(events)[2]].exit = TRUE]
    /\ UNCHANGED <<phase, quitNow, providers, files, settled, thread, exited, service, connected,
                   pipe, history>>

MutLoopLeavesConnections ==
    /\ InLoop
    /\ Top.exit
    /\ events = <<>>
    /\ \/ Top.at = "starting" /\ Proceed /\ UNCHANGED <<manager, pipe>>
       \/ Top.at = "closing" /\ Goto("check") /\ UNCHANGED <<manager, pipe>>
       \/ Top.at = "ending" /\ Closed
    /\ UNCHANGED <<phase, quitNow, providers, files, settled, events, thread, exited, requests,
                   closing, active, connected, history>>

LoopReturns ==
    /\ InLoop
    /\ Top.exit
    /\ events = <<>>
    /\ \/ Top.at = "starting" /\ Proceed /\ UNCHANGED <<manager, pipe>>
       \/ Top.at = "closing" /\ Goto("check") /\ UNCHANGED <<manager, pipe>>
       \/ Top.at = "ending" /\ Closed
    /\ connected' = {x \in connected : x[3] # Depth}
    /\ UNCHANGED <<phase, quitNow, providers, files, settled, events, thread, exited, requests,
                   closing, active, history>>

(* exec returns and everything is destroyed; the destructor of a thread    *)
(* that runs aborts the program.                                           *)
EndProgram ==
    /\ At({"exec"})
    /\ Top.exit
    /\ events = <<>>
    /\ phase' = IF \E t \in Threads : Running(t) THEN "aborted" ELSE "ended"
    /\ UNCHANGED <<stack, quitNow, providers, files, settled, events, thread, exited, service,
                   connected, pipe, history>>

-----------------------------------------------------------------------------
(* The threads of the providers and consumers                              *)

Does(t, what) == phase = "running" /\ thread[t] = what

Become(t, what) == thread' = [thread EXCEPT ![t] = what]

ThreadBegins(t) ==
    /\ Does(t, "begun")
    /\ Become(t, "run")
    /\ events' = events \o Emitted(t, "started")
    /\ UNCHANGED <<main, exited, service, connected, pipe, history>>

(* DefaultTcpProvider::run                                                 *)
ListenFails(p) ==
    /\ Does(p, "run")
    /\ "listen" \in Causes
    /\ ShutDown(TRUE)
    /\ Become(p, "returned")
    /\ UNCHANGED <<main, exited, service, connected, pipe>>

Listen(p) ==
    /\ Does(p, "run")
    /\ Become(p, "loop")
    /\ manager' = [manager EXCEPT ![p] = "live"]
    /\ UNCHANGED <<main, events, exited, requests, closing, active, connected, pipe, history>>

(* ToScreenPrinter::run                                                    *)
PrinterStarts(c) ==
    /\ c \notin Writers
    /\ Does(c, "run")
    /\ Become(c, "loop")
    /\ UNCHANGED <<main, events, exited, service, connected, pipe, history>>

(* ToIcingaWritter::run: open waits until somebody reads from the pipe.    *)
OpenPipe(c) ==
    /\ Does(c, "run")
    /\ Become(c, "loop")
    /\ pipe' = [pipe EXCEPT ![c] = "open"]
    /\ UNCHANGED <<main, events, exited, service, connected, history>>

OpenFails(c) ==
    /\ Does(c, "run")
    /\ "open" \in Causes
    /\ ShutDown(FALSE)
    /\ Become(c, "loop")
    /\ pipe' = [pipe EXCEPT ![c] = "error"]
    /\ UNCHANGED <<main, exited, service, connected>>

(* ToIcingaWritter::consumeDataPortion, when write fails.                  *)
WriteFails(c) ==
    /\ Does(c, "loop")
    /\ "write" \in Causes
    /\ ShutDown(FALSE)
    /\ UNCHANGED <<main, thread, exited, service, connected, pipe>>

SessionStarts(p) ==
    /\ Does(p, "loop")
    /\ ~closing[p]
    /\ active' = [active EXCEPT ![p] = TRUE]
    /\ UNCHANGED <<main, events, thread, exited, manager, requests, closing, connected, pipe,
                   history>>

(* closed is emitted when the last session finishes, once a close() waits  *)
(* for it.                                                                 *)
LastSessionFinished(p) ==
    /\ Does(p, "loop")
    /\ active[p]
    /\ active' = [active EXCEPT ![p] = FALSE]
    /\ events' = IF closing[p] THEN events \o Emitted(p, "closed") ELSE events
    /\ UNCHANGED <<main, thread, exited, manager, requests, closing, connected, pipe, history>>

(* ConnectionManager::close                                                *)
MutCloseManagerOnlyWaits(p) ==
    /\ Does(p, "loop")
    /\ requests[p] > 0
    /\ requests' = [requests EXCEPT ![p] = @ - 1]
    /\ closing' = [closing EXCEPT ![p] = TRUE]
    /\ UNCHANGED <<main, events, thread, exited, manager, active, connected, pipe, history>>

CloseManager(p) ==
    /\ Does(p, "loop")
    /\ requests[p] > 0
    /\ requests' = [requests EXCEPT ![p] = @ - 1]
    /\ closing' = [closing EXCEPT ![p] = TRUE]
    /\ events' = IF active[p] THEN events ELSE events \o Emitted(p, "closed")
    /\ UNCHANGED <<main, thread, exited, manager, active, connected, pipe, history>>

(* exec returns once quit was called. A provider destroys its manager.     *)
LoopOfThreadEnds(t) ==
    /\ Does(t, "loop")
    /\ exited[t]
    /\ Become(t, "returned")
    /\ manager' = [p \in ProviderSet |-> IF p = t /\ manager[p] = "live" THEN "dead"
                                           ELSE manager[p]]
    /\ requests' = [p \in ProviderSet |-> IF p = t THEN 0 ELSE requests[p]]
    /\ active' = [p \in ProviderSet |-> IF p = t THEN FALSE ELSE active[p]]
    /\ UNCHANGED <<main, events, exited, closing, connected, pipe, history>>

ThreadFinishes(t) ==
    /\ Does(t, "returned")
    /\ Become(t, "over")
    /\ events' = events \o Emitted(t, "finished")
    /\ UNCHANGED <<main, exited, service, connected, pipe, history>>

-----------------------------------------------------------------------------
MainStep ==
    \/ StartThread \/ WrongOptions \/ ConsumersReady \/ ProvidersReady
    \/ ClearProviders
    \/ CloseProvider \/ CloseConsumer \/ EndThread \/ WaitForThread \/ CloseFiles
    \/ HandleInit \/ HandleCloseAll \/ HandleStart \/ HandleQuit \/ HandleQuitLoop
    \/ LoopReturns \/ EndProgram

ProviderStep(p) == Listen(p) \/ CloseManager(p)

ThreadStep(t) ==
    ThreadBegins(t) \/ LoopOfThreadEnds(t) \/ ThreadFinishes(t)

Next ==
    \/ Signal
    \/ StartProgram
    \/ StartProgramFails
    \/ MainStep
    \/ \E t \in Threads : ThreadStep(t)
    \/ \E p \in ProviderSet :
          ProviderStep(p) \/ ListenFails(p) \/ SessionStarts(p) \/ LastSessionFinished(p)
    \/ \E c \in ConsumerSet : PrinterStarts(c)
    \/ \E c \in Writers : OpenPipe(c) \/ OpenFails(c) \/ WriteFails(c)

Spec == Init /\ [][Next]_vars

(* The main thread, and each of the others, goes on: what it waits for is  *)
(* in its conditions. That clients end their sessions, and that somebody   *)
(* reads from a pipe, is not up to the program.                            *)
Fairness ==
    /\ WF_vars(MainStep)
    /\ \A t \in Threads : WF_vars(ThreadStep(t))
    /\ \A p \in ProviderSet : WF_vars(ProviderStep(p))
    /\ \A c \in ConsumerSet : WF_vars(PrinterStarts(c))

FairSpec == Spec /\ Fairness

-----------------------------------------------------------------------------
(* Properties                                                              *)

Calls == {"exec", "initDataConsumers", "initDataProviders", "undoProviders", "closeAllSlot"}

Places ==
    {"exec", "next", "starting", "closing", "check", "connect", "ending"}

(* The type of every variable.                                             *)
TypeOK ==
    /\ phase \in {"launch", "running", "ended", "aborted"}
    /\ \A n \in 1..Depth : /\ stack[n].fn \in Calls
                           /\ stack[n].at \in Places
                           /\ stack[n].todo \in Seq(Threads)
                           /\ stack[n].exit \in BOOLEAN
    /\ quitNow \in BOOLEAN
    /\ providers \in {Providers, <<>>}
    /\ thread \in [Threads -> {"off", "begun", "run", "loop", "returned", "over"}]
    /\ exited \in [Threads -> BOOLEAN]
    /\ manager \in [ProviderSet -> {"null", "live", "dead"}]
    /\ requests \in [ProviderSet -> Nat]
    /\ closing \in [ProviderSet -> BOOLEAN]
    /\ active \in [ProviderSet -> BOOLEAN]
    /\ connected \subseteq Threads \X {"started", "finished", "closed"} \X (1..Depth)
    /\ pipe \in [Writers -> {"unset", "open", "error", "closed", "foreign"}]
    /\ files \in {"open", "closed"}
    /\ settled \in BOOLEAN
    /\ asked \in 0..MaxShutDowns
    /\ hasty \in BOOLEAN

(* One shutDown, asked when everything had been started.                   *)
Ordinary == asked <= 1 /\ ~hasty

(* As long as the program is not exiting, m_connectionManager points to a  *)
(* destroyed manager only while a close() waits for the end of its thread. *)
DanglingWhileEnding ==
    phase = "running" /\ ~quitNow =>
        \A p \in ProviderSet : manager[p] = "dead" =>
            \E n \in 1..Depth : stack[n].at = "ending" /\ Head(stack[n].todo) = p

(* In an ordinary shutDown the consumers outlive the providers, and the    *)
(* files are closed when no thread is left that could use them.            *)
StopsInOrder ==
    Ordinary =>
        /\ (\E c \in ConsumerSet : exited[c]) => \A p \in ProviderSet : ~Running(p)
        /\ files = "closed" => \A t \in Threads : ~Running(t)

(* An ordinary shutDown ends with no thread destroyed while it runs, and   *)
(* with every pipe closed once.                                            *)
CleanEnd ==
    Ordinary =>
        /\ phase # "aborted"
        /\ phase = "ended" /\ settled =>
              files = "closed" /\ \A c \in Writers : pipe[c] \in {"closed", "error"}

(* No session goes on for ever, and somebody reads from every pipe.        *)
NobodyToWaitFor ==
    (\A p \in ProviderSet : ~active[p]) /\ (\A c \in Writers : thread[c] # "run")

(* An ordinary shutDown ends the program, unless a session or the reader   *)
(* of a pipe keeps it.                                                     *)
OrdinaryShutDownEnds ==
    []<>NobodyToWaitFor =>
        (asked = 1 /\ Ordinary ~> phase = "ended" \/ ~Ordinary)

=============================================================================
