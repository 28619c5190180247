---------------------------- MODULE SessionStages ----------------------------
(***************************************************************************)
(* What the sessions of a provider promise, with no messages, timers or    *)
(* event queues: every connection goes through the stages of the protocol  *)
(* one by one and in order, it succeeds only from the last one, and once   *)
(* it is over it stays over. The provider is closed only when it accepts   *)
(* no connection any more and none is in progress.                         *)
(*                                                                         *)
(* Session is shown to implement this specification.                       *)
(***************************************************************************)
CONSTANTS
    Conns        \* the connections that clients make

VARIABLES
    stage,       \* [Conns -> the stage of the connection]
    accepting,   \* whether new connections are served
    closed       \* whether the provider reported that it is closed

vars == <<stage, accepting, closed>>

InProgress == {"hello", "crypto", "auth", "logs"}

Init ==
    /\ stage = [c \in Conns |-> "waiting"]
    /\ accepting = TRUE
    /\ closed = FALSE

Accept(c) ==
    /\ accepting
    /\ stage[c] = "waiting"
    /\ stage' = [stage EXCEPT ![c] = "hello"]
    /\ UNCHANGED <<accepting, closed>>

After == [hello |-> "crypto", crypto |-> "auth", auth |-> "logs", logs |-> "ok"]

(* One stage further, or over. The provider that waited for this           *)
(* connection alone is closed in the same step.                            *)
Go(c, to) ==
    /\ stage[c] \in InProgress
    /\ stage' = [stage EXCEPT ![c] = to]
    /\ UNCHANGED accepting
    /\ \/ UNCHANGED closed
       \/ /\ ~accepting
          /\ \A d \in Conns : stage'[d] \notin InProgress
          /\ closed' = TRUE

Advance(c) == stage[c] \in InProgress /\ Go(c, After[stage[c]])

Fail(c) == Go(c, "failed")

Close ==
    /\ accepting
    /\ accepting' = FALSE
    /\ closed' = (\A c \in Conns : stage[c] \notin InProgress)
    /\ UNCHANGED stage

(* The process dies with everything that is in progress.                   *)
Crash ==
    /\ stage' = [c \in Conns |-> IF stage[c] \in InProgress THEN "failed" ELSE stage[c]]
    /\ accepting' = FALSE
    /\ UNCHANGED closed

Next ==
    \/ \E c \in Conns : Accept(c) \/ Advance(c) \/ Fail(c)
    \/ Close
    \/ Crash

Spec == Init /\ [][Next]_vars

=============================================================================
