------------------------------ MODULE HalfDuplex ------------------------------
(***************************************************************************)
(* What the two programs of a dialogue rely on without saying it: they     *)
(* take turns. The server speaks first, each message answers exactly one,  *)
(* and never more than one is under way. The client takes whatever a read  *)
(* of its socket gives for one message; only this makes that right.        *)
(***************************************************************************)
CONSTANT Conns

VARIABLE floor   \* [Conns -> who has the floor, or where the message is]

Floors ==
    {"idle",      \* not connected yet
     "server",    \* the server has read all there is
     "down",      \* one message is under way to the client
     "up",        \* one message is under way to the server
     "closed"}    \* somebody has hung up

Init == floor = [c \in Conns |-> "idle"]

Passes(c, from, to) == floor[c] = from /\ floor' = [floor EXCEPT ![c] = to]

Next ==
    \E c \in Conns :
        \/ Passes(c, "idle", "server")
        \/ Passes(c, "server", "down")
        \/ Passes(c, "down", "up")
        \/ Passes(c, "up", "server")
        \/ \E f \in Floors : Passes(c, f, "closed")

Spec == Init /\ [][Next]_floor
=============================================================================
