-------------------------- MODULE PortionDelivery --------------------------
(***************************************************************************)
(* What a provider's buffer promises to the data consumers, with no file,  *)
(* no pointers and no event queues: at most one portion is being           *)
(* distributed at a time, each of its destinations handles it at most      *)
(* once, ever, even across restarts, and while the program runs the        *)
(* portion is let go only when every destination has handled it.           *)
(*                                                                         *)
(* DataFile is shown to implement this specification.                      *)
(***************************************************************************)
CONSTANTS
    Consumers,   \* the data consumers
    Portions,    \* the portions of logs that clients send
    DestSet,     \* [Portions -> SUBSET Consumers]: whom a portion has to reach
    Null         \* no portion

VARIABLES
    current,     \* the portion being distributed, or Null
    delivered,   \* every <<consumer, portion>> handled so far
    alive        \* whether the program is running

vars == <<current, delivered, alive>>

TypeOK ==
    /\ current \in Portions \cup {Null}
    /\ delivered \subseteq Consumers \X Portions
    /\ alive \in BOOLEAN

Init ==
    /\ current = Null
    /\ delivered = {}
    /\ alive = TRUE

(* Nobody has handled portion p.                                           *)
Untouched(p) == \A c \in Consumers : <<c, p>> \notin delivered

(* A portion nobody has seen becomes the current one.                      *)
Start(p) ==
    /\ alive
    /\ current = Null
    /\ Untouched(p)
    /\ current' = p
    /\ UNCHANGED <<delivered, alive>>

(* A destination of the current portion handles it for the first time.     *)
Handle(c) ==
    /\ alive
    /\ current # Null
    /\ c \in DestSet[current]
    /\ <<c, current>> \notin delivered
    /\ delivered' = delivered \cup {<<c, current>>}
    /\ UNCHANGED <<current, alive>>

(* Everyone has handled the current portion: it is let go, and another     *)
(* portion, one nobody has seen, may take its place at once.               *)
Finish ==
    /\ alive
    /\ current # Null
    /\ \A c \in DestSet[current] : <<c, current>> \in delivered
    /\ \/ current' = Null
       \/ \E p \in Portions : Untouched(p) /\ current' = p
    /\ UNCHANGED <<delivered, alive>>

(* The program is shut down or killed, in the middle of a distribution or  *)
(* not, and started again.                                                 *)
Stop ==
    /\ alive
    /\ alive' = FALSE
    /\ current' = Null
    /\ UNCHANGED delivered

Restart ==
    /\ ~alive
    /\ alive' = TRUE
    /\ UNCHANGED <<current, delivered>>

Next ==
    \/ \E p \in Portions : Start(p)
    \/ \E c \in Consumers : Handle(c)
    \/ Finish
    \/ Stop
    \/ Restart

Spec == Init /\ [][Next]_vars

=============================================================================
