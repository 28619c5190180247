------------------------------ MODULE Framing ------------------------------
(***************************************************************************)
(* What the framing of messages over TCP promises, whatever the pieces in  *)
(* which the bytes arrive: the messages handed up are the contents of the  *)
(* frames of the stream, each one whole, in order, none twice, and none    *)
(* left out but those that announce the size -1, which stands for "size    *)
(* not known yet" in the code that reads it.                               *)
(*                                                                         *)
(* MessageFormer is shown to implement this specification.                 *)
(***************************************************************************)
EXTENDS Stream

VARIABLES
    arrived,     \* how many bytes have arrived
    done,        \* how many frames have been dealt with
    messages     \* the messages handed up

vars == <<arrived, done, messages>>

Init ==
    /\ arrived = 0
    /\ done = 0
    /\ messages = <<>>

Arrive ==
    /\ arrived' \in (arrived + 1)..Total
    /\ UNCHANGED <<done, messages>>

HandUp ==
    /\ done + 1 \in Frames
    /\ Start[done + 2] <= arrived
    /\ done' = done + 1
    /\ messages' = IF SizeOf(done + 1) = -1 THEN messages
                   ELSE Append(messages, Content(done + 1))
    /\ UNCHANGED arrived

Next == Arrive \/ HandUp

Spec == Init /\ [][Next]_vars

=============================================================================
