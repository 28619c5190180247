----------------------------- MODULE MCDialogue -----------------------------
(* Small instances of Dialogue for TLC.                                    *)
EXTENDS Dialogue

CONSTANTS a, ours, other, k, l, iv

(* What a client may send is up to its program.                            *)
MCSends == [c \in Conns |-> {<<kind>> : kind \in Kinds}]

MCIv == [key \in Suitable |-> iv]

(* A pair, another pair, nothing, and something that is not a key.         *)
MCKeyFiles == {ours, other, NoKey, "damaged"}
=============================================================================
