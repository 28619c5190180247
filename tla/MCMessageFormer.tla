--------------------------- MODULE MCMessageFormer ---------------------------
(* A small instance of MessageFormer for TLC.                              *)
EXTENDS MessageFormer

(* Good sizes, and each bad one before a good one, an empty one and the    *)
(* end of the stream.                                                      *)
MCSizes == <<2, 0, -1, 3, 0, 0, -2, 1, -1, -1, 0>>

MCFrames == 1..Len(MCSizes)

MCStart ==
    LET Bytes[i \in 0..Len(MCSizes)] ==
            IF i = 0 THEN 0
            ELSE Bytes[i - 1] + 4 + (IF MCSizes[i] > 0 THEN MCSizes[i] ELSE 0)
    IN  [i \in 1..(Len(MCSizes) + 1) |-> Bytes[i - 1]]

(* Anything that is not a header reads as a size of 7.                     *)
MCValue ==
    [k \in 1..MCStart[Len(MCStart)] |->
        IF \E i \in MCFrames : k = MCStart[i] + 1
        THEN MCSizes[CHOOSE i \in MCFrames : k = MCStart[i] + 1] ELSE 7]

==============================================================================
