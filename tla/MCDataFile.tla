----------------------------- MODULE MCDataFile -----------------------------
(* Small instances of DataFile for TLC.                                    *)
EXTENDS DataFile

CONSTANTS c1, c2, p1, p2, p3, p4

(* One portion for both consumers, the others for one of them.             *)
MCDest ==
    [p \in Portions |-> CASE p = p1 -> <<c1, c2>> [] p = p2 -> <<c1>> [] OTHER -> <<c2>>]

(* p1 and p2 have as many logs as destinations, p3 has more, and p4 is     *)
(* larger than the file of the runs it is used in.                         *)
MCNmbOfLogs ==
    [p \in Portions |-> CASE p = p2 -> 1 [] p = p4 -> 12 [] OTHER -> 2]

(* Portions of 6 and 10 lines, for a file of 10: the second one wraps and   *)
(* ends where the first one ends.                                          *)
MCDestFull == [p \in Portions |-> IF p = p1 THEN <<c1>> ELSE <<c2>>]
MCNmbOfLogsFull == [p \in Portions |-> IF p = p1 THEN 1 ELSE 5]
=============================================================================
