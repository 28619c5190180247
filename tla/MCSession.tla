------------------------------ MODULE MCSession ------------------------------
(* Small instances of Session for TLC.                                     *)
EXTENDS Session

CONSTANTS a, b

(* Client a sends anything, and some pairs without waiting for the answer: *)
(* across the ends of two parts, and two portions of logs. Client b gets   *)
(* no further than the choice of the protocol.                             *)
MCSends ==
    [c \in Conns |->
        IF c = a
        THEN {<<k>> : k \in Kinds}
             \cup {<<"key", "login">>, <<"pass", "logs">>, <<"logs", "logsQueued">>}
        ELSE {<<"protocol">>}]
=============================================================================
