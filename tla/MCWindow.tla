------------------------------ MODULE MCWindow ------------------------------
(* Two files in one directory and one in another; two processes started by   *)
(* Explorer.                                                                 *)
EXTENDS Window

CONSTANTS f1, f2, f3, d1, d2, s1, s2

MCFiles     == {f1, f2, f3}
MCDirectory == [f \in MCFiles |-> IF f = f3 THEN d2 ELSE d1]
MCProtected == {f1}
MCSenders   == {s1, s2}
MCFileOf    == [s \in Senders |-> IF s = s1 THEN f1 ELSE f3]

=============================================================================
