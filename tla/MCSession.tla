------------------------------ MODULE MCSession -----------------------------
(* Model values for the runs of Session.                                    *)
EXTENDS Session, TLC

CONSTANTS t1, t2, s1, s2, e1, nobody, cfun, commander

(* The program's threads are interchangeable.                               *)
ThreadSymmetry == Permutations({t1, t2})

=============================================================================
