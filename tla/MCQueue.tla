------------------------------ MODULE MCQueue -------------------------------
(* Instances of Queue for TLC.                                             *)
EXTENDS Queue

(* Model values that name the threads of the instances.                    *)
CONSTANTS t1, t2, t3
=============================================================================
