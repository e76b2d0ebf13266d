------------------------------- MODULE MCXrcu -------------------------------
(* Instances of Xrcu for TLC.                                              *)
EXTENDS XrcuInv, TLC

(* Threads with the same roles are interchangeable, and so are objects.    *)
Plain == Thread \ (Updaters \cup Leavers \cup Forkers)
Symmetry == Permutations(Plain) \cup Permutations(Object)
=============================================================================
