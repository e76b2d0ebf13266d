------------------------------ MODULE MCStack -------------------------------
(* Instances of Stack for TLC.                                             *)
EXTENDS Stack, TLC

(* Model values that name the stacks, nodes and threads of the instances.  *)
CONSTANTS t1, t2, t3, s1, s2, n1, n2, n3

NoItems == [s \in Stack |-> <<>>]
OneEach == [s \in Stack |-> IF s = s1 THEN <<n1>> ELSE <<n2>>]
TwoItems == [s \in Stack |-> IF s = s1 THEN <<n1, n2>> ELSE <<>>]

NoPairs == {}
OnePair == {<<s1, s2>>}

Symmetry == Permutations(Node)
=============================================================================
