--------------------------- MODULE AbstractStack ---------------------------
(* What the stacks promise: sequences of nodes, where pushing, popping,    *)
(* replacing and swapping happen in one step each, whatever the threads.   *)
EXTENDS Integers, Sequences, Functions

CONSTANTS Thread, Stack, Node, Null, MaxChain

VARIABLES
  items,  \* what each stack holds, top first
  hand    \* the node each thread has popped and not yet handed out

vars == <<items, hand>>

Disjoint(q) == \A s \in Stack : Range(q) \cap Range(items[s]) = {}
Chains == UNION {{q \in [1..k -> Node] : IsInjective(q)} : k \in 0..MaxChain}

Init ==
  /\ items \in [Stack -> Seq(Node)]
  /\ \A s \in Stack : IsInjective(items[s])
  /\ \A s, r \in Stack : s # r => Range(items[s]) \cap Range(items[r]) = {}
  /\ hand = [t \in Thread |-> Null]

Push(s) ==
  \E q \in Chains :
    /\ q # <<>> /\ Disjoint(q)
    /\ items' = [items EXCEPT ![s] = q \o @]
    /\ UNCHANGED hand

Pop(t, s) ==
  /\ items[s] # <<>> /\ hand[t] = Null
  /\ hand' = [hand EXCEPT ![t] = Head(items[s])]
  /\ items' = [items EXCEPT ![s] = Tail(@)]

Return(t) ==
  /\ hand' = [hand EXCEPT ![t] = Null]
  /\ UNCHANGED items

Replace(s) ==
  \E q \in Chains :
    /\ Disjoint(q)
    /\ items' = [items EXCEPT ![s] = q]
    /\ UNCHANGED hand

Swap(a, b) ==
  /\ items' = [items EXCEPT ![a] = items[b], ![b] = items[a]]
  /\ UNCHANGED hand

Next ==
  \/ \E s \in Stack : Push(s) \/ Replace(s) \/ \E t \in Thread : Pop(t, s)
  \/ \E a, b \in Stack : Swap(a, b)
  \/ \E t \in Thread : Return(t)

Spec == Init /\ [][Next]_vars
=============================================================================
