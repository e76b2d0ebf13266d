--------------------------- MODULE AbstractQueue ---------------------------
(* What the queue promises: a sequence of values that pushes extend at the *)
(* end, that pops shorten at the front, and that assign and clear replace, *)
(* each at one instant between the call and its return.                    *)
EXTENDS Integers, Sequences, Functions

CONSTANTS
  Thread, Value,
  Ranges  \* the lengths of the ranges that are assigned

VARIABLES
  items,  \* what the queue holds, the oldest first
  call    \* the operation each thread is in, its argument and its outcome

vars == <<items, call>>

NoCall == [op |-> "none", arg |-> <<>>, res |-> "none"]

Init ==
  /\ items \in Seq(Value)
  /\ call = [t \in Thread |-> NoCall]

In(t, op) == call[t].op = op /\ call[t].res = "pending"
Outcome(t, r) == call' = [call EXCEPT ![t].res = r]

(* A push carries one value, an assign those of its range.                 *)
Invoke(t) ==
  /\ call[t] = NoCall
  /\ call'[t] \in [op : {"push", "pop", "assign", "clear"},
                    arg : UNION {[1..k -> Value] : k \in Ranges \cup {0, 1}},
                    res : {"pending"}]
  /\ call'[t].op = "push" => Len(call'[t].arg) = 1
  /\ call' = [call EXCEPT ![t] = call'[t]]
  /\ UNCHANGED items

(* A push that takes effect has returned.                                  *)
Push(t) ==
  /\ In(t, "push")
  /\ items' = items \o call[t].arg
  /\ call' = [call EXCEPT ![t] = NoCall]

(* A push that runs out of memory adds nothing.                            *)
Refuse(t) ==
  /\ In(t, "push")
  /\ Outcome(t, "refused")
  /\ UNCHANGED items

Pop(t) ==
  /\ In(t, "pop") /\ items # <<>>
  /\ call' = [call EXCEPT ![t].arg = <<Head(items)>>, ![t].res = "popped"]
  /\ items' = Tail(items)

(* Whether the queue was empty is for Queue to say: that instant may be    *)
(* known only later.                                                       *)
FindEmpty(t) ==
  /\ In(t, "pop")
  /\ Outcome(t, "empty")
  /\ UNCHANGED items

(* Pushes that are pending may come just before, and go at once.           *)
Swept(S, t, c) ==
  call' = [u \in Thread |->
             IF u = t THEN c
             ELSE IF u \in S THEN [call[u] EXCEPT !.res = "swept"] ELSE call[u]]

Assign(t) ==
  /\ In(t, "assign")
  /\ items' = call[t].arg
  /\ \E S \in SUBSET {u \in Thread : In(u, "push")} : Swept(S, t, NoCall)

Clear(t) ==
  /\ In(t, "clear")
  /\ items' = <<>>
  /\ \E S \in SUBSET {u \in Thread : In(u, "push")} :
       Swept(S, t, [call[t] EXCEPT !.res = "done"])

Return(t) ==
  /\ call[t].res \notin {"none", "pending"}
  /\ call' = [call EXCEPT ![t] = NoCall]
  /\ UNCHANGED items

Next ==
  \E t \in Thread :
    \/ Return(t) \/ Invoke(t) \/ Push(t) \/ Refuse(t) \/ Pop(t) \/ FindEmpty(t)
    \/ Assign(t) \/ Clear(t)

Spec == Init /\ [][Next]_vars
=============================================================================
