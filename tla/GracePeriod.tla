---------------------------- MODULE GracePeriod -----------------------------
(* What the RCU runtime promises its clients, with no counters, lists or   *)
(* mutexes: who is inside a critical section, who waits for whom, and when *)
(* a retired object may be destroyed.                                      *)
EXTENDS Integers

CONSTANTS Thread, Object

VARIABLES
  inside,   \* threads inside a critical section
  stage,    \* "sync" or "flush" while waiting, "reclaim" after a flush
  waitfor,  \* the sections each waiting thread still waits for
  pending,  \* the objects each thread has finalized
  obj,      \* the stage of each object's life
  refs      \* the objects each thread may dereference

vars == <<inside, stage, waitfor, pending, obj, refs>>

TypeOK ==
  /\ inside \subseteq Thread
  /\ stage \in [Thread -> {"none", "sync", "flush", "reclaim"}]
  /\ waitfor \in [Thread -> SUBSET Thread]
  /\ pending \in [Thread -> SUBSET Object]
  /\ obj \in [Object -> {"free", "live", "unlinked", "retired"}]
  /\ refs \in [Thread -> SUBSET Object]

Init ==
  /\ inside = {}
  /\ stage = [t \in Thread |-> "none"]
  /\ waitfor = [t \in Thread |-> {}]
  /\ pending = [t \in Thread |-> {}]
  /\ obj = [o \in Object |-> "free"]
  /\ refs = [t \in Thread |-> {}]

-----------------------------------------------------------------------------
(* Readers.                                                                *)

Enter(t) ==
  /\ t \notin inside /\ stage[t] = "none"
  /\ inside' = inside \cup {t}
  /\ UNCHANGED <<stage, waitfor, pending, obj, refs>>

Exit(t) ==
  /\ t \in inside
  /\ inside' = inside \ {t}
  /\ refs' = [refs EXCEPT ![t] = {}]
  /\ waitfor' = [u \in Thread |-> waitfor[u] \ {t}]
  /\ UNCHANGED <<stage, pending, obj>>

Acquire(t, o) ==
  /\ t \in inside /\ obj[o] = "live"
  /\ refs' = [refs EXCEPT ![t] = @ \cup {o}]
  /\ UNCHANGED <<inside, stage, waitfor, pending, obj>>

-----------------------------------------------------------------------------
(* Writers.                                                                *)

Publish(o) ==
  /\ obj[o] = "free"
  /\ obj' = [obj EXCEPT ![o] = "live"]
  /\ UNCHANGED <<inside, stage, waitfor, pending, refs>>

Remove(o) ==
  /\ obj[o] = "live"
  /\ obj' = [obj EXCEPT ![o] = "unlinked"]
  /\ UNCHANGED <<inside, stage, waitfor, pending, refs>>

Retire(t, o) ==
  /\ obj[o] = "unlinked" /\ stage[t] = "none"
  /\ obj' = [obj EXCEPT ![o] = "retired"]
  /\ pending' = [pending EXCEPT ![t] = @ \cup {o}]
  /\ UNCHANGED <<inside, stage, waitfor, refs>>

-----------------------------------------------------------------------------
(* Grace periods.                                                          *)

Begin(t, s) ==
  /\ t \notin inside /\ stage[t] = "none"
  /\ stage' = [stage EXCEPT ![t] = s]
  /\ waitfor' = [waitfor EXCEPT ![t] = inside]
  /\ UNCHANGED <<inside, pending, obj, refs>>

End(t) ==
  /\ stage[t] \in {"sync", "flush"}
  /\ waitfor[t] = {}
  /\ stage' = [stage EXCEPT ![t] = IF @ = "sync" THEN "none" ELSE "reclaim"]
  /\ UNCHANGED <<inside, waitfor, pending, obj, refs>>

Reclaim(t, o) ==
  /\ stage[t] = "reclaim" /\ o \in pending[t]
  /\ obj' = [obj EXCEPT ![o] = "free"]
  /\ pending' = [pending EXCEPT ![t] = @ \ {o}]
  /\ UNCHANGED <<inside, stage, waitfor, refs>>

Finish(t) ==
  /\ stage[t] = "reclaim" /\ pending[t] = {}
  /\ stage' = [stage EXCEPT ![t] = "none"]
  /\ UNCHANGED <<inside, waitfor, pending, obj, refs>>

(* In the child of a fork, t is the only thread there is.                  *)
Fork(t) ==
  /\ stage[t] = "none"
  /\ inside' = inside \cap {t}
  /\ stage' = [u \in Thread |-> "none"]
  /\ waitfor' = [u \in Thread |-> {}]
  /\ pending' = [u \in Thread |-> IF u = t THEN pending[t] ELSE {}]
  /\ refs' = [u \in Thread |-> IF u = t THEN refs[t] ELSE {}]
  /\ UNCHANGED obj

Next ==
  \/ \E t \in Thread :
       \/ Enter(t) \/ Exit(t) \/ Begin(t, "sync") \/ Begin(t, "flush")
       \/ End(t) \/ Finish(t) \/ Fork(t)
       \/ \E o \in Object : Acquire(t, o) \/ Retire(t, o) \/ Reclaim(t, o)
  \/ \E o \in Object : Publish(o) \/ Remove(o)

Spec == Init /\ [][Next]_vars

(* No object is destroyed while a reader may still dereference it.         *)
NoUseAfterReclaim ==
  \A t \in Thread, o \in Object : o \in refs[t] => obj[o] # "free"
=============================================================================
