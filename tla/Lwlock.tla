------------------------------- MODULE Lwlock -------------------------------
(* The lightweight lock of src/lwlock.cpp: a word that is 0 when free, 1   *)
(* when held and 2 when held with a possible sleeper, over a futex; and    *)
(* the variant for systems without futexes, which naps instead of sleeping *)
(* and never stores 2.                                                     *)
(*                                                                         *)
(* One step is one atomic instruction or one system call.  The bounded     *)
(* spin that precedes a swap reads the word and decides nothing: a thread  *)
(* in "spin" may leave it at any time.                                     *)
EXTENDS Integers

CONSTANT
  Thread  \* threads that use the lock

VARIABLES
  futex, \* was the lock built for a system with futexes?  It never changes.
  lock,  \* lwlock::lock
  pc     \* where each thread is; "held" is between acquire and release

vars == <<futex, lock, pc>>

Trying == {"spin", "wait", "asleep", "nap"}
Label == {"idle", "held", "wake"} \cup Trying

TypeOK ==
  /\ futex \in BOOLEAN
  /\ lock \in 0..2
  /\ pc \in [Thread -> Label]

Init ==
  /\ futex \in BOOLEAN
  /\ lock = 0
  /\ pc = [t \in Thread |-> "idle"]

At(t, l) == pc[t] = l
Goto(t, l) == pc' = [pc EXCEPT ![t] = l] /\ UNCHANGED futex

-----------------------------------------------------------------------------

(* xatomic_cas_bool (ptr, 0, 1): the fast path of acquire, and the head of *)
(* the loop without futexes.                                               *)
TryAcquire(t) ==
  /\ pc[t] \in {"idle", "nap"}
  /\ IF lock = 0
       THEN lock' = 1 /\ Goto(t, "held")
       ELSE Goto(t, "spin") /\ UNCHANGED lock

(* Mutants: a counting word, the test of the swap the wrong way round, and *)
(* a test that misses a lock found free.                                   *)
SwapAdd(t) ==
  /\ At(t, "spin")
  /\ lock' = lock + 1
  /\ Goto(t, IF lock = 0 THEN "held" ELSE IF futex THEN "wait" ELSE "nap")

SwapInverted(t) ==
  /\ At(t, "spin")
  /\ lock' = IF futex THEN 2 ELSE 1
  /\ Goto(t, IF lock # 0 THEN "held" ELSE IF futex THEN "wait" ELSE "nap")

SwapUnnoticed(t) ==
  /\ At(t, "spin")
  /\ lock' = IF futex THEN 2 ELSE 1
  /\ Goto(t, IF futex THEN "wait" ELSE "nap")

(* xatomic_swap after the spin: the lock is taken if it was free, and      *)
(* marked as contended either way.                                         *)
Swap(t) ==
  /\ At(t, "spin")
  /\ lock' = IF futex THEN 2 ELSE 1
  /\ Goto(t, IF lock = 0 THEN "held" ELSE IF futex THEN "wait" ELSE "nap")

(* Mutant: the kernel sleeps without comparing the word.                   *)
WaitBlindly(t) ==
  /\ At(t, "wait")
  /\ Goto(t, "asleep")
  /\ UNCHANGED lock

(* FUTEX_WAIT: sleep if the word is still 2, come back at once if not.     *)
FutexWait(t) ==
  /\ At(t, "wait")
  /\ Goto(t, IF lock = 2 THEN "asleep" ELSE "spin")
  /\ UNCHANGED lock

(* A signal, or a spurious wakeup, ends the sleep: the result of the call  *)
(* is not looked at.                                                       *)
Interrupt(t) ==
  /\ At(t, "asleep")
  /\ Goto(t, "spin")
  /\ UNCHANGED lock

(* release: swap in 0, and wake a sleeper unless the word was exactly 1.   *)
Release(t) ==
  /\ At(t, "held")
  /\ lock' = 0
  /\ Goto(t, IF futex /\ lock # 1 THEN "wake" ELSE "idle")

(* FUTEX_WAKE of one thread, whichever the kernel chooses.                 *)
FutexWake(t) ==
  /\ At(t, "wake")
  /\ LET Asleep == {u \in Thread : pc[u] = "asleep"}
     IN  IF Asleep = {}
           THEN Goto(t, "idle")
           ELSE \E u \in Asleep :
                  /\ pc' = [pc EXCEPT ![t] = "idle", ![u] = "spin"]
                  /\ UNCHANGED futex
  /\ UNCHANGED lock

Next ==
  \E t \in Thread :
    \/ TryAcquire(t) \/ Swap(t) \/ FutexWait(t) \/ Interrupt(t)
    \/ Release(t) \/ FutexWake(t)

Spec == Init /\ [][Next]_vars

-----------------------------------------------------------------------------

(* At most one thread is between acquire and release, and the word says so *)
(* exactly.                                                                *)
MutualExclusion ==
  /\ \A t, u \in Thread : pc[t] = "held" /\ pc[u] = "held" => t = u
  /\ lock # 0 <=> \E t \in Thread : pc[t] = "held"

(* No wakeup is lost: while a thread sleeps, either the word makes the     *)
(* next release call the kernel, or a thread is on its way to wake a       *)
(* sleeper or to mark the word as contended again.                         *)
NoLostWakeup ==
  (\E t \in Thread : pc[t] = "asleep") =>
    lock = 2 \/ \E u \in Thread : pc[u] \in {"wake", "spin"}

(* Threads that can run do, owners release, and nobody has to call in.     *)
(* Interrupt is not fair: signals may never come.                          *)
Fairness ==
  \A t \in Thread :
    /\ WF_vars(Swap(t)) /\ WF_vars(FutexWait(t)) /\ WF_vars(FutexWake(t))
    /\ WF_vars(At(t, "nap") /\ TryAcquire(t))
    /\ WF_vars(Release(t))

FairSpec == Spec /\ Fairness

(* A thread that wants the lock never leaves it unused for ever: the owner *)
(* may change unfairly, but as long as somebody tries, somebody gets it.   *)
Progress ==
  (\E t \in Thread : pc[t] \in Trying) ~> (\E t \in Thread : pc[t] = "held")
=============================================================================
