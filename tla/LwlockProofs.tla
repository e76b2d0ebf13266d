---------------------------- MODULE LwlockProofs ----------------------------
(* Proofs about the lightweight lock, for any number of threads, with and  *)
(* without futexes.                                                        *)
EXTENDS Lwlock, TLAPS

(* Without futexes nothing sleeps and nothing is woken.                    *)
NoFutexNoSleep ==
  ~futex => \A t \in Thread : pc[t] \notin {"wait", "asleep", "wake"}

(* The inductive invariant: NoLostWakeup needs MutualExclusion, because a  *)
(* release must be the release of the only owner, and NoFutexNoSleep.      *)
LockInv == TypeOK /\ MutualExclusion /\ NoFutexNoSleep /\ NoLostWakeup

-----------------------------------------------------------------------------

(* Every step of every thread keeps the types.                             *)
LEMMA TypeStep == TypeOK /\ [Next]_vars => TypeOK'
<1> SUFFICES ASSUME TypeOK, [Next]_vars PROVE TypeOK'
  OBVIOUS
<1> USE DEF TypeOK, Label, Trying
<1>1. ASSUME NEW t \in Thread, TryAcquire(t) PROVE TypeOK'
  BY <1>1 DEF TryAcquire, Goto
<1>2. ASSUME NEW t \in Thread, Swap(t) PROVE TypeOK'
  BY <1>2 DEF Swap, Goto
<1>3. ASSUME NEW t \in Thread, FutexWait(t) PROVE TypeOK'
  BY <1>3 DEF FutexWait, Goto
<1>4. ASSUME NEW t \in Thread, Interrupt(t) PROVE TypeOK'
  BY <1>4 DEF Interrupt, Goto
<1>5. ASSUME NEW t \in Thread, Release(t) PROVE TypeOK'
  BY <1>5 DEF Release, Goto
<1>6. ASSUME NEW t \in Thread, FutexWake(t) PROVE TypeOK'
  BY <1>6 DEF FutexWake, Goto
<1>7. CASE UNCHANGED vars
  BY <1>7 DEF vars
<1> QED
  BY <1>1, <1>2, <1>3, <1>4, <1>5, <1>6, <1>7 DEF Next

(* The word of the lock stays in step with its owner.                      *)
LEMMA MutualExclusionStep ==
  TypeOK /\ MutualExclusion /\ [Next]_vars => MutualExclusion'
<1> SUFFICES ASSUME TypeOK, MutualExclusion, [Next]_vars
             PROVE  MutualExclusion'
  OBVIOUS
<1> USE DEF TypeOK, MutualExclusion, At
<1>1. ASSUME NEW t \in Thread, TryAcquire(t) PROVE MutualExclusion'
  BY <1>1 DEF TryAcquire, Goto
<1>2. ASSUME NEW t \in Thread, Swap(t) PROVE MutualExclusion'
  BY <1>2 DEF Swap, Goto
<1>3. ASSUME NEW t \in Thread, FutexWait(t) PROVE MutualExclusion'
  BY <1>3 DEF FutexWait, Goto
<1>4. ASSUME NEW t \in Thread, Interrupt(t) PROVE MutualExclusion'
  BY <1>4 DEF Interrupt, Goto
<1>5. ASSUME NEW t \in Thread, Release(t) PROVE MutualExclusion'
  BY <1>5 DEF Release, Goto
<1>6. ASSUME NEW t \in Thread, FutexWake(t) PROVE MutualExclusion'
  BY <1>6 DEF FutexWake, Goto
<1>7. CASE UNCHANGED vars
  BY <1>7 DEF vars
<1> QED
  BY <1>1, <1>2, <1>3, <1>4, <1>5, <1>6, <1>7 DEF Next

(* A sleeper always has somebody who will see to it.                       *)
LEMMA WakeupStep ==
  LockInv /\ [Next]_vars => NoFutexNoSleep' /\ NoLostWakeup'
<1> SUFFICES ASSUME LockInv, [Next]_vars
             PROVE  NoFutexNoSleep' /\ NoLostWakeup'
  OBVIOUS
<1> USE DEF LockInv, TypeOK, MutualExclusion, NoFutexNoSleep, NoLostWakeup, At
<1>1. ASSUME NEW t \in Thread, TryAcquire(t)
      PROVE  NoFutexNoSleep' /\ NoLostWakeup'
  BY <1>1 DEF TryAcquire, Goto
<1>2. ASSUME NEW t \in Thread, Swap(t) PROVE NoFutexNoSleep' /\ NoLostWakeup'
  BY <1>2 DEF Swap, Goto
<1>3. ASSUME NEW t \in Thread, FutexWait(t)
      PROVE  NoFutexNoSleep' /\ NoLostWakeup'
  BY <1>3 DEF FutexWait, Goto
<1>4. ASSUME NEW t \in Thread, Interrupt(t)
      PROVE  NoFutexNoSleep' /\ NoLostWakeup'
  BY <1>4 DEF Interrupt, Goto
<1>5. ASSUME NEW t \in Thread, Release(t)
      PROVE  NoFutexNoSleep' /\ NoLostWakeup'
  BY <1>5 DEF Release, Goto
<1>6. ASSUME NEW t \in Thread, FutexWake(t)
      PROVE  NoFutexNoSleep' /\ NoLostWakeup'
  BY <1>6 DEF FutexWake, Goto
<1>7. CASE UNCHANGED vars
  BY <1>7 DEF vars
<1> QED
  BY <1>1, <1>2, <1>3, <1>4, <1>5, <1>6, <1>7 DEF Next

(* The inductive invariant holds of every reachable state.                 *)
THEOREM LockInvariant == Spec => []LockInv
<1>1. Init => LockInv
  BY DEF Init, LockInv, TypeOK, MutualExclusion, NoFutexNoSleep, NoLostWakeup,
         Label, Trying
<1>2. LockInv /\ [Next]_vars => LockInv'
  BY TypeStep, MutualExclusionStep, WakeupStep DEF LockInv
<1> QED
  BY <1>1, <1>2, PTL DEF Spec

(* The word is 0, 1 or 2, and every thread is at a place of acquire or     *)
(* release.                                                                *)
THEOREM LockTypes == Spec => []TypeOK
<1>1. LockInv => TypeOK
  BY DEF LockInv
<1> QED
  BY <1>1, LockInvariant, PTL

(* At most one thread holds the lock, and the word is nonzero exactly then *)
(* (lwlock_acquire and lwlock_release, both variants).                     *)
THEOREM LockMutualExclusion == Spec => []MutualExclusion
<1>1. LockInv => MutualExclusion
  BY DEF LockInv
<1> QED
  BY <1>1, LockInvariant, PTL

(* No thread sleeps on the futex with nobody to wake it.                   *)
THEOREM LockNoLostWakeup == Spec => []NoLostWakeup
<1>1. LockInv => NoLostWakeup
  BY DEF LockInv
<1> QED
  BY <1>1, LockInvariant, PTL
=============================================================================
