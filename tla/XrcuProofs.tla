----------------------------- MODULE XrcuProofs -----------------------------
(* Proofs about the RCU runtime, for any threads, objects and bounds.      *)
EXTENDS XrcuInv, TLAPS

-----------------------------------------------------------------------------
(* Types.                                                                  *)

(* Stores keep counters in range.                                          *)
LEMMA StoreType ==
  ASSUME TypeOK, NEW t \in Thread, NEW val \in Counter, Store(t, val)
  PROVE  ctr' \in [Thread -> Counter] /\ seen' \in [Thread -> Counter]
BY DEF TypeOK, Store

(* Nesting within its bound keeps the phase and the type of a counter.     *)
LEMMA NestType ==
  ASSUME TypeOK, NEW t \in Thread, NEW n \in 0..MaxNest
  PROVE  [phase |-> ctr[t].phase, nest |-> n] \in Counter
BY DEF TypeOK, Counter

(* Leaving a section takes away references and debts.                      *)
LEMMA LeaveType ==
  ASSUME TypeOK, NEW t \in Thread, Leave(t)
  PROVE  refs' \in [Thread -> SUBSET Object] /\ owed' \in [Thread -> SUBSET Thread]
BY DEF TypeOK, Leave

(* Beginning a sync records a set of threads.                              *)
LEMMA BeginType ==
  ASSUME TypeOK, NEW t \in Thread, BeginSync(t)
  PROVE  owed' \in [Thread -> SUBSET Thread] /\ pc' \in [Thread -> Label]
BY DEF TypeOK, BeginSync, Readers, Goto, Label, Waiting

(* The counter of a thread outside any section.                            *)
LEMMA ZeroType == Zero \in Counter
BY BoundAssumption DEF Zero, Counter, Phase

(* Every step keeps the types.                                             *)
LEMMA TypeStep == TypeOK /\ [Next]_vars => TypeOK'
<1> SUFFICES ASSUME TypeOK, [Next]_vars PROVE TypeOK'
  OBVIOUS
<1> USE BoundAssumption, ModeAssumption
    DEF TypeOK, Label, Waiting, Locked, Polling, Yielding, Forking, Phase,
        Counter, Zero, registry, readers, control, memory, client, Goto, At
<1>1. ASSUME NEW t \in Thread, AddTdata(t) PROVE TypeOK'
  BY <1>1 DEF AddTdata
<1>2. ASSUME NEW t \in Thread, EnterLoad(t) PROVE TypeOK'
  BY <1>2 DEF EnterLoad
<1>3. ASSUME NEW t \in Thread, EnterStore(t) PROVE TypeOK'
  <2>1. [phase |-> loaded[t], nest |-> 1] \in Counter
    OBVIOUS
  <2>2. ctr' \in [Thread -> Counter] /\ seen' \in [Thread -> Counter]
    BY <1>3, <2>1, StoreType DEF EnterStore
  <2> QED
    BY <1>3, <2>2 DEF EnterStore
<1>4. ASSUME NEW t \in Thread, EnterNested(t) PROVE TypeOK'
  <2>1. ctr[t].nest + 1 \in 0..MaxNest
    BY <1>4 DEF EnterNested, InCs
  <2>2. ctr' \in [Thread -> Counter] /\ seen' \in [Thread -> Counter]
    BY <1>4, <2>1, NestType, StoreType DEF EnterNested
  <2> QED
    BY <1>4, <2>2 DEF EnterNested
<1>5. ASSUME NEW t \in Thread, ExitNested(t) PROVE TypeOK'
  <2>1. ctr[t].nest - 1 \in 0..MaxNest
    BY <1>5 DEF ExitNested
  <2>2. ctr' \in [Thread -> Counter] /\ seen' \in [Thread -> Counter]
    BY <1>5, <2>1, NestType, StoreType DEF ExitNested
  <2> QED
    BY <1>5, <2>2 DEF ExitNested
<1>6. ASSUME NEW t \in Thread, ExitCs(t) PROVE TypeOK'
  <2>1. ctr' \in [Thread -> Counter] /\ seen' \in [Thread -> Counter]
    BY <1>6, ZeroType, StoreType DEF ExitCs
  <2>2. refs' \in [Thread -> SUBSET Object] /\ owed' \in [Thread -> SUBSET Thread]
    BY <1>6, LeaveType DEF ExitCs
  <2> QED
    BY <1>6, <2>1, <2>2 DEF ExitCs
<1>7. ASSUME NEW t \in Thread, Drain(t) PROVE TypeOK'
  BY <1>7 DEF Drain
<1>8. ASSUME NEW t \in Thread, Sync(t) PROVE TypeOK'
  BY <1>8, BeginType DEF Sync
<1>9. ASSUME NEW t \in Thread, LockGp(t) PROVE TypeOK'
  BY <1>9 DEF LockGp
<1>10. ASSUME NEW t \in Thread, LockTd(t) PROVE TypeOK'
  BY <1>10 DEF LockTd, EndSync, On
<1>11. ASSUME NEW t \in Thread, Flip(t) PROVE TypeOK'
  BY <1>11 DEF Flip, On
<1>12. ASSUME NEW t \in Thread, Splice(t) PROVE TypeOK'
  BY <1>12 DEF Splice, EndSync, On
<1>13. ASSUME NEW t \in Thread, Yield(t) PROVE TypeOK'
  BY <1>13 DEF Yield
<1>14. ASSUME NEW t \in Thread, Relock(t) PROVE TypeOK'
  BY <1>14 DEF Relock, On
<1>15. ASSUME NEW t \in Thread, FlushFinalizers(t) PROVE TypeOK'
  BY <1>15 DEF FlushFinalizers
<1>16. ASSUME NEW t \in Thread, FlushAll(t) PROVE TypeOK'
  <2>1. CASE InCs(t)
    BY <1>16, <2>1 DEF FlushAll
  <2>2. CASE ~InCs(t)
    BY <1>16, <2>2, BeginType DEF FlushAll
  <2> QED
    BY <2>1, <2>2
<1>17. ASSUME NEW t \in Thread, Destroy(t) PROVE TypeOK'
  <2>1. CASE fins[t] # <<>>
    <3>1. Head(fins[t]) \in Object /\ Tail(fins[t]) \in Seq(Object)
      BY <2>1
    <3> QED
      BY ZenonT(60), <1>17, <2>1, <3>1 DEF Destroy
  <2>2. CASE fins[t] = <<>>
    BY <1>17, <2>2 DEF Destroy
  <2> QED
    BY <2>1, <2>2
<1>18. ASSUME NEW t \in Thread, EndThread(t) PROVE TypeOK'
  <2>1. ctr' \in [Thread -> Counter] /\ seen' \in [Thread -> Counter]
    BY <1>18, ZeroType, StoreType DEF EndThread
  <2>2. refs' \in [Thread -> SUBSET Object] /\ owed' \in [Thread -> SUBSET Thread]
    BY <1>18, LeaveType DEF EndThread
  <2> QED
    BY <1>18, <2>1, <2>2 DEF EndThread
<1>19. ASSUME NEW t \in Thread, Unlink(t) PROVE TypeOK'
  BY <1>19 DEF Unlink
<1>20. ASSUME NEW t \in Thread, Fork(t) PROVE TypeOK'
  BY <1>20 DEF Fork
<1>21. ASSUME NEW t \in Thread, PrepareGp(t) PROVE TypeOK'
  BY <1>21 DEF PrepareGp
<1>22. ASSUME NEW t \in Thread, PrepareTd(t) PROVE TypeOK'
  BY <1>22 DEF PrepareTd
<1>23. ASSUME NEW t \in Thread, ForkParent(t) PROVE TypeOK'
  BY <1>23 DEF ForkParent
<1>24. ASSUME NEW t \in Thread, ForkChild(t) PROVE TypeOK'
  BY SMTT(40), <1>24 DEF ForkChild
<1>25. ASSUME NEW t \in Thread, Spawn(t) PROVE TypeOK'
  BY SMTT(40), <1>25 DEF Spawn
<1>26. ASSUME NEW t \in Thread, NEW x \in Thread, Visit(t, x) PROVE TypeOK'
  BY <1>26 DEF Visit
<1>27. ASSUME NEW t \in Thread, NEW x \in Object, Finalize(t, x) PROVE TypeOK'
  <2>1. Append(fins[t], x) \in Seq(Object)
    OBVIOUS
  <2> QED
    BY <1>27, <2>1 DEF Finalize
<1>28. ASSUME NEW t \in Thread, NEW x \in Object, Acquire(t, x) PROVE TypeOK'
  BY <1>28 DEF Acquire
<1>29. ASSUME NEW o \in Object, Publish(o) PROVE TypeOK'
  BY <1>29 DEF Publish
<1>30. ASSUME NEW o \in Object, Remove(o) PROVE TypeOK'
  BY <1>30 DEF Remove
<1>31. CASE UNCHANGED vars
  BY <1>31 DEF vars
<1> QED
  BY <1>1, <1>2, <1>3, <1>4, <1>5, <1>6, <1>7, <1>8, <1>9, <1>10, <1>11,
     <1>12, <1>13, <1>14, <1>15, <1>16, <1>17, <1>18, <1>19, <1>20, <1>21,
     <1>22, <1>23, <1>24, <1>25, <1>26, <1>27, <1>28, <1>29, <1>30, <1>31
  DEF Next, ReaderStep, GraceStep, FlushStep, ForkStep

-----------------------------------------------------------------------------
(* What flush_all's loop does to the list, one object at a time.           *)
LEMMA TailFacts ==
  ASSUME NEW S, NEW s \in Seq(S), s # <<>>
  PROVE  /\ 1 \in DOMAIN s /\ Head(s) = s[1]
         /\ \A i \in DOMAIN Tail(s) :
              i + 1 \in DOMAIN s /\ i + 1 # 1 /\ Tail(s)[i] = s[i + 1]
         /\ \A i, j \in DOMAIN Tail(s) : i + 1 = j + 1 => i = j
OBVIOUS

(* Leaving a section, by exit_cs or by the end of the thread.              *)
LEMMA LeaveFacts ==
  ASSUME GraceInv, NEW t \in Thread, Store(t, Zero), Leave(t),
         pc[t] = "idle", NEW l \in Label \ {"dead"}, pc' = [pc EXCEPT ![t] = l]
  PROVE  /\ Readers' = Readers \ {t}
         /\ \A u \in Thread : owed'[u] = owed[u] \ {t}
         /\ refs'[t] = {}
         /\ \A u \in Thread \ {t} : refs'[u] = refs[u] /\ pc'[u] = pc[u]
BY DEF GraceInv, TypeOK, Store, Zero, Leave, Readers, InCs, Label

(* Where exit_cs and the end of a thread lead.                             *)
LEMMA ExitLabel ==
  ASSUME TypeOK, NEW t \in Thread, ExitCs(t)
  PROVE  \E l \in {"idle", "flush"} : pc' = [pc EXCEPT ![t] = l]
<1>1. pc[t] = "idle" /\ pc = [pc EXCEPT ![t] = "idle"]
  BY DEF TypeOK, ExitCs, At
<1>2. pc' = pc \/ pc' = [pc EXCEPT ![t] = "flush"]
  BY DEF ExitCs, Goto, control
<1> QED
  BY <1>1, <1>2

(* The same for a thread that ends.                                        *)
LEMMA EndLabel ==
  ASSUME NEW t \in Thread, EndThread(t)
  PROVE  \E l \in {"flush", "gone"} : pc' = [pc EXCEPT ![t] = l]
BY DEF EndThread, Goto

(* A grace period over an empty registry has nobody to wait for, and one   *)
(* that goes through both passes has waited for everybody it had to.       *)
LEMMA NothingOwed ==
  ASSUME GraceInv, NEW t \in Thread,
         \/ pc[t] = "start" /\ On("root") = {}
         \/ pc[t] = "poll2" /\ On("out") = {}
  PROVE  owed[t] = {}
<1>1. CASE pc[t] = "start" /\ On("root") = {}
  <2> SUFFICES ASSUME NEW r \in owed[t] PROVE FALSE
    OBVIOUS
  <2>1. r \in Readers /\ r \in Thread
    BY DEF GraceInv, OwedInv, Readers
  <2>2. Linked(r) /\ gp = t
    BY <1>1, <2>1 DEF GraceInv, ListInv, MutexInv, Locked
  <2>3. list[r] = "root"
    BY <1>1, <2>1, <2>2
    DEF GraceInv, TypeOK, ListInv, Linked, Polling, Yielding
  <2> QED
    BY <1>1, <2>1, <2>3 DEF On
<1>2. CASE pc[t] = "poll2" /\ On("out") = {}
  BY <1>2 DEF GraceInv, TypeOK, PhaseInv, On
<1> QED
  BY <1>1, <1>2

(* A step of a grace period, or of its end, keeps references safe: nobody  *)
(* begins to wait, and only a thread that is owed nothing goes on to       *)
(* destroy.                                                                *)
LEMMA RefKept ==
  ASSUME GraceInv, Readers' = Readers, UNCHANGED <<refs, owed, obj, fins>>,
         \A u \in Thread : pc'[u] \in Waiting => pc[u] \in Waiting,
         \A u \in Thread :
           pc'[u] = "destroy" =>
             pc[u] = "destroy" \/ (pc[u] \in Waiting /\ owed[u] = {})
  PROVE  RefInv'
BY DEF GraceInv, RefInv, Range

(* The mutexes, and the counters of threads that wait.                      *)
LEMMA MutexInvStep ==
  ASSUME ~StoreBuffer PROVE GraceInv /\ [Next]_vars => MutexInv'
<1> SUFFICES ASSUME GraceInv, [Next]_vars PROVE MutexInv'
  OBVIOUS
<1> USE ModeAssumption, ThreadAssumption DEF GraceInv, TypeOK, MutexInv, InCs,
          Store, Zero, Label, Counter, registry, readers, control, memory, client, Goto, At,
          Waiting, Locked, Polling, Yielding, Forking
<1>1. ASSUME NEW t \in Thread, AddTdata(t) PROVE MutexInv'
  BY <1>1 DEF AddTdata, Fenced
<1>2. ASSUME NEW t \in Thread, EnterLoad(t) PROVE MutexInv'
  BY <1>2 DEF EnterLoad
<1>3. ASSUME NEW t \in Thread, EnterStore(t) PROVE MutexInv'
  BY <1>3 DEF EnterStore
<1>4. ASSUME NEW t \in Thread, EnterNested(t) PROVE MutexInv'
  BY <1>4 DEF EnterNested
<1>5. ASSUME NEW t \in Thread, ExitNested(t) PROVE MutexInv'
  BY <1>5 DEF ExitNested
<1>6. ASSUME NEW t \in Thread, ExitCs(t) PROVE MutexInv'
  BY <1>6 DEF ExitCs
<1>7. ASSUME NEW t \in Thread, Drain(t) PROVE MutexInv'
  BY <1>7 DEF Drain, Fenced
<1>8. ASSUME NEW t \in Thread, NEW x \in Object, Acquire(t, x) PROVE MutexInv'
  BY <1>8 DEF Acquire
<1>9. ASSUME NEW t \in Thread, LockGp(t) PROVE MutexInv'
  BY <1>9 DEF LockGp, Fenced
<1>10. ASSUME NEW t \in Thread, LockTd(t) PROVE MutexInv'
  BY <1>10 DEF LockTd, EndSync, On
<1>11. ASSUME NEW t \in Thread, NEW x \in Thread, Visit(t, x) PROVE MutexInv'
  BY <1>11 DEF Visit, State
<1>12. ASSUME NEW t \in Thread, Flip(t) PROVE MutexInv'
  BY <1>12 DEF Flip, On
<1>13. ASSUME NEW t \in Thread, Splice(t) PROVE MutexInv'
  BY <1>13 DEF Splice, EndSync, On
<1>14. ASSUME NEW t \in Thread, Yield(t) PROVE MutexInv'
  BY <1>14 DEF Yield, On
<1>15. ASSUME NEW t \in Thread, Relock(t) PROVE MutexInv'
  BY <1>15 DEF Relock, On
<1>16. ASSUME NEW t \in Thread, Sync(t) PROVE MutexInv'
  BY <1>16 DEF Sync, BeginSync
<1>17. ASSUME NEW t \in Thread, FlushFinalizers(t) PROVE MutexInv'
  BY <1>17 DEF FlushFinalizers
<1>18. ASSUME NEW t \in Thread, FlushAll(t) PROVE MutexInv'
  BY <1>18 DEF FlushAll, BeginSync
<1>19. ASSUME NEW t \in Thread, Destroy(t) PROVE MutexInv'
  BY <1>19 DEF Destroy
<1>20. ASSUME NEW t \in Thread, EndThread(t) PROVE MutexInv'
  BY <1>20 DEF EndThread
<1>21. ASSUME NEW t \in Thread, Unlink(t) PROVE MutexInv'
  BY <1>21 DEF Unlink, Fenced
<1>22. ASSUME NEW t \in Thread, NEW x \in Object, Finalize(t, x)
       PROVE  MutexInv'
  BY <1>22 DEF Finalize
<1>23. ASSUME NEW t \in Thread, Fork(t) PROVE MutexInv'
  BY <1>23 DEF Fork
<1>24. ASSUME NEW t \in Thread, PrepareGp(t) PROVE MutexInv'
  BY <1>24 DEF PrepareGp, Fenced
<1>25. ASSUME NEW t \in Thread, PrepareTd(t) PROVE MutexInv'
  BY <1>25 DEF PrepareTd
<1>26. ASSUME NEW t \in Thread, ForkParent(t) PROVE MutexInv'
  BY <1>26 DEF ForkParent
<1>27. ASSUME NEW t \in Thread, ForkChild(t) PROVE MutexInv'
  BY <1>27 DEF ForkChild
<1>28. ASSUME NEW t \in Thread, Spawn(t) PROVE MutexInv'
  BY <1>28 DEF Spawn
<1>29. ASSUME NEW o \in Object, Publish(o) PROVE MutexInv'
  BY <1>29 DEF Publish
<1>30. ASSUME NEW o \in Object, Remove(o) PROVE MutexInv'
  BY <1>30 DEF Remove
<1>31. CASE UNCHANGED vars
  BY <1>31 DEF vars
<1> QED
  BY <1>1, <1>2, <1>3, <1>4, <1>5, <1>6, <1>7, <1>8, <1>9, <1>10, <1>11,
     <1>12, <1>13, <1>14, <1>15, <1>16, <1>17, <1>18, <1>19, <1>20, <1>21,
     <1>22, <1>23, <1>24, <1>25, <1>26, <1>27, <1>28, <1>29, <1>30, <1>31
  DEF Next, ReaderStep, GraceStep, FlushStep, ForkStep

(* The lists: add_tdata, poll_readers, the splice and the two unlinks.      *)
LEMMA ListInvStep ==
  ASSUME ~StoreBuffer PROVE GraceInv /\ [Next]_vars => ListInv'
<1> SUFFICES ASSUME GraceInv, [Next]_vars PROVE ListInv'
  OBVIOUS
<1> USE ModeAssumption, ThreadAssumption
    DEF GraceInv, TypeOK, MutexInv, ListInv,
          Linked, Label, registry, readers, control, memory, client, Goto, At,
          Waiting, Locked, Polling, Yielding, Forking
<1>1. ASSUME NEW t \in Thread, AddTdata(t) PROVE ListInv'
  BY <1>1 DEF AddTdata, Fenced, Readers, InCs, Store, Counter, Zero
<1>2. ASSUME NEW t \in Thread, EnterLoad(t) PROVE ListInv'
  BY <1>2 DEF EnterLoad, Readers, InCs, Store, Counter, Zero
<1>3. ASSUME NEW t \in Thread, EnterStore(t) PROVE ListInv'
  BY <1>3 DEF EnterStore, Readers, InCs, Store, Counter, Zero
<1>4. ASSUME NEW t \in Thread, EnterNested(t) PROVE ListInv'
  BY <1>4 DEF EnterNested, Readers, InCs, Store, Counter, Zero
<1>5. ASSUME NEW t \in Thread, ExitNested(t) PROVE ListInv'
  BY <1>5 DEF ExitNested, Readers, InCs, Store, Counter, Zero
<1>6. ASSUME NEW t \in Thread, ExitCs(t) PROVE ListInv'
  <2>1. PICK l \in {"idle", "flush"} : pc' = [pc EXCEPT ![t] = l]
    BY <1>6, ExitLabel
  <2>2. Readers' = Readers \ {t}
        /\ (\A u \in Thread : owed'[u] = owed[u] \ {t}) /\ refs'[t] = {}
        /\ \A u \in Thread \ {t} : refs'[u] = refs[u] /\ pc'[u] = pc[u]
    BY <1>6, <2>1, LeaveFacts DEF ExitCs, Label
  <2> QED
    BY <1>6, <2>1, <2>2 DEF ExitCs
<1>7. ASSUME NEW t \in Thread, Drain(t) PROVE ListInv'
  BY <1>7 DEF Drain, Fenced, Readers, InCs, Store, Counter, Zero
<1>8. ASSUME NEW t \in Thread, NEW x \in Object, Acquire(t, x) PROVE ListInv'
  BY <1>8 DEF Acquire, Readers, InCs, Store, Counter, Zero
<1>9. ASSUME NEW t \in Thread, LockGp(t) PROVE ListInv'
  BY <1>9 DEF LockGp, Fenced, Readers, InCs, Store, Counter, Zero
<1>10. ASSUME NEW t \in Thread, LockTd(t) PROVE ListInv'
  <2>1. CASE On("root") = {}
    <3>1. Readers' = Readers
      BY <1>10, <2>1 DEF LockTd, EndSync, Readers, InCs
    <3>2. pc' = [pc EXCEPT ![t] = "idle"] \/ pc' = [pc EXCEPT ![t] = "destroy"]
      BY <1>10, <2>1 DEF LockTd, EndSync
    <3>3. /\ pc[t] = "start" /\ gp = t /\ td = NoThread
          /\ UNCHANGED <<list, td, todo, fins>>
      BY <1>10, <2>1 DEF LockTd
    <3> QED
      BY <3>1, <3>2, <3>3
  <2>2. CASE On("root") # {}
    BY <1>10, <2>2 DEF LockTd, On, Readers, InCs
  <2> QED
    BY <2>1, <2>2
<1>11. ASSUME NEW t \in Thread, NEW x \in Thread, Visit(t, x) PROVE ListInv'
  BY <1>11 DEF Visit, State, Readers, InCs, Store, Counter, Zero
<1>12. ASSUME NEW t \in Thread, Flip(t) PROVE ListInv'
  BY <1>12 DEF Flip, On, Readers, InCs, Store, Counter, Zero
<1>13. ASSUME NEW t \in Thread, Splice(t) PROVE ListInv'
  BY <1>13 DEF Splice, EndSync, On, Readers, InCs, Store, Counter, Zero
<1>14. ASSUME NEW t \in Thread, Yield(t) PROVE ListInv'
  BY <1>14 DEF Yield, On, Readers, InCs, Store, Counter, Zero
<1>15. ASSUME NEW t \in Thread, Relock(t) PROVE ListInv'
  BY <1>15 DEF Relock, On, Readers, InCs, Store, Counter, Zero
<1>16. ASSUME NEW t \in Thread, Sync(t) PROVE ListInv'
  BY <1>16 DEF Sync, BeginSync, Readers, InCs, Store, Counter, Zero
<1>17. ASSUME NEW t \in Thread, FlushFinalizers(t) PROVE ListInv'
  BY <1>17 DEF FlushFinalizers, Readers, InCs, Store, Counter, Zero
<1>18. ASSUME NEW t \in Thread, FlushAll(t) PROVE ListInv'
  BY <1>18 DEF FlushAll, BeginSync, Readers, InCs, Store, Counter, Zero
<1>19. ASSUME NEW t \in Thread, Destroy(t) PROVE ListInv'
  <2>1. CASE fins[t] # <<>>
    <3>1. \A u \in Thread : fins'[u] # <<>> => fins[u] # <<>>
      BY <1>19, <2>1 DEF Destroy
    <3>2. \A u \in Thread : pc[u] = "gone" \/ pc[u] = "dead" => fins'[u] = fins[u]
      BY <1>19, <2>1 DEF Destroy
    <3>3. UNCHANGED <<registry, readers, control, client>>
      BY <1>19, <2>1 DEF Destroy
    <3> HIDE DEF ListInv
    <3>4. Readers' = Readers
      BY <3>3 DEF Readers, InCs
    <3> QED
      BY <3>1, <3>2, <3>3, <3>4 DEF ListInv
  <2>2. CASE fins[t] = <<>>
    <3>1. Readers' = Readers
      BY <1>19, <2>2 DEF Destroy, Readers, InCs
    <3>2. /\ pc[t] = "destroy" /\ pc'[t] \in {"gone", "idle"}
          /\ \A u \in Thread \ {t} : pc'[u] = pc[u]
      BY <1>19, <2>2 DEF Destroy
    <3>3. UNCHANGED <<registry, fins>>
      BY <1>19, <2>2 DEF Destroy
    <3>4. gp # t /\ td # t
      BY <3>2
    <3>5. gp # NoThread => pc'[gp] = pc[gp]
      BY <3>2, <3>4
    <3>6. td # NoThread => pc'[td] = pc[td]
      BY <3>2, <3>4
    <3>7. \A u \in Thread :
            /\ list'[u] \in {"out", "qs"} =>
                 gp' # NoThread /\ pc'[gp'] \in Polling \cup Yielding
            /\ u \in Readers' \/ pc'[u] = "enter" \/ fins'[u] # <<>> =>
                 list'[u] # "none"
            /\ pc'[u] \in {"gone", "dead"} => fins'[u] = <<>>
            /\ pc'[u] = "dead" => list'[u] = "none"
      BY <2>2, <3>1, <3>2, <3>3, <3>5
    <3> QED
      BY <3>3, <3>6, <3>7
  <2> QED
    BY <2>1, <2>2
<1>20. ASSUME NEW t \in Thread, EndThread(t) PROVE ListInv'
  <2>1. PICK l \in {"flush", "gone"} : pc' = [pc EXCEPT ![t] = l]
    BY <1>20, EndLabel
  <2>2. Readers' = Readers \ {t}
        /\ (\A u \in Thread : owed'[u] = owed[u] \ {t}) /\ refs'[t] = {}
        /\ \A u \in Thread \ {t} : refs'[u] = refs[u] /\ pc'[u] = pc[u]
    BY <1>20, <2>1, LeaveFacts DEF EndThread, Label
  <2> QED
    BY <1>20, <2>1, <2>2 DEF EndThread
<1>21. ASSUME NEW t \in Thread, Unlink(t) PROVE ListInv'
  BY <1>21 DEF Unlink, Fenced, Readers, InCs, Store, Counter, Zero
<1>22. ASSUME NEW t \in Thread, NEW x \in Object, Finalize(t, x) PROVE ListInv'
  BY SMTT(40), <1>22 DEF Finalize, Readers, InCs, Store, Counter, Zero
<1>23. ASSUME NEW t \in Thread, Fork(t) PROVE ListInv'
  BY <1>23 DEF Fork, Readers, InCs, Store, Counter, Zero
<1>24. ASSUME NEW t \in Thread, PrepareGp(t) PROVE ListInv'
  BY <1>24 DEF PrepareGp, Fenced, Readers, InCs, Store, Counter, Zero
<1>25. ASSUME NEW t \in Thread, PrepareTd(t) PROVE ListInv'
  BY <1>25 DEF PrepareTd, Readers, InCs, Store, Counter, Zero
<1>26. ASSUME NEW t \in Thread, ForkParent(t) PROVE ListInv'
  BY ZenonT(60), <1>26 DEF ForkParent, Readers, InCs, Store, Counter, Zero
<1>27. ASSUME NEW t \in Thread, ForkChild(t) PROVE ListInv'
  BY <1>27 DEF ForkChild, Readers, InCs, Store, Counter, Zero
<1>28. ASSUME NEW t \in Thread, Spawn(t) PROVE ListInv'
  BY <1>28 DEF Spawn, Readers, InCs, Store, Counter, Zero
<1>29. ASSUME NEW o \in Object, Publish(o) PROVE ListInv'
  BY <1>29 DEF Publish, Readers, InCs, Store, Counter, Zero
<1>30. ASSUME NEW o \in Object, Remove(o) PROVE ListInv'
  BY <1>30 DEF Remove, Readers, InCs, Store, Counter, Zero
<1>31. CASE UNCHANGED vars
  BY <1>31 DEF vars, Readers, InCs
<1> QED
  BY <1>1, <1>2, <1>3, <1>4, <1>5, <1>6, <1>7, <1>8, <1>9, <1>10, <1>11,
     <1>12, <1>13, <1>14, <1>15, <1>16, <1>17, <1>18, <1>19, <1>20, <1>21,
     <1>22, <1>23, <1>24, <1>25, <1>26, <1>27, <1>28, <1>29, <1>30, <1>31
  DEF Next, ReaderStep, GraceStep, FlushStep, ForkStep

(* What waiting threads are owed.                                          *)
LEMMA OwedInvStep ==
  ASSUME ~StoreBuffer PROVE GraceInv /\ [Next]_vars => OwedInv'
<1> SUFFICES ASSUME GraceInv, [Next]_vars PROVE OwedInv'
  OBVIOUS
<1> USE ModeAssumption, ThreadAssumption
    DEF GraceInv, TypeOK, MutexInv, OwedInv,
          Label, registry, readers, control, memory, client, Goto, At,
          Waiting, Locked, Polling, Yielding, Forking
<1>1. ASSUME NEW t \in Thread, AddTdata(t) PROVE OwedInv'
  BY <1>1 DEF AddTdata, Fenced, Readers, InCs, Store, Counter, Zero
<1>2. ASSUME NEW t \in Thread, EnterLoad(t) PROVE OwedInv'
  BY <1>2 DEF EnterLoad, Readers, InCs, Store, Counter, Zero
<1>3. ASSUME NEW t \in Thread, EnterStore(t) PROVE OwedInv'
  BY <1>3 DEF EnterStore, Readers, InCs, Store, Counter, Zero
<1>4. ASSUME NEW t \in Thread, EnterNested(t) PROVE OwedInv'
  BY <1>4 DEF EnterNested, Readers, InCs, Store, Counter, Zero
<1>5. ASSUME NEW t \in Thread, ExitNested(t) PROVE OwedInv'
  BY <1>5 DEF ExitNested, Readers, InCs, Store, Counter, Zero
<1>6. ASSUME NEW t \in Thread, ExitCs(t) PROVE OwedInv'
  <2>1. PICK l \in {"idle", "flush"} : pc' = [pc EXCEPT ![t] = l]
    BY <1>6, ExitLabel
  <2>2. Readers' = Readers \ {t}
        /\ (\A u \in Thread : owed'[u] = owed[u] \ {t}) /\ refs'[t] = {}
        /\ \A u \in Thread \ {t} : refs'[u] = refs[u] /\ pc'[u] = pc[u]
    BY <1>6, <2>1, LeaveFacts DEF ExitCs, Label
  <2> QED
    BY <1>6, <2>1, <2>2 DEF ExitCs
<1>7. ASSUME NEW t \in Thread, Drain(t) PROVE OwedInv'
  BY <1>7 DEF Drain, Fenced, Readers, InCs, Store, Counter, Zero
<1>8. ASSUME NEW t \in Thread, NEW x \in Object, Acquire(t, x) PROVE OwedInv'
  BY <1>8 DEF Acquire, Readers, InCs, Store, Counter, Zero
<1>9. ASSUME NEW t \in Thread, LockGp(t) PROVE OwedInv'
  BY <1>9 DEF LockGp, Fenced, Readers, InCs, Store, Counter, Zero
<1>10. ASSUME NEW t \in Thread, LockTd(t) PROVE OwedInv'
  <2>1. Readers' = Readers /\ owed' = owed
    BY <1>10 DEF LockTd, EndSync, Readers, InCs
  <2>2. CASE On("root") = {}
    <3>1. owed[t] = {}
      BY <1>10, <2>2, NothingOwed DEF LockTd
    <3>2. \A u \in Thread \ {t} : pc'[u] = pc[u]
      BY <1>10, <2>2 DEF LockTd, EndSync
    <3> QED
      BY <2>1, <3>1, <3>2
  <2>3. CASE On("root") # {}
    <3>1. pc' = [pc EXCEPT ![t] = "poll1"]
      BY <1>10, <2>3 DEF LockTd
    <3> QED
      BY <2>1, <3>1
  <2> QED
    BY <2>2, <2>3
<1>11. ASSUME NEW t \in Thread, NEW x \in Thread, Visit(t, x) PROVE OwedInv'
  BY <1>11 DEF Visit, State, Readers, InCs, Store, Counter, Zero
<1>12. ASSUME NEW t \in Thread, Flip(t) PROVE OwedInv'
  BY <1>12 DEF Flip, On, Readers, InCs, Store, Counter, Zero
<1>13. ASSUME NEW t \in Thread, Splice(t) PROVE OwedInv'
  <2>1. owed[t] = {}
    BY <1>13, NothingOwed DEF Splice
  <2> QED
    BY <1>13, <2>1 DEF Splice, EndSync, Readers, InCs
<1>14. ASSUME NEW t \in Thread, Yield(t) PROVE OwedInv'
  <2>1. CASE pc[t] = "poll1"
    BY <1>14, <2>1 DEF Yield, Readers, InCs
  <2>2. CASE pc[t] = "poll2"
    BY <1>14, <2>2 DEF Yield, Readers, InCs
  <2> QED
    BY <1>14, <2>1, <2>2 DEF Yield
<1>15. ASSUME NEW t \in Thread, Relock(t) PROVE OwedInv'
  <2>1. CASE pc[t] = "yield1"
    BY SMTT(40), <1>15, <2>1 DEF Relock, Readers, InCs
  <2>2. CASE pc[t] = "yield2"
    BY SMTT(40), <1>15, <2>2 DEF Relock, Readers, InCs
  <2> QED
    BY <1>15, <2>1, <2>2 DEF Relock
<1>16. ASSUME NEW t \in Thread, Sync(t) PROVE OwedInv'
  BY <1>16 DEF Sync, BeginSync, Readers, InCs, Store, Counter, Zero
<1>17. ASSUME NEW t \in Thread, FlushFinalizers(t) PROVE OwedInv'
  BY <1>17 DEF FlushFinalizers, Readers, InCs, Store, Counter, Zero
<1>18. ASSUME NEW t \in Thread, FlushAll(t) PROVE OwedInv'
  <2>1. CASE InCs(t)
    <3>1. pc' = [pc EXCEPT ![t] = "idle"] /\ pc[t] = "flush" /\ owed' = owed
      BY <1>18, <2>1 DEF FlushAll
    <3>2. Readers' = Readers
      BY <1>18, <3>1 DEF FlushAll, Readers, InCs
    <3> QED
      BY <3>1, <3>2
  <2>2. CASE ~InCs(t)
    <3>1. Readers' = Readers
      BY <1>18, <2>2 DEF FlushAll, BeginSync, Readers, InCs
    <3> QED
      BY <1>18, <2>2, <3>1 DEF FlushAll, BeginSync
  <2> QED
    BY <2>1, <2>2
<1>19. ASSUME NEW t \in Thread, Destroy(t) PROVE OwedInv'
  <2>1. owed[t] = {} /\ pc[t] = "destroy"
    BY <1>19 DEF Destroy
  <2>2. pc' = pc \/ pc' = [pc EXCEPT ![t] = "gone"] \/ pc' = [pc EXCEPT ![t] = "idle"]
    BY <1>19 DEF Destroy
  <2>3. owed' = owed /\ ctr' = ctr
    BY <1>19 DEF Destroy
  <2>4. Readers' = Readers
    BY <2>1, <2>2, <2>3 DEF Readers, InCs
  <2>5. ASSUME NEW u \in Thread, NEW r \in owed'[u]
        PROVE  r \in Readers' /\ pc'[u] \in Waiting
    <3>1. r \in owed[u]
      BY <2>3
    <3>2. u # t /\ r \in Readers /\ pc[u] \in Waiting
      BY <2>1, <3>1
    <3> QED
      BY <2>2, <2>4, <3>2
  <2> QED
    BY <2>5
<1>20. ASSUME NEW t \in Thread, EndThread(t) PROVE OwedInv'
  <2>1. PICK l \in {"flush", "gone"} : pc' = [pc EXCEPT ![t] = l]
    BY <1>20, EndLabel
  <2>2. Readers' = Readers \ {t}
        /\ (\A u \in Thread : owed'[u] = owed[u] \ {t}) /\ refs'[t] = {}
        /\ \A u \in Thread \ {t} : refs'[u] = refs[u] /\ pc'[u] = pc[u]
    BY <1>20, <2>1, LeaveFacts DEF EndThread, Label
  <2> QED
    BY <1>20, <2>1, <2>2 DEF EndThread
<1>21. ASSUME NEW t \in Thread, Unlink(t) PROVE OwedInv'
  BY <1>21 DEF Unlink, Fenced, Readers, InCs, Store, Counter, Zero
<1>22. ASSUME NEW t \in Thread, NEW x \in Object, Finalize(t, x) PROVE OwedInv'
  BY <1>22 DEF Finalize, Readers, InCs, Store, Counter, Zero
<1>23. ASSUME NEW t \in Thread, Fork(t) PROVE OwedInv'
  BY <1>23 DEF Fork, Readers, InCs, Store, Counter, Zero
<1>24. ASSUME NEW t \in Thread, PrepareGp(t) PROVE OwedInv'
  BY <1>24 DEF PrepareGp, Fenced, Readers, InCs, Store, Counter, Zero
<1>25. ASSUME NEW t \in Thread, PrepareTd(t) PROVE OwedInv'
  BY <1>25 DEF PrepareTd, Readers, InCs, Store, Counter, Zero
<1>26. ASSUME NEW t \in Thread, ForkParent(t) PROVE OwedInv'
  BY <1>26 DEF ForkParent, Readers, InCs, Store, Counter, Zero
<1>27. ASSUME NEW t \in Thread, ForkChild(t) PROVE OwedInv'
  BY <1>27 DEF ForkChild, Readers, InCs, Store, Counter, Zero
<1>28. ASSUME NEW t \in Thread, Spawn(t) PROVE OwedInv'
  BY <1>28 DEF Spawn, Readers, InCs, Store, Counter, Zero
<1>29. ASSUME NEW o \in Object, Publish(o) PROVE OwedInv'
  BY <1>29 DEF Publish, Readers, InCs, Store, Counter, Zero
<1>30. ASSUME NEW o \in Object, Remove(o) PROVE OwedInv'
  BY <1>30 DEF Remove, Readers, InCs, Store, Counter, Zero
<1>31. CASE UNCHANGED vars
  BY <1>31 DEF vars, Readers, InCs
<1> QED
  BY <1>1, <1>2, <1>3, <1>4, <1>5, <1>6, <1>7, <1>8, <1>9, <1>10, <1>11,
     <1>12, <1>13, <1>14, <1>15, <1>16, <1>17, <1>18, <1>19, <1>20, <1>21,
     <1>22, <1>23, <1>24, <1>25, <1>26, <1>27, <1>28, <1>29, <1>30, <1>31
  DEF Next, ReaderStep, GraceStep, FlushStep, ForkStep

(* The two phases.                                                          *)
LEMMA PhaseInvStep ==
  ASSUME ~StoreBuffer PROVE GraceInv /\ [Next]_vars => PhaseInv'
<1> SUFFICES ASSUME GraceInv, [Next]_vars PROVE PhaseInv'
  OBVIOUS
<1> USE ModeAssumption, ThreadAssumption
    DEF GraceInv, TypeOK, MutexInv, ListInv,
          OwedInv, PhaseInv, Linked, Readers, InCs, Store, Leave, Zero, Counter,
          Phase, Label, registry, readers, control, memory, client, Goto, At,
          Waiting, Locked, Polling, Yielding, Forking
<1>1. ASSUME NEW t \in Thread, AddTdata(t) PROVE PhaseInv'
  BY <1>1 DEF AddTdata, Fenced
<1>2. ASSUME NEW t \in Thread, EnterLoad(t) PROVE PhaseInv'
  BY <1>2 DEF EnterLoad
<1>3. ASSUME NEW t \in Thread, EnterStore(t) PROVE PhaseInv'
  BY <1>3 DEF EnterStore
<1>4. ASSUME NEW t \in Thread, EnterNested(t) PROVE PhaseInv'
  BY <1>4 DEF EnterNested
<1>5. ASSUME NEW t \in Thread, ExitNested(t) PROVE PhaseInv'
  BY <1>5 DEF ExitNested
<1>6. ASSUME NEW t \in Thread, ExitCs(t) PROVE PhaseInv'
  BY <1>6 DEF ExitCs
<1>7. ASSUME NEW t \in Thread, Drain(t) PROVE PhaseInv'
  BY <1>7 DEF Drain, Fenced
<1>8. ASSUME NEW t \in Thread, NEW x \in Object, Acquire(t, x) PROVE PhaseInv'
  BY <1>8 DEF Acquire
<1>9. ASSUME NEW t \in Thread, LockGp(t) PROVE PhaseInv'
  BY <1>9 DEF LockGp, Fenced
<1>10. ASSUME NEW t \in Thread, LockTd(t) PROVE PhaseInv'
  BY <1>10 DEF LockTd, EndSync, On
<1>11. ASSUME NEW t \in Thread, NEW x \in Thread, Visit(t, x) PROVE PhaseInv'
  BY <1>11 DEF Visit, State
<1>12. ASSUME NEW t \in Thread, Flip(t) PROVE PhaseInv'
  BY <1>12 DEF Flip, On
<1>13. ASSUME NEW t \in Thread, Splice(t) PROVE PhaseInv'
  BY <1>13 DEF Splice, EndSync, On
<1>14. ASSUME NEW t \in Thread, Yield(t) PROVE PhaseInv'
  BY <1>14 DEF Yield, On
<1>15. ASSUME NEW t \in Thread, Relock(t) PROVE PhaseInv'
  BY <1>15 DEF Relock, On
<1>16. ASSUME NEW t \in Thread, Sync(t) PROVE PhaseInv'
  BY <1>16 DEF Sync, BeginSync
<1>17. ASSUME NEW t \in Thread, FlushFinalizers(t) PROVE PhaseInv'
  BY <1>17 DEF FlushFinalizers
<1>18. ASSUME NEW t \in Thread, FlushAll(t) PROVE PhaseInv'
  BY <1>18 DEF FlushAll, BeginSync
<1>19. ASSUME NEW t \in Thread, Destroy(t) PROVE PhaseInv'
  <2>1. UNCHANGED <<registry, readers, client>>
    BY <1>19 DEF Destroy
  <2>2. pc' = pc \/ pc' = [pc EXCEPT ![t] = "gone"] \/ pc' = [pc EXCEPT ![t] = "idle"]
    BY <1>19 DEF Destroy
  <2> QED
    BY <2>1, <2>2
<1>20. ASSUME NEW t \in Thread, EndThread(t) PROVE PhaseInv'
  BY <1>20 DEF EndThread
<1>21. ASSUME NEW t \in Thread, Unlink(t) PROVE PhaseInv'
  BY <1>21 DEF Unlink, Fenced
<1>22. ASSUME NEW t \in Thread, NEW x \in Object, Finalize(t, x)
       PROVE  PhaseInv'
  BY <1>22 DEF Finalize
<1>23. ASSUME NEW t \in Thread, Fork(t) PROVE PhaseInv'
  BY <1>23 DEF Fork
<1>24. ASSUME NEW t \in Thread, PrepareGp(t) PROVE PhaseInv'
  BY <1>24 DEF PrepareGp, Fenced
<1>25. ASSUME NEW t \in Thread, PrepareTd(t) PROVE PhaseInv'
  BY <1>25 DEF PrepareTd
<1>26. ASSUME NEW t \in Thread, ForkParent(t) PROVE PhaseInv'
  BY <1>26 DEF ForkParent
<1>27. ASSUME NEW t \in Thread, ForkChild(t) PROVE PhaseInv'
  BY <1>27 DEF ForkChild
<1>28. ASSUME NEW t \in Thread, Spawn(t) PROVE PhaseInv'
  BY <1>28 DEF Spawn
<1>29. ASSUME NEW o \in Object, Publish(o) PROVE PhaseInv'
  BY <1>29 DEF Publish
<1>30. ASSUME NEW o \in Object, Remove(o) PROVE PhaseInv'
  BY <1>30 DEF Remove
<1>31. CASE UNCHANGED vars
  BY <1>31 DEF vars
<1> QED
  BY <1>1, <1>2, <1>3, <1>4, <1>5, <1>6, <1>7, <1>8, <1>9, <1>10, <1>11,
     <1>12, <1>13, <1>14, <1>15, <1>16, <1>17, <1>18, <1>19, <1>20, <1>21,
     <1>22, <1>23, <1>24, <1>25, <1>26, <1>27, <1>28, <1>29, <1>30, <1>31
  DEF Next, ReaderStep, GraceStep, FlushStep, ForkStep

(* The pending lists.                                                       *)
LEMMA PendInvStep == TypeOK /\ PendInv /\ [Next]_vars => PendInv'
<1> SUFFICES ASSUME TypeOK, PendInv, [Next]_vars PROVE PendInv'
  OBVIOUS
<1> USE
    DEF TypeOK, PendInv, registry, readers, control, memory, client,
        Goto, At
<1>1. ASSUME NEW t \in Thread, AddTdata(t) PROVE PendInv'
  BY <1>1 DEF AddTdata, Fenced
<1>2. ASSUME NEW t \in Thread, EnterLoad(t) PROVE PendInv'
  BY <1>2 DEF EnterLoad
<1>3. ASSUME NEW t \in Thread, EnterStore(t) PROVE PendInv'
  BY <1>3 DEF EnterStore
<1>4. ASSUME NEW t \in Thread, EnterNested(t) PROVE PendInv'
  BY <1>4 DEF EnterNested
<1>5. ASSUME NEW t \in Thread, ExitNested(t) PROVE PendInv'
  BY <1>5 DEF ExitNested
<1>6. ASSUME NEW t \in Thread, ExitCs(t) PROVE PendInv'
  BY <1>6 DEF ExitCs
<1>7. ASSUME NEW t \in Thread, Drain(t) PROVE PendInv'
  BY <1>7 DEF Drain, Fenced
<1>8. ASSUME NEW t \in Thread, NEW x \in Object, Acquire(t, x) PROVE PendInv'
  BY <1>8 DEF Acquire
<1>9. ASSUME NEW t \in Thread, LockGp(t) PROVE PendInv'
  BY <1>9 DEF LockGp, Fenced
<1>10. ASSUME NEW t \in Thread, LockTd(t) PROVE PendInv'
  BY <1>10 DEF LockTd, EndSync, On
<1>11. ASSUME NEW t \in Thread, NEW x \in Thread, Visit(t, x) PROVE PendInv'
  BY <1>11 DEF Visit, State
<1>12. ASSUME NEW t \in Thread, Flip(t) PROVE PendInv'
  BY <1>12 DEF Flip, On
<1>13. ASSUME NEW t \in Thread, Splice(t) PROVE PendInv'
  BY <1>13 DEF Splice, EndSync, On
<1>14. ASSUME NEW t \in Thread, Yield(t) PROVE PendInv'
  BY <1>14 DEF Yield, On
<1>15. ASSUME NEW t \in Thread, Relock(t) PROVE PendInv'
  BY <1>15 DEF Relock, On
<1>16. ASSUME NEW t \in Thread, Sync(t) PROVE PendInv'
  BY <1>16 DEF Sync, BeginSync
<1>17. ASSUME NEW t \in Thread, FlushFinalizers(t) PROVE PendInv'
  BY <1>17 DEF FlushFinalizers
<1>18. ASSUME NEW t \in Thread, FlushAll(t) PROVE PendInv'
  BY <1>18 DEF FlushAll, BeginSync
<1>19. ASSUME NEW t \in Thread, Destroy(t) PROVE PendInv'
  <2>1. CASE fins[t] # <<>>
    <3>1. /\ obj' = [obj EXCEPT ![Head(fins[t])] = "free"]
          /\ fins' = [fins EXCEPT ![t] = Tail(@)]
      BY <1>19, <2>1 DEF Destroy
    <3>2. /\ 1 \in DOMAIN fins[t] /\ Head(fins[t]) = fins[t][1]
          /\ \A i \in DOMAIN Tail(fins[t]) :
               i + 1 \in DOMAIN fins[t] /\ i + 1 # 1
               /\ Tail(fins[t])[i] = fins[t][i + 1]
          /\ \A i, j \in DOMAIN Tail(fins[t]) : i + 1 = j + 1 => i = j
      BY <2>1, TailFacts
    <3>3. ASSUME NEW u \in Thread, NEW i \in DOMAIN fins'[u]
          PROVE  \E k \in DOMAIN fins[u] :
                   /\ fins'[u][i] = fins[u][k]
                   /\ u = t => k = i + 1 /\ k # 1
                   /\ u # t => k = i
      BY <3>1, <3>2
    <3>4. ASSUME NEW u \in Thread, NEW i \in DOMAIN fins'[u]
          PROVE  obj'[fins'[u][i]] = "retired"
      <4>1. PICK k \in DOMAIN fins[u] :
              fins'[u][i] = fins[u][k] /\ (u = t => k # 1)
        BY <3>3
      <4>2. fins[u][k] # fins[t][1] /\ obj[fins[u][k]] = "retired"
        BY <3>2, <4>1
      <4>3. fins[u][k] \in Object
        OBVIOUS
      <4> QED
        BY <3>1, <3>2, <4>1, <4>2, <4>3
    <3>5. ASSUME NEW u \in Thread, NEW v \in Thread,
                 NEW i \in DOMAIN fins'[u], NEW j \in DOMAIN fins'[v],
                 fins'[u][i] = fins'[v][j]
          PROVE  u = v /\ i = j
      <4>1. PICK k \in DOMAIN fins[u] :
              /\ fins'[u][i] = fins[u][k]
              /\ (u = t => k = i + 1) /\ (u # t => k = i)
        BY <3>3
      <4>2. PICK m \in DOMAIN fins[v] :
              /\ fins'[v][j] = fins[v][m]
              /\ (v = t => m = j + 1) /\ (v # t => m = j)
        BY <3>3
      <4>3. fins[u][k] = fins[v][m]
        BY <3>5, <4>1, <4>2
      <4>4. u = v /\ k = m
        BY <4>3
      <4> QED
        BY <3>1, <3>2, <4>1, <4>2, <4>4
    <3> QED
      BY <3>4, <3>5
  <2>2. CASE fins[t] = <<>>
    BY <1>19, <2>2 DEF Destroy
  <2> QED
    BY <2>1, <2>2
<1>20. ASSUME NEW t \in Thread, EndThread(t) PROVE PendInv'
  BY <1>20 DEF EndThread
<1>21. ASSUME NEW t \in Thread, Unlink(t) PROVE PendInv'
  BY <1>21 DEF Unlink, Fenced
<1>22. ASSUME NEW t \in Thread, NEW x \in Object, Finalize(t, x) PROVE PendInv'
  BY <1>22 DEF Finalize
<1>23. ASSUME NEW t \in Thread, Fork(t) PROVE PendInv'
  BY <1>23 DEF Fork
<1>24. ASSUME NEW t \in Thread, PrepareGp(t) PROVE PendInv'
  BY <1>24 DEF PrepareGp, Fenced
<1>25. ASSUME NEW t \in Thread, PrepareTd(t) PROVE PendInv'
  BY <1>25 DEF PrepareTd
<1>26. ASSUME NEW t \in Thread, ForkParent(t) PROVE PendInv'
  BY <1>26 DEF ForkParent
<1>27. ASSUME NEW t \in Thread, ForkChild(t) PROVE PendInv'
  BY <1>27 DEF ForkChild
<1>28. ASSUME NEW t \in Thread, Spawn(t) PROVE PendInv'
  BY <1>28 DEF Spawn
<1>29. ASSUME NEW o \in Object, Publish(o) PROVE PendInv'
  BY <1>29 DEF Publish
<1>30. ASSUME NEW o \in Object, Remove(o) PROVE PendInv'
  BY <1>30 DEF Remove
<1>31. CASE UNCHANGED vars
  BY <1>31 DEF vars
<1> QED
  BY <1>1, <1>2, <1>3, <1>4, <1>5, <1>6, <1>7, <1>8, <1>9, <1>10, <1>11,
     <1>12, <1>13, <1>14, <1>15, <1>16, <1>17, <1>18, <1>19, <1>20, <1>21,
     <1>22, <1>23, <1>24, <1>25, <1>26, <1>27, <1>28, <1>29, <1>30, <1>31
  DEF Next, ReaderStep, GraceStep, FlushStep, ForkStep

(* References.                                                              *)
LEMMA RefInvStep ==
  ASSUME ~StoreBuffer PROVE GraceInv /\ [Next]_vars => RefInv'
<1> SUFFICES ASSUME GraceInv, [Next]_vars PROVE RefInv'
  OBVIOUS
<1> USE ModeAssumption, ThreadAssumption
    DEF GraceInv, TypeOK, MutexInv, OwedInv,
          PendInv, RefInv, Range, Label, registry, readers, control, memory, client, Goto, At,
          Waiting, Locked, Polling, Yielding, Forking
<1>1. ASSUME NEW t \in Thread, AddTdata(t) PROVE RefInv'
  BY <1>1 DEF AddTdata, Fenced, Readers, InCs, Store, Leave, Counter, Zero
<1>2. ASSUME NEW t \in Thread, EnterLoad(t) PROVE RefInv'
  BY <1>2 DEF EnterLoad, Readers, InCs, Store, Leave, Counter, Zero
<1>3. ASSUME NEW t \in Thread, EnterStore(t) PROVE RefInv'
  BY <1>3 DEF EnterStore, Readers, InCs, Store, Leave, Counter, Zero
<1>4. ASSUME NEW t \in Thread, EnterNested(t) PROVE RefInv'
  BY <1>4 DEF EnterNested, Readers, InCs, Store, Leave, Counter, Zero
<1>5. ASSUME NEW t \in Thread, ExitNested(t) PROVE RefInv'
  BY <1>5 DEF ExitNested, Readers, InCs, Store, Leave, Counter, Zero
<1>6. ASSUME NEW t \in Thread, ExitCs(t) PROVE RefInv'
  <2>1. PICK l \in {"idle", "flush"} : pc' = [pc EXCEPT ![t] = l]
    BY <1>6, ExitLabel
  <2>2. Readers' = Readers \ {t}
        /\ (\A u \in Thread : owed'[u] = owed[u] \ {t}) /\ refs'[t] = {}
        /\ \A u \in Thread \ {t} : refs'[u] = refs[u] /\ pc'[u] = pc[u]
    BY <1>6, <2>1, LeaveFacts DEF ExitCs, Label
  <2> QED
    BY <1>6, <2>1, <2>2 DEF ExitCs
<1>7. ASSUME NEW t \in Thread, Drain(t) PROVE RefInv'
  BY <1>7 DEF Drain, Fenced, Readers, InCs, Store, Leave, Counter, Zero
<1>8. ASSUME NEW t \in Thread, NEW x \in Object, Acquire(t, x) PROVE RefInv'
  BY <1>8 DEF Acquire, Readers, InCs, Store, Leave, Counter, Zero
<1>9. ASSUME NEW t \in Thread, LockGp(t) PROVE RefInv'
  BY <1>9 DEF LockGp, Fenced, Readers, InCs, Store, Leave, Counter, Zero
<1>10. ASSUME NEW t \in Thread, LockTd(t) PROVE RefInv'
  <2>1. Readers' = Readers /\ UNCHANGED <<refs, owed, obj, fins>>
    BY <1>10 DEF LockTd, EndSync, Readers, InCs
  <2>2. \A u \in Thread : pc'[u] \in Waiting => pc[u] \in Waiting
    BY <1>10 DEF LockTd, EndSync
  <2>3. On("root") = {} => owed[t] = {}
    BY <1>10, NothingOwed DEF LockTd
  <2>4. \A u \in Thread : pc'[u] = "destroy" =>
          pc[u] = "destroy" \/ (pc[u] \in Waiting /\ owed[u] = {})
    BY <1>10, <2>3 DEF LockTd, EndSync
  <2> QED
    BY <2>1, <2>2, <2>4, RefKept
<1>11. ASSUME NEW t \in Thread, NEW x \in Thread, Visit(t, x) PROVE RefInv'
  BY <1>11 DEF Visit, State, Readers, InCs, Store, Leave, Counter, Zero
<1>12. ASSUME NEW t \in Thread, Flip(t) PROVE RefInv'
  BY <1>12 DEF Flip, On, Readers, InCs, Store, Leave, Counter, Zero
<1>13. ASSUME NEW t \in Thread, Splice(t) PROVE RefInv'
  <2>1. Readers' = Readers /\ UNCHANGED <<refs, owed, obj, fins>>
    BY <1>13 DEF Splice, EndSync, Readers, InCs
  <2>2. \A u \in Thread : pc'[u] \in Waiting => pc[u] \in Waiting
    BY <1>13 DEF Splice, EndSync
  <2>3. owed[t] = {}
    BY <1>13, NothingOwed DEF Splice
  <2>4. \A u \in Thread : pc'[u] = "destroy" =>
          pc[u] = "destroy" \/ (pc[u] \in Waiting /\ owed[u] = {})
    BY <1>13, <2>3 DEF Splice, EndSync
  <2> QED
    BY <2>1, <2>2, <2>4, RefKept
<1>14. ASSUME NEW t \in Thread, Yield(t) PROVE RefInv'
  <2>1. Readers' = Readers /\ UNCHANGED <<refs, owed, obj, fins>>
    BY <1>14 DEF Yield, Readers, InCs
  <2>2. \A u \in Thread : pc'[u] \in Waiting => pc[u] \in Waiting
    BY <1>14 DEF Yield
  <2>3. \A u \in Thread : pc'[u] = "destroy" => pc[u] = "destroy"
    BY <1>14 DEF Yield
  <2> QED
    BY <2>1, <2>2, <2>3, RefKept
<1>15. ASSUME NEW t \in Thread, Relock(t) PROVE RefInv'
  <2>1. Readers' = Readers /\ UNCHANGED <<refs, owed, obj, fins>>
    BY <1>15 DEF Relock, Readers, InCs
  <2>2. \A u \in Thread : pc'[u] \in Waiting => pc[u] \in Waiting
    BY <1>15 DEF Relock
  <2>3. \A u \in Thread : pc'[u] = "destroy" => pc[u] = "destroy"
    BY <1>15 DEF Relock
  <2> QED
    BY <2>1, <2>2, <2>3, RefKept
<1>16. ASSUME NEW t \in Thread, Sync(t) PROVE RefInv'
  BY <1>16 DEF Sync, BeginSync, Readers, InCs, Store, Leave, Counter, Zero
<1>17. ASSUME NEW t \in Thread, FlushFinalizers(t) PROVE RefInv'
  BY <1>17 DEF FlushFinalizers, Readers, InCs, Store, Leave, Counter, Zero
<1>18. ASSUME NEW t \in Thread, FlushAll(t) PROVE RefInv'
  <2>1. CASE InCs(t)
    <3>1. Readers' = Readers /\ UNCHANGED <<refs, owed, obj, fins>>
      BY <1>18, <2>1 DEF FlushAll, Readers, InCs
    <3>2. pc' = [pc EXCEPT ![t] = "idle"]
      BY <1>18, <2>1 DEF FlushAll
    <3> QED
      BY <3>1, <3>2, RefKept
  <2>2. CASE ~InCs(t)
    <3>1. Readers' = Readers
      BY <1>18, <2>2 DEF FlushAll, BeginSync, Readers, InCs
    <3> QED
      BY SMTT(40), <1>18, <2>2, <3>1 DEF FlushAll, BeginSync
  <2> QED
    BY <2>1, <2>2
<1>19. ASSUME NEW t \in Thread, Destroy(t) PROVE RefInv'
  <2>1. CASE fins[t] # <<>>
    <3>1. /\ obj' = [obj EXCEPT ![Head(fins[t])] = "free"]
          /\ fins' = [fins EXCEPT ![t] = Tail(@)]
          /\ UNCHANGED <<refs, owed, pc, ctr>> /\ pc[t] = "destroy"
      BY <1>19, <2>1 DEF Destroy
    <3>2. /\ Head(fins[t]) \in Range(fins[t]) /\ Head(fins[t]) \in Object
          /\ \A i \in DOMAIN Tail(fins[t]) : Tail(fins[t])[i] \in Range(fins[t])
      BY <2>1, TailFacts
    <3>3. \A u \in Thread : \A o \in Object :
            o \in Range(fins'[u]) => o \in Range(fins[u])
      BY <3>1, <3>2
    <3>4. \A r \in Thread : Head(fins[t]) \notin refs[r]
      BY <3>1, <3>2
    <3>5. Readers' = Readers
      BY <3>1 DEF Readers, InCs
    <3> QED
      BY <3>1, <3>2, <3>3, <3>4, <3>5
  <2>2. CASE fins[t] = <<>>
    <3>1. Readers' = Readers /\ UNCHANGED <<refs, owed, obj, fins>>
      BY <1>19, <2>2 DEF Destroy, Readers, InCs
    <3>2. /\ \A u \in Thread : pc'[u] \in Waiting => pc[u] \in Waiting
          /\ \A u \in Thread : pc'[u] = "destroy" => pc[u] = "destroy"
      BY <1>19, <2>2 DEF Destroy
    <3> QED
      BY <3>1, <3>2, RefKept
  <2> QED
    BY <2>1, <2>2
<1>20. ASSUME NEW t \in Thread, EndThread(t) PROVE RefInv'
  <2>1. PICK l \in {"flush", "gone"} : pc' = [pc EXCEPT ![t] = l]
    BY <1>20, EndLabel
  <2>2. Readers' = Readers \ {t}
        /\ (\A u \in Thread : owed'[u] = owed[u] \ {t}) /\ refs'[t] = {}
        /\ \A u \in Thread \ {t} : refs'[u] = refs[u] /\ pc'[u] = pc[u]
    BY <1>20, <2>1, LeaveFacts DEF EndThread, Label
  <2> QED
    BY <1>20, <2>1, <2>2 DEF EndThread
<1>21. ASSUME NEW t \in Thread, Unlink(t) PROVE RefInv'
  BY <1>21 DEF Unlink, Fenced, Readers, InCs, Store, Leave, Counter, Zero
<1>22. ASSUME NEW t \in Thread, NEW x \in Object, Finalize(t, x) PROVE RefInv'
  BY <1>22 DEF Finalize, Readers, InCs, Store, Leave, Counter, Zero
<1>23. ASSUME NEW t \in Thread, Fork(t) PROVE RefInv'
  BY <1>23 DEF Fork, Readers, InCs, Store, Leave, Counter, Zero
<1>24. ASSUME NEW t \in Thread, PrepareGp(t) PROVE RefInv'
  BY <1>24 DEF PrepareGp, Fenced, Readers, InCs, Store, Leave, Counter, Zero
<1>25. ASSUME NEW t \in Thread, PrepareTd(t) PROVE RefInv'
  BY <1>25 DEF PrepareTd, Readers, InCs, Store, Leave, Counter, Zero
<1>26. ASSUME NEW t \in Thread, ForkParent(t) PROVE RefInv'
  BY <1>26 DEF ForkParent, Readers, InCs, Store, Leave, Counter, Zero
<1>27. ASSUME NEW t \in Thread, ForkChild(t) PROVE RefInv'
  BY <1>27 DEF ForkChild, Readers, InCs, Store, Leave, Counter, Zero
<1>28. ASSUME NEW t \in Thread, Spawn(t) PROVE RefInv'
  BY <1>28 DEF Spawn, Readers, InCs, Store, Leave, Counter, Zero
<1>29. ASSUME NEW o \in Object, Publish(o) PROVE RefInv'
  BY <1>29 DEF Publish, Readers, InCs, Store, Leave, Counter, Zero
<1>30. ASSUME NEW o \in Object, Remove(o) PROVE RefInv'
  BY <1>30 DEF Remove, Readers, InCs, Store, Leave, Counter, Zero
<1>31. CASE UNCHANGED vars
  BY <1>31 DEF vars, Readers, InCs
<1> QED
  BY <1>1, <1>2, <1>3, <1>4, <1>5, <1>6, <1>7, <1>8, <1>9, <1>10, <1>11,
     <1>12, <1>13, <1>14, <1>15, <1>16, <1>17, <1>18, <1>19, <1>20, <1>21,
     <1>22, <1>23, <1>24, <1>25, <1>26, <1>27, <1>28, <1>29, <1>30, <1>31
  DEF Next, ReaderStep, GraceStep, FlushStep, ForkStep

(* A thread that changes place and reason at once.                         *)
LEMMA OpChange ==
  ASSUME TypeOK, OpInv, NEW t \in Thread, NEW l \in Label,
         NEW p \in {"sync", "flush", "exit"},
         pc' = [pc EXCEPT ![t] = l], op' = [op EXCEPT ![t] = p],
         l \in {"idle", "enter", "gone", "dead"} \cup Forking => p = "sync",
         l = "flush" => p # "sync"
  PROVE  OpInv'
<1> SUFFICES ASSUME NEW u \in Thread
             PROVE  /\ pc'[u] \in {"idle", "enter", "gone", "dead"} \cup Forking
                         => op'[u] = "sync"
                    /\ pc'[u] = "flush" => op'[u] # "sync"
  BY DEF OpInv
<1>1. CASE u = t
  BY <1>1 DEF TypeOK
<1>2. CASE u # t
  BY <1>2 DEF TypeOK, OpInv
<1> QED
  BY <1>1, <1>2

(* The reasons for a sync.                                                  *)
LEMMA OpStep ==
  TypeOK /\ OpInv /\ [Next]_vars => OpInv'
<1> SUFFICES ASSUME TypeOK, OpInv, [Next]_vars PROVE OpInv'
  OBVIOUS
<1> USE
    DEF TypeOK, OpInv, Label, registry, readers, control, memory, client,
        Goto, At,
          Waiting, Locked, Polling, Yielding, Forking
<1>1. ASSUME NEW t \in Thread, AddTdata(t) PROVE OpInv'
  BY <1>1 DEF AddTdata, Fenced
<1>2. ASSUME NEW t \in Thread, EnterLoad(t) PROVE OpInv'
  BY <1>2 DEF EnterLoad
<1>3. ASSUME NEW t \in Thread, EnterStore(t) PROVE OpInv'
  BY <1>3 DEF EnterStore
<1>4. ASSUME NEW t \in Thread, EnterNested(t) PROVE OpInv'
  BY <1>4 DEF EnterNested
<1>5. ASSUME NEW t \in Thread, ExitNested(t) PROVE OpInv'
  BY <1>5 DEF ExitNested
<1>6. ASSUME NEW t \in Thread, ExitCs(t) PROVE OpInv'
  <2>1. CASE must[t]
    <3>1. /\ pc' = [pc EXCEPT ![t] = "flush"]
          /\ op' = [op EXCEPT ![t] = "flush"]
      BY <1>6, <2>1 DEF ExitCs
    <3> QED
      BY <3>1, OpChange
  <2>2. CASE ~must[t]
    BY <1>6, <2>2 DEF ExitCs
  <2> QED
    BY <2>1, <2>2
<1>7. ASSUME NEW t \in Thread, Drain(t) PROVE OpInv'
  BY <1>7 DEF Drain, Fenced
<1>8. ASSUME NEW t \in Thread, NEW x \in Object, Acquire(t, x) PROVE OpInv'
  BY <1>8 DEF Acquire
<1>9. ASSUME NEW t \in Thread, LockGp(t) PROVE OpInv'
  BY <1>9 DEF LockGp, Fenced
<1>10. ASSUME NEW t \in Thread, LockTd(t) PROVE OpInv'
  BY <1>10 DEF LockTd, EndSync, On
<1>11. ASSUME NEW t \in Thread, NEW x \in Thread, Visit(t, x) PROVE OpInv'
  BY <1>11 DEF Visit, State
<1>12. ASSUME NEW t \in Thread, Flip(t) PROVE OpInv'
  BY <1>12 DEF Flip, On
<1>13. ASSUME NEW t \in Thread, Splice(t) PROVE OpInv'
  BY <1>13 DEF Splice, EndSync, On
<1>14. ASSUME NEW t \in Thread, Yield(t) PROVE OpInv'
  BY <1>14 DEF Yield, On
<1>15. ASSUME NEW t \in Thread, Relock(t) PROVE OpInv'
  BY <1>15 DEF Relock, On
<1>16. ASSUME NEW t \in Thread, Sync(t) PROVE OpInv'
  BY <1>16 DEF Sync, BeginSync
<1>17. ASSUME NEW t \in Thread, FlushFinalizers(t) PROVE OpInv'
  BY <1>17 DEF FlushFinalizers
<1>18. ASSUME NEW t \in Thread, FlushAll(t) PROVE OpInv'
  <2>1. CASE InCs(t)
    BY <1>18, <2>1, OpChange DEF FlushAll
  <2>2. CASE ~InCs(t)
    BY <1>18, <2>2 DEF FlushAll, BeginSync
  <2> QED
    BY <2>1, <2>2
<1>19. ASSUME NEW t \in Thread, Destroy(t) PROVE OpInv'
  <2>1. CASE fins[t] # <<>>
    BY <1>19, <2>1 DEF Destroy
  <2>2. CASE fins[t] = <<>>
    <3>1. PICK l \in {"gone", "idle"} : pc' = [pc EXCEPT ![t] = l]
      BY <1>19, <2>2 DEF Destroy
    <3> QED
      BY <1>19, <2>2, <3>1, OpChange DEF Destroy
  <2> QED
    BY <2>1, <2>2
<1>20. ASSUME NEW t \in Thread, EndThread(t) PROVE OpInv'
  BY <1>20 DEF EndThread
<1>21. ASSUME NEW t \in Thread, Unlink(t) PROVE OpInv'
  BY <1>21 DEF Unlink, Fenced
<1>22. ASSUME NEW t \in Thread, NEW x \in Object, Finalize(t, x) PROVE OpInv'
  BY <1>22 DEF Finalize
<1>23. ASSUME NEW t \in Thread, Fork(t) PROVE OpInv'
  BY <1>23 DEF Fork
<1>24. ASSUME NEW t \in Thread, PrepareGp(t) PROVE OpInv'
  BY <1>24 DEF PrepareGp, Fenced
<1>25. ASSUME NEW t \in Thread, PrepareTd(t) PROVE OpInv'
  BY <1>25 DEF PrepareTd
<1>26. ASSUME NEW t \in Thread, ForkParent(t) PROVE OpInv'
  BY <1>26 DEF ForkParent
<1>27. ASSUME NEW t \in Thread, ForkChild(t) PROVE OpInv'
  BY <1>27 DEF ForkChild
<1>28. ASSUME NEW t \in Thread, Spawn(t) PROVE OpInv'
  BY <1>28 DEF Spawn
<1>29. ASSUME NEW o \in Object, Publish(o) PROVE OpInv'
  BY <1>29 DEF Publish
<1>30. ASSUME NEW o \in Object, Remove(o) PROVE OpInv'
  BY <1>30 DEF Remove
<1>31. CASE UNCHANGED vars
  BY <1>31 DEF vars
<1> QED
  BY <1>1, <1>2, <1>3, <1>4, <1>5, <1>6, <1>7, <1>8, <1>9, <1>10, <1>11,
     <1>12, <1>13, <1>14, <1>15, <1>16, <1>17, <1>18, <1>19, <1>20, <1>21,
     <1>22, <1>23, <1>24, <1>25, <1>26, <1>27, <1>28, <1>29, <1>30, <1>31
  DEF Next, ReaderStep, GraceStep, FlushStep, ForkStep

-----------------------------------------------------------------------------
(* Deferred flushes, and what becomes of the objects that were finalized.  *)

(* What finalize does to the list.                                         *)
LEMMA AppendFacts ==
  ASSUME NEW S, NEW s \in Seq(S), NEW x \in S
  PROVE  /\ Len(s) \in Nat /\ Len(Append(s, x)) = Len(s) + 1
         /\ Append(s, x) # <<>>
         /\ Range(Append(s, x)) = Range(s) \cup {x}
<1>1. /\ Len(s) \in Nat /\ Len(Append(s, x)) = Len(s) + 1
      /\ DOMAIN s = 1..Len(s) /\ DOMAIN Append(s, x) = 1..Len(s) + 1
      /\ \A i \in 1..Len(s) : Append(s, x)[i] = s[i]
      /\ Append(s, x)[Len(s) + 1] = x
  OBVIOUS
<1> QED
  BY <1>1 DEF Range

(* What flush_all's loop does to it, as a set.                              *)
LEMMA TailRange ==
  ASSUME NEW S, NEW s \in Seq(S), s # <<>>
  PROVE  Range(s) = Range(Tail(s)) \cup {Head(s)}
<1>1. /\ DOMAIN s = 1..Len(s) /\ DOMAIN Tail(s) = 1..Len(s) - 1
      /\ Len(s) \in Nat \ {0} /\ Head(s) = s[1]
      /\ \A i \in 1..Len(s) - 1 : Tail(s)[i] = s[i + 1]
  OBVIOUS
<1>2. \A i \in 1..Len(s) : i = 1 \/ (i - 1 \in 1..Len(s) - 1 /\ Tail(s)[i - 1] = s[i])
  BY <1>1
<1>3. \A i \in 1..Len(s) - 1 : i + 1 \in 1..Len(s)
  BY <1>1
<1>4. ASSUME NEW i \in 1..Len(s) PROVE s[i] \in Range(Tail(s)) \cup {Head(s)}
  BY <1>1, <1>2 DEF Range
<1>5. ASSUME NEW i \in 1..Len(s) - 1 PROVE Tail(s)[i] \in Range(s)
  BY <1>1, <1>3 DEF Range
<1>6. Head(s) \in Range(s)
  BY <1>1 DEF Range
<1> QED
  BY <1>1, <1>4, <1>5, <1>6 DEF Range

(* Whether a flush is owed.                                                *)
LEMMA FlushInvStep == TypeOK /\ OpInv /\ FlushInv /\ [Next]_vars => FlushInv'
<1> SUFFICES ASSUME TypeOK, OpInv, FlushInv, [Next]_vars PROVE FlushInv'
  OBVIOUS
<1> USE BoundAssumption
    DEF TypeOK, OpInv, FlushInv, Label, registry, readers, control, memory, client,
        Goto, At, InCs, Store, Zero, Counter, Forking, Waiting, Locked, Polling, Yielding
<1>1. ASSUME NEW t \in Thread, AddTdata(t) PROVE FlushInv'
  BY <1>1 DEF AddTdata, Fenced
<1>2. ASSUME NEW t \in Thread, EnterLoad(t) PROVE FlushInv'
  BY SMTT(40), <1>2 DEF EnterLoad
<1>3. ASSUME NEW t \in Thread, EnterStore(t) PROVE FlushInv'
  BY <1>3 DEF EnterStore
<1>4. ASSUME NEW t \in Thread, EnterNested(t) PROVE FlushInv'
  BY <1>4 DEF EnterNested
<1>5. ASSUME NEW t \in Thread, ExitNested(t) PROVE FlushInv'
  BY <1>5 DEF ExitNested
<1>6. ASSUME NEW t \in Thread, ExitCs(t) PROVE FlushInv'
  BY SMTT(40), <1>6 DEF ExitCs
<1>7. ASSUME NEW t \in Thread, Drain(t) PROVE FlushInv'
  BY <1>7 DEF Drain, Fenced
<1>8. ASSUME NEW t \in Thread, NEW x \in Object, Acquire(t, x) PROVE FlushInv'
  BY <1>8 DEF Acquire
<1>9. ASSUME NEW t \in Thread, LockGp(t) PROVE FlushInv'
  BY <1>9 DEF LockGp, Fenced
<1>10. ASSUME NEW t \in Thread, LockTd(t) PROVE FlushInv'
  BY <1>10 DEF LockTd, EndSync, On
<1>11. ASSUME NEW t \in Thread, NEW x \in Thread, Visit(t, x) PROVE FlushInv'
  BY <1>11 DEF Visit, State
<1>12. ASSUME NEW t \in Thread, Flip(t) PROVE FlushInv'
  BY <1>12 DEF Flip, On
<1>13. ASSUME NEW t \in Thread, Splice(t) PROVE FlushInv'
  BY <1>13 DEF Splice, EndSync, On
<1>14. ASSUME NEW t \in Thread, Yield(t) PROVE FlushInv'
  BY SMTT(40), <1>14 DEF Yield, On
<1>15. ASSUME NEW t \in Thread, Relock(t) PROVE FlushInv'
  BY <1>15 DEF Relock, On
<1>16. ASSUME NEW t \in Thread, Sync(t) PROVE FlushInv'
  BY <1>16 DEF Sync, BeginSync
<1>17. ASSUME NEW t \in Thread, FlushFinalizers(t) PROVE FlushInv'
  BY <1>17 DEF FlushFinalizers
<1>18. ASSUME NEW t \in Thread, FlushAll(t) PROVE FlushInv'
  BY SMTT(40), <1>18 DEF FlushAll, BeginSync
<1>19. ASSUME NEW t \in Thread, Destroy(t) PROVE FlushInv'
  BY SMTT(40), <1>19 DEF Destroy
<1>20. ASSUME NEW t \in Thread, EndThread(t) PROVE FlushInv'
  BY SMTT(40), <1>20 DEF EndThread
<1>21. ASSUME NEW t \in Thread, Unlink(t) PROVE FlushInv'
  BY <1>21 DEF Unlink, Fenced
<1>22. ASSUME NEW t \in Thread, NEW x \in Object, Finalize(t, x) PROVE FlushInv'
  <2>1. /\ Len(Append(fins[t], x)) = Len(fins[t]) + 1
        /\ Append(fins[t], x) # <<>> /\ Len(fins[t]) \in Nat
    <3>1. fins[t] \in Seq(Object)
      OBVIOUS
    <3> HIDE DEF TypeOK, FlushInv, OpInv
    <3> QED
      BY <3>1, AppendFacts
  <2>2. CASE Len(fins[t]) + 1 < MaxFins
    BY SMTT(40), <1>22, <2>1, <2>2 DEF Finalize
  <2>3. CASE ~(Len(fins[t]) + 1 < MaxFins)
    BY SMTT(40), <1>22, <2>1, <2>3 DEF Finalize
  <2> QED
    BY <2>2, <2>3
<1>23. ASSUME NEW t \in Thread, Fork(t) PROVE FlushInv'
  BY <1>23 DEF Fork
<1>24. ASSUME NEW t \in Thread, PrepareGp(t) PROVE FlushInv'
  BY <1>24 DEF PrepareGp, Fenced
<1>25. ASSUME NEW t \in Thread, PrepareTd(t) PROVE FlushInv'
  BY <1>25 DEF PrepareTd
<1>26. ASSUME NEW t \in Thread, ForkParent(t) PROVE FlushInv'
  BY <1>26 DEF ForkParent
<1>27. ASSUME NEW t \in Thread, ForkChild(t) PROVE FlushInv'
  BY <1>27 DEF ForkChild
<1>28. ASSUME NEW t \in Thread, Spawn(t) PROVE FlushInv'
  BY <1>28 DEF Spawn
<1>29. ASSUME NEW o \in Object, Publish(o) PROVE FlushInv'
  BY <1>29 DEF Publish
<1>30. ASSUME NEW o \in Object, Remove(o) PROVE FlushInv'
  BY <1>30 DEF Remove
<1>31. CASE UNCHANGED vars
  BY <1>31 DEF vars
<1> QED
  BY <1>1, <1>2, <1>3, <1>4, <1>5, <1>6, <1>7, <1>8, <1>9, <1>10, <1>11,
     <1>12, <1>13, <1>14, <1>15, <1>16, <1>17, <1>18, <1>19, <1>20, <1>21,
     <1>22, <1>23, <1>24, <1>25, <1>26, <1>27, <1>28, <1>29, <1>30, <1>31
  DEF Next, ReaderStep, GraceStep, FlushStep, ForkStep

(* What was finalized is not lost.                                         *)
LEMMA HeldInvStep ==
  ASSUME Forkers = {} PROVE TypeOK /\ HeldInv /\ [Next]_vars => HeldInv'
<1> SUFFICES ASSUME TypeOK, HeldInv, [Next]_vars PROVE HeldInv'
  OBVIOUS
<1> USE DEF TypeOK, HeldInv, Label, registry, readers, control, memory, client,
            Goto, At, Forking
<1>1. ASSUME NEW t \in Thread, AddTdata(t) PROVE HeldInv'
  BY <1>1 DEF AddTdata, Fenced
<1>2. ASSUME NEW t \in Thread, EnterLoad(t) PROVE HeldInv'
  BY <1>2 DEF EnterLoad
<1>3. ASSUME NEW t \in Thread, EnterStore(t) PROVE HeldInv'
  BY <1>3 DEF EnterStore
<1>4. ASSUME NEW t \in Thread, EnterNested(t) PROVE HeldInv'
  BY <1>4 DEF EnterNested
<1>5. ASSUME NEW t \in Thread, ExitNested(t) PROVE HeldInv'
  BY <1>5 DEF ExitNested
<1>6. ASSUME NEW t \in Thread, ExitCs(t) PROVE HeldInv'
  BY <1>6 DEF ExitCs
<1>7. ASSUME NEW t \in Thread, Drain(t) PROVE HeldInv'
  BY <1>7 DEF Drain, Fenced
<1>8. ASSUME NEW t \in Thread, NEW x \in Object, Acquire(t, x) PROVE HeldInv'
  BY <1>8 DEF Acquire
<1>9. ASSUME NEW t \in Thread, LockGp(t) PROVE HeldInv'
  BY <1>9 DEF LockGp, Fenced
<1>10. ASSUME NEW t \in Thread, LockTd(t) PROVE HeldInv'
  BY <1>10 DEF LockTd, EndSync, On
<1>11. ASSUME NEW t \in Thread, NEW x \in Thread, Visit(t, x) PROVE HeldInv'
  BY <1>11 DEF Visit, State
<1>12. ASSUME NEW t \in Thread, Flip(t) PROVE HeldInv'
  BY <1>12 DEF Flip, On
<1>13. ASSUME NEW t \in Thread, Splice(t) PROVE HeldInv'
  BY <1>13 DEF Splice, EndSync, On
<1>14. ASSUME NEW t \in Thread, Yield(t) PROVE HeldInv'
  BY <1>14 DEF Yield, On
<1>15. ASSUME NEW t \in Thread, Relock(t) PROVE HeldInv'
  BY <1>15 DEF Relock, On
<1>16. ASSUME NEW t \in Thread, Sync(t) PROVE HeldInv'
  BY <1>16 DEF Sync, BeginSync
<1>17. ASSUME NEW t \in Thread, FlushFinalizers(t) PROVE HeldInv'
  BY <1>17 DEF FlushFinalizers
<1>18. ASSUME NEW t \in Thread, FlushAll(t) PROVE HeldInv'
  BY <1>18 DEF FlushAll, BeginSync
<1>19. ASSUME NEW t \in Thread, Destroy(t) PROVE HeldInv'
  <2>1. CASE fins[t] # <<>>
    <3>1. Range(fins[t]) = Range(Tail(fins[t])) \cup {Head(fins[t])}
      BY <2>1, TailRange
    <3>2. /\ obj' = [obj EXCEPT ![Head(fins[t])] = "free"]
          /\ fins' = [fins EXCEPT ![t] = Tail(@)]
      BY <1>19, <2>1 DEF Destroy
    <3>3. ASSUME NEW o \in Object, obj'[o] = "retired"
          PROVE  \E u \in Thread : o \in Range(fins'[u])
      <4>1. o # Head(fins[t]) /\ obj[o] = "retired"
        BY <3>2, <3>3
      <4>2. PICK u \in Thread : o \in Range(fins[u])
        BY <4>1
      <4>3. o \in Range(fins'[u])
        BY <3>1, <3>2, <4>1, <4>2
      <4> QED
        BY <4>3
    <3> QED
      BY <1>19, <2>1, <3>3 DEF Destroy
  <2>2. CASE fins[t] = <<>>
    BY <1>19, <2>2 DEF Destroy
  <2> QED
    BY <2>1, <2>2
<1>20. ASSUME NEW t \in Thread, EndThread(t) PROVE HeldInv'
  BY <1>20 DEF EndThread
<1>21. ASSUME NEW t \in Thread, Unlink(t) PROVE HeldInv'
  BY <1>21 DEF Unlink, Fenced
<1>22. ASSUME NEW t \in Thread, NEW x \in Object, Finalize(t, x) PROVE HeldInv'
  <2>1. Range(Append(fins[t], x)) = Range(fins[t]) \cup {x}
    BY AppendFacts
  <2>2. /\ obj' = [obj EXCEPT ![x] = "retired"]
        /\ fins' = [fins EXCEPT ![t] = Append(@, x)]
        /\ \A u \in Thread : pc'[u] \notin Forking
    BY <1>22 DEF Finalize
  <2>3. \A u \in Thread : Range(fins'[u]) = Range(fins[u]) \cup (IF u = t THEN {x} ELSE {})
    BY <2>1, <2>2
  <2> QED
    BY ZenonT(60), <2>2, <2>3
<1>23. ASSUME NEW t \in Thread, Fork(t) PROVE HeldInv'
  BY <1>23 DEF Fork
<1>24. ASSUME NEW t \in Thread, PrepareGp(t) PROVE HeldInv'
  BY <1>24 DEF PrepareGp, Fenced
<1>25. ASSUME NEW t \in Thread, PrepareTd(t) PROVE HeldInv'
  BY <1>25 DEF PrepareTd
<1>26. ASSUME NEW t \in Thread, ForkParent(t) PROVE HeldInv'
  BY <1>26 DEF ForkParent
<1>27. ASSUME NEW t \in Thread, ForkChild(t) PROVE HeldInv'
  BY <1>27 DEF ForkChild
<1>28. ASSUME NEW t \in Thread, Spawn(t) PROVE HeldInv'
  BY <1>28 DEF Spawn
<1>29. ASSUME NEW o \in Object, Publish(o) PROVE HeldInv'
  BY <1>29 DEF Publish
<1>30. ASSUME NEW o \in Object, Remove(o) PROVE HeldInv'
  BY <1>30 DEF Remove
<1>31. CASE UNCHANGED vars
  BY <1>31 DEF vars
<1> QED
  BY <1>1, <1>2, <1>3, <1>4, <1>5, <1>6, <1>7, <1>8, <1>9, <1>10, <1>11,
     <1>12, <1>13, <1>14, <1>15, <1>16, <1>17, <1>18, <1>19, <1>20, <1>21,
     <1>22, <1>23, <1>24, <1>25, <1>26, <1>27, <1>28, <1>29, <1>30, <1>31
  DEF Next, ReaderStep, GraceStep, FlushStep, ForkStep

-----------------------------------------------------------------------------

(* The invariant holds at the start.                                       *)
LEMMA GraceInit == ~StoreBuffer /\ Init => GraceInv /\ OpInv
BY BoundAssumption, ThreadAssumption
DEF Init, GraceInv, TypeOK, MutexInv, ListInv, OwedInv, PhaseInv, PendInv,
    RefInv, OpInv, Readers, InCs, Range, Counter, Phase, Zero, Label, Waiting,
    Locked, Polling, Yielding, Forking

(* Every reachable state has well-typed variables.                         *)
THEOREM XrcuTypes == Spec => []TypeOK
<1>1. Init => TypeOK
  BY BoundAssumption DEF Init, TypeOK, Counter, Phase, Zero, Label
<1> QED
  BY <1>1, TypeStep, PTL DEF Spec

(* The inductive invariant, when a store is seen as soon as it is made.    *)
THEOREM XrcuInvariant == ASSUME ~StoreBuffer PROVE Spec => [](GraceInv /\ OpInv)
<1>1. Init => GraceInv /\ OpInv
  BY GraceInit
<1>2. GraceInv /\ OpInv /\ [Next]_vars => (GraceInv /\ OpInv)'
  BY TypeStep, MutexInvStep, ListInvStep, OwedInvStep, PhaseInvStep,
     PendInvStep, RefInvStep, OpStep
  DEF GraceInv
<1> QED
  BY <1>1, <1>2, PTL DEF Spec

(* No object is destroyed while a reader of any section still has a        *)
(* reference to it: the guarantee of enter_cs and finalize.                *)
THEOREM ReaderSafety == ASSUME ~StoreBuffer PROVE Spec => []NoUseAfterReclaim
<1>1. GraceInv /\ OpInv => NoUseAfterReclaim
  BY DEF GraceInv, RefInv, NoUseAfterReclaim
<1> QED
  BY <1>1, XrcuInvariant, PTL

(* Nobody is left on the lists of a stack frame that is gone, and whoever  *)
(* must be found by the next sync is registered.                           *)
THEOREM NobodyIsStranded == ASSUME ~StoreBuffer PROVE Spec => []NobodyStranded
<1>1. GraceInv /\ OpInv => NobodyStranded
  BY DEF GraceInv, ListInv, NobodyStranded, At
<1> QED
  BY <1>1, XrcuInvariant, PTL

(* A flush that had to be put off, inside a section or at the limit, is    *)
(* run when the thread leaves its section: outside, none is owed.          *)
THEOREM FlushesAreRun == Spec => []FlushNotForgotten
<1>1. Init => TypeOK /\ OpInv /\ FlushInv
  BY BoundAssumption
  DEF Init, TypeOK, Counter, Phase, Zero, Label, OpInv, FlushInv, Forking,
      Waiting, Locked, Polling, Yielding
<1>2. TypeOK /\ OpInv /\ FlushInv /\ [Next]_vars => (TypeOK /\ OpInv /\ FlushInv)'
  BY TypeStep, OpStep, FlushInvStep
<1>3. FlushInv => FlushNotForgotten
  BY DEF FlushInv, FlushNotForgotten
<1> QED
  BY <1>1, <1>2, <1>3, PTL DEF Spec

(* An object that was finalized is on one list, once, until it is          *)
(* destroyed: never leaked by a thread that exits, never destroyed twice.  *)
(* Without forks, after which the lists of the other threads are lost.     *)
THEOREM RetiredAreAccounted == ASSUME Forkers = {} PROVE Spec => []RetiredOnce
<1>1. Init => TypeOK /\ PendInv /\ HeldInv
  BY BoundAssumption
  DEF Init, TypeOK, Counter, Phase, Zero, Label, PendInv, HeldInv, Forking
<1>2. TypeOK /\ PendInv /\ HeldInv /\ [Next]_vars => (TypeOK /\ PendInv /\ HeldInv)'
  BY TypeStep, PendInvStep, HeldInvStep
<1>3. TypeOK /\ PendInv /\ HeldInv => RetiredOnce
  <2> SUFFICES ASSUME PendInv, HeldInv, NEW o \in Object
               PROVE  LET Places == UNION {{<<t, i>> : i \in {j \in DOMAIN fins[t] :
                                              fins[t][j] = o}} : t \in Thread}
                      IN  IF obj[o] = "retired"
                            THEN \E p \in Places : Places = {p}
                            ELSE Places = {}
    BY DEF RetiredOnce
  <2> DEFINE Places == UNION {{<<t, i>> : i \in {j \in DOMAIN fins[t] :
                                              fins[t][j] = o}} : t \in Thread}
  <2>1. ASSUME NEW p \in Places
        PROVE  \E t \in Thread : \E i \in DOMAIN fins[t] :
                 p = <<t, i>> /\ fins[t][i] = o
    OBVIOUS
  <2>2. \A p, q \in Places : p = q
    BY <2>1 DEF PendInv
  <2>3. \A p \in Places : obj[o] = "retired"
    BY <2>1 DEF PendInv
  <2>4. obj[o] = "retired" => Places # {}
    <3> SUFFICES ASSUME obj[o] = "retired" PROVE Places # {}
      OBVIOUS
    <3>1. PICK t \in Thread : o \in Range(fins[t])
      BY DEF HeldInv
    <3>2. PICK i \in DOMAIN fins[t] : fins[t][i] = o
      BY <3>1 DEF Range
    <3>3. <<t, i>> \in Places
      BY <3>2
    <3> QED
      BY <3>3
  <2> QED
    BY <2>2, <2>3, <2>4
<1> QED
  BY <1>1, <1>2, <1>3, PTL DEF Spec

-----------------------------------------------------------------------------
(* The refinement: what the abstract variables are, and how they move.     *)
Stages == [t \in Thread |-> Stage(t)]
Pends == [t \in Thread |-> Range(fins[t])]

(* The abstract variables, spelled out.                                    *)
LEMMA PromiseVars ==
  /\ Promise!vars = <<Readers, Stages, owed, Pends, obj, refs>>
  /\ Promise!vars' = <<Readers', Stages', owed', Pends', obj', refs'>>
BY DEF Promise!vars, Stages, Pends

(* A step that leaves sections, reasons and objects alone is a stutter.    *)
LEMMA Stutter ==
  ASSUME Readers' = Readers, UNCHANGED <<owed, fins, obj, refs>>,
         \A u \in Thread : Stage(u)' = Stage(u)
  PROVE  UNCHANGED Promise!vars
<1>1. Stages' = Stages /\ Pends' = Pends
  BY DEF Stages, Pends
<1> QED
  BY <1>1, PromiseVars

(* Only the thread that moves changes its stage.                           *)
LEMMA StageMove ==
  ASSUME NEW t \in Thread,
         \A u \in Thread \ {t} : pc'[u] = pc[u] /\ op'[u] = op[u]
  PROVE  Stages' = [Stages EXCEPT ![t] = Stage(t)']
<1>1. \A u \in Thread \ {t} : Stage(u)' = Stage(u)
  BY DEF Stage
<1> QED
  BY <1>1 DEF Stages

(* Only the list that changes changes the pending objects.                 *)
LEMMA PendMove ==
  ASSUME TypeOK, NEW t \in Thread, NEW s, fins' = [fins EXCEPT ![t] = s]
  PROVE  Pends' = [Pends EXCEPT ![t] = Range(s)]
<1>1. \A u \in Thread \ {t} : Range(fins[u])' = Range(fins[u])
  BY DEF TypeOK
<1>2. Range(fins[t])' = Range(s)
  BY DEF TypeOK
<1> QED
  BY <1>1, <1>2 DEF Pends

(* Appending an object adds it to those of the list.                       *)
LEMMA AppendPend ==
  ASSUME NEW S, NEW s \in Seq(S), NEW x \in S
  PROVE  Range(Append(s, x)) =
           Range(s) \cup {x}
<1>1. DOMAIN Append(s, x) = DOMAIN s \cup {Len(s) + 1}
  OBVIOUS
<1>2. /\ \A i \in DOMAIN s : Append(s, x)[i] = s[i]
      /\ Append(s, x)[Len(s) + 1] = x
  OBVIOUS
<1> QED
  BY <1>1, <1>2 DEF Range

(* The same, when the thread's place is all that changes.                  *)
LEMMA MoveStutter ==
  ASSUME TypeOK, NEW t \in Thread, NEW l \in Label,
         pc' = [pc EXCEPT ![t] = l], UNCHANGED <<ctr, op, owed, fins, obj, refs>>,
         pc[t] # "dead" /\ l # "dead",
         pc[t] \in Waiting <=> l \in Waiting,
         pc[t] = "destroy" <=> l = "destroy"
  PROVE  UNCHANGED Promise!vars
<1>1. Readers' = Readers
  BY DEF Readers, InCs, TypeOK
<1>2. \A u \in Thread : Stage(u)' = Stage(u)
  BY DEF Stage, TypeOK
<1> QED
  BY <1>1, <1>2, Stutter

(* Dropping the head of a list without repetitions drops one object.       *)
LEMMA TailPend ==
  ASSUME GraceInv, NEW t \in Thread, fins[t] # <<>>
  PROVE  Range(Tail(fins[t])) =
           Range(fins[t]) \ {Head(fins[t])}
<1>1. fins[t] \in Seq(Object)
  BY DEF GraceInv, TypeOK
<1>2. /\ 1 \in DOMAIN fins[t] /\ Head(fins[t]) = fins[t][1]
      /\ \A i \in DOMAIN Tail(fins[t]) :
           i + 1 \in DOMAIN fins[t] /\ i + 1 # 1
           /\ Tail(fins[t])[i] = fins[t][i + 1]
  BY <1>1, TailFacts
<1>3. \A i \in DOMAIN fins[t] :
        i # 1 => i - 1 \in DOMAIN Tail(fins[t]) /\ i = (i - 1) + 1
  BY <1>1
<1>4. \A i \in DOMAIN fins[t] : fins[t][i] = fins[t][1] => i = 1
  BY <1>2 DEF GraceInv, PendInv
<1>5. ASSUME NEW o \in Range(fins[t]), o # Head(fins[t])
      PROVE  o \in Range(Tail(fins[t]))
  <2>1. PICK i \in DOMAIN fins[t] : o = fins[t][i]
    BY DEF Range
  <2>2. i - 1 \in DOMAIN Tail(fins[t]) /\ i = (i - 1) + 1
    BY <1>2, <1>3, <1>5, <2>1
  <2> QED
    BY <1>2, <2>1, <2>2 DEF Range
<1>6. ASSUME NEW i \in DOMAIN Tail(fins[t])
      PROVE  Tail(fins[t])[i] \in Range(fins[t]) \ {Head(fins[t])}
  BY <1>2, <1>4 DEF Range
<1> QED
  BY <1>5, <1>6 DEF Range

(* Destroying an object is a step of the promise.                          *)
LEMMA NextReclaim ==
  ASSUME NEW t \in Thread, NEW o \in Object, Promise!Reclaim(t, o)
  PROVE  Promise!Next
BY DEF Promise!Next

(* Every step is a step of the promise, or nothing to it.                   *)
LEMMA RefineStep ==
  ASSUME ~StoreBuffer
  PROVE  GraceInv /\ OpInv /\ [Next]_vars => [Promise!Next]_(Promise!vars)
<1> SUFFICES ASSUME GraceInv, OpInv, [Next]_vars PROVE [Promise!Next]_(Promise!vars)
  OBVIOUS
<1> USE DEF GraceInv, TypeOK, MutexInv, OwedInv, RefInv, OpInv, Label,
          registry, readers, control, memory, client, Goto, At,
          Waiting, Locked, Polling, Yielding, Forking
<1>1. ASSUME NEW t \in Thread, AddTdata(t) PROVE [Promise!Next]_(Promise!vars)
  <2>1. UNCHANGED <<ctr, pc, op, owed, fins, obj, refs>>
    BY <1>1 DEF AddTdata
  <2> QED
    BY <2>1, Stutter DEF Readers, InCs, Stage
<1>2. ASSUME NEW t \in Thread, EnterLoad(t) PROVE [Promise!Next]_(Promise!vars)
  <2>1. /\ pc[t] = "idle" /\ pc' = [pc EXCEPT ![t] = "enter"]
        /\ UNCHANGED <<ctr, op, owed, fins, obj, refs>>
    BY <1>2 DEF EnterLoad
  <2> QED
    BY <2>1, MoveStutter
<1>3. ASSUME NEW t \in Thread, EnterStore(t)
      PROVE  [Promise!Next]_(Promise!vars)
  <2>1. Readers' = Readers \cup {t} /\ t \notin Readers
    BY <1>3 DEF EnterStore, Readers, InCs, Store
  <2>2. Stages' = Stages /\ Stages[t] = "none" /\ Pends' = Pends
    BY <1>3 DEF EnterStore, Stages, Stage, Pends
  <2>3. Promise!Enter(t)
    BY <1>3, <2>1, <2>2 DEF EnterStore, Promise!Enter, Stages, Pends
  <2> QED
    BY <2>3 DEF Promise!Next
<1>4. ASSUME NEW t \in Thread, EnterNested(t)
      PROVE  [Promise!Next]_(Promise!vars)
  <2>1. /\ \A u \in Thread : InCs(u)' <=> InCs(u)
        /\ UNCHANGED <<pc, op, owed, fins, obj, refs>>
    BY <1>4 DEF EnterNested, InCs, Store, Counter
  <2> QED
    BY <2>1, Stutter DEF Readers, Stage
<1>5. ASSUME NEW t \in Thread, ExitNested(t)
      PROVE  [Promise!Next]_(Promise!vars)
  <2>1. /\ \A u \in Thread : InCs(u)' <=> InCs(u)
        /\ UNCHANGED <<pc, op, owed, fins, obj, refs>>
    BY <1>5 DEF ExitNested, InCs, Store, Counter
  <2> QED
    BY <2>1, Stutter DEF Readers, Stage
<1>6. ASSUME NEW t \in Thread, ExitCs(t) PROVE [Promise!Next]_(Promise!vars)
  <2>1. PICK l \in {"idle", "flush"} : pc' = [pc EXCEPT ![t] = l]
    BY <1>6, ExitLabel
  <2>2. Readers' = Readers \ {t}
    BY <1>6, <2>1, LeaveFacts DEF ExitCs, Label
  <2>3. Stages' = Stages /\ Pends' = Pends /\ obj' = obj
    BY <1>6, <2>1 DEF ExitCs, Stages, Stage, Pends
  <2>4. t \in Readers
    BY <1>6 DEF ExitCs, Readers, InCs
  <2>5. Promise!Exit(t)
    BY <1>6, <2>2, <2>3, <2>4 DEF ExitCs, Leave, Promise!Exit, Stages, Pends
  <2> QED
    BY <2>5 DEF Promise!Next
<1>7. ASSUME NEW t \in Thread, Drain(t) PROVE [Promise!Next]_(Promise!vars)
  <2>1. UNCHANGED <<ctr, pc, op, owed, fins, obj, refs>>
    BY <1>7 DEF Drain
  <2> QED
    BY <2>1, Stutter DEF Readers, InCs, Stage
<1>8. ASSUME NEW t \in Thread, NEW x \in Object, Acquire(t, x)
      PROVE  [Promise!Next]_(Promise!vars)
  <2>1. UNCHANGED <<ctr, pc, op, owed, fins, obj>>
    BY <1>8 DEF Acquire
  <2>2. Readers' = Readers /\ Stages' = Stages /\ Pends' = Pends
    BY <2>1 DEF Readers, InCs, Stages, Stage, Pends
  <2>3. Promise!Acquire(t, x)
    BY <1>8, <2>1, <2>2
    DEF Acquire, Promise!Acquire, Stages, Pends, Readers, InCs
  <2> QED
    BY <2>3 DEF Promise!Next
<1>9. ASSUME NEW t \in Thread, LockGp(t) PROVE [Promise!Next]_(Promise!vars)
  <2>1. /\ pc[t] = "lock" /\ pc' = [pc EXCEPT ![t] = "start"]
        /\ UNCHANGED <<ctr, op, owed, fins, obj, refs>>
    BY <1>9 DEF LockGp
  <2> QED
    BY <2>1, MoveStutter
<1>10. ASSUME NEW t \in Thread, LockTd(t) PROVE [Promise!Next]_(Promise!vars)
  <2>1. CASE On("root") = {}
    <3>1. /\ owed[t] = {} /\ Stages[t] \in {"sync", "flush"}
          /\ Stages' = [Stages EXCEPT ![t] =
                          IF @ = "sync" THEN "none" ELSE "reclaim"]
      <4>1. owed[t] = {}
        BY <1>10, <2>1, NothingOwed DEF LockTd
      <4>2. /\ pc[t] \in Waiting /\ op'[t] = op[t]
            /\ pc'[t] = IF op[t] = "sync" THEN "idle" ELSE "destroy"
            /\ \A u \in Thread \ {t} : pc'[u] = pc[u] /\ op'[u] = op[u]
        BY <1>10, <2>1 DEF LockTd, EndSync
      <4>3. /\ Stage(t) = IF op[t] = "sync" THEN "sync" ELSE "flush"
            /\ Stage(t)' = IF op[t] = "sync" THEN "none" ELSE "reclaim"
        BY <4>2 DEF Stage
      <4>4. Stages[t] = Stage(t) /\ Stages' = [Stages EXCEPT ![t] = Stage(t)']
        BY <4>2, StageMove DEF Stages
      <4> QED
        BY <4>1, <4>3, <4>4
    <3>2. Readers' = Readers /\ Pends' = Pends /\ UNCHANGED <<owed, obj, refs>>
      BY <1>10, <2>1 DEF LockTd, EndSync, Readers, InCs, Pends
    <3>3. Promise!End(t)
      BY <3>1, <3>2 DEF Promise!End, Stages, Pends
    <3> QED
      BY <3>3 DEF Promise!Next
  <2>2. CASE On("root") # {}
    <3>1. /\ pc' = [pc EXCEPT ![t] = "poll1"]
          /\ UNCHANGED <<ctr, op, owed, fins, obj, refs>>
      BY <1>10, <2>2 DEF LockTd
    <3> QED
      BY <1>10, <3>1, MoveStutter DEF LockTd
  <2> QED
    BY <2>1, <2>2
<1>11. ASSUME NEW t \in Thread, NEW x \in Thread, Visit(t, x)
       PROVE  [Promise!Next]_(Promise!vars)
  <2>1. UNCHANGED <<ctr, pc, op, owed, fins, obj, refs>>
    BY <1>11 DEF Visit
  <2> QED
    BY <2>1, Stutter DEF Readers, InCs, Stage
<1>12. ASSUME NEW t \in Thread, Flip(t) PROVE [Promise!Next]_(Promise!vars)
  <2>1. /\ pc[t] = "poll1" /\ pc' = [pc EXCEPT ![t] = "poll2"]
        /\ UNCHANGED <<ctr, op, owed, fins, obj, refs>>
    BY <1>12 DEF Flip
  <2> QED
    BY <2>1, MoveStutter
<1>13. ASSUME NEW t \in Thread, Splice(t) PROVE [Promise!Next]_(Promise!vars)
  <2>1. pc[t] = "poll2" /\ On("out") = {}
    BY <1>13 DEF Splice
  <2>2. Promise!Next
    <3>1. /\ owed[t] = {} /\ Stages[t] \in {"sync", "flush"}
          /\ Stages' = [Stages EXCEPT ![t] =
                          IF @ = "sync" THEN "none" ELSE "reclaim"]
      <4>1. owed[t] = {}
        BY <1>13, <2>1, NothingOwed DEF Splice
      <4>2. /\ pc[t] \in Waiting /\ op'[t] = op[t]
            /\ pc'[t] = IF op[t] = "sync" THEN "idle" ELSE "destroy"
            /\ \A u \in Thread \ {t} : pc'[u] = pc[u] /\ op'[u] = op[u]
        BY <1>13, <2>1 DEF Splice, EndSync
      <4>3. /\ Stage(t) = IF op[t] = "sync" THEN "sync" ELSE "flush"
            /\ Stage(t)' = IF op[t] = "sync" THEN "none" ELSE "reclaim"
        BY <4>2 DEF Stage
      <4>4. Stages[t] = Stage(t) /\ Stages' = [Stages EXCEPT ![t] = Stage(t)']
        BY <4>2, StageMove DEF Stages
      <4> QED
        BY <4>1, <4>3, <4>4
    <3>2. Readers' = Readers /\ Pends' = Pends /\ UNCHANGED <<owed, obj, refs>>
      BY <1>13, <2>1 DEF Splice, EndSync, Readers, InCs, Pends
    <3>3. Promise!End(t)
      BY <3>1, <3>2 DEF Promise!End, Stages, Pends
    <3> QED
      BY <3>3 DEF Promise!Next
  <2> QED
    BY <2>2
<1>14. ASSUME NEW t \in Thread, Yield(t) PROVE [Promise!Next]_(Promise!vars)
  <2>1. PICK l \in Yielding : pc' = [pc EXCEPT ![t] = l]
    BY <1>14 DEF Yield
  <2>2. UNCHANGED <<ctr, op, owed, fins, obj, refs>>
    BY <1>14 DEF Yield
  <2> QED
    BY <1>14, <2>1, <2>2, MoveStutter DEF Yield
<1>15. ASSUME NEW t \in Thread, Relock(t) PROVE [Promise!Next]_(Promise!vars)
  <2>1. PICK l \in Polling : pc' = [pc EXCEPT ![t] = l]
    BY <1>15 DEF Relock
  <2>2. UNCHANGED <<ctr, op, owed, fins, obj, refs>>
    BY <1>15 DEF Relock
  <2> QED
    BY <1>15, <2>1, <2>2, MoveStutter DEF Relock
<1>16. ASSUME NEW t \in Thread, Sync(t) PROVE [Promise!Next]_(Promise!vars)
  <2>1. ~InCs(t)
    BY <1>16 DEF Sync
  <2>2. Promise!Next
    <3>1. /\ t \notin Readers /\ Stages[t] = "none"
          /\ Readers' = Readers /\ Pends' = Pends
      BY <1>16, <2>1 DEF Sync, BeginSync, Stages, Stage, Readers, InCs, Pends
    <3>2. /\ pc'[t] = "lock" /\ op'[t] = op[t]
          /\ op[t] # "sync" <=> "sync" = "flush"
          /\ \A u \in Thread \ {t} : pc'[u] = pc[u] /\ op'[u] = op[u]
      BY <1>16, <2>1 DEF Sync, BeginSync
    <3>3. Stages' = [Stages EXCEPT ![t] = "sync"]
      <4>1. Stage(t)' = "sync"
        BY <3>2 DEF Stage
      <4> QED
        BY <3>2, <4>1, StageMove
    <3>4. Promise!Begin(t, "sync")
      BY <1>16, <2>1, <3>1, <3>3
      DEF Sync, BeginSync, Promise!Begin, Stages, Pends
    <3> QED
      BY <3>4 DEF Promise!Next
  <2> QED
    BY <2>2
<1>17. ASSUME NEW t \in Thread, FlushFinalizers(t)
       PROVE  [Promise!Next]_(Promise!vars)
  <2>1. /\ \A u \in Thread : pc'[u] # "dead" <=> pc[u] # "dead"
        /\ \A u \in Thread : Stage(u)' = Stage(u)
        /\ UNCHANGED <<ctr, owed, fins, obj, refs>>
    BY <1>17 DEF FlushFinalizers, Stage
  <2>2. Readers' = Readers
    BY <2>1 DEF Readers, InCs
  <2> QED
    BY <2>1, <2>2, Stutter
<1>18. ASSUME NEW t \in Thread, FlushAll(t) PROVE [Promise!Next]_(Promise!vars)
  <2>1. CASE ~InCs(t)
    <3>1. /\ t \notin Readers /\ Stages[t] = "none"
          /\ Readers' = Readers /\ Pends' = Pends
      BY <1>18, <2>1
      DEF FlushAll, BeginSync, Stages, Stage, Readers, InCs, Pends
    <3>2. /\ pc'[t] = "lock" /\ op'[t] = op[t]
          /\ op[t] # "sync" <=> "flush" = "flush"
          /\ \A u \in Thread \ {t} : pc'[u] = pc[u] /\ op'[u] = op[u]
      BY <1>18, <2>1 DEF FlushAll, BeginSync
    <3>3. Stages' = [Stages EXCEPT ![t] = "flush"]
      <4>1. Stage(t)' = "flush"
        BY <3>2 DEF Stage
      <4> QED
        BY <3>2, <4>1, StageMove
    <3>4. Promise!Begin(t, "flush")
      BY <1>18, <2>1, <3>1, <3>3
      DEF FlushAll, BeginSync, Promise!Begin, Stages, Pends
    <3> QED
      BY <3>4 DEF Promise!Next
  <2>2. CASE InCs(t)
    <3>1. /\ \A u \in Thread : pc'[u] # "dead" <=> pc[u] # "dead"
          /\ \A u \in Thread : Stage(u)' = Stage(u)
          /\ UNCHANGED <<ctr, owed, fins, obj, refs>>
      BY <1>18, <2>2 DEF FlushAll, Stage
    <3>2. Readers' = Readers
      BY <3>1 DEF Readers, InCs
    <3> QED
      BY <3>1, <3>2, Stutter
  <2> QED
    BY <2>1, <2>2
<1>19. ASSUME NEW t \in Thread, Destroy(t) PROVE [Promise!Next]_(Promise!vars)
  <2>1. CASE fins[t] # <<>>
    <3>0. PICK o : o = Head(fins[t])
      OBVIOUS
    <3>1. /\ obj' = [obj EXCEPT ![o] = "free"]
          /\ fins' = [fins EXCEPT ![t] = Tail(@)]
          /\ UNCHANGED <<refs, owed, pc, op, ctr>> /\ pc[t] = "destroy"
      BY <1>19, <2>1, <3>0 DEF Destroy
    <3>2. Readers' = Readers /\ Stages' = Stages /\ Stages[t] = "reclaim"
      BY <3>1 DEF Readers, InCs, Stages, Stage
    <3>3. o \in Object /\ o \in Pends[t]
      BY <2>1, <3>0, TailFacts DEF Pends, Range
    <3>4. PICK s : s = Tail(fins[t])
      OBVIOUS
    <3>5. Pends' = [Pends EXCEPT ![t] = @ \ {o}]
      <4>1. Range(s) = Range(fins[t]) \ {o}
        BY <2>1, <3>0, <3>4, TailPend
      <4>2. fins' = [fins EXCEPT ![t] = s]
        BY <3>1, <3>4
      <4>3. Pends' = [Pends EXCEPT ![t] = Range(s)]
        BY <4>2, PendMove
      <4> QED
        BY <4>1, <4>3 DEF Pends
    <3>6. Promise!Reclaim(t, o)
      BY <3>1, <3>2, <3>3, <3>5 DEF Promise!Reclaim, Stages, Pends
    <3> QED
      BY <3>3, <3>6, NextReclaim
  <2>2. CASE fins[t] = <<>>
    <3>1. /\ pc[t] = "destroy" /\ pc'[t] \in {"gone", "idle"}
          /\ \A u \in Thread \ {t} : pc'[u] = pc[u] /\ op'[u] = op[u]
          /\ UNCHANGED <<ctr, owed, fins, obj, refs>>
      BY <1>19, <2>2 DEF Destroy
    <3>2. Readers' = Readers /\ Pends' = Pends /\ Pends[t] = {}
      BY <2>2, <3>1 DEF Readers, InCs, Pends, Range
    <3>3. Stages[t] = "reclaim" /\ Stages' = [Stages EXCEPT ![t] = "none"]
      <4>1. Stage(t) = "reclaim" /\ Stage(t)' = "none"
        BY <3>1 DEF Stage
      <4>2. Stages[t] = Stage(t) /\ Stages' = [Stages EXCEPT ![t] = Stage(t)']
        BY <3>1, StageMove DEF Stages
      <4> QED
        BY <4>1, <4>2
    <3>4. Promise!Finish(t)
      BY <3>1, <3>2, <3>3 DEF Promise!Finish, Stages, Pends
    <3> QED
      BY <3>4 DEF Promise!Next
  <2> QED
    BY <2>1, <2>2
<1>20. ASSUME NEW t \in Thread, EndThread(t)
       PROVE  [Promise!Next]_(Promise!vars)
  <2>1. PICK l \in {"flush", "gone"} : pc' = [pc EXCEPT ![t] = l]
    BY <1>20, EndLabel
  <2>2. Readers' = Readers \ {t}
    BY <1>20, <2>1, LeaveFacts DEF EndThread, Label
  <2>3. Stages' = Stages /\ Pends' = Pends /\ obj' = obj
    BY <1>20, <2>1 DEF EndThread, Stages, Stage, Pends
  <2>4. CASE t \in Readers
    <3>1. Promise!Exit(t)
      BY <1>20, <2>2, <2>3, <2>4
      DEF EndThread, Leave, Promise!Exit, Stages, Pends
    <3> QED
      BY <3>1 DEF Promise!Next
  <2>5. CASE t \notin Readers
    <3>1. refs[t] = {} /\ \A u \in Thread : t \notin owed[u]
      BY <2>5
    <3>2. refs' = refs /\ owed' = owed
      BY <1>20, <3>1 DEF EndThread, Leave
    <3> QED
      BY <2>2, <2>3, <2>5, <3>2, PromiseVars
  <2> QED
    BY <2>4, <2>5
<1>21. ASSUME NEW t \in Thread, Unlink(t) PROVE [Promise!Next]_(Promise!vars)
  <2>1. /\ pc[t] = "gone" /\ pc' = [pc EXCEPT ![t] = "idle"]
        /\ UNCHANGED <<ctr, op, owed, fins, obj, refs>>
    BY <1>21 DEF Unlink
  <2> QED
    BY <2>1, MoveStutter
<1>22. ASSUME NEW t \in Thread, NEW x \in Object, Finalize(t, x)
       PROVE  [Promise!Next]_(Promise!vars)
  <2>1. /\ \A u \in Thread : pc'[u] # "dead" <=> pc[u] # "dead"
        /\ \A u \in Thread : Stage(u)' = Stage(u)
        /\ Stage(t) = "none"
        /\ obj[x] = "unlinked" /\ obj' = [obj EXCEPT ![x] = "retired"]
        /\ fins' = [fins EXCEPT ![t] = Append(@, x)]
        /\ UNCHANGED <<ctr, owed, refs>>
    BY <1>22 DEF Finalize, Stage
  <2>2. Readers' = Readers
    BY <2>1 DEF Readers, InCs
  <2>3. PICK s : s = Append(fins[t], x)
    OBVIOUS
  <2>4. Stages' = Stages /\ Pends' = [Pends EXCEPT ![t] = @ \cup {x}]
    <3>1. Range(s) = Range(fins[t]) \cup {x}
      <4>1. fins[t] \in Seq(Object)
        OBVIOUS
      <4> QED
        BY <2>3, <4>1, AppendPend
    <3>2. fins' = [fins EXCEPT ![t] = s]
      BY <2>1, <2>3
    <3>3. Pends' = [Pends EXCEPT ![t] = Range(s)]
      BY <3>2, PendMove
    <3> QED
      BY <2>1, <3>1, <3>3 DEF Stages, Pends
  <2>5. Promise!Retire(t, x)
    BY <2>1, <2>2, <2>4 DEF Promise!Retire, Stages, Pends
  <2> QED
    BY <2>5 DEF Promise!Next
<1>23. ASSUME NEW t \in Thread, Fork(t) PROVE [Promise!Next]_(Promise!vars)
  <2>1. /\ pc[t] = "idle" /\ pc' = [pc EXCEPT ![t] = "fork1"]
        /\ UNCHANGED <<ctr, op, owed, fins, obj, refs>>
    BY <1>23 DEF Fork
  <2> QED
    BY <2>1, MoveStutter
<1>24. ASSUME NEW t \in Thread, PrepareGp(t)
       PROVE  [Promise!Next]_(Promise!vars)
  <2>1. /\ pc[t] = "fork1" /\ pc' = [pc EXCEPT ![t] = "fork2"]
        /\ UNCHANGED <<ctr, op, owed, fins, obj, refs>>
    BY <1>24 DEF PrepareGp
  <2> QED
    BY <2>1, MoveStutter
<1>25. ASSUME NEW t \in Thread, PrepareTd(t)
       PROVE  [Promise!Next]_(Promise!vars)
  <2>1. /\ pc[t] = "fork2" /\ pc' = [pc EXCEPT ![t] = "fork3"]
        /\ UNCHANGED <<ctr, op, owed, fins, obj, refs>>
    BY <1>25 DEF PrepareTd
  <2> QED
    BY <2>1, MoveStutter
<1>26. ASSUME NEW t \in Thread, ForkParent(t)
       PROVE  [Promise!Next]_(Promise!vars)
  <2>1. /\ pc[t] = "fork3" /\ pc' = [pc EXCEPT ![t] = "idle"]
        /\ UNCHANGED <<ctr, op, owed, fins, obj, refs>>
    BY <1>26 DEF ForkParent
  <2> QED
    BY <2>1, MoveStutter
<1>27. ASSUME NEW t \in Thread, ForkChild(t)
       PROVE  [Promise!Next]_(Promise!vars)
  <2>1. /\ \A u \in Thread \ {t} : pc'[u] = "dead"
        /\ pc[t] = "fork3" /\ pc'[t] = "idle"
        /\ UNCHANGED <<ctr, obj>>
    BY <1>27 DEF ForkChild
  <2>2. Readers' = Readers \cap {t}
    BY <2>1 DEF Readers, InCs
  <2>3. Stages[t] = "none" /\ Stages' = [u \in Thread |-> "none"]
    BY ZenonT(60), <2>1 DEF Stages, Stage
  <2>4. Pends' = [u \in Thread |-> IF u = t THEN Pends[t] ELSE {}]
    BY <1>27 DEF ForkChild, Pends, Range
  <2>5. Promise!Fork(t)
    BY <1>27, <2>1, <2>2, <2>3, <2>4
    DEF ForkChild, Promise!Fork, Stages, Pends
  <2> QED
    BY <2>5 DEF Promise!Next
<1>28. ASSUME NEW t \in Thread, Spawn(t) PROVE [Promise!Next]_(Promise!vars)
  <2>1. /\ pc' = [pc EXCEPT ![t] = "idle"] /\ pc[t] = "dead"
        /\ ctr' = [ctr EXCEPT ![t] = Zero]
        /\ UNCHANGED <<op, owed, fins, obj, refs>>
    BY <1>28 DEF Spawn
  <2>2. Readers' = Readers
    BY <2>1 DEF Readers, InCs, Zero
  <2>3. \A u \in Thread : Stage(u)' = Stage(u)
    BY <2>1 DEF Stage
  <2> QED
    BY <2>1, <2>2, <2>3, Stutter
<1>29. ASSUME NEW o \in Object, Publish(o) PROVE [Promise!Next]_(Promise!vars)
  <2>1. UNCHANGED <<ctr, pc, op, owed, fins, refs>>
    BY <1>29 DEF Publish
  <2>2. Readers' = Readers /\ Stages' = Stages /\ Pends' = Pends
    BY <2>1 DEF Readers, InCs, Stages, Stage, Pends
  <2>3. Promise!Publish(o)
    BY <1>29, <2>1, <2>2 DEF Publish, Promise!Publish, Stages, Pends
  <2> QED
    BY <2>3 DEF Promise!Next
<1>30. ASSUME NEW o \in Object, Remove(o) PROVE [Promise!Next]_(Promise!vars)
  <2>1. UNCHANGED <<ctr, pc, op, owed, fins, refs>>
    BY <1>30 DEF Remove
  <2>2. Readers' = Readers /\ Stages' = Stages /\ Pends' = Pends
    BY <2>1 DEF Readers, InCs, Stages, Stage, Pends
  <2>3. Promise!Remove(o)
    BY <1>30, <2>1, <2>2 DEF Remove, Promise!Remove, Stages, Pends
  <2> QED
    BY <2>3 DEF Promise!Next
<1>31. CASE UNCHANGED vars
  <2>1. UNCHANGED <<ctr, pc, op, owed, fins, obj, refs>>
    BY <1>31 DEF vars
  <2> QED
    BY <2>1, Stutter DEF Readers, InCs, Stage
<1> QED
  BY <1>1, <1>2, <1>3, <1>4, <1>5, <1>6, <1>7, <1>8, <1>9, <1>10, <1>11,
     <1>12, <1>13, <1>14, <1>15, <1>16, <1>17, <1>18, <1>19, <1>20, <1>21,
     <1>22, <1>23, <1>24, <1>25, <1>26, <1>27, <1>28, <1>29, <1>30, <1>31
  DEF Next, ReaderStep, GraceStep, FlushStep, ForkStep

(* The runtime keeps the promise: sync waits for every section that was    *)
(* open when it began, and only what was retired before is destroyed.      *)
THEOREM XrcuKeepsPromise == ASSUME ~StoreBuffer PROVE Spec => ImplementsGracePeriod
<1>1. Init => Promise!Init
  BY BoundAssumption
  DEF Init, Promise!Init, Readers, InCs, Stage, Zero, Waiting, Locked, Polling,
      Yielding, Range
<1>2. GraceInv /\ OpInv /\ [Next]_vars => [Promise!Next]_(Promise!vars)
  BY RefineStep
<1> QED
  BY <1>1, <1>2, XrcuInvariant, PTL
  DEF Spec, ImplementsGracePeriod, Promise!Spec
=============================================================================
