--------------------------- MODULE HashTableShape ---------------------------
(* Proofs about the hash table, for any number of threads, keys, slots and *)
(* vectors: what a step leaves as it is, and that the steps preserve the   *)
(* structure of the invariant: types, calls, the lock, the vectors, the    *)
(* slots and the bits in them. Last, how many slots a step takes and frees.*)
EXTENDS HashTableSteps

-----------------------------------------------------------------------------
(* The vector in use, the limit and the lock.                              *)

Holding(t) == th[t].pc \in Copying \cup Clearing \cup {"mark"}

(* What ProbeFree leaves as it is.                                         *)
LEMMA ProbeFreeFrame ==
  ASSUME NEW t \in Thread, ProbeFree(t)
  PROVE  vec' = vec /\ limit' = limit /\ lock' = lock
BY DEF ProbeFree

(* What ProbeMatch leaves as it is.                                        *)
LEMMA ProbeMatchFrame ==
  ASSUME NEW t \in Thread, ProbeMatch(t)
  PROVE  vec' = vec /\ limit' = limit /\ lock' = lock
BY DEF ProbeMatch

(* What ProbeNext leaves as it is.                                         *)
LEMMA ProbeNextFrame ==
  ASSUME NEW t \in Thread, ProbeNext(t)
  PROVE  vec' = vec /\ limit' = limit /\ lock' = lock
BY DEF ProbeNext

(* What FindValue leaves as it is.                                         *)
LEMMA FindValueFrame ==
  ASSUME NEW t \in Thread, FindValue(t)
  PROVE  vec' = vec /\ limit' = limit /\ lock' = lock
BY DEF FindValue

(* What Answer leaves as it is.                                            *)
LEMMA AnswerFrame ==
  ASSUME NEW t \in Thread, Answer(t)
  PROVE  vec' = vec /\ limit' = limit /\ lock' = lock
BY DEF Answer

(* What PutValue leaves as it is.                                          *)
LEMMA PutValueFrame ==
  ASSUME NEW t \in Thread, PutValue(t)
  PROVE  vec' = vec /\ limit' = limit /\ lock' = lock
BY DEF PutValue

(* What UpdateInPlace leaves as it is.                                     *)
LEMMA UpdateInPlaceFrame ==
  ASSUME NEW t \in Thread, UpdateInPlace(t)
  PROVE  vec' = vec /\ limit' = limit /\ lock' = lock
BY DEF UpdateInPlace

(* What SwapValue leaves as it is.                                         *)
LEMMA SwapValueFrame ==
  ASSUME NEW t \in Thread, SwapValue(t)
  PROVE  vec' = vec /\ limit' = limit /\ lock' = lock
BY DEF SwapValue

(* What DecrLimit leaves as it is.                                         *)
LEMMA DecrLimitFrame ==
  ASSUME NEW t \in Thread, DecrLimit(t)
  PROVE  vec' = vec /\ limit' = limit - 1 /\ lock' = lock
BY DEF DecrLimit

(* What PutWait leaves as it is.                                           *)
LEMMA PutWaitFrame ==
  ASSUME NEW t \in Thread, PutWait(t)
  PROVE  vec' = vec /\ limit' = limit /\ lock' = lock
BY DEF PutWait

(* What FillSlot leaves as it is.                                          *)
LEMMA FillSlotFrame ==
  ASSUME NEW t \in Thread, FillSlot(t)
  PROVE  vec' = vec /\ limit' = limit /\ lock' = lock
BY DEF FillSlot

(* What StoreFails leaves as it is.                                        *)
LEMMA StoreFailsFrame ==
  ASSUME NEW t \in Thread, StoreFails(t)
  PROVE  vec' = vec /\ limit' = limit /\ lock' = lock
BY DEF StoreFails

(* What CountUp leaves as it is.                                           *)
LEMMA CountUpFrame ==
  ASSUME NEW t \in Thread, CountUp(t)
  PROVE  vec' = vec /\ limit' = limit /\ lock' = lock
BY DEF CountUp

(* What OldKey leaves as it is.                                            *)
LEMMA OldKeyFrame ==
  ASSUME NEW t \in Thread, OldKey(t)
  PROVE  vec' = vec /\ limit' = limit /\ lock' = lock
BY DEF OldKey

(* What OldValue leaves as it is.                                          *)
LEMMA OldValueFrame ==
  ASSUME NEW t \in Thread, OldValue(t)
  PROVE  vec' = vec /\ limit' = limit /\ lock' = lock
BY DEF OldValue

(* What TakeValue leaves as it is.                                         *)
LEMMA TakeValueFrame ==
  ASSUME NEW t \in Thread, TakeValue(t)
  PROVE  vec' = vec /\ limit' = limit /\ lock' = lock
BY DEF TakeValue

(* What TakeFails leaves as it is.                                         *)
LEMMA TakeFailsFrame ==
  ASSUME NEW t \in Thread, TakeFails(t)
  PROVE  vec' = vec /\ limit' = limit /\ lock' = lock
BY DEF TakeFails

(* What CountDown leaves as it is.                                         *)
LEMMA CountDownFrame ==
  ASSUME NEW t \in Thread, CountDown(t)
  PROVE  vec' = vec /\ limit' = limit /\ lock' = lock
BY DEF CountDown

(* What Bury leaves as it is.                                              *)
LEMMA BuryFrame ==
  ASSUME NEW t \in Thread, Bury(t)
  PROVE  vec' = vec /\ limit' = limit /\ lock' = lock
BY DEF Bury

(* What NoRehash leaves as it is.                                          *)
LEMMA NoRehashFrame ==
  ASSUME NEW t \in Thread, NoRehash(t)
  PROVE  vec' = vec /\ limit' = limit /\ lock' = lock
BY DEF NoRehash

(* What RehashStart leaves as it is.                                       *)
LEMMA RehashStartFrame ==
  ASSUME NEW t \in Thread, RehashStart(t)
  PROVE  vec' = vec /\ limit' = limit /\ lock' = t
BY DEF RehashStart

(* What OutOfMemory leaves as it is.                                       *)
LEMMA OutOfMemoryFrame ==
  ASSUME NEW t \in Thread, OutOfMemory(t)
  PROVE  vec' = vec /\ limit' \in {limit, limit - 1} /\ lock' = lock
BY DEF OutOfMemory

(* What CopyKey leaves as it is.                                           *)
LEMMA CopyKeyFrame ==
  ASSUME NEW t \in Thread, CopyKey(t)
  PROVE  vec' = vec /\ limit' = limit /\ lock' = lock
BY DEF CopyKey

(* What CopyValue leaves as it is.                                         *)
LEMMA CopyValueFrame ==
  ASSUME NEW t \in Thread, CopyValue(t)
  PROVE  vec' = vec /\ limit' = limit /\ lock' = lock
BY DEF CopyValue

(* What SetLimit leaves as it is.                                          *)
LEMMA SetLimitFrame ==
  ASSUME NEW t \in Thread, SetLimit(t)
  PROVE  vec' = vec /\ lock' = lock /\ limit' = Fsize(Size(th[t].np)) - Cardinality(LiveSlots(th[t].np))
BY DEF SetLimit

(* What Install leaves as it is.                                           *)
LEMMA InstallFrame ==
  ASSUME NEW t \in Thread, Install(t)
  PROVE  vec' = th[t].np /\ limit' = limit /\ lock' = Null
BY DEF Install

(* What AssignAcquire leaves as it is.                                     *)
LEMMA AssignAcquireFrame ==
  ASSUME NEW t \in Thread, AssignAcquire(t)
  PROVE  vec' = vec /\ limit' = limit /\ lock' = t
BY DEF AssignAcquire

(* What Mark leaves as it is.                                              *)
LEMMA MarkFrame ==
  ASSUME NEW t \in Thread, Mark(t)
  PROVE  vec' = vec /\ limit' = limit /\ lock' = lock
BY DEF Mark

(* What AssignLimit leaves as it is.                                       *)
LEMMA AssignLimitFrame ==
  ASSUME NEW t \in Thread, AssignLimit(t)
  PROVE  vec' = vec /\ lock' = lock /\ limit' = Fsize(Size(th[t].np)) - tab[th[t].np].n
BY DEF AssignLimit

(* What AssignInstall leaves as it is.                                     *)
LEMMA AssignInstallFrame ==
  ASSUME NEW t \in Thread, AssignInstall(t)
  PROVE  vec' = th[t].np /\ limit' = limit /\ lock' = Null
BY DEF AssignInstall

(* What ClearAcquire leaves as it is.                                      *)
LEMMA ClearAcquireFrame ==
  ASSUME NEW t \in Thread, ClearAcquire(t)
  PROVE  vec' = vec /\ limit' = 0 /\ lock' = t
BY DEF ClearAcquire

(* What ClearReadKey leaves as it is.                                      *)
LEMMA ClearReadKeyFrame ==
  ASSUME NEW t \in Thread, ClearReadKey(t)
  PROVE  vec' = vec /\ limit' = limit /\ lock' = lock
BY DEF ClearReadKey

(* What ClearFreeKey leaves as it is.                                      *)
LEMMA ClearFreeKeyFrame ==
  ASSUME NEW t \in Thread, ClearFreeKey(t)
  PROVE  vec' = vec /\ limit' = limit /\ lock' = lock
BY DEF ClearFreeKey

(* What ClearFreeValue leaves as it is.                                    *)
LEMMA ClearFreeValueFrame ==
  ASSUME NEW t \in Thread, ClearFreeValue(t)
  PROVE  vec' = vec /\ limit' = limit /\ lock' = lock
BY DEF ClearFreeValue

(* What ClearSetLimit leaves as it is.                                     *)
LEMMA ClearSetLimitFrame ==
  ASSUME NEW t \in Thread, ClearSetLimit(t)
  PROVE  vec' = vec /\ lock' = lock /\ limit' = Fsize(tab[vec].n)
BY DEF ClearSetLimit

(* What ClearDone leaves as it is.                                         *)
LEMMA ClearDoneFrame ==
  ASSUME NEW t \in Thread, ClearDone(t)
  PROVE  vec' = vec /\ limit' = limit /\ lock' = Null
BY DEF ClearDone

(* What WalkKey leaves as it is.                                           *)
LEMMA WalkKeyFrame ==
  ASSUME NEW t \in Thread, WalkKey(t)
  PROVE  vec' = vec /\ limit' = limit /\ lock' = lock
BY DEF WalkKey

(* What WalkValue leaves as it is.                                         *)
LEMMA WalkValueFrame ==
  ASSUME NEW t \in Thread, WalkValue(t)
  PROVE  vec' = vec /\ limit' = limit /\ lock' = lock
BY DEF WalkValue

(* What WalkEnd leaves as it is.                                           *)
LEMMA WalkEndFrame ==
  ASSUME NEW t \in Thread, WalkEnd(t)
  PROVE  vec' = vec /\ limit' = limit /\ lock' = lock
BY DEF WalkEnd

(* What ClearStart leaves as it is.                                        *)
LEMMA ClearStartFrame ==
  ASSUME NEW t \in Thread, ClearStart(t)
  PROVE  vec' = vec /\ limit' = limit /\ lock' = lock
BY DEF ClearStart, Call

(* What WalkStart leaves as it is.                                         *)
LEMMA WalkStartFrame ==
  ASSUME NEW t \in Thread, WalkStart(t)
  PROVE  vec' = vec /\ limit' = limit /\ lock' = lock
BY DEF WalkStart, Call

(* What LookupStart leaves as it is.                                       *)
LEMMA LookupStartFrame ==
  ASSUME NEW t \in Thread, NEW k \in Key, LookupStart(t, k)
  PROVE  vec' = vec /\ limit' = limit /\ lock' = lock
BY DEF LookupStart, Call

(* What InsertStart leaves as it is.                                       *)
LEMMA InsertStartFrame ==
  ASSUME NEW t \in Thread, NEW k \in Key, InsertStart(t, k)
  PROVE  vec' = vec /\ limit' = limit /\ lock' = lock
BY DEF InsertStart, Call

(* What AssignStart leaves as it is.                                       *)
LEMMA AssignStartFrame ==
  ASSUME NEW t \in Thread, NEW k \in Key, AssignStart(t, k)
  PROVE  vec' = vec /\ limit' = limit /\ lock' = lock
BY DEF AssignStart, Call

(* The lock is taken, held or released.                                    *)
LEMMA LockMoves ==
  ASSUME Shape, NEW t \in Thread, Moves(t)
  PROVE  \/ /\ lock' = lock /\ vec' = vec /\ (Holding(t)' <=> Holding(t))
            /\ Holding(t) => th'[t].vec = th[t].vec
         \/ lock = Null /\ lock' = t /\ vec' = vec /\ Holding(t)' /\ th'[t].vec = vec
         \/ Holding(t) /\ lock' = Null /\ ~Holding(t)'
<1>c. CallOK(t) /\ th[t] \in Local
  BY DEF Shape, CallsOK, Types
<1>1. CASE ProbeFree(t)
  <2>1. /\ At(t, "probe") /\ Here(t).key = FREE
        /\ th'[t] = [th[t] EXCEPT !.pc = IF Puts(t) THEN "limit" ELSE "answer"]
    BY <1>1, ProbeFreeDoes
  <2>2. vec' = vec /\ limit' = limit /\ lock' = lock
    BY <1>1, ProbeFreeFrame
  <2> QED
    BY <2>1, <2>2, <1>c DEF Holding, Copying, Clearing, At, Local
<1>2. CASE ProbeMatch(t)
  <2>1. /\ At(t, "probe") /\ Here(t).key \notin Word /\ Here(t).key[1] = th[t].key
        /\ th'[t] = [th[t] EXCEPT !.pc = "value"]
    BY <1>2, ProbeMatchDoes
  <2>2. vec' = vec /\ limit' = limit /\ lock' = lock
    BY <1>2, ProbeMatchFrame
  <2> QED
    BY <2>1, <2>2, <1>c DEF Holding, Copying, Clearing, At, Local
<1>3. CASE ProbeNext(t)
  <2>1. /\ At(t, "probe") /\ Passed(t, th[t].ix)
        /\ \/ /\ th[t].ix + 1 < Size(th[t].vec)
             /\ th'[t] = [th[t] EXCEPT !.ix = th[t].ix + 1]
           \/ /\ ~(th[t].ix + 1 < Size(th[t].vec)) /\ Puts(t)
             /\ th'[t] = [th[t] EXCEPT !.pc = "wild"]
           \/ ~Puts(t) /\ th'[t] = [th[t] EXCEPT !.pc = "answer"]
    BY <1>3, ProbeNextDoes
  <2>2. vec' = vec /\ limit' = limit /\ lock' = lock
    BY <1>3, ProbeNextFrame
  <2> QED
    BY <2>1, <2>2, <1>c DEF Holding, Copying, Clearing, At, Local
<1>4. CASE FindValue(t)
  <2>1. /\ At(t, "value") /\ th[t].op = "find"
        /\ \E d \in ValObj \cup Word \cup {Null} :
            th'[t] = [th[t] EXCEPT !.pc = "answer", !.word = d]
    BY <1>4, FindValueDoes
  <2>2. vec' = vec /\ limit' = limit /\ lock' = lock
    BY <1>4, FindValueFrame
  <2> QED
    BY <2>1, <2>2, <1>c DEF Holding, Copying, Clearing, At, Local
<1>5. CASE Answer(t)
  <2>1. /\ At(t, "answer")
        /\ th'[t] = Rest
    BY <1>5, AnswerDoes
  <2>2. vec' = vec /\ limit' = limit /\ lock' = lock
    BY <1>5, AnswerFrame
  <2> QED
    BY <2>1, <2>2, <1>c DEF Holding, Copying, Clearing, At, Local, Rest
<1>6. CASE PutValue(t)
  <2>1. /\ At(t, "value") /\ Puts(t) /\ Usable(Here(t))
        /\ \E v \in ValObj :
            /\ th[t].op = "insert" => v = th[t].own
            /\ th'[t] = [th[t] EXCEPT !.pc = "swap", !.word = Here(t).val, !.own = v]
    BY <1>6, PutValueDoes
  <2>2. vec' = vec /\ limit' = limit /\ lock' = lock
    BY <1>6, PutValueFrame
  <2> QED
    BY <2>1, <2>2, <1>c DEF Holding, Copying, Clearing, At, Local
<1>7. CASE UpdateInPlace(t)
  <2>1. /\ At(t, "value") /\ th[t].op = "update"
        /\ th'[t] = Rest
    BY <1>7, UpdateInPlaceDoes
  <2>2. vec' = vec /\ limit' = limit /\ lock' = lock
    BY <1>7, UpdateInPlaceFrame
  <2> QED
    BY <2>1, <2>2, <1>c DEF Holding, Copying, Clearing, At, Local, Rest
<1>8. CASE SwapValue(t)
  <2>1. /\ At(t, "swap") /\ Here(t).val = th[t].word /\ ~Here(t).x
        /\ th'[t] = Rest
    BY <1>8, SwapValueDoes
  <2>2. vec' = vec /\ limit' = limit /\ lock' = lock
    BY <1>8, SwapValueFrame
  <2> QED
    BY <2>1, <2>2, <1>c DEF Holding, Copying, Clearing, At, Local, Rest
<1>9. CASE DecrLimit(t)
  <2>1. /\ At(t, "limit") /\ limit > 0
        /\ \E k \in KeyObj, v \in ValObj :
            /\ th[t].kobj # Null => k = th[t].kobj
            /\ k[1] = th[t].key
            /\ th'[t] = [th[t] EXCEPT !.pc = "dcas", !.kobj = k, !.own = v]
    BY <1>9, DecrLimitDoes
  <2>2. vec' = vec /\ limit' = limit - 1 /\ lock' = lock
    BY <1>9, DecrLimitFrame
  <2> QED
    BY <2>1, <2>2, <1>c DEF Holding, Copying, Clearing, At, Local
<1>10. CASE PutWait(t)
  <2>1. /\ At(t, "limit") \/ (At(t, "value") /\ Puts(t))
        /\ th'[t] = [th[t] EXCEPT !.pc = "rehash"]
    BY <1>10, PutWaitDoes
  <2>2. vec' = vec /\ limit' = limit /\ lock' = lock
    BY <1>10, PutWaitFrame
  <2> QED
    BY <2>1, <2>2, <1>c DEF Holding, Copying, Clearing, At, Local
<1>11. CASE FillSlot(t)
  <2>1. /\ At(t, "dcas") /\ Here(t) = EmptySlot
        /\ th'[t] = [th[t] EXCEPT !.pc = "count"]
    BY <1>11, FillSlotDoes
  <2>2. vec' = vec /\ limit' = limit /\ lock' = lock
    BY <1>11, FillSlotFrame
  <2> QED
    BY <2>1, <2>2, <1>c DEF Holding, Copying, Clearing, At, Local
<1>12. CASE StoreFails(t)
  <2>1. /\ At(t, "swap") \/ At(t, "dcas")
        /\ th'[t].pc = "probe" /\ th'[t].op = th[t].op /\ th'[t].key = th[t].key /\ th'[t].vec = vec /\ th'[t].ix = 0
        /\ th'[t].own = Kept(t) /\ th'[t].kobj = th[t].kobj /\ th'[t].word = Null /\ th'[t].np = Null /\ th'[t].met = {}
    BY <1>12, StoreFailsDoes
  <2>2. vec' = vec /\ limit' = limit /\ lock' = lock
    BY <1>12, StoreFailsFrame
  <2> QED
    BY <2>1, <2>2, <1>c DEF Holding, Copying, Clearing, At, Local
<1>13. CASE CountUp(t)
  <2>1. /\ At(t, "count")
        /\ th'[t] = Rest
    BY <1>13, CountUpDoes
  <2>2. vec' = vec /\ limit' = limit /\ lock' = lock
    BY <1>13, CountUpFrame
  <2> QED
    BY <2>1, <2>2, <1>c DEF Holding, Copying, Clearing, At, Local, Rest
<1>14. CASE OldKey(t)
  <2>1. /\ At(t, "value") /\ th[t].op = "erase"
        /\ th'[t] = [th[t] EXCEPT !.pc = "oldval", !.kobj = Here(t).key]
    BY <1>14, OldKeyDoes
  <2>2. vec' = vec /\ limit' = limit /\ lock' = lock
    BY <1>14, OldKeyFrame
  <2> QED
    BY <2>1, <2>2, <1>c DEF Holding, Copying, Clearing, At, Local
<1>15. CASE OldValue(t)
  <2>1. /\ At(t, "oldval")
        /\ \E l \in {"take", "rehash", "answer"}, o \in KeyObj \cup {Null}, d \in ValObj \cup {Null} :
            /\ l = "take" => /\ o = th[t].kobj /\ o # Null /\ d # Null
                           /\ ~Here(t).x /\ d = Here(t).val
            /\ l # "take" => o = Null /\ d = th[t].word
            /\ th'[t] = [th[t] EXCEPT !.pc = l, !.word = d, !.kobj = o]
    BY <1>15, OldValueDoes
  <2>2. vec' = vec /\ limit' = limit /\ lock' = lock
    BY <1>15, OldValueFrame
  <2> QED
    BY <2>1, <2>2, <1>c DEF Holding, Copying, Clearing, At, Local
<1>16. CASE TakeValue(t)
  <2>1. /\ At(t, "take") /\ Here(t).val = th[t].word /\ ~Here(t).x
        /\ th'[t] = [th[t] EXCEPT !.pc = "uncount"]
    BY <1>16, TakeValueDoes
  <2>2. vec' = vec /\ limit' = limit /\ lock' = lock
    BY <1>16, TakeValueFrame
  <2> QED
    BY <2>1, <2>2, <1>c DEF Holding, Copying, Clearing, At, Local
<1>17. CASE TakeFails(t)
  <2>1. /\ At(t, "take")
        /\ th'[t].pc = "probe" /\ th'[t].op = "erase" /\ th'[t].key = th[t].key /\ th'[t].vec = vec /\ th'[t].ix = 0
        /\ th'[t].own = Null /\ th'[t].kobj = Null /\ th'[t].word = Null /\ th'[t].np = Null /\ th'[t].met = {}
    BY <1>17, TakeFailsDoes
  <2>2. vec' = vec /\ limit' = limit /\ lock' = lock
    BY <1>17, TakeFailsFrame
  <2> QED
    BY <2>1, <2>2, <1>c DEF Holding, Copying, Clearing, At, Local
<1>18. CASE CountDown(t)
  <2>1. /\ At(t, "uncount")
        /\ th'[t] = [th[t] EXCEPT !.pc = "bury"]
    BY <1>18, CountDownDoes
  <2>2. vec' = vec /\ limit' = limit /\ lock' = lock
    BY <1>18, CountDownFrame
  <2> QED
    BY <2>1, <2>2, <1>c DEF Holding, Copying, Clearing, At, Local
<1>19. CASE Bury(t)
  <2>1. /\ At(t, "bury")
        /\ th'[t] = Rest
    BY <1>19, BuryDoes
  <2>2. vec' = vec /\ limit' = limit /\ lock' = lock
    BY <1>19, BuryFrame
  <2> QED
    BY <2>1, <2>2, <1>c DEF Holding, Copying, Clearing, At, Local, Rest
<1>20. CASE NoRehash(t)
  <2>1. /\ At(t, "rehash") /\ lock = Null
        /\ th'[t].pc = "probe" /\ th'[t].op = th[t].op /\ th'[t].key = th[t].key /\ th'[t].vec = vec /\ th'[t].ix = 0
        /\ th'[t].own = th[t].own /\ th'[t].kobj = th[t].kobj /\ th'[t].word = Null /\ th'[t].np = Null /\ th'[t].met = {}
    BY <1>20, NoRehashDoes
  <2>2. vec' = vec /\ limit' = limit /\ lock' = lock
    BY <1>20, NoRehashFrame
  <2> QED
    BY <2>1, <2>2, <1>c DEF Holding, Copying, Clearing, At, Local
<1>21. CASE RehashStart(t)
  <2>1. /\ At(t, "rehash") /\ lock = Null /\ limit <= 0
        /\ \E w \in Vector : life[w] = "free" /\
            th'[t] = [th[t] EXCEPT !.pc = "copykey", !.vec = vec, !.ix = 0, !.word = Null, !.np = w]
    BY <1>21, RehashStartDoes
  <2>2. vec' = vec /\ limit' = limit /\ lock' = t
    BY <1>21, RehashStartFrame
  <2> QED
    BY <2>1, <2>2, <1>c DEF Holding, Copying, Clearing, At, Local
<1>22. CASE OutOfMemory(t)
  <2>1. /\ At(t, "limit") \/ At(t, "rehash")
        /\ th'[t] = Rest
    BY <1>22, OutOfMemoryDoes
  <2>2. vec' = vec /\ limit' \in {limit, limit - 1} /\ lock' = lock
    BY <1>22, OutOfMemoryFrame
  <2> QED
    BY <2>1, <2>2, <1>c DEF Holding, Copying, Clearing, At, Local, Rest, CallOK, Places, Storing, Erasing
<1>23. CASE CopyKey(t)
  <2>1. /\ At(t, "copykey")
        /\ th'[t] = [th[t] EXCEPT !.pc = "copyval", !.word = This(t).key]
    BY <1>23, CopyKeyDoes
  <2>2. vec' = vec /\ limit' = limit /\ lock' = lock
    BY <1>23, CopyKeyFrame
  <2> QED
    BY <2>1, <2>2, <1>c DEF Holding, Copying, Clearing, At, Local
<1>24. CASE CopyValue(t)
  <2>1. /\ At(t, "copyval")
        /\ \/ /\ th[t].ix + 1 < Size(th[t].vec)
             /\ th'[t] = [th[t] EXCEPT !.pc = "copykey", !.ix = th[t].ix + 1, !.word = Null]
           \/ /\ ~(th[t].ix + 1 < Size(th[t].vec))
             /\ th'[t] = [th[t] EXCEPT !.pc = "setlimit", !.ix = 0, !.word = Null]
    BY <1>24, CopyValueDoes
  <2>2. vec' = vec /\ limit' = limit /\ lock' = lock
    BY <1>24, CopyValueFrame
  <2> QED
    BY <2>1, <2>2, <1>c DEF Holding, Copying, Clearing, At, Local, CallOK, Places, Storing, Erasing
<1>25. CASE SetLimit(t)
  <2>1. /\ At(t, "setlimit")
        /\ th'[t] = [th[t] EXCEPT !.pc = "install"]
    BY <1>25, SetLimitDoes
  <2>2. vec' = vec /\ lock' = lock /\ limit' = Fsize(Size(th[t].np)) - Cardinality(LiveSlots(th[t].np))
    BY <1>25, SetLimitFrame
  <2> QED
    BY <2>1, <2>2, <1>c DEF Holding, Copying, Clearing, At, Local
<1>26. CASE Install(t)
  <2>1. /\ At(t, "install") /\ th[t].op # "assign"
        /\ th'[t].pc = "probe" /\ th'[t].op = th[t].op /\ th'[t].key = th[t].key /\ th'[t].vec = th[t].np /\ th'[t].ix = 0
        /\ th'[t].own = th[t].own /\ th'[t].kobj = th[t].kobj /\ th'[t].word = Null /\ th'[t].np = Null /\ th'[t].met = {}
    BY <1>26, InstallDoes
  <2>2. vec' = th[t].np /\ limit' = limit /\ lock' = Null
    BY <1>26, InstallFrame
  <2> QED
    BY <2>1, <2>2, <1>c DEF Holding, Copying, Clearing, At, Local, CallOK, Places, Storing, Erasing
<1>27. CASE AssignAcquire(t)
  <2>1. /\ At(t, "acquire") /\ th[t].op = "assign" /\ lock = Null
        /\ th'[t] = [th[t] EXCEPT !.pc = "mark", !.vec = vec]
    BY <1>27, AssignAcquireDoes
  <2>2. vec' = vec /\ limit' = limit /\ lock' = t
    BY <1>27, AssignAcquireFrame
  <2> QED
    BY <2>1, <2>2, <1>c DEF Holding, Copying, Clearing, At, Local
<1>28. CASE Mark(t)
  <2>1. /\ At(t, "mark") /\ th[t].ix < Size(th[t].vec)
        /\ \E o \in ValObj \cup {Null} :
            th'[t] = [th[t] EXCEPT !.ix = th[t].ix + 1, !.own = o]
    BY <1>28, MarkDoes
  <2>2. vec' = vec /\ limit' = limit /\ lock' = lock
    BY <1>28, MarkFrame
  <2> QED
    BY <2>1, <2>2, <1>c DEF Holding, Copying, Clearing, At, Local
<1>29. CASE AssignLimit(t)
  <2>1. /\ At(t, "mark") /\ th[t].ix = Size(th[t].vec)
        /\ th'[t] = [th[t] EXCEPT !.pc = "install"]
    BY <1>29, AssignLimitDoes
  <2>2. vec' = vec /\ lock' = lock /\ limit' = Fsize(Size(th[t].np)) - tab[th[t].np].n
    BY <1>29, AssignLimitFrame
  <2> QED
    BY <2>1, <2>2, <1>c DEF Holding, Copying, Clearing, At, Local
<1>30. CASE AssignInstall(t)
  <2>1. /\ At(t, "install") /\ th[t].op = "assign"
        /\ th'[t] = Rest
    BY <1>30, AssignInstallDoes
  <2>2. vec' = th[t].np /\ limit' = limit /\ lock' = Null
    BY <1>30, AssignInstallFrame
  <2> QED
    BY <2>1, <2>2, <1>c DEF Holding, Copying, Clearing, At, Local, Rest, CallOK, Places, Storing, Erasing
<1>31. CASE ClearAcquire(t)
  <2>1. /\ At(t, "acquire") /\ th[t].op = "clear" /\ lock = Null
        /\ th'[t] = [th[t] EXCEPT !.pc = "clrkey", !.vec = vec]
    BY <1>31, ClearAcquireDoes
  <2>2. vec' = vec /\ limit' = 0 /\ lock' = t
    BY <1>31, ClearAcquireFrame
  <2> QED
    BY <2>1, <2>2, <1>c DEF Holding, Copying, Clearing, At, Local
<1>32. CASE ClearReadKey(t)
  <2>1. /\ At(t, "clrkey")
        /\ th'[t] = [th[t] EXCEPT !.pc = "clrput", !.kobj = This(t).key]
    BY <1>32, ClearReadKeyDoes
  <2>2. vec' = vec /\ limit' = limit /\ lock' = lock
    BY <1>32, ClearReadKeyFrame
  <2> QED
    BY <2>1, <2>2, <1>c DEF Holding, Copying, Clearing, At, Local
<1>33. CASE ClearFreeKey(t)
  <2>1. /\ At(t, "clrput")
        /\ th'[t] = [th[t] EXCEPT !.pc = "clrval"]
    BY <1>33, ClearFreeKeyDoes
  <2>2. vec' = vec /\ limit' = limit /\ lock' = lock
    BY <1>33, ClearFreeKeyFrame
  <2> QED
    BY <2>1, <2>2, <1>c DEF Holding, Copying, Clearing, At, Local
<1>34. CASE ClearFreeValue(t)
  <2>1. /\ At(t, "clrval")
        /\ \/ /\ th[t].ix + 1 < Size(th[t].vec)
             /\ \E o \in ValObj \cup {Null} :
                  th'[t] = [th[t] EXCEPT !.pc = "clrkey", !.ix = th[t].ix + 1, !.kobj = Null, !.own = o]
           \/ /\ ~(th[t].ix + 1 < Size(th[t].vec))
             /\ \E o \in ValObj \cup {Null} :
                  th'[t] = [th[t] EXCEPT !.pc = "clrlimit", !.ix = 0, !.kobj = Null, !.own = o]
    BY <1>34, ClearFreeValueDoes
  <2>2. vec' = vec /\ limit' = limit /\ lock' = lock
    BY <1>34, ClearFreeValueFrame
  <2> QED
    BY <2>1, <2>2, <1>c DEF Holding, Copying, Clearing, At, Local
<1>35. CASE ClearSetLimit(t)
  <2>1. /\ At(t, "clrlimit")
        /\ th'[t] = [th[t] EXCEPT !.pc = "clrcount"]
    BY <1>35, ClearSetLimitDoes
  <2>2. vec' = vec /\ lock' = lock /\ limit' = Fsize(tab[vec].n)
    BY <1>35, ClearSetLimitFrame
  <2> QED
    BY <2>1, <2>2, <1>c DEF Holding, Copying, Clearing, At, Local
<1>36. CASE ClearDone(t)
  <2>1. /\ At(t, "clrcount")
        /\ th'[t] = Rest
    BY <1>36, ClearDoneDoes
  <2>2. vec' = vec /\ limit' = limit /\ lock' = Null
    BY <1>36, ClearDoneFrame
  <2> QED
    BY <2>1, <2>2, <1>c DEF Holding, Copying, Clearing, At, Local, Rest
<1>37. CASE WalkKey(t)
  <2>1. /\ At(t, "walk") /\ th[t].ix < Size(th[t].vec)
        /\ \/ th'[t] = [th[t] EXCEPT !.ix = th[t].ix + 1]
           \/ This(t).key # FREE /\ th'[t] = [th[t] EXCEPT !.pc = "walkval", !.word = This(t).key]
    BY <1>37, WalkKeyDoes
  <2>2. vec' = vec /\ limit' = limit /\ lock' = lock
    BY <1>37, WalkKeyFrame
  <2> QED
    BY <2>1, <2>2, <1>c DEF Holding, Copying, Clearing, At, Local
<1>38. CASE WalkValue(t)
  <2>1. /\ At(t, "walkval")
        /\ \E m \in SUBSET Key :
            th'[t] = [th[t] EXCEPT !.pc = "walk", !.ix = th[t].ix + 1, !.word = Null, !.met = m]
    BY <1>38, WalkValueDoes
  <2>2. vec' = vec /\ limit' = limit /\ lock' = lock
    BY <1>38, WalkValueFrame
  <2> QED
    BY <2>1, <2>2, <1>c DEF Holding, Copying, Clearing, At, Local
<1>39. CASE WalkEnd(t)
  <2>1. /\ At(t, "walk")
        /\ th'[t] = Rest
    BY <1>39, WalkEndDoes
  <2>2. vec' = vec /\ limit' = limit /\ lock' = lock
    BY <1>39, WalkEndFrame
  <2> QED
    BY <2>1, <2>2, <1>c DEF Holding, Copying, Clearing, At, Local, Rest
<1>40. CASE ClearStart(t)
  <2>1. /\ At(t, "idle")
        /\ th'[t].pc = "acquire" /\ th'[t].op = "clear" /\ th'[t].key = Null /\ th'[t].vec = Null /\ th'[t].ix = 0
        /\ th'[t].own = Null /\ th'[t].kobj = Null /\ th'[t].word = Null /\ th'[t].np = Null /\ th'[t].met = {}
    BY <1>40, ClearStartDoes
  <2>2. vec' = vec /\ limit' = limit /\ lock' = lock
    BY <1>40, ClearStartFrame
  <2> QED
    BY <2>1, <2>2, <1>c DEF Holding, Copying, Clearing, At, Local
<1>41. CASE WalkStart(t)
  <2>1. /\ At(t, "idle")
        /\ th'[t].pc = "walk" /\ th'[t].op = "walk" /\ th'[t].key = Null /\ th'[t].vec = vec /\ th'[t].ix = 0
        /\ th'[t].own = Null /\ th'[t].kobj = Null /\ th'[t].word = Null /\ th'[t].np = Null /\ th'[t].met = {}
    BY <1>41, WalkStartDoes
  <2>2. vec' = vec /\ limit' = limit /\ lock' = lock
    BY <1>41, WalkStartFrame
  <2> QED
    BY <2>1, <2>2, <1>c DEF Holding, Copying, Clearing, At, Local
<1>42. ASSUME NEW k \in Key, LookupStart(t, k)
      PROVE  lock' = lock /\ vec' = vec /\ ~Holding(t)' /\ ~Holding(t)
  <2>1. vec' = vec /\ limit' = limit /\ lock' = lock
    BY <1>42, LookupStartFrame
  <2>2. th'[t].pc \in {"probe", "acquire"} /\ At(t, "idle")
    BY <1>42, LookupStartDoes
  <2> QED
    BY <2>1, <2>2 DEF Holding, Copying, Clearing, At, Local
<1>43. ASSUME NEW k \in Key, InsertStart(t, k)
      PROVE  lock' = lock /\ vec' = vec /\ ~Holding(t)' /\ ~Holding(t)
  <2>1. vec' = vec /\ limit' = limit /\ lock' = lock
    BY <1>43, InsertStartFrame
  <2>2. th'[t].pc \in {"probe", "acquire"} /\ At(t, "idle")
    BY <1>43, InsertStartDoes
  <2> QED
    BY <2>1, <2>2 DEF Holding, Copying, Clearing, At, Local
<1>44. ASSUME NEW k \in Key, AssignStart(t, k)
      PROVE  lock' = lock /\ vec' = vec /\ ~Holding(t)' /\ ~Holding(t)
  <2>1. vec' = vec /\ limit' = limit /\ lock' = lock
    BY <1>44, AssignStartFrame
  <2>2. th'[t].pc \in {"probe", "acquire"} /\ At(t, "idle")
    BY <1>44, AssignStartDoes
  <2> QED
    BY <2>1, <2>2 DEF Holding, Copying, Clearing, At, Local
<1> QED
  BY <1>1, <1>2, <1>3, <1>4, <1>5, <1>6, <1>7, <1>8, <1>9, <1>10, <1>11, <1>12, <1>13, <1>14, <1>15, <1>16, <1>17, <1>18, <1>19, <1>20, <1>21, <1>22, <1>23, <1>24, <1>25, <1>26, <1>27, <1>28, <1>29, <1>30, <1>31, <1>32, <1>33, <1>34, <1>35, <1>36, <1>37, <1>38, <1>39, <1>40, <1>41, <1>42, <1>43, <1>44 DEF Moves, Start, Proceed

(* Every step keeps the holder of the lock at its vector.                  *)
LEMMA LockStep ==
  ASSUME Shape, NEW t \in Thread, Moves(t)
  PROVE  LockOK'
<1> USE DEF Shape
<1>1. \A u \in Thread \ {t} : th'[u] = th[u]
  BY ThreadTypes
<1>2. Null \notin Thread
  BY Names
<1>3. /\ \A u \in Thread : lock = u <=> Holding(u)
      /\ \A u \in Thread : lock = u => th[u].vec = vec
  BY DEF LockOK, Holding
<1>4. \A u \in Thread \ {t} : Holding(u)' <=> Holding(u)
  BY <1>1 DEF Holding
<1>5. /\ \A u \in Thread : lock' = u <=> Holding(u)'
      /\ \A u \in Thread : lock' = u => th'[u].vec = vec'
  BY <1>1, <1>2, <1>3, <1>4, LockMoves
<1> QED
  BY <1>5 DEF LockOK, Holding

(* Types.                                                                  *)
LEMMA LimitStep ==
  ASSUME Shape, NEW t \in Thread, Moves(t)
  PROVE  limit' \in Int
<1> USE DEF Shape
<1>1. limit \in Int /\ limit - 1 \in Int /\ 0 \in Int /\ vec \in Vector /\ tab[vec].pidx # 0
  BY DEF Types, VectorsOK
<1>2. SetLimit(t) \/ AssignLimit(t) => th[t].np \in Vector /\ tab[th[t].np].pidx # 0
  <2>1. SetLimit(t) \/ AssignLimit(t) => th[t].np # Null /\ th[t].np \in Vector \cup {Null}
    BY Locals DEF SetLimit, AssignLimit, At, CallsOK, CallOK, Copying, Local, Places, Storing, Erasing, Clearing
  <2> QED
    BY <2>1 DEF VectorsOK
<1>3. \A w \in Vector : tab[w].pidx # 0 =>
        /\ Fsize(Size(w)) \in Int /\ Cardinality(LiveSlots(w)) \in Int
        /\ tab[w].n \in Int
  BY Indices, Sizes, LiveFinite, TableFacts DEF Types, Size
<1>4. Fsize(tab[vec].n) \in Int
  <2>1. tab[vec].n \in Int /\ LoadPct \in Int
    BY <1>1, <1>3, TableAssumption
  <2>2. LoadPct * tab[vec].n \in Int
    BY <2>1
  <2> QED
    BY <2>2 DEF Fsize
<1>101. CASE ProbeFree(t)
  BY <1>1, <1>2, <1>3, <1>4, <1>101, ProbeFreeFrame
<1>102. CASE ProbeMatch(t)
  BY <1>1, <1>2, <1>3, <1>4, <1>102, ProbeMatchFrame
<1>103. CASE ProbeNext(t)
  BY <1>1, <1>2, <1>3, <1>4, <1>103, ProbeNextFrame
<1>104. CASE FindValue(t)
  BY <1>1, <1>2, <1>3, <1>4, <1>104, FindValueFrame
<1>105. CASE Answer(t)
  BY <1>1, <1>2, <1>3, <1>4, <1>105, AnswerFrame
<1>106. CASE PutValue(t)
  BY <1>1, <1>2, <1>3, <1>4, <1>106, PutValueFrame
<1>107. CASE UpdateInPlace(t)
  BY <1>1, <1>2, <1>3, <1>4, <1>107, UpdateInPlaceFrame
<1>108. CASE SwapValue(t)
  BY <1>1, <1>2, <1>3, <1>4, <1>108, SwapValueFrame
<1>109. CASE DecrLimit(t)
  BY <1>1, <1>2, <1>3, <1>4, <1>109, DecrLimitFrame
<1>110. CASE PutWait(t)
  BY <1>1, <1>2, <1>3, <1>4, <1>110, PutWaitFrame
<1>111. CASE FillSlot(t)
  BY <1>1, <1>2, <1>3, <1>4, <1>111, FillSlotFrame
<1>112. CASE StoreFails(t)
  BY <1>1, <1>2, <1>3, <1>4, <1>112, StoreFailsFrame
<1>113. CASE CountUp(t)
  BY <1>1, <1>2, <1>3, <1>4, <1>113, CountUpFrame
<1>114. CASE OldKey(t)
  BY <1>1, <1>2, <1>3, <1>4, <1>114, OldKeyFrame
<1>115. CASE OldValue(t)
  BY <1>1, <1>2, <1>3, <1>4, <1>115, OldValueFrame
<1>116. CASE TakeValue(t)
  BY <1>1, <1>2, <1>3, <1>4, <1>116, TakeValueFrame
<1>117. CASE TakeFails(t)
  BY <1>1, <1>2, <1>3, <1>4, <1>117, TakeFailsFrame
<1>118. CASE CountDown(t)
  BY <1>1, <1>2, <1>3, <1>4, <1>118, CountDownFrame
<1>119. CASE Bury(t)
  BY <1>1, <1>2, <1>3, <1>4, <1>119, BuryFrame
<1>120. CASE NoRehash(t)
  BY <1>1, <1>2, <1>3, <1>4, <1>120, NoRehashFrame
<1>121. CASE RehashStart(t)
  BY <1>1, <1>2, <1>3, <1>4, <1>121, RehashStartFrame
<1>122. CASE OutOfMemory(t)
  BY <1>1, <1>2, <1>3, <1>4, <1>122, OutOfMemoryFrame
<1>123. CASE CopyKey(t)
  BY <1>1, <1>2, <1>3, <1>4, <1>123, CopyKeyFrame
<1>124. CASE CopyValue(t)
  BY <1>1, <1>2, <1>3, <1>4, <1>124, CopyValueFrame
<1>125. CASE SetLimit(t)
  BY <1>1, <1>2, <1>3, <1>4, <1>125, SetLimitFrame
<1>126. CASE Install(t)
  BY <1>1, <1>2, <1>3, <1>4, <1>126, InstallFrame
<1>127. CASE AssignAcquire(t)
  BY <1>1, <1>2, <1>3, <1>4, <1>127, AssignAcquireFrame
<1>128. CASE Mark(t)
  BY <1>1, <1>2, <1>3, <1>4, <1>128, MarkFrame
<1>129. CASE AssignLimit(t)
  BY <1>1, <1>2, <1>3, <1>4, <1>129, AssignLimitFrame
<1>130. CASE AssignInstall(t)
  BY <1>1, <1>2, <1>3, <1>4, <1>130, AssignInstallFrame
<1>131. CASE ClearAcquire(t)
  BY <1>1, <1>2, <1>3, <1>4, <1>131, ClearAcquireFrame
<1>132. CASE ClearReadKey(t)
  BY <1>1, <1>2, <1>3, <1>4, <1>132, ClearReadKeyFrame
<1>133. CASE ClearFreeKey(t)
  BY <1>1, <1>2, <1>3, <1>4, <1>133, ClearFreeKeyFrame
<1>134. CASE ClearFreeValue(t)
  BY <1>1, <1>2, <1>3, <1>4, <1>134, ClearFreeValueFrame
<1>135. CASE ClearSetLimit(t)
  BY <1>1, <1>2, <1>3, <1>4, <1>135, ClearSetLimitFrame
<1>136. CASE ClearDone(t)
  BY <1>1, <1>2, <1>3, <1>4, <1>136, ClearDoneFrame
<1>137. CASE WalkKey(t)
  BY <1>1, <1>2, <1>3, <1>4, <1>137, WalkKeyFrame
<1>138. CASE WalkValue(t)
  BY <1>1, <1>2, <1>3, <1>4, <1>138, WalkValueFrame
<1>139. CASE WalkEnd(t)
  BY <1>1, <1>2, <1>3, <1>4, <1>139, WalkEndFrame
<1>140. CASE ClearStart(t)
  BY <1>1, <1>2, <1>3, <1>4, <1>140, ClearStartFrame
<1>141. CASE WalkStart(t)
  BY <1>1, <1>2, <1>3, <1>4, <1>141, WalkStartFrame
<1>142. ASSUME NEW k \in Key, LookupStart(t, k) PROVE limit' = limit
  BY <1>142, LookupStartFrame
<1>143. ASSUME NEW k \in Key, InsertStart(t, k) PROVE limit' = limit
  BY <1>143, InsertStartFrame
<1>144. ASSUME NEW k \in Key, AssignStart(t, k) PROVE limit' = limit
  BY <1>144, AssignStartFrame
<1> QED
  BY <1>1, <1>101, <1>102, <1>103, <1>104, <1>105, <1>106, <1>107, <1>108, <1>109, <1>110, <1>111, <1>112, <1>113, <1>114, <1>115, <1>116, <1>117, <1>118, <1>119, <1>120, <1>121, <1>122, <1>123, <1>124, <1>125, <1>126, <1>127, <1>128, <1>129, <1>130, <1>131, <1>132, <1>133, <1>134, <1>135, <1>136, <1>137, <1>138, <1>139, <1>140, <1>141, <1>142, <1>143, <1>144 DEF Moves, Start, Proceed

(* A step keeps the types of the variables of memory.                      *)
LEMMA LivesTyped ==
  ASSUME Shape, NEW t \in Thread, Moves(t)
  PROVE  /\ life' \in [Obj -> {"free", "live", "retired", "gone", "twice"}]
         /\ waits' \in [Obj -> SUBSET Thread]
<1> USE DEF Shape
<1> DEFINE Goal == /\ life' \in [Obj -> {"free", "live", "retired", "gone", "twice"}]
                   /\ waits' \in [Obj -> SUBSET Thread]
<1>a. \A new, freed, retired, left : Memory(new, freed, retired, left) => Goal
  BY MemoryTyped
<1>b. UNCHANGED <<life, waits>> => Goal
  BY DEF Types
<1>c. \A freed, retired, ts : Done(t, freed, retired, ts) => Goal
  BY <1>a DEF Done
<1> HIDE DEF Goal
<1>1. ProbeFree(t) => Goal
  BY <1>b DEF ProbeFree
<1>2. ProbeMatch(t) => Goal
  BY <1>b DEF ProbeMatch
<1>3. ProbeNext(t) => Goal
  BY <1>b DEF ProbeNext
<1>4. FindValue(t) => Goal
  BY <1>b DEF FindValue
<1>5. Answer(t) => Goal
  BY <1>c DEF Answer
<1>6. PutValue(t) => Goal
  BY <1>a DEF PutValue
<1>7. UpdateInPlace(t) => Goal
  BY <1>c DEF UpdateInPlace
<1>8. SwapValue(t) => Goal
  BY <1>c DEF SwapValue
<1>9. DecrLimit(t) => Goal
  BY <1>a DEF DecrLimit
<1>10. PutWait(t) => Goal
  BY <1>b DEF PutWait
<1>11. FillSlot(t) => Goal
  BY <1>b DEF FillSlot
<1>12. StoreFails(t) => Goal
  BY <1>a DEF StoreFails
<1>13. CountUp(t) => Goal
  BY <1>c DEF CountUp
<1>14. OldKey(t) => Goal
  BY <1>b DEF OldKey
<1>15. OldValue(t) => Goal
  BY <1>b DEF OldValue
<1>16. TakeValue(t) => Goal
  BY <1>b DEF TakeValue
<1>17. TakeFails(t) => Goal
  BY <1>b DEF TakeFails
<1>18. CountDown(t) => Goal
  BY <1>b DEF CountDown
<1>19. Bury(t) => Goal
  BY <1>c DEF Bury
<1>20. NoRehash(t) => Goal
  BY <1>b DEF NoRehash
<1>21. RehashStart(t) => Goal
  BY <1>a DEF RehashStart
<1>22. OutOfMemory(t) => Goal
  BY <1>c DEF OutOfMemory
<1>23. CopyKey(t) => Goal
  BY <1>b DEF CopyKey
<1>24. CopyValue(t) => Goal
  BY <1>b DEF CopyValue
<1>25. SetLimit(t) => Goal
  BY <1>b DEF SetLimit
<1>26. Install(t) => Goal
  BY <1>a DEF Install
<1>27. AssignAcquire(t) => Goal
  BY <1>b DEF AssignAcquire
<1>28. Mark(t) => Goal
  BY <1>a DEF Mark
<1>29. AssignLimit(t) => Goal
  BY <1>b DEF AssignLimit
<1>30. AssignInstall(t) => Goal
  BY <1>c DEF AssignInstall
<1>31. ClearAcquire(t) => Goal
  BY <1>b DEF ClearAcquire
<1>32. ClearReadKey(t) => Goal
  BY <1>b DEF ClearReadKey
<1>33. ClearFreeKey(t) => Goal
  BY <1>b DEF ClearFreeKey
<1>34. ClearFreeValue(t) => Goal
  BY <1>a DEF ClearFreeValue
<1>35. ClearSetLimit(t) => Goal
  BY <1>b DEF ClearSetLimit
<1>36. ClearDone(t) => Goal
  BY <1>c DEF ClearDone
<1>37. WalkKey(t) => Goal
  BY <1>b DEF WalkKey
<1>38. WalkValue(t) => Goal
  BY <1>b DEF WalkValue
<1>39. WalkEnd(t) => Goal
  BY <1>c DEF WalkEnd
<1>40. ClearStart(t) => Goal
  BY <1>b DEF ClearStart
<1>41. WalkStart(t) => Goal
  BY <1>b DEF WalkStart
<1>50. ASSUME NEW k \in Key PROVE LookupStart(t, k) \/ InsertStart(t, k) \/ AssignStart(t, k) => Goal
  BY <1>a, <1>b DEF LookupStart, InsertStart, AssignStart
<1>51. Goal
  BY <1>50, <1>1, <1>2, <1>3, <1>4, <1>5, <1>6, <1>7, <1>8, <1>9, <1>10, <1>11, <1>12, <1>13, <1>14, <1>15, <1>16, <1>17, <1>18, <1>19, <1>20, <1>21, <1>22, <1>23, <1>24, <1>25, <1>26, <1>27, <1>28, <1>29, <1>30, <1>31, <1>32, <1>33, <1>34, <1>35, <1>36, <1>37, <1>38, <1>39, <1>40, <1>41 DEF Moves, Start, Proceed
<1> QED
  BY <1>51 DEF Goal

(* Every step keeps the types.                                             *)
LEMMA TypesStep ==
  ASSUME Shape, RoomOK, NEW t \in Thread, Moves(t), UNCHANGED role
  PROVE  Types'
<1>1. vec' \in Vector /\ lock' \in Thread \cup {Null}
  <2>1. lock \in Thread \cup {Null} /\ vec \in Vector
    BY DEF Shape, Types
  <2>2. Install(t) \/ AssignInstall(t) => vec' \in Vector
    <3>1. Install(t) \/ AssignInstall(t) => th[t].np # Null
      BY DEF Install, AssignInstall, At, Shape, CallsOK, CallOK, Copying
    <3>2. th[t].np \in Vector \cup {Null}
      BY Locals DEF Local
    <3> QED
      BY <3>1, <3>2, InstallFrame, AssignInstallFrame
  <2>3. lock' \in {lock, Null, t}
    BY LockMoves
  <2>4. vec' = vec \/ Install(t) \/ AssignInstall(t)
    BY ProbeFreeFrame, ProbeMatchFrame, ProbeNextFrame, FindValueFrame, AnswerFrame, PutValueFrame, UpdateInPlaceFrame, SwapValueFrame, DecrLimitFrame, PutWaitFrame, FillSlotFrame, StoreFailsFrame, CountUpFrame, OldKeyFrame, OldValueFrame, TakeValueFrame, TakeFailsFrame, CountDownFrame, BuryFrame, NoRehashFrame, RehashStartFrame, OutOfMemoryFrame, CopyKeyFrame, CopyValueFrame, SetLimitFrame, AssignAcquireFrame, MarkFrame, AssignLimitFrame, ClearAcquireFrame, ClearReadKeyFrame, ClearFreeKeyFrame, ClearFreeValueFrame, ClearSetLimitFrame, ClearDoneFrame, WalkKeyFrame, WalkValueFrame, WalkEndFrame, ClearStartFrame, WalkStartFrame, LookupStartFrame, InsertStartFrame, AssignStartFrame
    DEF Moves, Start, Proceed
  <2> QED
    BY <2>1, <2>2, <2>3, <2>4
<1>2. th' \in [Thread -> Local] /\ limit' \in Int /\ role' \in Roles
  BY ThreadTypes, LimitStep DEF Shape, Types
<1> QED
  BY <1>1, <1>2, TablesStep, LivesTyped DEF Types

-----------------------------------------------------------------------------
(* The vectors of a call.                                                  *)

(* The vector that a call works on,                                        *)
LEMMA ThreadVec ==
  ASSUME Shape, NEW t \in Thread, Moves(t)
  PROVE  \/ th'[t].vec \in {Null, vec'}
         \/ th'[t].vec = th[t].vec /\ vec' = vec /\ th[t].vec # Null
<1>c. CallOK(t) /\ th[t] \in Local
  BY DEF Shape, CallsOK, Types
<1> DEFINE Goal == \/ th'[t].vec \in {Null, vec'}
                   \/ th'[t].vec = th[t].vec /\ vec' = vec /\ th[t].vec # Null
<1>1. CASE ProbeFree(t)
  <2>1. /\ At(t, "probe") /\ Here(t).key = FREE
        /\ th'[t] = [th[t] EXCEPT !.pc = IF Puts(t) THEN "limit" ELSE "answer"]
    BY <1>1, ProbeFreeDoes
  <2>2. vec' = vec /\ limit' = limit /\ lock' = lock
    BY <1>1, ProbeFreeFrame
  <2> QED
    BY <2>1, <2>2, <1>c DEF CallOK, At, Local
<1>2. CASE ProbeMatch(t)
  <2>1. /\ At(t, "probe") /\ Here(t).key \notin Word /\ Here(t).key[1] = th[t].key
        /\ th'[t] = [th[t] EXCEPT !.pc = "value"]
    BY <1>2, ProbeMatchDoes
  <2>2. vec' = vec /\ limit' = limit /\ lock' = lock
    BY <1>2, ProbeMatchFrame
  <2> QED
    BY <2>1, <2>2, <1>c DEF CallOK, At, Local
<1>3. CASE ProbeNext(t)
  <2>1. /\ At(t, "probe") /\ Passed(t, th[t].ix)
        /\ \/ /\ th[t].ix + 1 < Size(th[t].vec)
             /\ th'[t] = [th[t] EXCEPT !.ix = th[t].ix + 1]
           \/ /\ ~(th[t].ix + 1 < Size(th[t].vec)) /\ Puts(t)
             /\ th'[t] = [th[t] EXCEPT !.pc = "wild"]
           \/ ~Puts(t) /\ th'[t] = [th[t] EXCEPT !.pc = "answer"]
    BY <1>3, ProbeNextDoes
  <2>2. vec' = vec /\ limit' = limit /\ lock' = lock
    BY <1>3, ProbeNextFrame
  <2> QED
    BY <2>1, <2>2, <1>c DEF CallOK, At, Local
<1>4. CASE FindValue(t)
  <2>1. /\ At(t, "value") /\ th[t].op = "find"
        /\ \E d \in ValObj \cup Word \cup {Null} :
            th'[t] = [th[t] EXCEPT !.pc = "answer", !.word = d]
    BY <1>4, FindValueDoes
  <2>2. vec' = vec /\ limit' = limit /\ lock' = lock
    BY <1>4, FindValueFrame
  <2> QED
    BY <2>1, <2>2, <1>c DEF CallOK, At, Local
<1>5. CASE Answer(t)
  <2>1. /\ At(t, "answer")
        /\ th'[t] = Rest
    BY <1>5, AnswerDoes
  <2>2. vec' = vec /\ limit' = limit /\ lock' = lock
    BY <1>5, AnswerFrame
  <2> QED
    BY <2>1, <2>2, <1>c DEF CallOK, At, Local, Rest
<1>6. CASE PutValue(t)
  <2>1. /\ At(t, "value") /\ Puts(t) /\ Usable(Here(t))
        /\ \E v \in ValObj :
            /\ th[t].op = "insert" => v = th[t].own
            /\ th'[t] = [th[t] EXCEPT !.pc = "swap", !.word = Here(t).val, !.own = v]
    BY <1>6, PutValueDoes
  <2>2. vec' = vec /\ limit' = limit /\ lock' = lock
    BY <1>6, PutValueFrame
  <2> QED
    BY <2>1, <2>2, <1>c DEF CallOK, At, Local
<1>7. CASE UpdateInPlace(t)
  <2>1. /\ At(t, "value") /\ th[t].op = "update"
        /\ th'[t] = Rest
    BY <1>7, UpdateInPlaceDoes
  <2>2. vec' = vec /\ limit' = limit /\ lock' = lock
    BY <1>7, UpdateInPlaceFrame
  <2> QED
    BY <2>1, <2>2, <1>c DEF CallOK, At, Local, Rest
<1>8. CASE SwapValue(t)
  <2>1. /\ At(t, "swap") /\ Here(t).val = th[t].word /\ ~Here(t).x
        /\ th'[t] = Rest
    BY <1>8, SwapValueDoes
  <2>2. vec' = vec /\ limit' = limit /\ lock' = lock
    BY <1>8, SwapValueFrame
  <2> QED
    BY <2>1, <2>2, <1>c DEF CallOK, At, Local, Rest
<1>9. CASE DecrLimit(t)
  <2>1. /\ At(t, "limit") /\ limit > 0
        /\ \E k \in KeyObj, v \in ValObj :
            /\ th[t].kobj # Null => k = th[t].kobj
            /\ k[1] = th[t].key
            /\ th'[t] = [th[t] EXCEPT !.pc = "dcas", !.kobj = k, !.own = v]
    BY <1>9, DecrLimitDoes
  <2>2. vec' = vec /\ limit' = limit - 1 /\ lock' = lock
    BY <1>9, DecrLimitFrame
  <2> QED
    BY <2>1, <2>2, <1>c DEF CallOK, At, Local
<1>10. CASE PutWait(t)
  <2>1. /\ At(t, "limit") \/ (At(t, "value") /\ Puts(t))
        /\ th'[t] = [th[t] EXCEPT !.pc = "rehash"]
    BY <1>10, PutWaitDoes
  <2>2. vec' = vec /\ limit' = limit /\ lock' = lock
    BY <1>10, PutWaitFrame
  <2> QED
    BY <2>1, <2>2, <1>c DEF CallOK, At, Local
<1>11. CASE FillSlot(t)
  <2>1. /\ At(t, "dcas") /\ Here(t) = EmptySlot
        /\ th'[t] = [th[t] EXCEPT !.pc = "count"]
    BY <1>11, FillSlotDoes
  <2>2. vec' = vec /\ limit' = limit /\ lock' = lock
    BY <1>11, FillSlotFrame
  <2> QED
    BY <2>1, <2>2, <1>c DEF CallOK, At, Local
<1>12. CASE StoreFails(t)
  <2>1. /\ At(t, "swap") \/ At(t, "dcas")
        /\ th'[t].pc = "probe" /\ th'[t].op = th[t].op /\ th'[t].key = th[t].key /\ th'[t].vec = vec /\ th'[t].ix = 0
        /\ th'[t].own = Kept(t) /\ th'[t].kobj = th[t].kobj /\ th'[t].word = Null /\ th'[t].np = Null /\ th'[t].met = {}
    BY <1>12, StoreFailsDoes
  <2>2. vec' = vec /\ limit' = limit /\ lock' = lock
    BY <1>12, StoreFailsFrame
  <2> QED
    BY <2>1, <2>2, <1>c DEF CallOK, At, Local
<1>13. CASE CountUp(t)
  <2>1. /\ At(t, "count")
        /\ th'[t] = Rest
    BY <1>13, CountUpDoes
  <2>2. vec' = vec /\ limit' = limit /\ lock' = lock
    BY <1>13, CountUpFrame
  <2> QED
    BY <2>1, <2>2, <1>c DEF CallOK, At, Local, Rest
<1>14. CASE OldKey(t)
  <2>1. /\ At(t, "value") /\ th[t].op = "erase"
        /\ th'[t] = [th[t] EXCEPT !.pc = "oldval", !.kobj = Here(t).key]
    BY <1>14, OldKeyDoes
  <2>2. vec' = vec /\ limit' = limit /\ lock' = lock
    BY <1>14, OldKeyFrame
  <2> QED
    BY <2>1, <2>2, <1>c DEF CallOK, At, Local
<1>15. CASE OldValue(t)
  <2>1. /\ At(t, "oldval")
        /\ \E l \in {"take", "rehash", "answer"}, o \in KeyObj \cup {Null}, d \in ValObj \cup {Null} :
            /\ l = "take" => /\ o = th[t].kobj /\ o # Null /\ d # Null
                           /\ ~Here(t).x /\ d = Here(t).val
            /\ l # "take" => o = Null /\ d = th[t].word
            /\ th'[t] = [th[t] EXCEPT !.pc = l, !.word = d, !.kobj = o]
    BY <1>15, OldValueDoes
  <2>2. vec' = vec /\ limit' = limit /\ lock' = lock
    BY <1>15, OldValueFrame
  <2> QED
    BY <2>1, <2>2, <1>c DEF CallOK, At, Local
<1>16. CASE TakeValue(t)
  <2>1. /\ At(t, "take") /\ Here(t).val = th[t].word /\ ~Here(t).x
        /\ th'[t] = [th[t] EXCEPT !.pc = "uncount"]
    BY <1>16, TakeValueDoes
  <2>2. vec' = vec /\ limit' = limit /\ lock' = lock
    BY <1>16, TakeValueFrame
  <2> QED
    BY <2>1, <2>2, <1>c DEF CallOK, At, Local
<1>17. CASE TakeFails(t)
  <2>1. /\ At(t, "take")
        /\ th'[t].pc = "probe" /\ th'[t].op = "erase" /\ th'[t].key = th[t].key /\ th'[t].vec = vec /\ th'[t].ix = 0
        /\ th'[t].own = Null /\ th'[t].kobj = Null /\ th'[t].word = Null /\ th'[t].np = Null /\ th'[t].met = {}
    BY <1>17, TakeFailsDoes
  <2>2. vec' = vec /\ limit' = limit /\ lock' = lock
    BY <1>17, TakeFailsFrame
  <2> QED
    BY <2>1, <2>2, <1>c DEF CallOK, At, Local
<1>18. CASE CountDown(t)
  <2>1. /\ At(t, "uncount")
        /\ th'[t] = [th[t] EXCEPT !.pc = "bury"]
    BY <1>18, CountDownDoes
  <2>2. vec' = vec /\ limit' = limit /\ lock' = lock
    BY <1>18, CountDownFrame
  <2> QED
    BY <2>1, <2>2, <1>c DEF CallOK, At, Local
<1>19. CASE Bury(t)
  <2>1. /\ At(t, "bury")
        /\ th'[t] = Rest
    BY <1>19, BuryDoes
  <2>2. vec' = vec /\ limit' = limit /\ lock' = lock
    BY <1>19, BuryFrame
  <2> QED
    BY <2>1, <2>2, <1>c DEF CallOK, At, Local, Rest
<1>20. CASE NoRehash(t)
  <2>1. /\ At(t, "rehash") /\ lock = Null
        /\ th'[t].pc = "probe" /\ th'[t].op = th[t].op /\ th'[t].key = th[t].key /\ th'[t].vec = vec /\ th'[t].ix = 0
        /\ th'[t].own = th[t].own /\ th'[t].kobj = th[t].kobj /\ th'[t].word = Null /\ th'[t].np = Null /\ th'[t].met = {}
    BY <1>20, NoRehashDoes
  <2>2. vec' = vec /\ limit' = limit /\ lock' = lock
    BY <1>20, NoRehashFrame
  <2> QED
    BY <2>1, <2>2, <1>c DEF CallOK, At, Local
<1>21. CASE RehashStart(t)
  <2>1. /\ At(t, "rehash") /\ lock = Null /\ limit <= 0
        /\ \E w \in Vector : life[w] = "free" /\
            th'[t] = [th[t] EXCEPT !.pc = "copykey", !.vec = vec, !.ix = 0, !.word = Null, !.np = w]
    BY <1>21, RehashStartDoes
  <2>2. vec' = vec /\ limit' = limit /\ lock' = t
    BY <1>21, RehashStartFrame
  <2> QED
    BY <2>1, <2>2, <1>c DEF CallOK, At, Local
<1>22. CASE OutOfMemory(t)
  <2>1. /\ At(t, "limit") \/ At(t, "rehash")
        /\ th'[t] = Rest
    BY <1>22, OutOfMemoryDoes
  <2>2. vec' = vec /\ limit' \in {limit, limit - 1} /\ lock' = lock
    BY <1>22, OutOfMemoryFrame
  <2> QED
    BY <2>1, <2>2, <1>c DEF CallOK, At, Local, Rest
<1>23. CASE CopyKey(t)
  <2>1. /\ At(t, "copykey")
        /\ th'[t] = [th[t] EXCEPT !.pc = "copyval", !.word = This(t).key]
    BY <1>23, CopyKeyDoes
  <2>2. vec' = vec /\ limit' = limit /\ lock' = lock
    BY <1>23, CopyKeyFrame
  <2> QED
    BY <2>1, <2>2, <1>c DEF CallOK, At, Local
<1>24. CASE CopyValue(t)
  <2>1. /\ At(t, "copyval")
        /\ \/ /\ th[t].ix + 1 < Size(th[t].vec)
             /\ th'[t] = [th[t] EXCEPT !.pc = "copykey", !.ix = th[t].ix + 1, !.word = Null]
           \/ /\ ~(th[t].ix + 1 < Size(th[t].vec))
             /\ th'[t] = [th[t] EXCEPT !.pc = "setlimit", !.ix = 0, !.word = Null]
    BY <1>24, CopyValueDoes
  <2>2. vec' = vec /\ limit' = limit /\ lock' = lock
    BY <1>24, CopyValueFrame
  <2> QED
    BY <2>1, <2>2, <1>c DEF CallOK, At, Local
<1>25. CASE SetLimit(t)
  <2>1. /\ At(t, "setlimit")
        /\ th'[t] = [th[t] EXCEPT !.pc = "install"]
    BY <1>25, SetLimitDoes
  <2>2. vec' = vec /\ lock' = lock /\ limit' = Fsize(Size(th[t].np)) - Cardinality(LiveSlots(th[t].np))
    BY <1>25, SetLimitFrame
  <2> QED
    BY <2>1, <2>2, <1>c DEF CallOK, At, Local
<1>26. CASE Install(t)
  <2>1. /\ At(t, "install") /\ th[t].op # "assign"
        /\ th'[t].pc = "probe" /\ th'[t].op = th[t].op /\ th'[t].key = th[t].key /\ th'[t].vec = th[t].np /\ th'[t].ix = 0
        /\ th'[t].own = th[t].own /\ th'[t].kobj = th[t].kobj /\ th'[t].word = Null /\ th'[t].np = Null /\ th'[t].met = {}
    BY <1>26, InstallDoes
  <2>2. vec' = th[t].np /\ limit' = limit /\ lock' = Null
    BY <1>26, InstallFrame
  <2> QED
    BY <2>1, <2>2, <1>c DEF CallOK, At, Local
<1>27. CASE AssignAcquire(t)
  <2>1. /\ At(t, "acquire") /\ th[t].op = "assign" /\ lock = Null
        /\ th'[t] = [th[t] EXCEPT !.pc = "mark", !.vec = vec]
    BY <1>27, AssignAcquireDoes
  <2>2. vec' = vec /\ limit' = limit /\ lock' = t
    BY <1>27, AssignAcquireFrame
  <2> QED
    BY <2>1, <2>2, <1>c DEF CallOK, At, Local
<1>28. CASE Mark(t)
  <2>1. /\ At(t, "mark") /\ th[t].ix < Size(th[t].vec)
        /\ \E o \in ValObj \cup {Null} :
            th'[t] = [th[t] EXCEPT !.ix = th[t].ix + 1, !.own = o]
    BY <1>28, MarkDoes
  <2>2. vec' = vec /\ limit' = limit /\ lock' = lock
    BY <1>28, MarkFrame
  <2> QED
    BY <2>1, <2>2, <1>c DEF CallOK, At, Local
<1>29. CASE AssignLimit(t)
  <2>1. /\ At(t, "mark") /\ th[t].ix = Size(th[t].vec)
        /\ th'[t] = [th[t] EXCEPT !.pc = "install"]
    BY <1>29, AssignLimitDoes
  <2>2. vec' = vec /\ lock' = lock /\ limit' = Fsize(Size(th[t].np)) - tab[th[t].np].n
    BY <1>29, AssignLimitFrame
  <2> QED
    BY <2>1, <2>2, <1>c DEF CallOK, At, Local
<1>30. CASE AssignInstall(t)
  <2>1. /\ At(t, "install") /\ th[t].op = "assign"
        /\ th'[t] = Rest
    BY <1>30, AssignInstallDoes
  <2>2. vec' = th[t].np /\ limit' = limit /\ lock' = Null
    BY <1>30, AssignInstallFrame
  <2> QED
    BY <2>1, <2>2, <1>c DEF CallOK, At, Local, Rest
<1>31. CASE ClearAcquire(t)
  <2>1. /\ At(t, "acquire") /\ th[t].op = "clear" /\ lock = Null
        /\ th'[t] = [th[t] EXCEPT !.pc = "clrkey", !.vec = vec]
    BY <1>31, ClearAcquireDoes
  <2>2. vec' = vec /\ limit' = 0 /\ lock' = t
    BY <1>31, ClearAcquireFrame
  <2> QED
    BY <2>1, <2>2, <1>c DEF CallOK, At, Local
<1>32. CASE ClearReadKey(t)
  <2>1. /\ At(t, "clrkey")
        /\ th'[t] = [th[t] EXCEPT !.pc = "clrput", !.kobj = This(t).key]
    BY <1>32, ClearReadKeyDoes
  <2>2. vec' = vec /\ limit' = limit /\ lock' = lock
    BY <1>32, ClearReadKeyFrame
  <2> QED
    BY <2>1, <2>2, <1>c DEF CallOK, At, Local
<1>33. CASE ClearFreeKey(t)
  <2>1. /\ At(t, "clrput")
        /\ th'[t] = [th[t] EXCEPT !.pc = "clrval"]
    BY <1>33, ClearFreeKeyDoes
  <2>2. vec' = vec /\ limit' = limit /\ lock' = lock
    BY <1>33, ClearFreeKeyFrame
  <2> QED
    BY <2>1, <2>2, <1>c DEF CallOK, At, Local
<1>34. CASE ClearFreeValue(t)
  <2>1. /\ At(t, "clrval")
        /\ \/ /\ th[t].ix + 1 < Size(th[t].vec)
             /\ \E o \in ValObj \cup {Null} :
                  th'[t] = [th[t] EXCEPT !.pc = "clrkey", !.ix = th[t].ix + 1, !.kobj = Null, !.own = o]
           \/ /\ ~(th[t].ix + 1 < Size(th[t].vec))
             /\ \E o \in ValObj \cup {Null} :
                  th'[t] = [th[t] EXCEPT !.pc = "clrlimit", !.ix = 0, !.kobj = Null, !.own = o]
    BY <1>34, ClearFreeValueDoes
  <2>2. vec' = vec /\ limit' = limit /\ lock' = lock
    BY <1>34, ClearFreeValueFrame
  <2> QED
    BY <2>1, <2>2, <1>c DEF CallOK, At, Local
<1>35. CASE ClearSetLimit(t)
  <2>1. /\ At(t, "clrlimit")
        /\ th'[t] = [th[t] EXCEPT !.pc = "clrcount"]
    BY <1>35, ClearSetLimitDoes
  <2>2. vec' = vec /\ lock' = lock /\ limit' = Fsize(tab[vec].n)
    BY <1>35, ClearSetLimitFrame
  <2> QED
    BY <2>1, <2>2, <1>c DEF CallOK, At, Local
<1>36. CASE ClearDone(t)
  <2>1. /\ At(t, "clrcount")
        /\ th'[t] = Rest
    BY <1>36, ClearDoneDoes
  <2>2. vec' = vec /\ limit' = limit /\ lock' = Null
    BY <1>36, ClearDoneFrame
  <2> QED
    BY <2>1, <2>2, <1>c DEF CallOK, At, Local, Rest
<1>37. CASE WalkKey(t)
  <2>1. /\ At(t, "walk") /\ th[t].ix < Size(th[t].vec)
        /\ \/ th'[t] = [th[t] EXCEPT !.ix = th[t].ix + 1]
           \/ This(t).key # FREE /\ th'[t] = [th[t] EXCEPT !.pc = "walkval", !.word = This(t).key]
    BY <1>37, WalkKeyDoes
  <2>2. vec' = vec /\ limit' = limit /\ lock' = lock
    BY <1>37, WalkKeyFrame
  <2> QED
    BY <2>1, <2>2, <1>c DEF CallOK, At, Local
<1>38. CASE WalkValue(t)
  <2>1. /\ At(t, "walkval")
        /\ \E m \in SUBSET Key :
            th'[t] = [th[t] EXCEPT !.pc = "walk", !.ix = th[t].ix + 1, !.word = Null, !.met = m]
    BY <1>38, WalkValueDoes
  <2>2. vec' = vec /\ limit' = limit /\ lock' = lock
    BY <1>38, WalkValueFrame
  <2> QED
    BY <2>1, <2>2, <1>c DEF CallOK, At, Local
<1>39. CASE WalkEnd(t)
  <2>1. /\ At(t, "walk")
        /\ th'[t] = Rest
    BY <1>39, WalkEndDoes
  <2>2. vec' = vec /\ limit' = limit /\ lock' = lock
    BY <1>39, WalkEndFrame
  <2> QED
    BY <2>1, <2>2, <1>c DEF CallOK, At, Local, Rest
<1>40. CASE ClearStart(t)
  <2>1. /\ At(t, "idle")
        /\ th'[t].pc = "acquire" /\ th'[t].op = "clear" /\ th'[t].key = Null /\ th'[t].vec = Null /\ th'[t].ix = 0
        /\ th'[t].own = Null /\ th'[t].kobj = Null /\ th'[t].word = Null /\ th'[t].np = Null /\ th'[t].met = {}
    BY <1>40, ClearStartDoes
  <2>2. vec' = vec /\ limit' = limit /\ lock' = lock
    BY <1>40, ClearStartFrame
  <2> QED
    BY <2>1, <2>2, <1>c DEF CallOK, At, Local
<1>41. CASE WalkStart(t)
  <2>1. /\ At(t, "idle")
        /\ th'[t].pc = "walk" /\ th'[t].op = "walk" /\ th'[t].key = Null /\ th'[t].vec = vec /\ th'[t].ix = 0
        /\ th'[t].own = Null /\ th'[t].kobj = Null /\ th'[t].word = Null /\ th'[t].np = Null /\ th'[t].met = {}
    BY <1>41, WalkStartDoes
  <2>2. vec' = vec /\ limit' = limit /\ lock' = lock
    BY <1>41, WalkStartFrame
  <2> QED
    BY <2>1, <2>2, <1>c DEF CallOK, At, Local
<1>42. ASSUME NEW k \in Key, LookupStart(t, k) PROVE Goal
  BY <1>42, LookupStartDoes, LookupStartFrame
<1>43. ASSUME NEW k \in Key, InsertStart(t, k) PROVE Goal
  BY <1>43, InsertStartDoes, InsertStartFrame
<1>44. ASSUME NEW k \in Key, AssignStart(t, k) PROVE Goal
  BY <1>44, AssignStartDoes, AssignStartFrame
<1> QED
  BY <1>1, <1>2, <1>3, <1>4, <1>5, <1>6, <1>7, <1>8, <1>9, <1>10, <1>11, <1>12, <1>13, <1>14, <1>15, <1>16, <1>17, <1>18, <1>19, <1>20, <1>21, <1>22, <1>23, <1>24, <1>25, <1>26, <1>27, <1>28, <1>29, <1>30, <1>31, <1>32, <1>33, <1>34, <1>35, <1>36, <1>37, <1>38, <1>39, <1>40, <1>41, <1>42, <1>43, <1>44 DEF Moves, Start, Proceed

(* and the one that it makes.                                              *)
LEMMA ThreadNp ==
  ASSUME Shape, NEW t \in Thread, Moves(t)
  PROVE  \/ th'[t].np = Null
         \/ th'[t].np = th[t].np /\ vec' = vec
         \/ /\ th[t].np = Null /\ vec' = vec /\ th'[t].np \in Vector
            /\ life[th'[t].np] = "free" /\ life'[th'[t].np] = "live"
            /\ RehashStart(t) \/ \E k \in Key : AssignStart(t, k)
<1>c. CallOK(t) /\ th[t] \in Local
  BY DEF Shape, CallsOK, Types
<1> DEFINE New == /\ th[t].np = Null /\ vec' = vec /\ th'[t].np \in Vector
                  /\ life[th'[t].np] = "free" /\ life'[th'[t].np] = "live"
           Goal == \/ th'[t].np = Null
                   \/ th'[t].np = th[t].np /\ vec' = vec
                   \/ New /\ (RehashStart(t) \/ \E k \in Key : AssignStart(t, k))
<1>1. CASE ProbeFree(t)
  <2>1. /\ At(t, "probe") /\ Here(t).key = FREE
        /\ th'[t] = [th[t] EXCEPT !.pc = IF Puts(t) THEN "limit" ELSE "answer"]
    BY <1>1, ProbeFreeDoes
  <2>2. vec' = vec /\ limit' = limit /\ lock' = lock
    BY <1>1, ProbeFreeFrame
  <2> QED
    BY <2>1, <2>2, <1>c DEF CallOK, At, Local
<1>2. CASE ProbeMatch(t)
  <2>1. /\ At(t, "probe") /\ Here(t).key \notin Word /\ Here(t).key[1] = th[t].key
        /\ th'[t] = [th[t] EXCEPT !.pc = "value"]
    BY <1>2, ProbeMatchDoes
  <2>2. vec' = vec /\ limit' = limit /\ lock' = lock
    BY <1>2, ProbeMatchFrame
  <2> QED
    BY <2>1, <2>2, <1>c DEF CallOK, At, Local
<1>3. CASE ProbeNext(t)
  <2>1. /\ At(t, "probe") /\ Passed(t, th[t].ix)
        /\ \/ /\ th[t].ix + 1 < Size(th[t].vec)
             /\ th'[t] = [th[t] EXCEPT !.ix = th[t].ix + 1]
           \/ /\ ~(th[t].ix + 1 < Size(th[t].vec)) /\ Puts(t)
             /\ th'[t] = [th[t] EXCEPT !.pc = "wild"]
           \/ ~Puts(t) /\ th'[t] = [th[t] EXCEPT !.pc = "answer"]
    BY <1>3, ProbeNextDoes
  <2>2. vec' = vec /\ limit' = limit /\ lock' = lock
    BY <1>3, ProbeNextFrame
  <2> QED
    BY <2>1, <2>2, <1>c DEF CallOK, At, Local
<1>4. CASE FindValue(t)
  <2>1. /\ At(t, "value") /\ th[t].op = "find"
        /\ \E d \in ValObj \cup Word \cup {Null} :
            th'[t] = [th[t] EXCEPT !.pc = "answer", !.word = d]
    BY <1>4, FindValueDoes
  <2>2. vec' = vec /\ limit' = limit /\ lock' = lock
    BY <1>4, FindValueFrame
  <2> QED
    BY <2>1, <2>2, <1>c DEF CallOK, At, Local
<1>5. CASE Answer(t)
  <2>1. /\ At(t, "answer")
        /\ th'[t] = Rest
    BY <1>5, AnswerDoes
  <2>2. vec' = vec /\ limit' = limit /\ lock' = lock
    BY <1>5, AnswerFrame
  <2> QED
    BY <2>1, <2>2, <1>c DEF CallOK, At, Local, Rest
<1>6. CASE PutValue(t)
  <2>1. /\ At(t, "value") /\ Puts(t) /\ Usable(Here(t))
        /\ \E v \in ValObj :
            /\ th[t].op = "insert" => v = th[t].own
            /\ th'[t] = [th[t] EXCEPT !.pc = "swap", !.word = Here(t).val, !.own = v]
    BY <1>6, PutValueDoes
  <2>2. vec' = vec /\ limit' = limit /\ lock' = lock
    BY <1>6, PutValueFrame
  <2> QED
    BY <2>1, <2>2, <1>c DEF CallOK, At, Local
<1>7. CASE UpdateInPlace(t)
  <2>1. /\ At(t, "value") /\ th[t].op = "update"
        /\ th'[t] = Rest
    BY <1>7, UpdateInPlaceDoes
  <2>2. vec' = vec /\ limit' = limit /\ lock' = lock
    BY <1>7, UpdateInPlaceFrame
  <2> QED
    BY <2>1, <2>2, <1>c DEF CallOK, At, Local, Rest
<1>8. CASE SwapValue(t)
  <2>1. /\ At(t, "swap") /\ Here(t).val = th[t].word /\ ~Here(t).x
        /\ th'[t] = Rest
    BY <1>8, SwapValueDoes
  <2>2. vec' = vec /\ limit' = limit /\ lock' = lock
    BY <1>8, SwapValueFrame
  <2> QED
    BY <2>1, <2>2, <1>c DEF CallOK, At, Local, Rest
<1>9. CASE DecrLimit(t)
  <2>1. /\ At(t, "limit") /\ limit > 0
        /\ \E k \in KeyObj, v \in ValObj :
            /\ th[t].kobj # Null => k = th[t].kobj
            /\ k[1] = th[t].key
            /\ th'[t] = [th[t] EXCEPT !.pc = "dcas", !.kobj = k, !.own = v]
    BY <1>9, DecrLimitDoes
  <2>2. vec' = vec /\ limit' = limit - 1 /\ lock' = lock
    BY <1>9, DecrLimitFrame
  <2> QED
    BY <2>1, <2>2, <1>c DEF CallOK, At, Local
<1>10. CASE PutWait(t)
  <2>1. /\ At(t, "limit") \/ (At(t, "value") /\ Puts(t))
        /\ th'[t] = [th[t] EXCEPT !.pc = "rehash"]
    BY <1>10, PutWaitDoes
  <2>2. vec' = vec /\ limit' = limit /\ lock' = lock
    BY <1>10, PutWaitFrame
  <2> QED
    BY <2>1, <2>2, <1>c DEF CallOK, At, Local
<1>11. CASE FillSlot(t)
  <2>1. /\ At(t, "dcas") /\ Here(t) = EmptySlot
        /\ th'[t] = [th[t] EXCEPT !.pc = "count"]
    BY <1>11, FillSlotDoes
  <2>2. vec' = vec /\ limit' = limit /\ lock' = lock
    BY <1>11, FillSlotFrame
  <2> QED
    BY <2>1, <2>2, <1>c DEF CallOK, At, Local
<1>12. CASE StoreFails(t)
  <2>1. /\ At(t, "swap") \/ At(t, "dcas")
        /\ th'[t].pc = "probe" /\ th'[t].op = th[t].op /\ th'[t].key = th[t].key /\ th'[t].vec = vec /\ th'[t].ix = 0
        /\ th'[t].own = Kept(t) /\ th'[t].kobj = th[t].kobj /\ th'[t].word = Null /\ th'[t].np = Null /\ th'[t].met = {}
    BY <1>12, StoreFailsDoes
  <2>2. vec' = vec /\ limit' = limit /\ lock' = lock
    BY <1>12, StoreFailsFrame
  <2> QED
    BY <2>1, <2>2, <1>c DEF CallOK, At, Local
<1>13. CASE CountUp(t)
  <2>1. /\ At(t, "count")
        /\ th'[t] = Rest
    BY <1>13, CountUpDoes
  <2>2. vec' = vec /\ limit' = limit /\ lock' = lock
    BY <1>13, CountUpFrame
  <2> QED
    BY <2>1, <2>2, <1>c DEF CallOK, At, Local, Rest
<1>14. CASE OldKey(t)
  <2>1. /\ At(t, "value") /\ th[t].op = "erase"
        /\ th'[t] = [th[t] EXCEPT !.pc = "oldval", !.kobj = Here(t).key]
    BY <1>14, OldKeyDoes
  <2>2. vec' = vec /\ limit' = limit /\ lock' = lock
    BY <1>14, OldKeyFrame
  <2> QED
    BY <2>1, <2>2, <1>c DEF CallOK, At, Local
<1>15. CASE OldValue(t)
  <2>1. /\ At(t, "oldval")
        /\ \E l \in {"take", "rehash", "answer"}, o \in KeyObj \cup {Null}, d \in ValObj \cup {Null} :
            /\ l = "take" => /\ o = th[t].kobj /\ o # Null /\ d # Null
                           /\ ~Here(t).x /\ d = Here(t).val
            /\ l # "take" => o = Null /\ d = th[t].word
            /\ th'[t] = [th[t] EXCEPT !.pc = l, !.word = d, !.kobj = o]
    BY <1>15, OldValueDoes
  <2>2. vec' = vec /\ limit' = limit /\ lock' = lock
    BY <1>15, OldValueFrame
  <2> QED
    BY <2>1, <2>2, <1>c DEF CallOK, At, Local
<1>16. CASE TakeValue(t)
  <2>1. /\ At(t, "take") /\ Here(t).val = th[t].word /\ ~Here(t).x
        /\ th'[t] = [th[t] EXCEPT !.pc = "uncount"]
    BY <1>16, TakeValueDoes
  <2>2. vec' = vec /\ limit' = limit /\ lock' = lock
    BY <1>16, TakeValueFrame
  <2> QED
    BY <2>1, <2>2, <1>c DEF CallOK, At, Local
<1>17. CASE TakeFails(t)
  <2>1. /\ At(t, "take")
        /\ th'[t].pc = "probe" /\ th'[t].op = "erase" /\ th'[t].key = th[t].key /\ th'[t].vec = vec /\ th'[t].ix = 0
        /\ th'[t].own = Null /\ th'[t].kobj = Null /\ th'[t].word = Null /\ th'[t].np = Null /\ th'[t].met = {}
    BY <1>17, TakeFailsDoes
  <2>2. vec' = vec /\ limit' = limit /\ lock' = lock
    BY <1>17, TakeFailsFrame
  <2> QED
    BY <2>1, <2>2, <1>c DEF CallOK, At, Local
<1>18. CASE CountDown(t)
  <2>1. /\ At(t, "uncount")
        /\ th'[t] = [th[t] EXCEPT !.pc = "bury"]
    BY <1>18, CountDownDoes
  <2>2. vec' = vec /\ limit' = limit /\ lock' = lock
    BY <1>18, CountDownFrame
  <2> QED
    BY <2>1, <2>2, <1>c DEF CallOK, At, Local
<1>19. CASE Bury(t)
  <2>1. /\ At(t, "bury")
        /\ th'[t] = Rest
    BY <1>19, BuryDoes
  <2>2. vec' = vec /\ limit' = limit /\ lock' = lock
    BY <1>19, BuryFrame
  <2> QED
    BY <2>1, <2>2, <1>c DEF CallOK, At, Local, Rest
<1>20. CASE NoRehash(t)
  <2>1. /\ At(t, "rehash") /\ lock = Null
        /\ th'[t].pc = "probe" /\ th'[t].op = th[t].op /\ th'[t].key = th[t].key /\ th'[t].vec = vec /\ th'[t].ix = 0
        /\ th'[t].own = th[t].own /\ th'[t].kobj = th[t].kobj /\ th'[t].word = Null /\ th'[t].np = Null /\ th'[t].met = {}
    BY <1>20, NoRehashDoes
  <2>2. vec' = vec /\ limit' = limit /\ lock' = lock
    BY <1>20, NoRehashFrame
  <2> QED
    BY <2>1, <2>2, <1>c DEF CallOK, At, Local
<1>21. CASE RehashStart(t)
  <2>1. th[t].np = Null
    BY <1>21, <1>c DEF RehashStart, At, CallOK, Places, Copying, Storing, Erasing, Clearing
  <2> QED
    BY <1>21, <2>1, RehashStartMakes, RehashStartFrame DEF MadeTable
<1>22. CASE OutOfMemory(t)
  <2>1. /\ At(t, "limit") \/ At(t, "rehash")
        /\ th'[t] = Rest
    BY <1>22, OutOfMemoryDoes
  <2>2. vec' = vec /\ limit' \in {limit, limit - 1} /\ lock' = lock
    BY <1>22, OutOfMemoryFrame
  <2> QED
    BY <2>1, <2>2, <1>c DEF CallOK, At, Local, Rest
<1>23. CASE CopyKey(t)
  <2>1. /\ At(t, "copykey")
        /\ th'[t] = [th[t] EXCEPT !.pc = "copyval", !.word = This(t).key]
    BY <1>23, CopyKeyDoes
  <2>2. vec' = vec /\ limit' = limit /\ lock' = lock
    BY <1>23, CopyKeyFrame
  <2> QED
    BY <2>1, <2>2, <1>c DEF CallOK, At, Local
<1>24. CASE CopyValue(t)
  <2>1. /\ At(t, "copyval")
        /\ \/ /\ th[t].ix + 1 < Size(th[t].vec)
             /\ th'[t] = [th[t] EXCEPT !.pc = "copykey", !.ix = th[t].ix + 1, !.word = Null]
           \/ /\ ~(th[t].ix + 1 < Size(th[t].vec))
             /\ th'[t] = [th[t] EXCEPT !.pc = "setlimit", !.ix = 0, !.word = Null]
    BY <1>24, CopyValueDoes
  <2>2. vec' = vec /\ limit' = limit /\ lock' = lock
    BY <1>24, CopyValueFrame
  <2> QED
    BY <2>1, <2>2, <1>c DEF CallOK, At, Local
<1>25. CASE SetLimit(t)
  <2>1. /\ At(t, "setlimit")
        /\ th'[t] = [th[t] EXCEPT !.pc = "install"]
    BY <1>25, SetLimitDoes
  <2>2. vec' = vec /\ lock' = lock /\ limit' = Fsize(Size(th[t].np)) - Cardinality(LiveSlots(th[t].np))
    BY <1>25, SetLimitFrame
  <2> QED
    BY <2>1, <2>2, <1>c DEF CallOK, At, Local
<1>26. CASE Install(t)
  <2>1. /\ At(t, "install") /\ th[t].op # "assign"
        /\ th'[t].pc = "probe" /\ th'[t].op = th[t].op /\ th'[t].key = th[t].key /\ th'[t].vec = th[t].np /\ th'[t].ix = 0
        /\ th'[t].own = th[t].own /\ th'[t].kobj = th[t].kobj /\ th'[t].word = Null /\ th'[t].np = Null /\ th'[t].met = {}
    BY <1>26, InstallDoes
  <2>2. vec' = th[t].np /\ limit' = limit /\ lock' = Null
    BY <1>26, InstallFrame
  <2> QED
    BY <2>1, <2>2, <1>c DEF CallOK, At, Local
<1>27. CASE AssignAcquire(t)
  <2>1. /\ At(t, "acquire") /\ th[t].op = "assign" /\ lock = Null
        /\ th'[t] = [th[t] EXCEPT !.pc = "mark", !.vec = vec]
    BY <1>27, AssignAcquireDoes
  <2>2. vec' = vec /\ limit' = limit /\ lock' = t
    BY <1>27, AssignAcquireFrame
  <2> QED
    BY <2>1, <2>2, <1>c DEF CallOK, At, Local
<1>28. CASE Mark(t)
  <2>1. /\ At(t, "mark") /\ th[t].ix < Size(th[t].vec)
        /\ \E o \in ValObj \cup {Null} :
            th'[t] = [th[t] EXCEPT !.ix = th[t].ix + 1, !.own = o]
    BY <1>28, MarkDoes
  <2>2. vec' = vec /\ limit' = limit /\ lock' = lock
    BY <1>28, MarkFrame
  <2> QED
    BY <2>1, <2>2, <1>c DEF CallOK, At, Local
<1>29. CASE AssignLimit(t)
  <2>1. /\ At(t, "mark") /\ th[t].ix = Size(th[t].vec)
        /\ th'[t] = [th[t] EXCEPT !.pc = "install"]
    BY <1>29, AssignLimitDoes
  <2>2. vec' = vec /\ lock' = lock /\ limit' = Fsize(Size(th[t].np)) - tab[th[t].np].n
    BY <1>29, AssignLimitFrame
  <2> QED
    BY <2>1, <2>2, <1>c DEF CallOK, At, Local
<1>30. CASE AssignInstall(t)
  <2>1. /\ At(t, "install") /\ th[t].op = "assign"
        /\ th'[t] = Rest
    BY <1>30, AssignInstallDoes
  <2>2. vec' = th[t].np /\ limit' = limit /\ lock' = Null
    BY <1>30, AssignInstallFrame
  <2> QED
    BY <2>1, <2>2, <1>c DEF CallOK, At, Local, Rest
<1>31. CASE ClearAcquire(t)
  <2>1. /\ At(t, "acquire") /\ th[t].op = "clear" /\ lock = Null
        /\ th'[t] = [th[t] EXCEPT !.pc = "clrkey", !.vec = vec]
    BY <1>31, ClearAcquireDoes
  <2>2. vec' = vec /\ limit' = 0 /\ lock' = t
    BY <1>31, ClearAcquireFrame
  <2> QED
    BY <2>1, <2>2, <1>c DEF CallOK, At, Local
<1>32. CASE ClearReadKey(t)
  <2>1. /\ At(t, "clrkey")
        /\ th'[t] = [th[t] EXCEPT !.pc = "clrput", !.kobj = This(t).key]
    BY <1>32, ClearReadKeyDoes
  <2>2. vec' = vec /\ limit' = limit /\ lock' = lock
    BY <1>32, ClearReadKeyFrame
  <2> QED
    BY <2>1, <2>2, <1>c DEF CallOK, At, Local
<1>33. CASE ClearFreeKey(t)
  <2>1. /\ At(t, "clrput")
        /\ th'[t] = [th[t] EXCEPT !.pc = "clrval"]
    BY <1>33, ClearFreeKeyDoes
  <2>2. vec' = vec /\ limit' = limit /\ lock' = lock
    BY <1>33, ClearFreeKeyFrame
  <2> QED
    BY <2>1, <2>2, <1>c DEF CallOK, At, Local
<1>34. CASE ClearFreeValue(t)
  <2>1. /\ At(t, "clrval")
        /\ \/ /\ th[t].ix + 1 < Size(th[t].vec)
             /\ \E o \in ValObj \cup {Null} :
                  th'[t] = [th[t] EXCEPT !.pc = "clrkey", !.ix = th[t].ix + 1, !.kobj = Null, !.own = o]
           \/ /\ ~(th[t].ix + 1 < Size(th[t].vec))
             /\ \E o \in ValObj \cup {Null} :
                  th'[t] = [th[t] EXCEPT !.pc = "clrlimit", !.ix = 0, !.kobj = Null, !.own = o]
    BY <1>34, ClearFreeValueDoes
  <2>2. vec' = vec /\ limit' = limit /\ lock' = lock
    BY <1>34, ClearFreeValueFrame
  <2> QED
    BY <2>1, <2>2, <1>c DEF CallOK, At, Local
<1>35. CASE ClearSetLimit(t)
  <2>1. /\ At(t, "clrlimit")
        /\ th'[t] = [th[t] EXCEPT !.pc = "clrcount"]
    BY <1>35, ClearSetLimitDoes
  <2>2. vec' = vec /\ lock' = lock /\ limit' = Fsize(tab[vec].n)
    BY <1>35, ClearSetLimitFrame
  <2> QED
    BY <2>1, <2>2, <1>c DEF CallOK, At, Local
<1>36. CASE ClearDone(t)
  <2>1. /\ At(t, "clrcount")
        /\ th'[t] = Rest
    BY <1>36, ClearDoneDoes
  <2>2. vec' = vec /\ limit' = limit /\ lock' = Null
    BY <1>36, ClearDoneFrame
  <2> QED
    BY <2>1, <2>2, <1>c DEF CallOK, At, Local, Rest
<1>37. CASE WalkKey(t)
  <2>1. /\ At(t, "walk") /\ th[t].ix < Size(th[t].vec)
        /\ \/ th'[t] = [th[t] EXCEPT !.ix = th[t].ix + 1]
           \/ This(t).key # FREE /\ th'[t] = [th[t] EXCEPT !.pc = "walkval", !.word = This(t).key]
    BY <1>37, WalkKeyDoes
  <2>2. vec' = vec /\ limit' = limit /\ lock' = lock
    BY <1>37, WalkKeyFrame
  <2> QED
    BY <2>1, <2>2, <1>c DEF CallOK, At, Local
<1>38. CASE WalkValue(t)
  <2>1. /\ At(t, "walkval")
        /\ \E m \in SUBSET Key :
            th'[t] = [th[t] EXCEPT !.pc = "walk", !.ix = th[t].ix + 1, !.word = Null, !.met = m]
    BY <1>38, WalkValueDoes
  <2>2. vec' = vec /\ limit' = limit /\ lock' = lock
    BY <1>38, WalkValueFrame
  <2> QED
    BY <2>1, <2>2, <1>c DEF CallOK, At, Local
<1>39. CASE WalkEnd(t)
  <2>1. /\ At(t, "walk")
        /\ th'[t] = Rest
    BY <1>39, WalkEndDoes
  <2>2. vec' = vec /\ limit' = limit /\ lock' = lock
    BY <1>39, WalkEndFrame
  <2> QED
    BY <2>1, <2>2, <1>c DEF CallOK, At, Local, Rest
<1>40. CASE ClearStart(t)
  <2>1. /\ At(t, "idle")
        /\ th'[t].pc = "acquire" /\ th'[t].op = "clear" /\ th'[t].key = Null /\ th'[t].vec = Null /\ th'[t].ix = 0
        /\ th'[t].own = Null /\ th'[t].kobj = Null /\ th'[t].word = Null /\ th'[t].np = Null /\ th'[t].met = {}
    BY <1>40, ClearStartDoes
  <2>2. vec' = vec /\ limit' = limit /\ lock' = lock
    BY <1>40, ClearStartFrame
  <2> QED
    BY <2>1, <2>2, <1>c DEF CallOK, At, Local
<1>41. CASE WalkStart(t)
  <2>1. /\ At(t, "idle")
        /\ th'[t].pc = "walk" /\ th'[t].op = "walk" /\ th'[t].key = Null /\ th'[t].vec = vec /\ th'[t].ix = 0
        /\ th'[t].own = Null /\ th'[t].kobj = Null /\ th'[t].word = Null /\ th'[t].np = Null /\ th'[t].met = {}
    BY <1>41, WalkStartDoes
  <2>2. vec' = vec /\ limit' = limit /\ lock' = lock
    BY <1>41, WalkStartFrame
  <2> QED
    BY <2>1, <2>2, <1>c DEF CallOK, At, Local
<1>42. ASSUME NEW k \in Key, LookupStart(t, k) PROVE Goal
  BY <1>42, LookupStartDoes, LookupStartFrame
<1>43. ASSUME NEW k \in Key, InsertStart(t, k) PROVE Goal
  BY <1>43, InsertStartDoes, InsertStartFrame
<1>44. ASSUME NEW k \in Key, AssignStart(t, k) PROVE Goal
  <2>1. th[t].np = Null
    BY <1>44, <1>c, AssignStartDoes DEF At, CallOK, Places, Copying, Storing, Erasing, Clearing
  <2>2. th'[t].np \in Vector /\ life[th'[t].np] = "free" /\ life'[th'[t].np] = "live"
    BY <1>44, AssignStartMakes DEF MadeTable
  <2> QED
    BY <1>44, <2>1, <2>2, AssignStartFrame
<1> QED
  BY <1>1, <1>2, <1>3, <1>4, <1>5, <1>6, <1>7, <1>8, <1>9, <1>10, <1>11, <1>12, <1>13, <1>14, <1>15, <1>16, <1>17, <1>18, <1>19, <1>20, <1>21, <1>22, <1>23, <1>24, <1>25, <1>26, <1>27, <1>28, <1>29, <1>30, <1>31, <1>32, <1>33, <1>34, <1>35, <1>36, <1>37, <1>38, <1>39, <1>40, <1>41, <1>42, <1>43, <1>44 DEF Moves, Start, Proceed

(* Who has no vector is not in a section, or about to begin one.           *)
LEMMA VectorStepOK ==
  ASSUME Shape, AloneOK, RoomOK, NEW t \in Thread, Moves(t)
  PROVE  VectorsOK'
<1> USE DEF Shape
<1>1. \A w \in Vector : VectorStep(t, w)
  BY VectorsStep
<1>2. /\ life[vec] = "live" /\ vec \in Vector
      /\ \A w \in Vector :
           /\ life[w] # "twice" /\ (life[w] = "retired" => waits[w] # {})
           /\ tab[w].pidx = 0 <=> life[w] \in {"free", "gone"}
  BY DEF VectorsOK, Types
<1>3. /\ \A u \in Thread : th[u].vec \notin {Null, vec} =>
           /\ life[th[u].vec] = "retired" /\ u \in waits[th[u].vec]
      /\ \A u \in Thread : th[u].np # Null =>
           /\ life[th[u].np] = "live" /\ th[u].np # vec
           /\ \A v \in Thread :
                /\ th[v].vec # th[u].np
                /\ v # u => th[v].np # th[u].np
  BY DEF VectorsOK
<1>4. \A u \in Thread : th[u].vec \in Vector \cup {Null} /\ th[u].np \in Vector \cup {Null}
  BY DEF Types, Local
<1>5. \A u \in Thread \ {t} : th'[u] = th[u]
  BY ThreadTypes
<1>6. Install(t) \/ AssignInstall(t) => th[t].np # Null /\ th'[t].np = Null /\ vec' = th[t].np
  <2>1. Install(t) \/ AssignInstall(t) => th[t].np # Null
    BY DEF Install, AssignInstall, At, CallsOK, CallOK, Copying
  <2> QED
    BY <2>1, InstallDoes, AssignInstallDoes, InstallFrame, AssignInstallFrame DEF Rest
<1>7. vec' = vec \/ Install(t) \/ AssignInstall(t)
  BY ProbeFreeFrame, ProbeMatchFrame, ProbeNextFrame, FindValueFrame, AnswerFrame, PutValueFrame, UpdateInPlaceFrame, SwapValueFrame, DecrLimitFrame, PutWaitFrame, FillSlotFrame, StoreFailsFrame, CountUpFrame, OldKeyFrame, OldValueFrame, TakeValueFrame, TakeFailsFrame, CountDownFrame, BuryFrame, NoRehashFrame, RehashStartFrame, OutOfMemoryFrame, CopyKeyFrame, CopyValueFrame, SetLimitFrame, AssignAcquireFrame, MarkFrame, AssignLimitFrame, ClearAcquireFrame, ClearReadKeyFrame, ClearFreeKeyFrame, ClearFreeValueFrame, ClearSetLimitFrame, ClearDoneFrame, WalkKeyFrame, WalkValueFrame, WalkEndFrame, ClearStartFrame, WalkStartFrame, LookupStartFrame, InsertStartFrame, AssignStartFrame
    DEF Moves, Start, Proceed
<1>8. Rest.vec = Null /\ Rest.np = Null /\ \A w \in Vector : w # Null
  BY Names DEF Rest
<1>a. \A w \in Vector :
        VectorKept(t, w) =>
          /\ life[w] = "live" => life'[w] = "live"
          /\ life'[w] # "twice" /\ (life'[w] = "retired" => waits'[w] # {})
          /\ \A u \in Thread \ {t} : life[w] = "retired" /\ u \in waits[w] =>
               life'[w] = "retired" /\ u \in waits'[w]
          /\ life[w] = "retired" /\ t \in waits[w] /\ th'[t] # Rest =>
               life'[w] = "retired" /\ t \in waits'[w]
  BY <1>2 DEF VectorKept
<1>b. \A w \in Vector : VectorReplaced(t, w) =>
        /\ w = vec /\ vec' # vec /\ life'[w] \in {"gone", "retired"}
        /\ (life'[w] = "retired" => waits'[w] # {})
        /\ \A u \in Thread \ {t} : InCs(u) => life'[w] = "retired" /\ u \in waits'[w]
  BY <1>2, <1>3, <1>6 DEF VectorReplaced
<1>c. \A w \in Vector : VectorMade(t, w) =>
        life[w] = "free" /\ life'[w] = "live" /\ th'[t].np = w
  BY DEF VectorMade
<1>10. life'[vec'] = "live"
  <2>1. vec' \in Vector /\ life[vec'] = "live"
    BY <1>2, <1>3, <1>4, <1>6, <1>7
  <2>2. ~VectorReplaced(t, vec')
    BY <1>2, <1>b, <2>1
  <2> QED
    BY <1>1, <1>a, <1>c, <2>1, <2>2 DEF VectorStep
<1>11. ASSUME NEW w \in Vector
       PROVE  /\ life'[w] # "twice" /\ (life'[w] = "retired" => waits'[w] # {})
              /\ tab'[w].pidx = 0 <=> life'[w] \in {"free", "gone"}
  <2>1. life'[w] # "twice" /\ (life'[w] = "retired" => waits'[w] # {})
    BY <1>1, <1>a, <1>b, <1>c DEF VectorStep
  <2> QED
    BY <2>1, TablesStep
<1>12. ASSUME NEW u \in Thread, th'[u].vec \notin {Null, vec'}
       PROVE  life'[th'[u].vec] = "retired" /\ u \in waits'[th'[u].vec]
  <2> DEFINE x == th'[u].vec
  <2>1. CASE u # t /\ x = vec
    <3>1. th[u].vec = vec /\ (Install(t) \/ AssignInstall(t))
      BY <1>5, <1>7, <1>12, <2>1
    <3>2. InCs(u)
      <4>1. ~At(u, "idle") /\ th[u].op # "none"
        BY <1>2, <1>8, <3>1 DEF CallsOK, CallOK, At, Places
      <4>2. ~Exclusive(u)
        <5>1. ~At(t, "idle")
          BY <3>1 DEF Install, AssignInstall, At
        <5> QED
          BY <2>1, <5>1 DEF AloneOK
      <4> QED
        BY <4>1, <4>2 DEF InCs, Exclusive
    <3>3. VectorReplaced(t, vec)
      <4>1. ~VectorKept(t, vec)
        <5>1. Memory({}, {}, {vec}, {}) \/ Memory({}, {}, {vec}, {t})
          <6>1. th[t].vec = vec
            BY <3>1 DEF Install, AssignInstall, At, LockOK, Copying
          <6> QED
            BY <3>1, <6>1 DEF Install, AssignInstall, Done
        <5>2. life'[vec] # "live"
          <6>1. vec \in Obj /\ vec \notin {} \cup {} /\ vec \in {vec}
            BY <1>2, Names
          <6> QED
            BY <1>2, <5>1, <6>1, MemoryStep
        <5> QED
          BY <1>2, <1>a, <5>2
      <4> QED
        BY <1>1, <1>2, <1>c, <4>1 DEF VectorStep
    <3> QED
      BY <1>2, <1>b, <2>1, <3>2, <3>3
  <2>2. CASE u # t /\ x # vec
    <3>1. x \in Vector /\ life[x] = "retired" /\ u \in waits[x]
      BY <1>3, <1>4, <1>5, <1>12, <2>2
    <3> QED
      BY <1>1, <1>a, <1>b, <1>c, <2>2, <3>1 DEF VectorStep
  <2>3. CASE u = t
    <3>1. x = th[t].vec /\ vec' = vec /\ x \in Vector /\ life[x] = "retired" /\ t \in waits[x]
      BY <1>3, <1>4, <1>12, <2>3, ThreadVec
    <3>2. th'[t] # Rest /\ ~VectorReplaced(t, x)
      BY <1>8, <1>b, <1>12, <2>3, <3>1
    <3> QED
      BY <1>1, <1>a, <1>c, <2>3, <3>1, <3>2 DEF VectorStep
  <2> QED
    BY <2>1, <2>2, <2>3
<1>13. ASSUME NEW u \in Thread
       PROVE  th'[u].vec \in {Null, vec', th[u].vec}
  BY <1>5, ThreadVec
<1>14. ASSUME NEW u \in Thread, th'[u].np # Null
       PROVE  /\ life'[th'[u].np] = "live" /\ th'[u].np # vec'
              /\ \A v \in Thread :
                   /\ th'[v].vec # th'[u].np
                   /\ v # u => th'[v].np # th'[u].np
  <2> DEFINE x == th'[u].np
  <2>1. CASE x = th[u].np
    <3>1. /\ x \in Vector /\ life[x] = "live" /\ x # vec
          /\ \A v \in Thread : th[v].vec # x /\ (v # u => th[v].np # x)
      BY <1>3, <1>4, <1>14, <2>1
    <3>2. life'[x] = "live"
      BY <1>1, <1>a, <1>b, <1>c, <3>1 DEF VectorStep
    <3>3. x # vec'
      <4>1. CASE vec' = vec
        BY <3>1, <4>1
      <4>2. CASE Install(t) \/ AssignInstall(t)
        BY <1>6, <1>14, <3>1, <4>2
      <4> QED
        BY <1>7, <4>1, <4>2
    <3>4. \A v \in Thread : th'[v].vec # x
      BY <1>13, <1>14, <3>1, <3>3
    <3>5. ASSUME NEW v \in Thread \ {u} PROVE th'[v].np # x
      <4>1. CASE v # t
        BY <1>5, <3>1, <4>1
      <4>2. CASE v = t
        BY <1>14, <3>1, <4>2, ThreadNp
      <4> QED
        BY <4>1, <4>2
    <3> QED
      BY <3>2, <3>3, <3>4, <3>5
  <2>2. CASE x # th[u].np
    <3>1. /\ u = t /\ vec' = vec /\ x \in Vector /\ life[x] = "free" /\ life'[x] = "live"
      BY <1>5, <1>14, <2>2, ThreadNp
    <3>2. x # vec'
      BY <1>2, <3>1
    <3>3. \A v \in Thread : th[v].vec # x /\ th[v].np # x
      BY <1>2, <1>3, <1>8, <3>1
    <3>4. \A v \in Thread : th'[v].vec # x
      BY <1>13, <1>14, <3>2, <3>3
    <3> QED
      BY <1>5, <3>1, <3>2, <3>3, <3>4
  <2> QED
    BY <2>1, <2>2
<1> QED
  BY <1>10, <1>11, <1>12, <1>14 DEF VectorsOK


-----------------------------------------------------------------------------
(* How a call goes on.                                                     *)

(* An index is in the vector that it is of.                                *)
IndexIn(t) ==
  \/ th'[t].ix = 0
  \/ /\ th'[t].vec = th[t].vec /\ th[t].vec # Null
     /\ th'[t].ix <= Size(th[t].vec)
     /\ th'[t].op \notin {"walk", "assign"} \/ th'[t].pc = "walkval" =>
          th'[t].ix < Size(th[t].vec)

GoesBy(t) ==
  /\ \/ th'[t] = Rest
     \/ At(t, "idle") /\ th'[t].pc \in {"probe", "walk", "acquire"}
     \/ th'[t].op = th[t].op /\ th'[t].key = th[t].key /\ ~At(t, "idle")
  /\ th'[t].vec # Null => IndexIn(t)
  /\ th'[t].pc \in Ended =>
       /\ th'[t].vec = th[t].vec /\ th'[t].ix = th[t].ix
       /\ th'[t].key = th[t].key /\ th'[t].op = th[t].op
       /\ th[t].pc \in Ended \/ (At(t, "probe") /\ Here(t).key \notin Word)
  /\ th'[t].pc \in {"uncount", "bury"} => TakeValue(t) \/ th[t].pc = "uncount"
  /\ th'[t].pc = "walkval" =>
       /\ WalkKey(t) /\ th'[t].vec = th[t].vec /\ th'[t].ix = th[t].ix
       /\ This(t).key = th'[t].word

(* Where a step leads the thread that takes it: vector, index and words.   *)
LEMMA Going ==
  ASSUME Shape, NEW t \in Thread, Moves(t)
  PROVE  GoesBy(t)
<1>c. CallOK(t) /\ th[t] \in Local /\ th[t].ix \in Nat /\ th[t].ix + 1 \in Nat
  BY DEF Shape, CallsOK, Types, Local
<1>i. /\ th[t].vec # Null => /\ th[t].ix <= Size(th[t].vec)
                             /\ th[t].op \notin {"walk", "assign"} \/ At(t, "walkval") =>
                                  th[t].ix < Size(th[t].vec)
      /\ th[t].vec # Null => Size(th[t].vec) \in Nat \ {0}
  BY Whereabouts DEF Shape, IndexOK
<1>d. th'[t] = Rest => GoesBy(t)
  BY DEF GoesBy, Rest, Ended
<1>1. CASE ProbeFree(t)
  <2>1. /\ At(t, "probe") /\ Here(t).key = FREE
        /\ th'[t] = [th[t] EXCEPT !.pc = IF Puts(t) THEN "limit" ELSE "answer"]
    BY <1>1, ProbeFreeDoes
  <2> QED
    BY <2>1, <1>1, <1>c, <1>i DEF GoesBy, IndexIn, CallOK, Ended, At, Local, Places, Copying, Clearing, Storing, Erasing
<1>2. CASE ProbeMatch(t)
  <2>1. /\ At(t, "probe") /\ Here(t).key \notin Word /\ Here(t).key[1] = th[t].key
        /\ th'[t] = [th[t] EXCEPT !.pc = "value"]
    BY <1>2, ProbeMatchDoes
  <2> QED
    BY <2>1, <1>2, <1>c, <1>i DEF GoesBy, IndexIn, CallOK, Ended, At, Local, Places, Copying, Clearing, Storing, Erasing
<1>3. CASE ProbeNext(t)
  <2>1. /\ At(t, "probe") /\ Passed(t, th[t].ix)
        /\ \/ /\ th[t].ix + 1 < Size(th[t].vec)
             /\ th'[t] = [th[t] EXCEPT !.ix = th[t].ix + 1]
           \/ /\ ~(th[t].ix + 1 < Size(th[t].vec)) /\ Puts(t)
             /\ th'[t] = [th[t] EXCEPT !.pc = "wild"]
           \/ ~Puts(t) /\ th'[t] = [th[t] EXCEPT !.pc = "answer"]
    BY <1>3, ProbeNextDoes
  <2> QED
    BY <2>1, <1>3, <1>c, <1>i DEF GoesBy, IndexIn, CallOK, Ended, At, Local, Places, Copying, Clearing, Storing, Erasing
<1>4. CASE FindValue(t)
  <2>1. /\ At(t, "value") /\ th[t].op = "find"
        /\ \E d \in ValObj \cup Word \cup {Null} :
            th'[t] = [th[t] EXCEPT !.pc = "answer", !.word = d]
    BY <1>4, FindValueDoes
  <2> QED
    BY <2>1, <1>4, <1>c, <1>i DEF GoesBy, IndexIn, CallOK, Ended, At, Local, Places, Copying, Clearing, Storing, Erasing
<1>5. CASE Answer(t)
  BY <1>5, <1>d, AnswerDoes
<1>6. CASE PutValue(t)
  <2>1. /\ At(t, "value") /\ Puts(t) /\ Usable(Here(t))
        /\ \E v \in ValObj :
            /\ th[t].op = "insert" => v = th[t].own
            /\ th'[t] = [th[t] EXCEPT !.pc = "swap", !.word = Here(t).val, !.own = v]
    BY <1>6, PutValueDoes
  <2> QED
    BY <2>1, <1>6, <1>c, <1>i DEF GoesBy, IndexIn, CallOK, Ended, At, Local, Places, Copying, Clearing, Storing, Erasing
<1>7. CASE UpdateInPlace(t)
  BY <1>7, <1>d, UpdateInPlaceDoes
<1>8. CASE SwapValue(t)
  BY <1>8, <1>d, SwapValueDoes
<1>9. CASE DecrLimit(t)
  <2>1. /\ At(t, "limit") /\ limit > 0
        /\ \E k \in KeyObj, v \in ValObj :
            /\ th[t].kobj # Null => k = th[t].kobj
            /\ k[1] = th[t].key
            /\ th'[t] = [th[t] EXCEPT !.pc = "dcas", !.kobj = k, !.own = v]
    BY <1>9, DecrLimitDoes
  <2> QED
    BY <2>1, <1>9, <1>c, <1>i DEF GoesBy, IndexIn, CallOK, Ended, At, Local, Places, Copying, Clearing, Storing, Erasing
<1>10. CASE PutWait(t)
  <2>1. /\ At(t, "limit") \/ (At(t, "value") /\ Puts(t))
        /\ th'[t] = [th[t] EXCEPT !.pc = "rehash"]
    BY <1>10, PutWaitDoes
  <2> QED
    BY <2>1, <1>10, <1>c, <1>i DEF GoesBy, IndexIn, CallOK, Ended, At, Local, Places, Copying, Clearing, Storing, Erasing
<1>11. CASE FillSlot(t)
  <2>1. /\ At(t, "dcas") /\ Here(t) = EmptySlot
        /\ th'[t] = [th[t] EXCEPT !.pc = "count"]
    BY <1>11, FillSlotDoes
  <2> QED
    BY <2>1, <1>11, <1>c, <1>i DEF GoesBy, IndexIn, CallOK, Ended, At, Local, Places, Copying, Clearing, Storing, Erasing
<1>12. CASE StoreFails(t)
  <2>1. /\ At(t, "swap") \/ At(t, "dcas")
        /\ th'[t].pc = "probe" /\ th'[t].op = th[t].op /\ th'[t].key = th[t].key /\ th'[t].vec = vec /\ th'[t].ix = 0
        /\ th'[t].own = Kept(t) /\ th'[t].kobj = th[t].kobj /\ th'[t].word = Null /\ th'[t].np = Null /\ th'[t].met = {}
    BY <1>12, StoreFailsDoes
  <2> QED
    BY <2>1, <1>12, <1>c, <1>i DEF GoesBy, IndexIn, CallOK, Ended, At, Local, Places, Copying, Clearing, Storing, Erasing
<1>13. CASE CountUp(t)
  BY <1>13, <1>d, CountUpDoes
<1>14. CASE OldKey(t)
  <2>1. /\ At(t, "value") /\ th[t].op = "erase"
        /\ th'[t] = [th[t] EXCEPT !.pc = "oldval", !.kobj = Here(t).key]
    BY <1>14, OldKeyDoes
  <2> QED
    BY <2>1, <1>14, <1>c, <1>i DEF GoesBy, IndexIn, CallOK, Ended, At, Local, Places, Copying, Clearing, Storing, Erasing
<1>15. CASE OldValue(t)
  <2>1. /\ At(t, "oldval")
        /\ \E l \in {"take", "rehash", "answer"}, o \in KeyObj \cup {Null}, d \in ValObj \cup {Null} :
            /\ l = "take" => /\ o = th[t].kobj /\ o # Null /\ d # Null
                           /\ ~Here(t).x /\ d = Here(t).val
            /\ l # "take" => o = Null /\ d = th[t].word
            /\ th'[t] = [th[t] EXCEPT !.pc = l, !.word = d, !.kobj = o]
    BY <1>15, OldValueDoes
  <2> QED
    BY <2>1, <1>15, <1>c, <1>i DEF GoesBy, IndexIn, CallOK, Ended, At, Local, Places, Copying, Clearing, Storing, Erasing
<1>16. CASE TakeValue(t)
  <2>1. /\ At(t, "take") /\ Here(t).val = th[t].word /\ ~Here(t).x
        /\ th'[t] = [th[t] EXCEPT !.pc = "uncount"]
    BY <1>16, TakeValueDoes
  <2> QED
    BY <2>1, <1>16, <1>c, <1>i DEF GoesBy, IndexIn, CallOK, Ended, At, Local, Places, Copying, Clearing, Storing, Erasing
<1>17. CASE TakeFails(t)
  <2>1. /\ At(t, "take")
        /\ th'[t].pc = "probe" /\ th'[t].op = "erase" /\ th'[t].key = th[t].key /\ th'[t].vec = vec /\ th'[t].ix = 0
        /\ th'[t].own = Null /\ th'[t].kobj = Null /\ th'[t].word = Null /\ th'[t].np = Null /\ th'[t].met = {}
    BY <1>17, TakeFailsDoes
  <2> QED
    BY <2>1, <1>17, <1>c, <1>i DEF GoesBy, IndexIn, CallOK, Ended, At, Local, Places, Copying, Clearing, Storing, Erasing
<1>18. CASE CountDown(t)
  <2>1. /\ At(t, "uncount")
        /\ th'[t] = [th[t] EXCEPT !.pc = "bury"]
    BY <1>18, CountDownDoes
  <2> QED
    BY <2>1, <1>18, <1>c, <1>i DEF GoesBy, IndexIn, CallOK, Ended, At, Local, Places, Copying, Clearing, Storing, Erasing
<1>19. CASE Bury(t)
  BY <1>19, <1>d, BuryDoes
<1>20. CASE NoRehash(t)
  <2>1. /\ At(t, "rehash") /\ lock = Null
        /\ th'[t].pc = "probe" /\ th'[t].op = th[t].op /\ th'[t].key = th[t].key /\ th'[t].vec = vec /\ th'[t].ix = 0
        /\ th'[t].own = th[t].own /\ th'[t].kobj = th[t].kobj /\ th'[t].word = Null /\ th'[t].np = Null /\ th'[t].met = {}
    BY <1>20, NoRehashDoes
  <2> QED
    BY <2>1, <1>20, <1>c, <1>i DEF GoesBy, IndexIn, CallOK, Ended, At, Local, Places, Copying, Clearing, Storing, Erasing
<1>21. CASE RehashStart(t)
  <2>1. /\ At(t, "rehash") /\ lock = Null /\ limit <= 0
        /\ \E w \in Vector : life[w] = "free" /\
            th'[t] = [th[t] EXCEPT !.pc = "copykey", !.vec = vec, !.ix = 0, !.word = Null, !.np = w]
    BY <1>21, RehashStartDoes
  <2> QED
    BY <2>1, <1>21, <1>c, <1>i DEF GoesBy, IndexIn, CallOK, Ended, At, Local, Places, Copying, Clearing, Storing, Erasing
<1>22. CASE OutOfMemory(t)
  BY <1>22, <1>d, OutOfMemoryDoes
<1>23. CASE CopyKey(t)
  <2>1. /\ At(t, "copykey")
        /\ th'[t] = [th[t] EXCEPT !.pc = "copyval", !.word = This(t).key]
    BY <1>23, CopyKeyDoes
  <2> QED
    BY <2>1, <1>23, <1>c, <1>i DEF GoesBy, IndexIn, CallOK, Ended, At, Local, Places, Copying, Clearing, Storing, Erasing
<1>24. CASE CopyValue(t)
  <2>1. /\ At(t, "copyval")
        /\ \/ /\ th[t].ix + 1 < Size(th[t].vec)
             /\ th'[t] = [th[t] EXCEPT !.pc = "copykey", !.ix = th[t].ix + 1, !.word = Null]
           \/ /\ ~(th[t].ix + 1 < Size(th[t].vec))
             /\ th'[t] = [th[t] EXCEPT !.pc = "setlimit", !.ix = 0, !.word = Null]
    BY <1>24, CopyValueDoes
  <2>0. At(t, "copyval") /\ th[t].vec # Null
    BY <2>1, <1>c DEF At, CallOK
  <2>2. ASSUME th'[t] = [th[t] EXCEPT !.pc = "copykey", !.ix = th[t].ix + 1, !.word = Null], th[t].ix + 1 < Size(th[t].vec)
        PROVE  GoesBy(t)
    BY <2>2, <2>0, <1>24, <1>c, <1>i DEF GoesBy, IndexIn, CallOK, Ended, At, Local, Places, Copying, Clearing, Storing, Erasing
  <2>3. ASSUME th'[t] = [th[t] EXCEPT !.pc = "setlimit", !.ix = 0, !.word = Null]
        PROVE  GoesBy(t)
    BY <2>3, <2>0, <1>24, <1>c, <1>i DEF GoesBy, IndexIn, CallOK, Ended, At, Local, Places, Copying, Clearing, Storing, Erasing
  <2> QED
    BY <2>1, <2>2, <2>3
<1>25. CASE SetLimit(t)
  <2>1. /\ At(t, "setlimit")
        /\ th'[t] = [th[t] EXCEPT !.pc = "install"]
    BY <1>25, SetLimitDoes
  <2> QED
    BY <2>1, <1>25, <1>c, <1>i DEF GoesBy, IndexIn, CallOK, Ended, At, Local, Places, Copying, Clearing, Storing, Erasing
<1>26. CASE Install(t)
  <2>1. /\ At(t, "install") /\ th[t].op # "assign"
        /\ th'[t].pc = "probe" /\ th'[t].op = th[t].op /\ th'[t].key = th[t].key /\ th'[t].vec = th[t].np /\ th'[t].ix = 0
        /\ th'[t].own = th[t].own /\ th'[t].kobj = th[t].kobj /\ th'[t].word = Null /\ th'[t].np = Null /\ th'[t].met = {}
    BY <1>26, InstallDoes
  <2> QED
    BY <2>1, <1>26, <1>c, <1>i DEF GoesBy, IndexIn, CallOK, Ended, At, Local, Places, Copying, Clearing, Storing, Erasing
<1>27. CASE AssignAcquire(t)
  <2>1. /\ At(t, "acquire") /\ th[t].op = "assign" /\ lock = Null
        /\ th'[t] = [th[t] EXCEPT !.pc = "mark", !.vec = vec]
    BY <1>27, AssignAcquireDoes
  <2> QED
    BY <2>1, <1>27, <1>c, <1>i DEF GoesBy, IndexIn, CallOK, Ended, At, Local, Places, Copying, Clearing, Storing, Erasing
<1>28. CASE Mark(t)
  <2>1. /\ At(t, "mark") /\ th[t].ix < Size(th[t].vec)
        /\ \E o \in ValObj \cup {Null} :
            th'[t] = [th[t] EXCEPT !.ix = th[t].ix + 1, !.own = o]
    BY <1>28, MarkDoes
  <2> QED
    BY <2>1, <1>28, <1>c, <1>i DEF GoesBy, IndexIn, CallOK, Ended, At, Local, Places, Copying, Clearing, Storing, Erasing
<1>29. CASE AssignLimit(t)
  <2>1. /\ At(t, "mark") /\ th[t].ix = Size(th[t].vec)
        /\ th'[t] = [th[t] EXCEPT !.pc = "install"]
    BY <1>29, AssignLimitDoes
  <2> QED
    BY <2>1, <1>29, <1>c, <1>i DEF GoesBy, IndexIn, CallOK, Ended, At, Local, Places, Copying, Clearing, Storing, Erasing
<1>30. CASE AssignInstall(t)
  BY <1>30, <1>d, AssignInstallDoes
<1>31. CASE ClearAcquire(t)
  <2>1. /\ At(t, "acquire") /\ th[t].op = "clear" /\ lock = Null
        /\ th'[t] = [th[t] EXCEPT !.pc = "clrkey", !.vec = vec]
    BY <1>31, ClearAcquireDoes
  <2> QED
    BY <2>1, <1>31, <1>c, <1>i DEF GoesBy, IndexIn, CallOK, Ended, At, Local, Places, Copying, Clearing, Storing, Erasing
<1>32. CASE ClearReadKey(t)
  <2>1. /\ At(t, "clrkey")
        /\ th'[t] = [th[t] EXCEPT !.pc = "clrput", !.kobj = This(t).key]
    BY <1>32, ClearReadKeyDoes
  <2> QED
    BY <2>1, <1>32, <1>c, <1>i DEF GoesBy, IndexIn, CallOK, Ended, At, Local, Places, Copying, Clearing, Storing, Erasing
<1>33. CASE ClearFreeKey(t)
  <2>1. /\ At(t, "clrput")
        /\ th'[t] = [th[t] EXCEPT !.pc = "clrval"]
    BY <1>33, ClearFreeKeyDoes
  <2> QED
    BY <2>1, <1>33, <1>c, <1>i DEF GoesBy, IndexIn, CallOK, Ended, At, Local, Places, Copying, Clearing, Storing, Erasing
<1>34. CASE ClearFreeValue(t)
  <2>1. /\ At(t, "clrval")
        /\ \/ /\ th[t].ix + 1 < Size(th[t].vec)
             /\ \E o \in ValObj \cup {Null} :
                  th'[t] = [th[t] EXCEPT !.pc = "clrkey", !.ix = th[t].ix + 1, !.kobj = Null, !.own = o]
           \/ /\ ~(th[t].ix + 1 < Size(th[t].vec))
             /\ \E o \in ValObj \cup {Null} :
                  th'[t] = [th[t] EXCEPT !.pc = "clrlimit", !.ix = 0, !.kobj = Null, !.own = o]
    BY <1>34, ClearFreeValueDoes
  <2>0. At(t, "clrval") /\ th[t].vec # Null
    BY <2>1, <1>c DEF At, CallOK
  <2>2. ASSUME NEW o \in ValObj \cup {Null}, th'[t] = [th[t] EXCEPT !.pc = "clrkey", !.ix = th[t].ix + 1, !.kobj = Null, !.own = o], th[t].ix + 1 < Size(th[t].vec)
        PROVE  GoesBy(t)
    BY <2>2, <2>0, <1>34, <1>c, <1>i DEF GoesBy, IndexIn, CallOK, Ended, At, Local, Places, Copying, Clearing, Storing, Erasing
  <2>3. ASSUME NEW o \in ValObj \cup {Null}, th'[t] = [th[t] EXCEPT !.pc = "clrlimit", !.ix = 0, !.kobj = Null, !.own = o]
        PROVE  GoesBy(t)
    BY <2>3, <2>0, <1>34, <1>c, <1>i DEF GoesBy, IndexIn, CallOK, Ended, At, Local, Places, Copying, Clearing, Storing, Erasing
  <2> QED
    BY <2>1, <2>2, <2>3
<1>35. CASE ClearSetLimit(t)
  <2>1. /\ At(t, "clrlimit")
        /\ th'[t] = [th[t] EXCEPT !.pc = "clrcount"]
    BY <1>35, ClearSetLimitDoes
  <2> QED
    BY <2>1, <1>35, <1>c, <1>i DEF GoesBy, IndexIn, CallOK, Ended, At, Local, Places, Copying, Clearing, Storing, Erasing
<1>36. CASE ClearDone(t)
  BY <1>36, <1>d, ClearDoneDoes
<1>37. CASE WalkKey(t)
  <2>1. /\ At(t, "walk") /\ th[t].ix < Size(th[t].vec)
        /\ \/ th'[t] = [th[t] EXCEPT !.ix = th[t].ix + 1]
           \/ This(t).key # FREE /\ th'[t] = [th[t] EXCEPT !.pc = "walkval", !.word = This(t).key]
    BY <1>37, WalkKeyDoes
  <2>2. ASSUME th'[t] = [th[t] EXCEPT !.ix = th[t].ix + 1]
        PROVE  GoesBy(t)
    BY <2>2, <2>1, <1>37, <1>c, <1>i DEF GoesBy, IndexIn, CallOK, Ended, At, Local, Places, Copying, Clearing, Storing, Erasing
  <2>3. ASSUME th'[t] = [th[t] EXCEPT !.pc = "walkval", !.word = This(t).key]
        PROVE  GoesBy(t)
    BY <2>3, <2>1, <1>37, <1>c, <1>i DEF GoesBy, IndexIn, CallOK, Ended, At, Local, Places, Copying, Clearing, Storing, Erasing
  <2> QED
    BY <2>1, <2>2, <2>3
<1>38. CASE WalkValue(t)
  <2>1. /\ At(t, "walkval")
        /\ \E m \in SUBSET Key :
            th'[t] = [th[t] EXCEPT !.pc = "walk", !.ix = th[t].ix + 1, !.word = Null, !.met = m]
    BY <1>38, WalkValueDoes
  <2> QED
    BY <2>1, <1>38, <1>c, <1>i DEF GoesBy, IndexIn, CallOK, Ended, At, Local, Places, Copying, Clearing, Storing, Erasing
<1>39. CASE WalkEnd(t)
  BY <1>39, <1>d, WalkEndDoes
<1>40. CASE ClearStart(t)
  <2>1. /\ At(t, "idle")
        /\ th'[t].pc = "acquire" /\ th'[t].op = "clear" /\ th'[t].key = Null /\ th'[t].vec = Null /\ th'[t].ix = 0
        /\ th'[t].own = Null /\ th'[t].kobj = Null /\ th'[t].word = Null /\ th'[t].np = Null /\ th'[t].met = {}
    BY <1>40, ClearStartDoes
  <2> QED
    BY <2>1, <1>40, <1>c, <1>i DEF GoesBy, IndexIn, CallOK, Ended, At, Local, Places, Copying, Clearing, Storing, Erasing
<1>41. CASE WalkStart(t)
  <2>1. /\ At(t, "idle")
        /\ th'[t].pc = "walk" /\ th'[t].op = "walk" /\ th'[t].key = Null /\ th'[t].vec = vec /\ th'[t].ix = 0
        /\ th'[t].own = Null /\ th'[t].kobj = Null /\ th'[t].word = Null /\ th'[t].np = Null /\ th'[t].met = {}
    BY <1>41, WalkStartDoes
  <2> QED
    BY <2>1, <1>41, <1>c, <1>i DEF GoesBy, IndexIn, CallOK, Ended, At, Local, Places, Copying, Clearing, Storing, Erasing
<1>42. ASSUME NEW k \in Key, LookupStart(t, k) PROVE GoesBy(t)
  BY <1>42, LookupStartDoes DEF GoesBy, IndexIn, Ended
<1>43. ASSUME NEW k \in Key, InsertStart(t, k) PROVE GoesBy(t)
  BY <1>43, InsertStartDoes DEF GoesBy, IndexIn, Ended
<1>44. ASSUME NEW k \in Key, AssignStart(t, k) PROVE GoesBy(t)
  BY <1>44, AssignStartDoes DEF GoesBy, IndexIn, Ended
<1> QED
  BY <1>1, <1>2, <1>3, <1>4, <1>5, <1>6, <1>7, <1>8, <1>9, <1>10, <1>11, <1>12, <1>13, <1>14, <1>15, <1>16, <1>17, <1>18, <1>19, <1>20, <1>21, <1>22, <1>23, <1>24, <1>25, <1>26, <1>27, <1>28, <1>29, <1>30, <1>31, <1>32, <1>33, <1>34, <1>35, <1>36, <1>37, <1>38, <1>39, <1>40, <1>41, <1>42, <1>43, <1>44 DEF Moves, Start, Proceed

(* The vectors that calls are at keep their sizes.                         *)
LEMMA SizesKept ==
  ASSUME Shape, AloneOK, RoomOK, NEW t \in Thread, Moves(t), NEW w \in Vector,
         tab[w].pidx # 0, tab'[w].pidx # 0
  PROVE  /\ tab'[w].pidx = tab[w].pidx /\ Size(w)' = Size(w)
         /\ Size(w) \in Nat \ {0} /\ DOMAIN tab[w].slot = 0..Size(w) - 1
         /\ DOMAIN tab'[w].slot = 0..Size(w) - 1
<1> USE DEF Shape
<1>1. tab'[w].pidx = tab[w].pidx /\ IsTable(tab'[w])
  BY TablesStep
<1>2. /\ EntriesOf(tab'[w]) \in Nat \ {0}
      /\ DOMAIN tab'[w].slot = 0..EntriesOf(tab'[w]) - 1
  BY <1>1, TableFacts
<1>3. Size(w)' = Size(w) /\ EntriesOf(tab'[w]) = Size(w)
  BY <1>1 DEF Size, EntriesOf
<1> QED
  BY <1>1, <1>2, <1>3, Indices

NewSize(w) == Entries[tab'[w].pidx]

(* A vector that a thread is in keeps its size.                            *)
LEMMA SizesStep ==
  ASSUME Shape, AloneOK, RoomOK, NEW t \in Thread, Moves(t),
         NEW u \in Thread, th'[u].vec # Null
  PROVE  LET w == th'[u].vec IN
         /\ w \in Vector /\ tab'[w].pidx # 0 /\ NewSize(w) \in Nat \ {0}
         /\ DOMAIN tab'[w].slot = 0..NewSize(w) - 1
         /\ w = th[u].vec => NewSize(w) = Size(w)
<1> USE DEF Shape
<1> DEFINE w == th'[u].vec
<1>1. w \in Vector
  BY ThreadTypes DEF Local
<1>2. tab'[w].pidx # 0 /\ IsTable(tab'[w])
  <2>1. w = vec' \/ life'[w] = "retired"
    BY VectorStepOK DEF VectorsOK
  <2>2. life'[w] \notin {"free", "gone"}
    BY <2>1, VectorStepOK DEF VectorsOK
  <2> QED
    BY <1>1, <2>2, TablesStep
<1>3. EntriesOf(tab'[w]) \in Nat \ {0} /\ DOMAIN tab'[w].slot = 0..EntriesOf(tab'[w]) - 1
  BY <1>2, TableFacts
<1>4. EntriesOf(tab'[w]) = NewSize(w)
  BY DEF EntriesOf, NewSize
<1>5. w = th[u].vec => NewSize(w) = Size(w)
  <2>1. w = th[u].vec => tab[w].pidx # 0
    BY Whereabouts
  <2> QED
    BY <1>1, <1>2, <2>1, SizesKept DEF NewSize, Size
<1> QED
  BY <1>1, <1>2, <1>3, <1>4, <1>5

(* Loops and probes stay in their vectors.                                 *)
LEMMA IndexStep ==
  ASSUME Shape, AloneOK, RoomOK, NEW t \in Thread, Moves(t)
  PROVE  IndexOK'
<1> USE DEF Shape
<1>1. ASSUME NEW u \in Thread, th'[u].vec # Null
      PROVE  /\ th'[u].ix <= NewSize(th'[u].vec)
             /\ th'[u].op \notin {"walk", "assign"} \/ th'[u].pc = "walkval" =>
                  th'[u].ix < NewSize(th'[u].vec)
  <2>1. /\ NewSize(th'[u].vec) \in Nat \ {0}
        /\ th'[u].vec = th[u].vec => NewSize(th'[u].vec) = Size(th[u].vec)
    BY <1>1, SizesStep
  <2>2. CASE u = t
    BY <1>1, <2>1, <2>2, Going DEF GoesBy, IndexIn
  <2>3. CASE u # t
    BY <1>1, <2>1, <2>3, ThreadTypes DEF IndexOK, At
  <2> QED
    BY <2>2, <2>3
<1> QED
  BY <1>1 DEF IndexOK, At, Size, NewSize

-----------------------------------------------------------------------------
(* Who clears or assigns is alone.                                         *)

Excluding == {"clear", "assign"} \subseteq Alone

(* While one thread clears or assigns, no other thread moves.              *)
LEMMA AloneMoves ==
  ASSUME Excluding, Shape, AloneOK, NEW t \in Thread, Moves(t),
         NEW u \in Thread, Exclusive(u)
  PROVE  u = t
<1> USE DEF Shape
<1> SUFFICES ASSUME u # t PROVE FALSE
  OBVIOUS
<1>1. At(t, "idle") /\ th[t].op = "none" /\ th[t].np = Null /\ th[t].vec = Null
  BY DEF AloneOK, CallsOK, CallOK, At, Places, Storing, Erasing, Copying, Clearing
<1>2. ~Start(t)
  <2>1. \A rec : ~Call(t, rec)
    BY DEF Call, Exclusive, Excluding
  <2> QED
    BY <2>1 DEF Start, LookupStart, InsertStart, AssignStart, ClearStart, WalkStart
<1>3. ~Proceed(t)
  BY <1>1 DEF Proceed, At, ProbeFree, ProbeMatch, ProbeNext, FindValue, Answer, PutValue, UpdateInPlace, SwapValue, DecrLimit, PutWait, FillSlot, StoreFails, CountUp, OldKey, OldValue, TakeValue, TakeFails, CountDown, Bury, NoRehash, RehashStart, OutOfMemory, CopyKey, CopyValue, SetLimit, Install, AssignAcquire, Mark, AssignLimit, AssignInstall, ClearAcquire, ClearReadKey, ClearFreeKey, ClearFreeValue, ClearSetLimit, ClearDone, WalkKey, WalkValue, WalkEnd, StoreMustFail
<1> QED
  BY <1>2, <1>3 DEF Moves

(* Every step keeps whoever clears or assigns alone.                       *)
LEMMA AloneStep ==
  ASSUME Excluding, Shape, AloneOK, NEW t \in Thread, Moves(t)
  PROVE  AloneOK'
<1> USE DEF Shape
<1>1. ASSUME NEW a \in Thread, NEW b \in Thread, Exclusive(a)', b # a
      PROVE  At(b, "idle")'
  <2>1. CASE a # t
    <3>1. Exclusive(a)
      BY <1>1, <2>1, ThreadTypes DEF Exclusive
    <3> QED
      BY <2>1, <3>1, AloneMoves
  <2>2. CASE a = t
    <3>1. th'[b] = th[b]
      BY <1>1, <2>2, ThreadTypes
    <3>2. CASE Exclusive(t)
      BY <1>1, <2>2, <3>1, <3>2 DEF AloneOK, At
    <3>3. CASE ~Exclusive(t)
      <4>1. At(t, "idle")
        BY <1>1, <2>2, <3>3, Going DEF GoesBy, Exclusive, Rest
      <4>2. Start(t)
        BY <4>1 DEF Moves, Proceed, At, ProbeFree, ProbeMatch, ProbeNext, FindValue, Answer, PutValue, UpdateInPlace, SwapValue, DecrLimit, PutWait, FillSlot, StoreFails, CountUp, OldKey, OldValue, TakeValue, TakeFails, CountDown, Bury, NoRehash, RehashStart, OutOfMemory, CopyKey, CopyValue, SetLimit, Install, AssignAcquire, Mark, AssignLimit, AssignInstall, ClearAcquire, ClearReadKey, ClearFreeKey, ClearFreeValue, ClearSetLimit, ClearDone, WalkKey, WalkValue, WalkEnd, StoreMustFail
      <4>3. ClearStart(t) \/ \E k \in Key : AssignStart(t, k)
        BY <1>1, <2>2, <4>2, LookupStartDoes, InsertStartDoes, WalkStartDoes DEF Start, Exclusive
      <4>4. \A rec : Call(t, rec) /\ rec.op \in {"clear", "assign"} => At(b, "idle")
        BY DEF Call, Excluding
      <4>5. CASE ClearStart(t)
        <5>1. Call(t, [Rest EXCEPT !.op = "clear", !.pc = "acquire"])
          BY <4>5 DEF ClearStart
        <5> QED
          BY <3>1, <4>4, <5>1 DEF Rest, At
      <4>6. ASSUME NEW k \in Key, AssignStart(t, k) PROVE At(b, "idle")
        <5>1. PICK w \in Fresh(Vector) :
                Call(t, [Rest EXCEPT !.op = "assign", !.key = k, !.pc = "acquire", !.np = w])
          BY <4>6 DEF AssignStart
        <5> QED
          BY <4>4, <5>1 DEF Rest
      <4> QED
        BY <3>1, <4>3, <4>5, <4>6 DEF At
    <3> QED
      BY <3>2, <3>3
  <2> QED
    BY <2>1, <2>2
<1> QED
  BY <1>1 DEF AloneOK

-----------------------------------------------------------------------------
(* What a step does to a slot.                                             *)

Writes(t, w, i) ==
  \/ /\ FillSlot(t) \/ SwapValue(t) \/ TakeValue(t) \/ Bury(t)
     /\ w = th[t].vec /\ i = Slot(t)
  \/ /\ CopyValue(t) \/ Mark(t) \/ ClearFreeKey(t) \/ ClearFreeValue(t)
     /\ w = th[t].vec /\ i = th[t].ix

SlotSame(t, w, i) == tab'[w].slot[i] = tab[w].slot[i] /\ ~Writes(t, w, i)

SlotFilled(t, w, i) ==
  /\ FillSlot(t) /\ w = th[t].vec /\ i = Slot(t)
  /\ tab[w].slot[i] = EmptySlot
  /\ th[t].kobj \in KeyObj /\ th[t].own \in ValObj
  /\ tab'[w].slot[i] = Pair(th[t].kobj, th[t].own)

SlotSwapped(t, w, i) ==
  /\ SwapValue(t) /\ w = th[t].vec /\ i = Slot(t)
  /\ tab[w].slot[i].val = th[t].word /\ ~tab[w].slot[i].x
  /\ th[t].word \in ValObj /\ th[t].own \in ValObj
  /\ tab'[w].slot[i].key = tab[w].slot[i].key
  /\ tab'[w].slot[i].val = th[t].own /\ ~tab'[w].slot[i].x

SlotTaken(t, w, i) ==
  /\ TakeValue(t) /\ w = th[t].vec /\ i = Slot(t)
  /\ tab[w].slot[i].val = th[t].word /\ ~tab[w].slot[i].x
  /\ th[t].word \in ValObj
  /\ tab'[w].slot[i].key = tab[w].slot[i].key
  /\ tab'[w].slot[i].val = DELT /\ ~tab'[w].slot[i].x

SlotBuried(t, w, i) ==
  /\ Bury(t) /\ w = th[t].vec /\ i = Slot(t)
  /\ tab'[w].slot[i].key = DELT
  /\ tab'[w].slot[i].val = tab[w].slot[i].val
  /\ tab'[w].slot[i].x = tab[w].slot[i].x

SlotBarred(t, w, i) ==
  /\ CopyValue(t) \/ Mark(t)
  /\ w = th[t].vec /\ w = vec /\ i = th[t].ix
  /\ tab'[w].slot[i].key = tab[w].slot[i].key
  /\ tab'[w].slot[i].val = tab[w].slot[i].val
  /\ tab'[w].slot[i].x

SlotCopied(t, w, i) ==
  /\ CopyValue(t) /\ w = th[t].np /\ w # vec
  /\ tab[w].slot[i].key = FREE
  /\ th[t].word \in KeyObj /\ This(t).val \in ValObj /\ th[t].vec = vec
  /\ \E j \in 0..Size(w) - 1 :
       /\ i = Pos(th[t].word[1], j, Size(w))
       /\ \A l \in 0..j - 1 :
            tab[w].slot[Pos(th[t].word[1], l, Size(w))].key # FREE
  /\ tab'[w].slot[i] = Pair(th[t].word, This(t).val)

SlotKeyFreed(t, w, i) ==
  /\ ClearFreeKey(t) /\ w = th[t].vec /\ w = vec /\ i = th[t].ix
  /\ tab'[w].slot[i].key = FREE
  /\ tab'[w].slot[i].val = tab[w].slot[i].val
  /\ tab'[w].slot[i].x = tab[w].slot[i].x

SlotValueFreed(t, w, i) ==
  /\ ClearFreeValue(t) /\ w = th[t].vec /\ w = vec /\ i = th[t].ix
  /\ tab'[w].slot[i].key = tab[w].slot[i].key
  /\ tab'[w].slot[i].val = FREE /\ ~tab'[w].slot[i].x

SlotMade(t, w, i) ==
  /\ tab[w].pidx = 0 /\ w = th'[t].np /\ life[w] = "free"
  /\ \/ RehashStart(t) /\ tab'[w].slot[i] = EmptySlot
     \/ \E k \in Key, o \in KeyObj, v \in ValObj :
          /\ AssignStart(t, k) /\ o[1] = k /\ tab'[w].pidx = 1
          /\ \/ tab'[w].slot[i] = EmptySlot
             \/ /\ i = Pos(k, 0, Entries[1])
                /\ tab'[w].slot[i] = Pair(o, v)

SlotStep(t, w, i) ==
  \/ /\ tab[w].pidx # 0 /\ i \in DOMAIN tab[w].slot
     /\ tab'[w].pidx = tab[w].pidx
     /\ DOMAIN tab'[w].slot = DOMAIN tab[w].slot
     /\ \/ SlotSame(t, w, i) \/ SlotFilled(t, w, i) \/ SlotSwapped(t, w, i)
        \/ SlotTaken(t, w, i) \/ SlotBuried(t, w, i) \/ SlotBarred(t, w, i)
        \/ SlotCopied(t, w, i) \/ SlotKeyFreed(t, w, i)
        \/ SlotValueFreed(t, w, i)
  \/ SlotMade(t, w, i)

(* A slot of a table that there was.                                       *)
LEMMA OldSlot ==
  ASSUME Shape, RoomOK, NEW t \in Thread, Moves(t), NEW w \in Vector,
         tab[w].pidx # 0, tab'[w].pidx # 0, NEW i \in DOMAIN tab[w].slot
  PROVE  \/ SlotSame(t, w, i) \/ SlotFilled(t, w, i) \/ SlotSwapped(t, w, i)
         \/ SlotTaken(t, w, i) \/ SlotBuried(t, w, i) \/ SlotBarred(t, w, i)
         \/ SlotCopied(t, w, i) \/ SlotKeyFreed(t, w, i)
         \/ SlotValueFreed(t, w, i)
<1> USE DEF Shape
<1> DEFINE s == tab[w].slot[i]
           r == tab'[w].slot[i]
<1>1. /\ s \in SlotRec /\ CallOK(t) /\ th[t] \in Local
      /\ i \in 0..Size(w) - 1 /\ DOMAIN tab[w].slot = 0..Size(w) - 1
  BY SlotTyped, Indices DEF CallsOK, Types
<1>2. tab'[w] = tab[w] => r = s
  OBVIOUS
<1>4. ASSUME NEW a, NEW b, NEW d, Put(a, b, d)
      PROVE  r = IF w = a /\ i = b THEN d ELSE s
  BY <1>4 DEF Put
<1>5. \A a, n : Counted(a, n) => r = s
  BY DEF Counted
<1>6. SameTables => r = s
  BY DEF SameTables
<1>7. CASE FillSlot(t)
  <2>0. At(t, "dcas") /\ tab[th[t].vec].slot[Slot(t)] = EmptySlot
    BY <1>7, FillSlotDoes DEF Here
  <2>1. Put(th[t].vec, Slot(t), Pair(th[t].kobj, th[t].own))
        /\ th[t].kobj \in KeyObj /\ th[t].own \in ValObj
    BY <1>7, FillSlotPuts DEF Pair
  <2>2. r = IF w = th[t].vec /\ i = Slot(t) THEN Pair(th[t].kobj, th[t].own) ELSE s
    BY <1>4, <2>1
  <2>3. ~CopyValue(t) /\ ~Mark(t) /\ ~ClearFreeKey(t) /\ ~ClearFreeValue(t)
    BY <2>0 DEF CopyValue, Mark, ClearFreeKey, ClearFreeValue, At
  <2> QED
    BY <1>7, <2>0, <2>1, <2>2, <2>3 DEF SlotSame, SlotFilled, Writes
<1>8. CASE SwapValue(t)
  <2>0. At(t, "swap") /\ Here(t).val = th[t].word /\ ~Here(t).x
    BY <1>8, SwapValueDoes
  <2>1. Put(th[t].vec, Slot(t), [Here(t) EXCEPT !.val = th[t].own])
        /\ th[t].word \in ValObj /\ th[t].own \in ValObj
    BY <1>8, SwapValuePuts
  <2>2. r = IF w = th[t].vec /\ i = Slot(t) THEN [Here(t) EXCEPT !.val = th[t].own] ELSE s
    BY <1>4, <2>1
  <2>3. ~CopyValue(t) /\ ~Mark(t) /\ ~ClearFreeKey(t) /\ ~ClearFreeValue(t)
    BY <2>0 DEF CopyValue, Mark, ClearFreeKey, ClearFreeValue, At
  <2>4. CASE w = th[t].vec /\ i = Slot(t)
    <3>1. Here(t) = s
      BY <2>4 DEF Here
    <3>2. r.key = s.key /\ r.val = th[t].own /\ r.x = s.x
      BY <1>1, <2>2, <2>4, <3>1 DEF SlotRec
    <3> QED
      BY <1>8, <2>0, <2>1, <2>4, <3>1, <3>2 DEF SlotSwapped
  <2>5. CASE ~(w = th[t].vec /\ i = Slot(t))
    BY <2>2, <2>3, <2>5 DEF SlotSame, Writes
  <2> QED
    BY <2>4, <2>5
<1>9. CASE TakeValue(t)
  <2>0. At(t, "take") /\ Here(t).val = th[t].word /\ ~Here(t).x /\ th[t].word \in ValObj
    BY <1>9, <1>1, TakeValueDoes DEF CallOK, At
  <2>1. Put(th[t].vec, Slot(t), [Here(t) EXCEPT !.val = DELT])
    BY <1>9, TakeValuePuts
  <2>2. r = IF w = th[t].vec /\ i = Slot(t) THEN [Here(t) EXCEPT !.val = DELT] ELSE s
    BY <1>4, <2>1
  <2>3. ~CopyValue(t) /\ ~Mark(t) /\ ~ClearFreeKey(t) /\ ~ClearFreeValue(t)
    BY <2>0 DEF CopyValue, Mark, ClearFreeKey, ClearFreeValue, At
  <2>4. CASE w = th[t].vec /\ i = Slot(t)
    <3>1. Here(t) = s
      BY <2>4 DEF Here
    <3>2. r.key = s.key /\ r.val = DELT /\ r.x = s.x
      BY <1>1, <2>2, <2>4, <3>1 DEF SlotRec
    <3> QED
      BY <1>9, <2>0, <2>4, <3>1, <3>2 DEF SlotTaken
  <2>5. CASE ~(w = th[t].vec /\ i = Slot(t))
    BY <2>2, <2>3, <2>5 DEF SlotSame, Writes
  <2> QED
    BY <2>4, <2>5
<1>10. CASE Bury(t)
  <2>0. At(t, "bury")
    BY <1>10, BuryDoes
  <2>1. Put(th[t].vec, Slot(t), [Here(t) EXCEPT !.key = DELT])
    BY <1>10, BuryPuts
  <2>2. r = IF w = th[t].vec /\ i = Slot(t) THEN [Here(t) EXCEPT !.key = DELT] ELSE s
    BY <1>4, <2>1
  <2>3. ~CopyValue(t) /\ ~Mark(t) /\ ~ClearFreeKey(t) /\ ~ClearFreeValue(t)
    BY <2>0 DEF CopyValue, Mark, ClearFreeKey, ClearFreeValue, At
  <2>4. CASE w = th[t].vec /\ i = Slot(t)
    <3>1. Here(t) = s
      BY <2>4 DEF Here
    <3>2. r.key = DELT /\ r.val = s.val /\ r.x = s.x
      BY <1>1, <2>2, <2>4, <3>1 DEF SlotRec
    <3> QED
      BY <1>10, <2>0, <2>4, <3>1, <3>2 DEF SlotBuried
  <2>5. CASE ~(w = th[t].vec /\ i = Slot(t))
    BY <2>2, <2>3, <2>5 DEF SlotSame, Writes
  <2> QED
    BY <2>4, <2>5
<1>11. (CopyValue(t) \/ Mark(t) \/ ClearFreeKey(t) \/ ClearFreeValue(t)) =>
         /\ ~FillSlot(t) /\ ~SwapValue(t) /\ ~TakeValue(t) /\ ~Bury(t)
         /\ th[t].vec = vec
  BY DEF CopyValue, Mark, ClearFreeKey, ClearFreeValue, FillSlot, SwapValue, TakeValue, Bury, At,
     LockOK, Copying, Clearing
<1>12. CASE Mark(t)
  <2>1. Put(th[t].vec, th[t].ix, [This(t) EXCEPT !.x = TRUE])
    BY <1>12, MarkPuts
  <2>2. r = IF w = th[t].vec /\ i = th[t].ix THEN [This(t) EXCEPT !.x = TRUE] ELSE s
    BY <1>4, <2>1
  <2>4. CASE w = th[t].vec /\ i = th[t].ix
    <3>1. This(t) = s
      BY <2>4 DEF This
    <3>2. r.key = s.key /\ r.val = s.val /\ r.x
      BY <1>1, <2>2, <2>4, <3>1 DEF SlotRec
    <3> QED
      BY <1>11, <1>12, <2>4, <3>2 DEF SlotBarred
  <2>5. CASE ~(w = th[t].vec /\ i = th[t].ix)
    BY <1>11, <1>12, <2>2, <2>5 DEF SlotSame, Writes
  <2> QED
    BY <2>4, <2>5
<1>13. CASE ClearFreeKey(t)
  <2>1. Put(th[t].vec, th[t].ix, [This(t) EXCEPT !.key = FREE])
    BY <1>13, ClearFreeKeyPuts
  <2>2. r = IF w = th[t].vec /\ i = th[t].ix THEN [This(t) EXCEPT !.key = FREE] ELSE s
    BY <1>4, <2>1
  <2>4. CASE w = th[t].vec /\ i = th[t].ix
    <3>1. This(t) = s
      BY <2>4 DEF This
    <3>2. r.key = FREE /\ r.val = s.val /\ r.x = s.x
      BY <1>1, <2>2, <2>4, <3>1 DEF SlotRec
    <3> QED
      BY <1>11, <1>13, <2>4, <3>2 DEF SlotKeyFreed
  <2>5. CASE ~(w = th[t].vec /\ i = th[t].ix)
    BY <1>11, <1>13, <2>2, <2>5 DEF SlotSame, Writes
  <2> QED
    BY <2>4, <2>5
<1>14. CASE ClearFreeValue(t)
  <2>1. Put(th[t].vec, th[t].ix, [This(t) EXCEPT !.val = FREE, !.x = FALSE])
    BY <1>14, ClearFreeValuePuts
  <2>2. r = IF w = th[t].vec /\ i = th[t].ix
              THEN [This(t) EXCEPT !.val = FREE, !.x = FALSE] ELSE s
    BY <1>4, <2>1
  <2>4. CASE w = th[t].vec /\ i = th[t].ix
    <3>1. This(t) = s
      BY <2>4 DEF This
    <3>2. r.key = s.key /\ r.val = FREE /\ r.x = FALSE
      BY <1>1, <2>2, <2>4, <3>1 DEF SlotRec
    <3> QED
      BY <1>11, <1>14, <2>4, <3>2 DEF SlotValueFreed
  <2>5. CASE ~(w = th[t].vec /\ i = th[t].ix)
    BY <1>11, <1>14, <2>2, <2>5 DEF SlotSame, Writes
  <2> QED
    BY <2>4, <2>5
<1>15. CASE CopyValue(t)
  <2> DEFINE Marked == [This(t) EXCEPT !.x = TRUE]
  <2>0. th[t].np # vec /\ th[t].vec = vec
    BY <1>15, CopyFits DEF CopyValue, At
  <2>1. CASE ~Copied(t)
    <3>1. Put(vec, th[t].ix, Marked)
      BY <1>15, <2>1, CopyValuePuts
    <3>2. r = IF w = vec /\ i = th[t].ix THEN Marked ELSE s
      BY <1>4, <3>1
    <3>4. CASE w = vec /\ i = th[t].ix
      <4>1. This(t) = s
        BY <2>0, <3>4 DEF This
      <4>2. r.key = s.key /\ r.val = s.val /\ r.x
        BY <1>1, <3>2, <3>4, <4>1 DEF SlotRec
      <4> QED
        BY <1>11, <1>15, <3>4, <4>2 DEF SlotBarred
    <3>5. CASE ~(w = vec /\ i = th[t].ix)
      BY <1>11, <1>15, <3>2, <3>5 DEF SlotSame, Writes
    <3> QED
      BY <3>4, <3>5
  <2>2. CASE Copied(t)
    <3>0. th[t].word \in KeyObj /\ This(t).val \in ValObj
      BY <1>15, <2>2, CopyValuePuts
    <3>1. PICK j \in 0..Size(th[t].np) - 1 :
             /\ tab[th[t].np].slot[Pos(th[t].word[1], j, Size(th[t].np))].key = FREE
             /\ \A l \in 0..j - 1 :
                  tab[th[t].np].slot[Pos(th[t].word[1], l, Size(th[t].np))].key # FREE
             /\ PutBoth(vec, th[t].ix, Marked, th[t].np, Pos(th[t].word[1], j, Size(th[t].np)),
                        Pair(th[t].word, This(t).val))
      BY <1>15, <2>2, CopyValuePuts
    <3> DEFINE k == Pos(th[t].word[1], j, Size(th[t].np))
    <3>2. r = IF w = vec /\ i = th[t].ix THEN Marked
              ELSE IF w = th[t].np /\ i = k THEN Pair(th[t].word, This(t).val) ELSE s
      BY <3>1 DEF PutBoth
    <3>4. CASE w = vec /\ i = th[t].ix
      <4>1. This(t) = s
        BY <2>0, <3>4 DEF This
      <4>2. r.key = s.key /\ r.val = s.val /\ r.x
        BY <1>1, <3>2, <3>4, <4>1 DEF SlotRec
      <4> QED
        BY <1>11, <1>15, <3>4, <4>2 DEF SlotBarred
    <3>5. CASE w = th[t].np /\ i = k
      BY <1>15, <2>0, <3>0, <3>1, <3>2, <3>5 DEF SlotCopied
    <3>6. CASE ~(w = vec /\ i = th[t].ix) /\ ~(w = th[t].np /\ i = k)
      BY <1>11, <1>15, <3>2, <3>6 DEF SlotSame, Writes
    <3> QED
      BY <3>4, <3>5, <3>6
  <2> QED
    BY <2>1, <2>2
<1>16. ASSUME ~FillSlot(t), ~SwapValue(t), ~TakeValue(t), ~Bury(t), ~CopyValue(t),
              ~Mark(t), ~ClearFreeKey(t), ~ClearFreeValue(t)
       PROVE  SlotSame(t, w, i)
  <2>1. ~Writes(t, w, i)
    BY <1>16 DEF Writes
  <2>2. life[w] # "free"
    BY DEF VectorsOK
  <2>3. RehashStart(t) \/ (\E k \in Key : AssignStart(t, k)) => r = s
    <3>1. \A a, T : MadeTable(a, T) => tab'[w] = tab[w]
      BY <2>2 DEF MadeTable
    <3>2. RehashStart(t) => tab'[w] = tab[w]
      BY <3>1, RehashStartMakes
    <3>3. ASSUME NEW k \in Key, AssignStart(t, k) PROVE tab'[w] = tab[w]
      <4>1. \E a, T : MadeTable(a, T)
        BY <3>3, AssignStartMakes
      <4> QED
        BY <3>1, <4>1
    <3> QED
      BY <1>2, <3>2, <3>3
  <2>4. CountUp(t) \/ CountDown(t) \/ SetLimit(t) \/ ClearDone(t) => r = s
    BY <1>5, CountUpPuts, CountDownPuts, SetLimitPuts, ClearDonePuts
  <2>5. r = s
    BY <1>6, <1>16, <2>3, <2>4, SameStep
  <2> QED
    BY <2>1, <2>5 DEF SlotSame
<1> QED
  BY <1>7, <1>8, <1>9, <1>10, <1>12, <1>13, <1>14, <1>15, <1>16

(* Every step changes a slot in one of the ways of SlotStep, or not at     *)
(* all.                                                                    *)
LEMMA SlotSteps ==
  ASSUME Shape, AloneOK, RoomOK, NEW t \in Thread, Moves(t), NEW w \in Vector,
         NEW i \in DOMAIN tab'[w].slot
  PROVE  SlotStep(t, w, i)
<1> USE DEF Shape
<1>1. tab'[w].pidx # 0 /\ IsTable(tab'[w])
  BY TablesStep, TableFacts
<1>2. CASE tab[w].pidx # 0
  <2>1. /\ tab'[w].pidx = tab[w].pidx
        /\ DOMAIN tab'[w].slot = DOMAIN tab[w].slot
    BY <1>1, <1>2, SizesKept
  <2> QED
    BY <1>1, <1>2, <2>1, OldSlot DEF SlotStep
<1>3. CASE tab[w].pidx = 0
  <2>1. w = th'[t].np /\ life[w] # "live"
    BY <1>1, <1>3, TablesStep DEF VectorsOK
  <2>2. /\ life[w] = "free"
        /\ RehashStart(t) \/ \E k \in Key : AssignStart(t, k)
    <3>1. w # Null /\ (w = th[t].np => life[w] = "live")
      BY Names DEF VectorsOK
    <3> QED
      BY <2>1, <3>1, ThreadNp
  <2>3. CASE RehashStart(t)
    <3>1. tab'[w] = Make(Bigger(tab[vec].pidx))
      BY <2>1, <2>3, RehashStartMakes DEF MadeTable
    <3>2. Bigger(tab[vec].pidx) \in DOMAIN Entries
      <4>1. vec \in Vector /\ tab[vec].pidx # 0
        BY DEF VectorsOK, Types
      <4> QED
        BY <4>1, Indices, Sizes
    <3>3. tab'[w].slot[i] = EmptySlot
      <4> DEFINE p == Bigger(tab[vec].pidx)
      <4> HIDE DEF p
      <4>1. p \in DOMAIN Entries /\ tab'[w] = Make(p)
        BY <3>1, <3>2 DEF p
      <4>2. i \in 0..Entries[p] - 1
        BY <4>1, TableMade, TableFacts
      <4> QED
        BY <4>1, <4>2, TableMade
    <3> QED
      BY <1>3, <2>1, <2>2, <2>3, <3>3 DEF SlotStep, SlotMade
  <2>4. ASSUME NEW k \in Key, AssignStart(t, k) PROVE SlotMade(t, w, i)
    <3>1. PICK o \in KeyObj, v \in ValObj :
            \E j \in 0..Entries[1] - 1 :
              /\ j = Pos(k, 0, Entries[1]) /\ o[1] = k
              /\ MadeTable(th'[t].np, [[Make(1) EXCEPT !.slot[j] = Pair(o, v)] EXCEPT !.n = 1])
      BY <2>4, AssignStartMakes
    <3>2. PICK j \in 0..Entries[1] - 1 :
              /\ j = Pos(k, 0, Entries[1]) /\ o[1] = k
              /\ tab'[w] = [[Make(1) EXCEPT !.slot[j] = Pair(o, v)] EXCEPT !.n = 1]
      BY <2>1, <3>1 DEF MadeTable
    <3> DEFINE M == Make(1)
               S == [M EXCEPT !.slot[j] = Pair(o, v)]
    <3>3. /\ IsTable(M) /\ M.pidx = 1 /\ EntriesOf(M) = Entries[1]
          /\ \A l \in 0..Entries[1] - 1 : M.slot[l] = EmptySlot
      BY Sizes, TableMade
    <3>4. Pair(o, v) \in SlotRec
      BY Pairs
    <3>5. /\ IsTable(S) /\ S.pidx = 1
          /\ \A l \in 0..Entries[1] - 1 : S.slot[l] = IF l = j THEN Pair(o, v) ELSE EmptySlot
      <4>1. M.pidx # 0 /\ j \in 0..EntriesOf(M) - 1
        BY <3>3
      <4> HIDE DEF M
      <4> QED
        BY <3>3, <3>4, <4>1, TableWritten
    <3>6. tab'[w].slot = S.slot /\ tab'[w].pidx = 1
      <4>1. S.pidx # 0 /\ 1 \in Int
        BY <3>5
      <4>2. tab'[w] = [S EXCEPT !.n = 1]
        BY <3>2
      <4> HIDE DEF S
      <4> QED
        BY <3>5, <4>1, <4>2, CountWritten
    <3>7. i \in 0..Entries[1] - 1
      BY <1>1, <3>6, TableFacts DEF EntriesOf
    <3>8. \/ tab'[w].slot[i] = EmptySlot
          \/ i = Pos(k, 0, Entries[1]) /\ tab'[w].slot[i] = Pair(o, v)
      <4> HIDE DEF S
      <4> QED
        BY <3>2, <3>5, <3>6, <3>7
    <3> QED
      BY <1>3, <2>1, <2>2, <2>4, <3>2, <3>6, <3>8 DEF SlotMade
  <2> QED
    BY <2>2, <2>3, <2>4 DEF SlotStep
<1> QED
  BY <1>2, <1>3

-----------------------------------------------------------------------------
(* A slot is freed of its key, then of its value.                          *)
LEMMA SlotsStep ==
  ASSUME Excluding, Shape, AloneOK, WipedOK, RoomOK, NEW t \in Thread, Moves(t)
  PROVE  SlotsOK'
<1> USE DEF Shape
<1> SUFFICES ASSUME NEW w \in Vector, NEW i \in DOMAIN tab'[w].slot
             PROVE  LET r == tab'[w].slot[i] IN
                    /\ r.val = FREE => r.key = FREE
                    /\ r.key = FREE =>
                         \/ r.val = FREE
                         \/ \E u \in Thread : At(u, "clrval")' /\ w = vec' /\ th'[u].ix = i
                    /\ r.key = DELT => r.val = DELT
  BY DEF SlotsOK
<1> DEFINE s == tab[w].slot[i]
           r == tab'[w].slot[i]
           Goal == /\ r.val = FREE => r.key = FREE
                   /\ r.key = FREE =>
                        \/ r.val = FREE
                        \/ \E u \in Thread : At(u, "clrval")' /\ w = vec' /\ th'[u].ix = i
                   /\ r.key = DELT => r.val = DELT
<1>1. i \in DOMAIN tab[w].slot =>
        /\ s.val = FREE => s.key = FREE
        /\ s.key = FREE =>
             \/ s.val = FREE
             \/ \E u \in Thread : At(u, "clrval") /\ w = vec /\ th[u].ix = i
        /\ s.key = DELT => s.val = DELT
  BY DEF SlotsOK
<1>2. ASSUME NEW u \in Thread, At(u, "clrval"), w = vec, th[u].ix = i
      PROVE  ClearFreeValue(t) /\ u = t /\ th[t].vec = vec
  <2>1. Exclusive(u) /\ lock = u
    BY <1>2 DEF Exclusive, CallsOK, CallOK, At, Places, Storing, Erasing, Copying, Clearing, LockOK
  <2>2. u = t
    BY <2>1, AloneMoves
  <2> QED
    BY <1>2, <2>1, <2>2 DEF Moves, Start, LookupStart, InsertStart, AssignStart, ClearStart,
      WalkStart, Call, Proceed, At, ProbeFree, ProbeMatch, ProbeNext, FindValue, Answer, PutValue, UpdateInPlace, SwapValue, DecrLimit, PutWait, FillSlot, StoreFails, CountUp, OldKey, OldValue, TakeValue, TakeFails, CountDown, Bury, NoRehash, RehashStart, OutOfMemory, CopyKey, CopyValue, SetLimit, Install, AssignAcquire, Mark, AssignLimit, AssignInstall, ClearAcquire, ClearReadKey, ClearFreeKey, ClearFreeValue, ClearSetLimit, ClearDone, WalkKey, WalkValue, WalkEnd, StoreMustFail, LockOK
<1>3. SlotSame(t, w, i) /\ i \in DOMAIN tab[w].slot => Goal
  BY <1>1, <1>2 DEF SlotSame, Writes
<1>4. EmptySlot.key = FREE /\ EmptySlot.val = FREE /\ FREE # DELT
  BY Names DEF EmptySlot
<1>5. ASSUME NEW k \in KeyObj, NEW v \in ValObj, r = Pair(k, v) PROVE Goal
  <2>1. Pair(k, v).key \in KeyObj /\ Pair(k, v).val \in ValObj
    BY Pairs
  <2>2. r.key \in KeyObj /\ r.val \in ValObj
    BY <1>5, <2>1
  <2>3. r.key # FREE /\ r.key # DELT /\ r.val # FREE
    BY <2>2, Names DEF Word
  <2> QED
    BY <2>3
<1>6. SlotFilled(t, w, i) \/ SlotCopied(t, w, i) => Goal
  BY <1>5 DEF SlotFilled, SlotCopied
<1>7. (SlotSwapped(t, w, i) \/ SlotTaken(t, w, i)) /\ i \in DOMAIN tab[w].slot => Goal
  <2> HAVE (SlotSwapped(t, w, i) \/ SlotTaken(t, w, i)) /\ i \in DOMAIN tab[w].slot
  <2>1. s.key # FREE
    <3>1. Here(t).key # FREE
      BY DEF SlotSwapped, SlotTaken, SwapValue, TakeValue, TakenOK, Ended, At
    <3> QED
      BY <3>1 DEF SlotSwapped, SlotTaken, Here
  <2>2. s.val \in ValObj /\ s.val # DELT
    BY Names DEF SlotSwapped, SlotTaken, Word
  <2>3. CASE SlotSwapped(t, w, i)
    BY <1>1, <2>1, <2>2, <2>3, Names DEF SlotSwapped, Word
  <2>4. CASE SlotTaken(t, w, i)
    BY <1>4, <2>1, <2>4 DEF SlotTaken
  <2> QED
    BY <2>3, <2>4
<1>8. SlotBuried(t, w, i) => Goal
  <2> HAVE SlotBuried(t, w, i)
  <2>1. Here(t).val = DELT
    BY DEF SlotBuried, Bury, TakenOK, At
  <2> QED
    BY <1>4, <2>1 DEF SlotBuried, Here
<1>9. SlotBarred(t, w, i) /\ i \in DOMAIN tab[w].slot => Goal
  <2> HAVE SlotBarred(t, w, i) /\ i \in DOMAIN tab[w].slot
  <2>1. ~ClearFreeValue(t)
    BY DEF SlotBarred, CopyValue, Mark, ClearFreeValue, At
  <2> QED
    BY <1>1, <1>2, <2>1 DEF SlotBarred
<1>10. SlotKeyFreed(t, w, i) => Goal
  <2> HAVE SlotKeyFreed(t, w, i)
  <2>1. th'[t] = [th[t] EXCEPT !.pc = "clrval"] /\ vec' = vec /\ th[t] \in Local
    BY ClearFreeKeyDoes, ClearFreeKeyFrame, Locals DEF SlotKeyFreed
  <2>2. th'[t].pc = "clrval" /\ th'[t].ix = th[t].ix
    BY <2>1 DEF Local
  <2> QED
    BY <1>4, <2>1, <2>2 DEF SlotKeyFreed, At
<1>11. SlotValueFreed(t, w, i) => Goal
  <2> HAVE SlotValueFreed(t, w, i)
  <2>1. This(t).key = FREE
    BY DEF SlotValueFreed, ClearFreeValue, WipedOK, Clearing, At
  <2> QED
    BY <1>4, <2>1 DEF SlotValueFreed, This
<1>12. SlotMade(t, w, i) => Goal
  BY <1>4, <1>5 DEF SlotMade
<1>13. SlotStep(t, w, i)
  BY SlotSteps
<1> QED
  BY <1>3, <1>6, <1>7, <1>8, <1>9, <1>10, <1>11, <1>12, <1>13 DEF SlotStep

(* A key that was found stays till it is buried.                           *)
LEMMA TakenStep ==
  ASSUME Excluding, Shape, AloneOK, RoomOK, NEW t \in Thread, Moves(t)
  PROVE  TakenOK'
<1> USE DEF Shape
<1> SUFFICES ASSUME NEW u \in Thread
             PROVE  /\ th'[u].pc \in Ended => Here(u)'.key # FREE
                    /\ th'[u].pc \in {"uncount", "bury"} => Here(u)'.val = DELT
  BY DEF TakenOK
<1> SUFFICES ASSUME th'[u].pc \in Ended
             PROVE  /\ Here(u)'.key # FREE
                    /\ th'[u].pc \in {"uncount", "bury"} => Here(u)'.val = DELT
  BY DEF Ended
<1> DEFINE w == th[u].vec
           i == Slot(u)
           s == tab[w].slot[i]
           r == tab'[w].slot[i]
<1>1. /\ th'[u].vec = w /\ th'[u].ix = th[u].ix /\ th'[u].key = th[u].key
      /\ th'[u].op = th[u].op
      /\ th[u].pc \in Ended \/ (u = t /\ At(t, "probe") /\ Here(t).key \notin Word)
  BY Going, ThreadTypes DEF GoesBy
<1>2. th[u].pc \in Ended \cup {"probe"}
  BY <1>1 DEF At
<1>3. /\ w \in Vector /\ w # Null /\ i \in DOMAIN tab[w].slot /\ tab[w].pidx # 0
      /\ Here(u) = s /\ ~Exclusive(u) /\ ~At(u, "idle")
  <2>1. w \in Vector /\ i \in DOMAIN tab[w].slot /\ tab[w].pidx # 0
    BY <1>2, Found DEF Ended
  <2> QED
    BY <1>2, <2>1, Names DEF Here, Ended, Exclusive, At, CallsOK, CallOK, Places, Clearing
<1>4. /\ tab'[w].pidx # 0 /\ NewSize(w) = Size(w) /\ DOMAIN tab'[w].slot = DOMAIN tab[w].slot
  <2>1. tab'[w].pidx # 0 /\ NewSize(w) = Size(w)
    BY <1>1, <1>3, SizesStep
  <2> QED
    BY <1>3, <2>1, SizesKept
<1>5. Here(u)' = r
  <2>1. Slot(u)' = i
    BY <1>1, <1>4 DEF Slot, Pos, Size, NewSize
  <2> QED
    BY <1>1, <2>1 DEF Here
<1>6. s.key # FREE
  BY <1>1, <1>3 DEF TakenOK, Word
<1>7. SlotStep(t, w, i) /\ ~SlotMade(t, w, i)
  BY <1>3, <1>4, SlotSteps DEF SlotMade
<1>8. ~SlotKeyFreed(t, w, i) /\ ~SlotValueFreed(t, w, i)
  <2>1. ClearFreeKey(t) \/ ClearFreeValue(t) => Exclusive(t)
    BY DEF ClearFreeKey, ClearFreeValue, At, Exclusive, CallsOK, CallOK, Places, Storing,
      Erasing, Copying, Clearing
  <2>2. ~Exclusive(t)
    BY <1>3 DEF AloneOK
  <2> QED
    BY <2>1, <2>2 DEF SlotKeyFreed, SlotValueFreed
<1>9. r.key # FREE
  <2>1. FREE # DELT /\ EmptySlot.key = FREE
    BY Names DEF EmptySlot
  <2> QED
    BY <1>6, <1>7, <1>8, <2>1 DEF SlotStep, SlotSame, SlotFilled, SlotSwapped, SlotTaken,
      SlotBuried, SlotBarred, SlotCopied
<1>10. ASSUME th'[u].pc \in {"uncount", "bury"} PROVE r.val = DELT
  <2>1. (u = t /\ TakeValue(t)) \/ th[u].pc \in {"uncount", "bury"}
    BY <1>10, Going, ThreadTypes DEF GoesBy
  <2>2. CASE th[u].pc \in {"uncount", "bury"}
    <3>1. s.val = DELT
      BY <1>3, <2>2 DEF TakenOK
    <3>2. DELT \notin ValObj
      BY Names DEF Word
    <3>3. EmptySlot.key = FREE
      BY DEF EmptySlot
    <3> QED
      BY <1>6, <1>7, <1>8, <3>1, <3>2, <3>3 DEF SlotStep, SlotSame, SlotFilled, SlotSwapped,
        SlotTaken, SlotBuried, SlotBarred, SlotCopied
  <2>3. CASE u = t /\ TakeValue(t)
    <3>1. Writes(t, w, i)
      BY <2>3 DEF Writes
    <3>2. /\ ~SwapValue(t) /\ ~FillSlot(t) /\ ~Bury(t) /\ ~CopyValue(t) /\ ~Mark(t)
      BY <2>3 DEF TakeValue, SwapValue, FillSlot, Bury, CopyValue, Mark, At
    <3> QED
      BY <1>7, <1>8, <3>1, <3>2 DEF SlotStep, SlotSame, SlotFilled, SlotSwapped,
        SlotTaken, SlotBuried, SlotBarred, SlotCopied
  <2> QED
    BY <2>1, <2>2, <2>3
<1> QED
  BY <1>5, <1>9, <1>10

(* A key that a walk has read stays, or is buried.                         *)
LEMMA WalksStep ==
  ASSUME Excluding, Shape, AloneOK, RoomOK, NEW t \in Thread, Moves(t)
  PROVE  WalksOK'
<1> USE DEF Shape
<1> SUFFICES ASSUME NEW u \in Thread, th'[u].pc = "walkval"
             PROVE  This(u)'.key \in {th'[u].word, DELT}
  BY DEF WalksOK, At
<1> DEFINE w == th[u].vec
           i == th[u].ix
           s == tab[w].slot[i]
           r == tab'[w].slot[i]
<1>1. /\ th'[u].vec = w /\ th'[u].ix = i
      /\ \/ th[u].pc = "walkval" /\ th'[u] = th[u]
         \/ u = t /\ WalkKey(t) /\ This(t).key = th'[t].word
  BY Going, ThreadTypes DEF GoesBy
<1>2. This(u) = s /\ This(u)' = r
  BY <1>1 DEF This
<1>3. s.key \in {th'[u].word, DELT} /\ th'[u].word # FREE
  <2>1. th'[u].word # FREE
    BY CallsStep, Names DEF CallsOK, CallOK, At
  <2> QED
    BY <1>1, <1>2, <2>1 DEF WalksOK, At
<1>4. /\ w \in Vector /\ w # Null /\ i \in DOMAIN tab[w].slot /\ tab[w].pidx # 0
      /\ ~Exclusive(u) /\ ~At(u, "idle")
  <2>1. \/ th[u].pc = "walkval"
        \/ th[u].pc = "walk" /\ th[u].ix < Size(th[u].vec)
    BY <1>1 DEF WalkKey, At
  <2>2. w \in Vector /\ i \in DOMAIN tab[w].slot /\ tab[w].pidx # 0
    BY <2>1, Found
  <2> QED
    BY <2>1, <2>2, Names DEF Exclusive, At, CallsOK, CallOK, Places, Clearing
<1>5. tab'[w].pidx # 0 /\ DOMAIN tab'[w].slot = DOMAIN tab[w].slot
  <2>1. tab'[w].pidx # 0
    BY <1>1, <1>4, SizesStep
  <2> QED
    BY <1>4, <2>1, SizesKept
<1>6. SlotStep(t, w, i) /\ ~SlotMade(t, w, i)
  BY <1>4, <1>5, SlotSteps DEF SlotMade
<1>7. ~SlotKeyFreed(t, w, i) /\ ~SlotValueFreed(t, w, i)
  <2>1. ClearFreeKey(t) \/ ClearFreeValue(t) => Exclusive(t)
    BY DEF ClearFreeKey, ClearFreeValue, At, Exclusive, CallsOK, CallOK, Places, Storing,
      Erasing, Copying, Clearing
  <2>2. ~Exclusive(t)
    BY <1>4 DEF AloneOK
  <2> QED
    BY <2>1, <2>2 DEF SlotKeyFreed, SlotValueFreed
<1>8. s.key # FREE /\ EmptySlot.key = FREE
  BY <1>3, Names DEF EmptySlot
<1>9. r.key \in {s.key, DELT}
  BY <1>6, <1>7, <1>8 DEF SlotStep, SlotSame, SlotFilled, SlotSwapped, SlotTaken,
      SlotBuried, SlotBarred, SlotCopied
<1> QED
  BY <1>2, <1>3, <1>9

(* Every step keeps the shape.                                             *)
LEMMA ShapeStep ==
  ASSUME Excluding, Shape, AloneOK, WipedOK, RoomOK, NEW t \in Thread, Moves(t),
         UNCHANGED role
  PROVE  Shape' /\ AloneOK'
BY TypesStep, CallsStep, LockStep, VectorStepOK, IndexStep, SlotsStep, TakenStep,
   WalksStep, AloneStep DEF Shape

-----------------------------------------------------------------------------
(* What a clear has gone over.                                             *)
LEMMA ClearingMoves ==
  ASSUME Shape, NEW t \in Thread, Moves(t), th'[t].pc \in Clearing
  PROVE  ClearAcquire(t) \/ ClearReadKey(t) \/ ClearFreeKey(t) \/ ClearFreeValue(t)
           \/ ClearSetLimit(t)
<1>c. CallOK(t) /\ th[t] \in Local
  BY DEF Shape, CallsOK, Types
<1>1. ~ProbeFree(t)
  <2> SUFFICES ASSUME ProbeFree(t) PROVE FALSE
    OBVIOUS
  <2>1. /\ At(t, "probe") /\ Here(t).key = FREE
        /\ th'[t] = [th[t] EXCEPT !.pc = IF Puts(t) THEN "limit" ELSE "answer"]
    BY ProbeFreeDoes
  <2> QED
    BY <2>1, <1>c DEF Clearing, At, Local
<1>2. ~ProbeMatch(t)
  <2> SUFFICES ASSUME ProbeMatch(t) PROVE FALSE
    OBVIOUS
  <2>1. /\ At(t, "probe") /\ Here(t).key \notin Word /\ Here(t).key[1] = th[t].key
        /\ th'[t] = [th[t] EXCEPT !.pc = "value"]
    BY ProbeMatchDoes
  <2> QED
    BY <2>1, <1>c DEF Clearing, At, Local
<1>3. ~ProbeNext(t)
  <2> SUFFICES ASSUME ProbeNext(t) PROVE FALSE
    OBVIOUS
  <2>1. /\ At(t, "probe") /\ Passed(t, th[t].ix)
        /\ \/ /\ th[t].ix + 1 < Size(th[t].vec)
             /\ th'[t] = [th[t] EXCEPT !.ix = th[t].ix + 1]
           \/ /\ ~(th[t].ix + 1 < Size(th[t].vec)) /\ Puts(t)
             /\ th'[t] = [th[t] EXCEPT !.pc = "wild"]
           \/ ~Puts(t) /\ th'[t] = [th[t] EXCEPT !.pc = "answer"]
    BY ProbeNextDoes
  <2> QED
    BY <2>1, <1>c DEF Clearing, At, Local
<1>4. ~FindValue(t)
  <2> SUFFICES ASSUME FindValue(t) PROVE FALSE
    OBVIOUS
  <2>1. /\ At(t, "value") /\ th[t].op = "find"
        /\ \E d \in ValObj \cup Word \cup {Null} :
            th'[t] = [th[t] EXCEPT !.pc = "answer", !.word = d]
    BY FindValueDoes
  <2> QED
    BY <2>1, <1>c DEF Clearing, At, Local
<1>5. ~Answer(t)
  <2> SUFFICES ASSUME Answer(t) PROVE FALSE
    OBVIOUS
  <2>1. /\ At(t, "answer")
        /\ th'[t] = Rest
    BY AnswerDoes
  <2> QED
    BY <2>1, <1>c DEF Clearing, At, Local, Rest
<1>6. ~PutValue(t)
  <2> SUFFICES ASSUME PutValue(t) PROVE FALSE
    OBVIOUS
  <2>1. /\ At(t, "value") /\ Puts(t) /\ Usable(Here(t))
        /\ \E v \in ValObj :
            /\ th[t].op = "insert" => v = th[t].own
            /\ th'[t] = [th[t] EXCEPT !.pc = "swap", !.word = Here(t).val, !.own = v]
    BY PutValueDoes
  <2> QED
    BY <2>1, <1>c DEF Clearing, At, Local
<1>7. ~UpdateInPlace(t)
  <2> SUFFICES ASSUME UpdateInPlace(t) PROVE FALSE
    OBVIOUS
  <2>1. /\ At(t, "value") /\ th[t].op = "update"
        /\ th'[t] = Rest
    BY UpdateInPlaceDoes
  <2> QED
    BY <2>1, <1>c DEF Clearing, At, Local, Rest
<1>8. ~SwapValue(t)
  <2> SUFFICES ASSUME SwapValue(t) PROVE FALSE
    OBVIOUS
  <2>1. /\ At(t, "swap") /\ Here(t).val = th[t].word /\ ~Here(t).x
        /\ th'[t] = Rest
    BY SwapValueDoes
  <2> QED
    BY <2>1, <1>c DEF Clearing, At, Local, Rest
<1>9. ~DecrLimit(t)
  <2> SUFFICES ASSUME DecrLimit(t) PROVE FALSE
    OBVIOUS
  <2>1. /\ At(t, "limit") /\ limit > 0
        /\ \E k \in KeyObj, v \in ValObj :
            /\ th[t].kobj # Null => k = th[t].kobj
            /\ k[1] = th[t].key
            /\ th'[t] = [th[t] EXCEPT !.pc = "dcas", !.kobj = k, !.own = v]
    BY DecrLimitDoes
  <2> QED
    BY <2>1, <1>c DEF Clearing, At, Local
<1>10. ~PutWait(t)
  <2> SUFFICES ASSUME PutWait(t) PROVE FALSE
    OBVIOUS
  <2>1. /\ At(t, "limit") \/ (At(t, "value") /\ Puts(t))
        /\ th'[t] = [th[t] EXCEPT !.pc = "rehash"]
    BY PutWaitDoes
  <2> QED
    BY <2>1, <1>c DEF Clearing, At, Local
<1>11. ~FillSlot(t)
  <2> SUFFICES ASSUME FillSlot(t) PROVE FALSE
    OBVIOUS
  <2>1. /\ At(t, "dcas") /\ Here(t) = EmptySlot
        /\ th'[t] = [th[t] EXCEPT !.pc = "count"]
    BY FillSlotDoes
  <2> QED
    BY <2>1, <1>c DEF Clearing, At, Local
<1>12. ~StoreFails(t)
  <2> SUFFICES ASSUME StoreFails(t) PROVE FALSE
    OBVIOUS
  <2>1. /\ At(t, "swap") \/ At(t, "dcas")
        /\ th'[t].pc = "probe" /\ th'[t].op = th[t].op /\ th'[t].key = th[t].key /\ th'[t].vec = vec /\ th'[t].ix = 0
        /\ th'[t].own = Kept(t) /\ th'[t].kobj = th[t].kobj /\ th'[t].word = Null /\ th'[t].np = Null /\ th'[t].met = {}
    BY StoreFailsDoes
  <2> QED
    BY <2>1, <1>c DEF Clearing, At, Local
<1>13. ~CountUp(t)
  <2> SUFFICES ASSUME CountUp(t) PROVE FALSE
    OBVIOUS
  <2>1. /\ At(t, "count")
        /\ th'[t] = Rest
    BY CountUpDoes
  <2> QED
    BY <2>1, <1>c DEF Clearing, At, Local, Rest
<1>14. ~OldKey(t)
  <2> SUFFICES ASSUME OldKey(t) PROVE FALSE
    OBVIOUS
  <2>1. /\ At(t, "value") /\ th[t].op = "erase"
        /\ th'[t] = [th[t] EXCEPT !.pc = "oldval", !.kobj = Here(t).key]
    BY OldKeyDoes
  <2> QED
    BY <2>1, <1>c DEF Clearing, At, Local
<1>15. ~OldValue(t)
  <2> SUFFICES ASSUME OldValue(t) PROVE FALSE
    OBVIOUS
  <2>1. /\ At(t, "oldval")
        /\ \E l \in {"take", "rehash", "answer"}, o \in KeyObj \cup {Null}, d \in ValObj \cup {Null} :
            /\ l = "take" => /\ o = th[t].kobj /\ o # Null /\ d # Null
                           /\ ~Here(t).x /\ d = Here(t).val
            /\ l # "take" => o = Null /\ d = th[t].word
            /\ th'[t] = [th[t] EXCEPT !.pc = l, !.word = d, !.kobj = o]
    BY OldValueDoes
  <2> QED
    BY <2>1, <1>c DEF Clearing, At, Local
<1>16. ~TakeValue(t)
  <2> SUFFICES ASSUME TakeValue(t) PROVE FALSE
    OBVIOUS
  <2>1. /\ At(t, "take") /\ Here(t).val = th[t].word /\ ~Here(t).x
        /\ th'[t] = [th[t] EXCEPT !.pc = "uncount"]
    BY TakeValueDoes
  <2> QED
    BY <2>1, <1>c DEF Clearing, At, Local
<1>17. ~TakeFails(t)
  <2> SUFFICES ASSUME TakeFails(t) PROVE FALSE
    OBVIOUS
  <2>1. /\ At(t, "take")
        /\ th'[t].pc = "probe" /\ th'[t].op = "erase" /\ th'[t].key = th[t].key /\ th'[t].vec = vec /\ th'[t].ix = 0
        /\ th'[t].own = Null /\ th'[t].kobj = Null /\ th'[t].word = Null /\ th'[t].np = Null /\ th'[t].met = {}
    BY TakeFailsDoes
  <2> QED
    BY <2>1, <1>c DEF Clearing, At, Local
<1>18. ~CountDown(t)
  <2> SUFFICES ASSUME CountDown(t) PROVE FALSE
    OBVIOUS
  <2>1. /\ At(t, "uncount")
        /\ th'[t] = [th[t] EXCEPT !.pc = "bury"]
    BY CountDownDoes
  <2> QED
    BY <2>1, <1>c DEF Clearing, At, Local
<1>19. ~Bury(t)
  <2> SUFFICES ASSUME Bury(t) PROVE FALSE
    OBVIOUS
  <2>1. /\ At(t, "bury")
        /\ th'[t] = Rest
    BY BuryDoes
  <2> QED
    BY <2>1, <1>c DEF Clearing, At, Local, Rest
<1>20. ~NoRehash(t)
  <2> SUFFICES ASSUME NoRehash(t) PROVE FALSE
    OBVIOUS
  <2>1. /\ At(t, "rehash") /\ lock = Null
        /\ th'[t].pc = "probe" /\ th'[t].op = th[t].op /\ th'[t].key = th[t].key /\ th'[t].vec = vec /\ th'[t].ix = 0
        /\ th'[t].own = th[t].own /\ th'[t].kobj = th[t].kobj /\ th'[t].word = Null /\ th'[t].np = Null /\ th'[t].met = {}
    BY NoRehashDoes
  <2> QED
    BY <2>1, <1>c DEF Clearing, At, Local
<1>21. ~RehashStart(t)
  <2> SUFFICES ASSUME RehashStart(t) PROVE FALSE
    OBVIOUS
  <2>1. /\ At(t, "rehash") /\ lock = Null /\ limit <= 0
        /\ \E w \in Vector : life[w] = "free" /\
            th'[t] = [th[t] EXCEPT !.pc = "copykey", !.vec = vec, !.ix = 0, !.word = Null, !.np = w]
    BY RehashStartDoes
  <2> QED
    BY <2>1, <1>c DEF Clearing, At, Local
<1>22. ~OutOfMemory(t)
  <2> SUFFICES ASSUME OutOfMemory(t) PROVE FALSE
    OBVIOUS
  <2>1. /\ At(t, "limit") \/ At(t, "rehash")
        /\ th'[t] = Rest
    BY OutOfMemoryDoes
  <2> QED
    BY <2>1, <1>c DEF Clearing, At, Local, Rest
<1>23. ~CopyKey(t)
  <2> SUFFICES ASSUME CopyKey(t) PROVE FALSE
    OBVIOUS
  <2>1. /\ At(t, "copykey")
        /\ th'[t] = [th[t] EXCEPT !.pc = "copyval", !.word = This(t).key]
    BY CopyKeyDoes
  <2> QED
    BY <2>1, <1>c DEF Clearing, At, Local
<1>24. ~CopyValue(t)
  <2> SUFFICES ASSUME CopyValue(t) PROVE FALSE
    OBVIOUS
  <2>1. /\ At(t, "copyval")
        /\ \/ /\ th[t].ix + 1 < Size(th[t].vec)
             /\ th'[t] = [th[t] EXCEPT !.pc = "copykey", !.ix = th[t].ix + 1, !.word = Null]
           \/ /\ ~(th[t].ix + 1 < Size(th[t].vec))
             /\ th'[t] = [th[t] EXCEPT !.pc = "setlimit", !.ix = 0, !.word = Null]
    BY CopyValueDoes
  <2> QED
    BY <2>1, <1>c DEF Clearing, At, Local
<1>25. ~SetLimit(t)
  <2> SUFFICES ASSUME SetLimit(t) PROVE FALSE
    OBVIOUS
  <2>1. /\ At(t, "setlimit")
        /\ th'[t] = [th[t] EXCEPT !.pc = "install"]
    BY SetLimitDoes
  <2> QED
    BY <2>1, <1>c DEF Clearing, At, Local
<1>26. ~Install(t)
  <2> SUFFICES ASSUME Install(t) PROVE FALSE
    OBVIOUS
  <2>1. /\ At(t, "install") /\ th[t].op # "assign"
        /\ th'[t].pc = "probe" /\ th'[t].op = th[t].op /\ th'[t].key = th[t].key /\ th'[t].vec = th[t].np /\ th'[t].ix = 0
        /\ th'[t].own = th[t].own /\ th'[t].kobj = th[t].kobj /\ th'[t].word = Null /\ th'[t].np = Null /\ th'[t].met = {}
    BY InstallDoes
  <2> QED
    BY <2>1, <1>c DEF Clearing, At, Local
<1>27. ~AssignAcquire(t)
  <2> SUFFICES ASSUME AssignAcquire(t) PROVE FALSE
    OBVIOUS
  <2>1. /\ At(t, "acquire") /\ th[t].op = "assign" /\ lock = Null
        /\ th'[t] = [th[t] EXCEPT !.pc = "mark", !.vec = vec]
    BY AssignAcquireDoes
  <2> QED
    BY <2>1, <1>c DEF Clearing, At, Local
<1>28. ~Mark(t)
  <2> SUFFICES ASSUME Mark(t) PROVE FALSE
    OBVIOUS
  <2>1. /\ At(t, "mark") /\ th[t].ix < Size(th[t].vec)
        /\ \E o \in ValObj \cup {Null} :
            th'[t] = [th[t] EXCEPT !.ix = th[t].ix + 1, !.own = o]
    BY MarkDoes
  <2> QED
    BY <2>1, <1>c DEF Clearing, At, Local
<1>29. ~AssignLimit(t)
  <2> SUFFICES ASSUME AssignLimit(t) PROVE FALSE
    OBVIOUS
  <2>1. /\ At(t, "mark") /\ th[t].ix = Size(th[t].vec)
        /\ th'[t] = [th[t] EXCEPT !.pc = "install"]
    BY AssignLimitDoes
  <2> QED
    BY <2>1, <1>c DEF Clearing, At, Local
<1>30. ~AssignInstall(t)
  <2> SUFFICES ASSUME AssignInstall(t) PROVE FALSE
    OBVIOUS
  <2>1. /\ At(t, "install") /\ th[t].op = "assign"
        /\ th'[t] = Rest
    BY AssignInstallDoes
  <2> QED
    BY <2>1, <1>c DEF Clearing, At, Local, Rest
<1>31. ~ClearDone(t)
  <2> SUFFICES ASSUME ClearDone(t) PROVE FALSE
    OBVIOUS
  <2>1. /\ At(t, "clrcount")
        /\ th'[t] = Rest
    BY ClearDoneDoes
  <2> QED
    BY <2>1, <1>c DEF Clearing, At, Local, Rest
<1>32. ~WalkKey(t)
  <2> SUFFICES ASSUME WalkKey(t) PROVE FALSE
    OBVIOUS
  <2>1. /\ At(t, "walk") /\ th[t].ix < Size(th[t].vec)
        /\ \/ th'[t] = [th[t] EXCEPT !.ix = th[t].ix + 1]
           \/ This(t).key # FREE /\ th'[t] = [th[t] EXCEPT !.pc = "walkval", !.word = This(t).key]
    BY WalkKeyDoes
  <2> QED
    BY <2>1, <1>c DEF Clearing, At, Local
<1>33. ~WalkValue(t)
  <2> SUFFICES ASSUME WalkValue(t) PROVE FALSE
    OBVIOUS
  <2>1. /\ At(t, "walkval")
        /\ \E m \in SUBSET Key :
            th'[t] = [th[t] EXCEPT !.pc = "walk", !.ix = th[t].ix + 1, !.word = Null, !.met = m]
    BY WalkValueDoes
  <2> QED
    BY <2>1, <1>c DEF Clearing, At, Local
<1>34. ~WalkEnd(t)
  <2> SUFFICES ASSUME WalkEnd(t) PROVE FALSE
    OBVIOUS
  <2>1. /\ At(t, "walk")
        /\ th'[t] = Rest
    BY WalkEndDoes
  <2> QED
    BY <2>1, <1>c DEF Clearing, At, Local, Rest
<1>35. ~ClearStart(t)
  <2> SUFFICES ASSUME ClearStart(t) PROVE FALSE
    OBVIOUS
  <2>1. /\ At(t, "idle")
        /\ th'[t].pc = "acquire" /\ th'[t].op = "clear" /\ th'[t].key = Null /\ th'[t].vec = Null /\ th'[t].ix = 0
        /\ th'[t].own = Null /\ th'[t].kobj = Null /\ th'[t].word = Null /\ th'[t].np = Null /\ th'[t].met = {}
    BY ClearStartDoes
  <2> QED
    BY <2>1, <1>c DEF Clearing, At, Local
<1>36. ~WalkStart(t)
  <2> SUFFICES ASSUME WalkStart(t) PROVE FALSE
    OBVIOUS
  <2>1. /\ At(t, "idle")
        /\ th'[t].pc = "walk" /\ th'[t].op = "walk" /\ th'[t].key = Null /\ th'[t].vec = vec /\ th'[t].ix = 0
        /\ th'[t].own = Null /\ th'[t].kobj = Null /\ th'[t].word = Null /\ th'[t].np = Null /\ th'[t].met = {}
    BY WalkStartDoes
  <2> QED
    BY <2>1, <1>c DEF Clearing, At, Local
<1>37. ASSUME NEW k \in Key, LookupStart(t, k) PROVE FALSE
  BY <1>37, LookupStartDoes DEF Clearing
<1>38. ASSUME NEW k \in Key, InsertStart(t, k) PROVE FALSE
  BY <1>38, InsertStartDoes DEF Clearing
<1>39. ASSUME NEW k \in Key, AssignStart(t, k) PROVE FALSE
  BY <1>39, AssignStartDoes DEF Clearing
<1> QED
  BY <1>1, <1>2, <1>3, <1>4, <1>5, <1>6, <1>7, <1>8, <1>9, <1>10, <1>11, <1>12, <1>13, <1>14, <1>15, <1>16, <1>17, <1>18, <1>19, <1>20, <1>21, <1>22, <1>23, <1>24, <1>25, <1>26, <1>27, <1>28, <1>29, <1>30, <1>31, <1>32, <1>33, <1>34, <1>35, <1>36, <1>37, <1>38, <1>39 DEF Moves, Start, Proceed

(* Every step keeps free what clear has gone over.                         *)
LEMMA WipedStep ==
  ASSUME Excluding, Structure, RoomOK, NEW t \in Thread, Moves(t)
  PROVE  WipedOK'
<1> USE DEF Structure, Shape
<1> SUFFICES ASSUME NEW u \in Thread, th'[u].pc \in Clearing
             PROVE  /\ \A i \in DOMAIN tab'[vec'].slot :
                         i < th'[u].ix \/ th'[u].pc \in {"clrlimit", "clrcount"} =>
                           tab'[vec'].slot[i] = EmptySlot
                    /\ th'[u].pc = "clrput" => This(u)'.key = th'[u].kobj
                    /\ th'[u].pc = "clrval" => This(u)'.key = FREE
  BY DEF WipedOK, At
<1>1. u = t
  <2> SUFFICES ASSUME u # t PROVE FALSE
    OBVIOUS
  <2>1. th[u].pc \in Clearing
    BY ThreadTypes
  <2>2. Exclusive(u)
    BY <2>1 DEF Exclusive, CallsOK, CallOK, Places, Clearing, Copying, Storing, Erasing
  <2> QED
    BY <2>2, AloneMoves
<1>2. /\ th[t] \in Local /\ th[t].ix \in Nat /\ th[t].ix + 1 \in Nat /\ CallOK(t)
      /\ vec \in Vector /\ tab[vec].pidx # 0 /\ Size(vec) \in Nat \ {0}
      /\ DOMAIN tab[vec].slot = 0..Size(vec) - 1
  BY Indices DEF Types, Local, VectorsOK, CallsOK
<1>3. CASE ClearAcquire(t)
  <2>1. /\ th'[t] = [th[t] EXCEPT !.pc = "clrkey", !.vec = vec]
        /\ At(t, "acquire") /\ vec' = vec /\ tab' = tab
    BY <1>3, ClearAcquireDoes, ClearAcquireFrame DEF ClearAcquire
  <2>2. th'[t].pc = "clrkey" /\ th'[t].ix = 0
    BY <1>2, <2>1 DEF CallOK, At, Local
  <2>3. \A i \in DOMAIN tab'[vec'].slot : ~(i < 0)
    BY <1>2, <2>1
  <2> QED
    BY <1>1, <2>2, <2>3
<1>4. ASSUME ~ClearAcquire(t)
      PROVE  /\ th[t].pc \in Clearing /\ th[t].vec = vec /\ vec' = vec
             /\ tab'[vec].pidx # 0 /\ DOMAIN tab'[vec].slot = DOMAIN tab[vec].slot
  <2>1. th[t].pc \in Clearing /\ vec' = vec
    BY <1>1, <1>4, ClearingMoves, ClearReadKeyFrame, ClearFreeKeyFrame, ClearFreeValueFrame,
       ClearSetLimitFrame
    DEF ClearReadKey, ClearFreeKey, ClearFreeValue, ClearSetLimit, At, Clearing
  <2>2. th[t].vec = vec
    BY <2>1 DEF LockOK
  <2>3. tab'[vec].pidx # 0
    BY <1>2, <2>1, TablesStep, VectorStepOK DEF VectorsOK
  <2> QED
    BY <1>2, <2>1, <2>2, <2>3, SizesKept
<1>5. CASE ClearReadKey(t)
  <2>0. ~ClearAcquire(t)
    BY <1>5 DEF ClearReadKey, ClearAcquire, At
  <2>1. /\ th'[t] = [th[t] EXCEPT !.pc = "clrput", !.kobj = This(t).key]
        /\ At(t, "clrkey") /\ tab' = tab
    BY <1>5, ClearReadKeyDoes DEF ClearReadKey
  <2>2. /\ th'[t].pc = "clrput" /\ th'[t].ix = th[t].ix /\ th'[t].vec = th[t].vec
        /\ th'[t].kobj = This(t).key
    BY <1>2, <2>1 DEF Local
  <2>3. This(t)' = This(t)
    BY <2>1, <2>2 DEF This
  <2> QED
    BY <1>1, <1>4, <2>0, <2>1, <2>2, <2>3 DEF WipedOK
<1>6. CASE ClearSetLimit(t)
  <2>0. ~ClearAcquire(t)
    BY <1>6 DEF ClearSetLimit, ClearAcquire, At
  <2>1. th'[t] = [th[t] EXCEPT !.pc = "clrcount"] /\ At(t, "clrlimit") /\ tab' = tab
    BY <1>6, ClearSetLimitDoes DEF ClearSetLimit
  <2>2. th'[t].pc = "clrcount"
    BY <1>2, <2>1 DEF Local
  <2> QED
    BY <1>1, <1>4, <2>0, <2>1, <2>2 DEF WipedOK, At
<1>7. ASSUME ClearFreeKey(t) \/ ClearFreeValue(t), NEW i \in DOMAIN tab[vec].slot
      PROVE  /\ i # th[t].ix => tab'[vec].slot[i] = tab[vec].slot[i]
             /\ i = th[t].ix /\ ClearFreeKey(t) => tab'[vec].slot[i].key = FREE
             /\ i = th[t].ix /\ ClearFreeValue(t) =>
                  /\ tab'[vec].slot[i].key = tab[vec].slot[i].key
                  /\ tab'[vec].slot[i].val = FREE /\ ~tab'[vec].slot[i].x
  <2>0. ~ClearAcquire(t)
    BY <1>7 DEF ClearFreeKey, ClearFreeValue, ClearAcquire, At
  <2>1. SlotStep(t, vec, i)
    BY <1>2, <1>4, <2>0, SlotSteps
  <2>2. /\ ~FillSlot(t) /\ ~SwapValue(t) /\ ~TakeValue(t) /\ ~Bury(t) /\ ~CopyValue(t)
        /\ ~Mark(t)
    BY <1>7 DEF ClearFreeKey, ClearFreeValue, FillSlot, SwapValue, TakeValue, Bury,
      CopyValue, Mark, At
  <2>3. ~(ClearFreeKey(t) /\ ClearFreeValue(t))
    BY DEF ClearFreeKey, ClearFreeValue, At
  <2> QED
    BY <1>2, <1>4, <1>7, <2>0, <2>1, <2>2, <2>3 DEF SlotStep, SlotSame, SlotFilled, SlotSwapped,
      SlotTaken, SlotBuried, SlotBarred, SlotCopied, SlotMade, SlotKeyFreed, SlotValueFreed,
      Writes
<1>8. CASE ClearFreeKey(t)
  <2>0. ~ClearAcquire(t) /\ At(t, "clrput")
    BY <1>8 DEF ClearFreeKey, ClearAcquire, At
  <2>1. th'[t] = [th[t] EXCEPT !.pc = "clrval"]
    BY <1>8, ClearFreeKeyDoes
  <2>2. th'[t].pc = "clrval" /\ th'[t].ix = th[t].ix /\ th'[t].vec = th[t].vec
    BY <1>2, <2>1 DEF Local
  <2>3. th[t].ix \in DOMAIN tab[vec].slot
    BY <1>4, <2>0, Found DEF At
  <2>4. This(t)'.key = FREE
    BY <1>4, <1>7, <1>8, <2>0, <2>2, <2>3 DEF This
  <2>5. ASSUME NEW i \in DOMAIN tab[vec].slot, i < th[t].ix
        PROVE  tab'[vec].slot[i] = EmptySlot
    <3>1. i # th[t].ix
      BY <1>2, <2>5
    <3>2. tab[vec].slot[i] = EmptySlot
      BY <1>4, <2>0, <2>5 DEF WipedOK
    <3> QED
      BY <1>7, <1>8, <3>1, <3>2
  <2> QED
    BY <1>1, <1>4, <2>0, <2>2, <2>4, <2>5
<1>9. CASE ClearFreeValue(t)
  <2>0. ~ClearAcquire(t) /\ At(t, "clrval")
    BY <1>9 DEF ClearFreeValue, ClearAcquire, At
  <2>1. /\ th'[t].pc \in {"clrkey", "clrlimit"}
        /\ th'[t].pc = "clrkey" => th'[t].ix = th[t].ix + 1
        /\ th'[t].pc = "clrlimit" => ~(th[t].ix + 1 < Size(th[t].vec)) /\ th'[t].ix = 0
    <3>2. th[t].ix + 1 \in Nat /\ 0 \in Nat
      BY <1>2 DEF Local
    <3>3. CASE th[t].ix + 1 < Size(th[t].vec)
      <4>1. PICK o \in ValObj \cup {Null} :
              th'[t] = [th[t] EXCEPT !.pc = "clrkey", !.ix = th[t].ix + 1, !.kobj = Null, !.own = o]
        BY <1>9, <3>3, ClearFreeValueDoes
      <4> QED
        BY <1>2, <3>2, <4>1 DEF Local
    <3>4. CASE ~(th[t].ix + 1 < Size(th[t].vec))
      <4>1. PICK o \in ValObj \cup {Null} :
              th'[t] = [th[t] EXCEPT !.pc = "clrlimit", !.ix = 0, !.kobj = Null, !.own = o]
        BY <1>9, <3>4, ClearFreeValueDoes
      <4> QED
        BY <1>2, <3>2, <3>4, <4>1 DEF Local
    <3> QED
      BY <3>3, <3>4
  <2>3. th[t].ix \in DOMAIN tab[vec].slot
    BY <1>4, <2>0, Found DEF At
  <2>4. ASSUME NEW i \in DOMAIN tab[vec].slot, i <= th[t].ix
        PROVE  tab'[vec].slot[i] = EmptySlot
    <3>1. CASE i = th[t].ix
      <4>1. tab[vec].slot[i].key = FREE
        BY <1>4, <2>0, <3>1 DEF WipedOK, This
      <4>2. /\ tab'[vec].slot[i].key = FREE /\ tab'[vec].slot[i].val = FREE
            /\ ~tab'[vec].slot[i].x
        BY <1>7, <1>9, <3>1, <4>1
      <4>3. tab'[vec].slot[i] \in SlotRec
        <5>1. IsTable(tab'[vec]) /\ tab'[vec].pidx # 0 /\ i \in DOMAIN tab'[vec].slot
          BY <1>2, <1>4, <2>0, TablesStep
        <5>2. tab'[vec].slot \in [DOMAIN tab'[vec].slot -> SlotRec]
          BY <5>1, TableFacts
        <5> QED
          BY <5>1, <5>2
      <4> DEFINE r == tab'[vec].slot[i]
      <4>4. r = [key |-> r.key, val |-> r.val, x |-> r.x] /\ r.x \in BOOLEAN
        BY <4>3 DEF SlotRec
      <4>5. r.x = FALSE
        BY <4>2, <4>4
      <4> QED
        BY <4>2, <4>4, <4>5 DEF EmptySlot
    <3>2. CASE i # th[t].ix
      <4>1. i < th[t].ix
        BY <1>2, <2>4, <3>2
      <4>2. tab[vec].slot[i] = EmptySlot
        BY <1>4, <2>0, <4>1 DEF WipedOK
      <4> QED
        BY <1>7, <1>9, <3>2, <4>2
    <3> QED
      BY <3>1, <3>2
  <2>5. ASSUME NEW i \in DOMAIN tab[vec].slot,
               i < th'[t].ix \/ th'[t].pc \in {"clrlimit", "clrcount"}
        PROVE  i <= th[t].ix
    BY <1>2, <1>4, <2>0, <2>1, <2>5
  <2> QED
    BY <1>1, <1>4, <2>0, <2>1, <2>4, <2>5
<1> QED
  BY <1>1, <1>3, <1>5, <1>6, <1>8, <1>9, ClearingMoves

-----------------------------------------------------------------------------
(* Bits.                                                                   *)

(* A loop has gone past a slot.                                            *)
Past(u, i) ==
  \/ th[u].pc \in {"copykey", "copyval", "mark"} /\ i < th[u].ix
  \/ th[u].pc \in {"setlimit", "install"}

(* Only a step of the copying or marking loop puts another slot behind it. *)
LEMMA PastMoves ==
  ASSUME Shape, NEW t \in Thread, Moves(t), ~Install(t), ~AssignInstall(t),
         NEW i \in 0..Size(vec) - 1
  PROVE  Past(t, i)' <=> (Past(t, i) \/ ((CopyValue(t) \/ Mark(t)) /\ i = th[t].ix))
<1> DEFINE Goal == Past(t, i)' <=> (Past(t, i) \/ ((CopyValue(t) \/ Mark(t)) /\ i = th[t].ix))
<1>c. /\ CallOK(t) /\ th[t] \in Local /\ th[t].ix \in Nat /\ th[t].ix + 1 \in Nat
      /\ vec \in Vector /\ tab[vec].pidx # 0 /\ Size(vec) \in Nat \ {0}
      /\ i \in Nat /\ i < Size(vec)
      /\ th[t].pc \in Copying \cup {"mark"} => th[t].vec = vec
  <2>1. CallOK(t) /\ th[t] \in Local /\ th[t].ix \in Nat /\ th[t].ix + 1 \in Nat
    BY DEF Shape, Types, Local, CallsOK
  <2>2. vec \in Vector /\ tab[vec].pidx # 0 /\ Size(vec) \in Nat \ {0}
    BY Indices DEF Shape, Types, VectorsOK
  <2>3. th[t].pc \in Copying \cup {"mark"} => th[t].vec = vec
    BY DEF Shape, LockOK
  <2> QED
    BY <2>1, <2>2, <2>3
<1>1. CASE ProbeFree(t)
  <2>1. /\ At(t, "probe") /\ Here(t).key = FREE
        /\ th'[t] = [th[t] EXCEPT !.pc = IF Puts(t) THEN "limit" ELSE "answer"]
    BY <1>1, ProbeFreeDoes
  <2>2. ~CopyValue(t) /\ ~Mark(t)
    BY <2>1 DEF CopyValue, Mark, At
  <2> QED
    BY <2>1, <2>2, <1>c DEF Past, At, Local, CallOK, Copying
<1>2. CASE ProbeMatch(t)
  <2>1. /\ At(t, "probe") /\ Here(t).key \notin Word /\ Here(t).key[1] = th[t].key
        /\ th'[t] = [th[t] EXCEPT !.pc = "value"]
    BY <1>2, ProbeMatchDoes
  <2>2. ~CopyValue(t) /\ ~Mark(t)
    BY <2>1 DEF CopyValue, Mark, At
  <2> QED
    BY <2>1, <2>2, <1>c DEF Past, At, Local, CallOK, Copying
<1>3. CASE ProbeNext(t)
  <2>1. /\ At(t, "probe") /\ Passed(t, th[t].ix)
        /\ \/ /\ th[t].ix + 1 < Size(th[t].vec)
             /\ th'[t] = [th[t] EXCEPT !.ix = th[t].ix + 1]
           \/ /\ ~(th[t].ix + 1 < Size(th[t].vec)) /\ Puts(t)
             /\ th'[t] = [th[t] EXCEPT !.pc = "wild"]
           \/ ~Puts(t) /\ th'[t] = [th[t] EXCEPT !.pc = "answer"]
    BY <1>3, ProbeNextDoes
  <2>2. ~CopyValue(t) /\ ~Mark(t)
    BY <2>1 DEF CopyValue, Mark, At
  <2> QED
    BY <2>1, <2>2, <1>c DEF Past, At, Local, CallOK, Copying
<1>4. CASE FindValue(t)
  <2>1. /\ At(t, "value") /\ th[t].op = "find"
        /\ \E d \in ValObj \cup Word \cup {Null} :
            th'[t] = [th[t] EXCEPT !.pc = "answer", !.word = d]
    BY <1>4, FindValueDoes
  <2>2. ~CopyValue(t) /\ ~Mark(t)
    BY <2>1 DEF CopyValue, Mark, At
  <2> QED
    BY <2>1, <2>2, <1>c DEF Past, At, Local, CallOK, Copying
<1>5. CASE Answer(t)
  <2>1. /\ At(t, "answer")
        /\ th'[t] = Rest
    BY <1>5, AnswerDoes
  <2>2. ~CopyValue(t) /\ ~Mark(t)
    BY <2>1 DEF CopyValue, Mark, At
  <2> QED
    BY <2>1, <2>2, <1>c DEF Past, At, Local, CallOK, Copying, Rest
<1>6. CASE PutValue(t)
  <2>1. /\ At(t, "value") /\ Puts(t) /\ Usable(Here(t))
        /\ \E v \in ValObj :
            /\ th[t].op = "insert" => v = th[t].own
            /\ th'[t] = [th[t] EXCEPT !.pc = "swap", !.word = Here(t).val, !.own = v]
    BY <1>6, PutValueDoes
  <2>2. ~CopyValue(t) /\ ~Mark(t)
    BY <2>1 DEF CopyValue, Mark, At
  <2> QED
    BY <2>1, <2>2, <1>c DEF Past, At, Local, CallOK, Copying
<1>7. CASE UpdateInPlace(t)
  <2>1. /\ At(t, "value") /\ th[t].op = "update"
        /\ th'[t] = Rest
    BY <1>7, UpdateInPlaceDoes
  <2>2. ~CopyValue(t) /\ ~Mark(t)
    BY <2>1 DEF CopyValue, Mark, At
  <2> QED
    BY <2>1, <2>2, <1>c DEF Past, At, Local, CallOK, Copying, Rest
<1>8. CASE SwapValue(t)
  <2>1. /\ At(t, "swap") /\ Here(t).val = th[t].word /\ ~Here(t).x
        /\ th'[t] = Rest
    BY <1>8, SwapValueDoes
  <2>2. ~CopyValue(t) /\ ~Mark(t)
    BY <2>1 DEF CopyValue, Mark, At
  <2> QED
    BY <2>1, <2>2, <1>c DEF Past, At, Local, CallOK, Copying, Rest
<1>9. CASE DecrLimit(t)
  <2>1. /\ At(t, "limit") /\ limit > 0
        /\ \E k \in KeyObj, v \in ValObj :
            /\ th[t].kobj # Null => k = th[t].kobj
            /\ k[1] = th[t].key
            /\ th'[t] = [th[t] EXCEPT !.pc = "dcas", !.kobj = k, !.own = v]
    BY <1>9, DecrLimitDoes
  <2>2. ~CopyValue(t) /\ ~Mark(t)
    BY <2>1 DEF CopyValue, Mark, At
  <2> QED
    BY <2>1, <2>2, <1>c DEF Past, At, Local, CallOK, Copying
<1>10. CASE PutWait(t)
  <2>1. /\ At(t, "limit") \/ (At(t, "value") /\ Puts(t))
        /\ th'[t] = [th[t] EXCEPT !.pc = "rehash"]
    BY <1>10, PutWaitDoes
  <2>2. ~CopyValue(t) /\ ~Mark(t)
    BY <2>1 DEF CopyValue, Mark, At
  <2> QED
    BY <2>1, <2>2, <1>c DEF Past, At, Local, CallOK, Copying
<1>11. CASE FillSlot(t)
  <2>1. /\ At(t, "dcas") /\ Here(t) = EmptySlot
        /\ th'[t] = [th[t] EXCEPT !.pc = "count"]
    BY <1>11, FillSlotDoes
  <2>2. ~CopyValue(t) /\ ~Mark(t)
    BY <2>1 DEF CopyValue, Mark, At
  <2> QED
    BY <2>1, <2>2, <1>c DEF Past, At, Local, CallOK, Copying
<1>12. CASE StoreFails(t)
  <2>1. /\ At(t, "swap") \/ At(t, "dcas")
        /\ th'[t].pc = "probe" /\ th'[t].op = th[t].op /\ th'[t].key = th[t].key /\ th'[t].vec = vec /\ th'[t].ix = 0
        /\ th'[t].own = Kept(t) /\ th'[t].kobj = th[t].kobj /\ th'[t].word = Null /\ th'[t].np = Null /\ th'[t].met = {}
    BY <1>12, StoreFailsDoes
  <2>2. ~CopyValue(t) /\ ~Mark(t)
    BY <2>1 DEF CopyValue, Mark, At
  <2> QED
    BY <2>1, <2>2, <1>c DEF Past, At, Local, CallOK, Copying
<1>13. CASE CountUp(t)
  <2>1. /\ At(t, "count")
        /\ th'[t] = Rest
    BY <1>13, CountUpDoes
  <2>2. ~CopyValue(t) /\ ~Mark(t)
    BY <2>1 DEF CopyValue, Mark, At
  <2> QED
    BY <2>1, <2>2, <1>c DEF Past, At, Local, CallOK, Copying, Rest
<1>14. CASE OldKey(t)
  <2>1. /\ At(t, "value") /\ th[t].op = "erase"
        /\ th'[t] = [th[t] EXCEPT !.pc = "oldval", !.kobj = Here(t).key]
    BY <1>14, OldKeyDoes
  <2>2. ~CopyValue(t) /\ ~Mark(t)
    BY <2>1 DEF CopyValue, Mark, At
  <2> QED
    BY <2>1, <2>2, <1>c DEF Past, At, Local, CallOK, Copying
<1>15. CASE OldValue(t)
  <2>1. /\ At(t, "oldval")
        /\ \E l \in {"take", "rehash", "answer"}, o \in KeyObj \cup {Null}, d \in ValObj \cup {Null} :
            /\ l = "take" => /\ o = th[t].kobj /\ o # Null /\ d # Null
                           /\ ~Here(t).x /\ d = Here(t).val
            /\ l # "take" => o = Null /\ d = th[t].word
            /\ th'[t] = [th[t] EXCEPT !.pc = l, !.word = d, !.kobj = o]
    BY <1>15, OldValueDoes
  <2>2. ~CopyValue(t) /\ ~Mark(t)
    BY <2>1 DEF CopyValue, Mark, At
  <2> QED
    BY <2>1, <2>2, <1>c DEF Past, At, Local, CallOK, Copying
<1>16. CASE TakeValue(t)
  <2>1. /\ At(t, "take") /\ Here(t).val = th[t].word /\ ~Here(t).x
        /\ th'[t] = [th[t] EXCEPT !.pc = "uncount"]
    BY <1>16, TakeValueDoes
  <2>2. ~CopyValue(t) /\ ~Mark(t)
    BY <2>1 DEF CopyValue, Mark, At
  <2> QED
    BY <2>1, <2>2, <1>c DEF Past, At, Local, CallOK, Copying
<1>17. CASE TakeFails(t)
  <2>1. /\ At(t, "take")
        /\ th'[t].pc = "probe" /\ th'[t].op = "erase" /\ th'[t].key = th[t].key /\ th'[t].vec = vec /\ th'[t].ix = 0
        /\ th'[t].own = Null /\ th'[t].kobj = Null /\ th'[t].word = Null /\ th'[t].np = Null /\ th'[t].met = {}
    BY <1>17, TakeFailsDoes
  <2>2. ~CopyValue(t) /\ ~Mark(t)
    BY <2>1 DEF CopyValue, Mark, At
  <2> QED
    BY <2>1, <2>2, <1>c DEF Past, At, Local, CallOK, Copying
<1>18. CASE CountDown(t)
  <2>1. /\ At(t, "uncount")
        /\ th'[t] = [th[t] EXCEPT !.pc = "bury"]
    BY <1>18, CountDownDoes
  <2>2. ~CopyValue(t) /\ ~Mark(t)
    BY <2>1 DEF CopyValue, Mark, At
  <2> QED
    BY <2>1, <2>2, <1>c DEF Past, At, Local, CallOK, Copying
<1>19. CASE Bury(t)
  <2>1. /\ At(t, "bury")
        /\ th'[t] = Rest
    BY <1>19, BuryDoes
  <2>2. ~CopyValue(t) /\ ~Mark(t)
    BY <2>1 DEF CopyValue, Mark, At
  <2> QED
    BY <2>1, <2>2, <1>c DEF Past, At, Local, CallOK, Copying, Rest
<1>20. CASE NoRehash(t)
  <2>1. /\ At(t, "rehash") /\ lock = Null
        /\ th'[t].pc = "probe" /\ th'[t].op = th[t].op /\ th'[t].key = th[t].key /\ th'[t].vec = vec /\ th'[t].ix = 0
        /\ th'[t].own = th[t].own /\ th'[t].kobj = th[t].kobj /\ th'[t].word = Null /\ th'[t].np = Null /\ th'[t].met = {}
    BY <1>20, NoRehashDoes
  <2>2. ~CopyValue(t) /\ ~Mark(t)
    BY <2>1 DEF CopyValue, Mark, At
  <2> QED
    BY <2>1, <2>2, <1>c DEF Past, At, Local, CallOK, Copying
<1>21. CASE RehashStart(t)
  <2>1. /\ At(t, "rehash") /\ lock = Null /\ limit <= 0
        /\ \E w \in Vector : life[w] = "free" /\
            th'[t] = [th[t] EXCEPT !.pc = "copykey", !.vec = vec, !.ix = 0, !.word = Null, !.np = w]
    BY <1>21, RehashStartDoes
  <2>2. ~CopyValue(t) /\ ~Mark(t)
    BY <2>1 DEF CopyValue, Mark, At
  <2> QED
    BY <2>1, <2>2, <1>c DEF Past, At, Local, CallOK, Copying
<1>22. CASE OutOfMemory(t)
  <2>1. /\ At(t, "limit") \/ At(t, "rehash")
        /\ th'[t] = Rest
    BY <1>22, OutOfMemoryDoes
  <2>2. ~CopyValue(t) /\ ~Mark(t)
    BY <2>1 DEF CopyValue, Mark, At
  <2> QED
    BY <2>1, <2>2, <1>c DEF Past, At, Local, CallOK, Copying, Rest
<1>23. CASE CopyKey(t)
  <2>1. /\ At(t, "copykey")
        /\ th'[t] = [th[t] EXCEPT !.pc = "copyval", !.word = This(t).key]
    BY <1>23, CopyKeyDoes
  <2>2. ~CopyValue(t) /\ ~Mark(t)
    BY <2>1 DEF CopyValue, Mark, At
  <2> QED
    BY <2>1, <2>2, <1>c DEF Past, At, Local, CallOK, Copying
<1>24. CASE CopyValue(t)
  <2>0. At(t, "copyval") /\ th[t].vec = vec
    BY <1>24, <1>c DEF CopyValue, At, Copying
  <2>1. \/ /\ th[t].ix + 1 < Size(vec)
           /\ th'[t].pc = "copykey" /\ th'[t].ix = th[t].ix + 1
        \/ /\ ~(th[t].ix + 1 < Size(vec)) /\ th'[t].pc = "setlimit"
    BY <1>24, <1>c, <2>0, CopyValueDoes DEF Local
  <2> QED
    BY <1>24, <2>0, <2>1, <1>c DEF Past, At
<1>25. CASE SetLimit(t)
  <2>1. /\ At(t, "setlimit")
        /\ th'[t] = [th[t] EXCEPT !.pc = "install"]
    BY <1>25, SetLimitDoes
  <2>2. ~CopyValue(t) /\ ~Mark(t)
    BY <2>1 DEF CopyValue, Mark, At
  <2> QED
    BY <2>1, <2>2, <1>c DEF Past, At, Local, CallOK, Copying
<1>26. CASE AssignAcquire(t)
  <2>1. /\ At(t, "acquire") /\ th[t].op = "assign" /\ lock = Null
        /\ th'[t] = [th[t] EXCEPT !.pc = "mark", !.vec = vec]
    BY <1>26, AssignAcquireDoes
  <2>2. ~CopyValue(t) /\ ~Mark(t)
    BY <2>1 DEF CopyValue, Mark, At
  <2> QED
    BY <2>1, <2>2, <1>c DEF Past, At, Local, CallOK, Copying
<1>27. CASE Mark(t)
  <2>0. At(t, "mark") /\ th[t].vec = vec
    BY <1>27, <1>c DEF Mark, At
  <2>1. th'[t].pc = "mark" /\ th'[t].ix = th[t].ix + 1
    <3>1. PICK o \in ValObj \cup {Null} :
            th'[t] = [th[t] EXCEPT !.ix = th[t].ix + 1, !.own = o]
      BY <1>27, MarkDoes
    <3> QED
      BY <1>c, <2>0, <3>1 DEF Local, At
  <2> QED
    BY <1>27, <2>0, <2>1, <1>c DEF Past, At
<1>28. CASE AssignLimit(t)
  <2>1. /\ At(t, "mark") /\ th[t].ix = Size(th[t].vec)
        /\ th'[t] = [th[t] EXCEPT !.pc = "install"]
    BY <1>28, AssignLimitDoes
  <2>2. ~CopyValue(t) /\ ~Mark(t)
    BY <2>1, <1>c DEF CopyValue, Mark, At
  <2> QED
    BY <2>1, <2>2, <1>c DEF Past, At, Local, CallOK, Copying
<1>29. CASE ClearAcquire(t)
  <2>1. /\ At(t, "acquire") /\ th[t].op = "clear" /\ lock = Null
        /\ th'[t] = [th[t] EXCEPT !.pc = "clrkey", !.vec = vec]
    BY <1>29, ClearAcquireDoes
  <2>2. ~CopyValue(t) /\ ~Mark(t)
    BY <2>1 DEF CopyValue, Mark, At
  <2> QED
    BY <2>1, <2>2, <1>c DEF Past, At, Local, CallOK, Copying
<1>30. CASE ClearReadKey(t)
  <2>1. /\ At(t, "clrkey")
        /\ th'[t] = [th[t] EXCEPT !.pc = "clrput", !.kobj = This(t).key]
    BY <1>30, ClearReadKeyDoes
  <2>2. ~CopyValue(t) /\ ~Mark(t)
    BY <2>1 DEF CopyValue, Mark, At
  <2> QED
    BY <2>1, <2>2, <1>c DEF Past, At, Local, CallOK, Copying
<1>31. CASE ClearFreeKey(t)
  <2>1. /\ At(t, "clrput")
        /\ th'[t] = [th[t] EXCEPT !.pc = "clrval"]
    BY <1>31, ClearFreeKeyDoes
  <2>2. ~CopyValue(t) /\ ~Mark(t)
    BY <2>1 DEF CopyValue, Mark, At
  <2> QED
    BY <2>1, <2>2, <1>c DEF Past, At, Local, CallOK, Copying
<1>32. CASE ClearFreeValue(t)
  <2>0. At(t, "clrval") /\ ~CopyValue(t) /\ ~Mark(t)
    BY <1>32 DEF ClearFreeValue, CopyValue, Mark, At
  <2>1. th'[t].pc \in {"clrkey", "clrlimit"}
    BY <1>32, <1>c, ClearFreeValueDoes DEF Local
  <2> QED
    BY <2>0, <2>1 DEF Past, At
<1>33. CASE ClearSetLimit(t)
  <2>1. /\ At(t, "clrlimit")
        /\ th'[t] = [th[t] EXCEPT !.pc = "clrcount"]
    BY <1>33, ClearSetLimitDoes
  <2>2. ~CopyValue(t) /\ ~Mark(t)
    BY <2>1 DEF CopyValue, Mark, At
  <2> QED
    BY <2>1, <2>2, <1>c DEF Past, At, Local, CallOK, Copying
<1>34. CASE ClearDone(t)
  <2>1. /\ At(t, "clrcount")
        /\ th'[t] = Rest
    BY <1>34, ClearDoneDoes
  <2>2. ~CopyValue(t) /\ ~Mark(t)
    BY <2>1 DEF CopyValue, Mark, At
  <2> QED
    BY <2>1, <2>2, <1>c DEF Past, At, Local, CallOK, Copying, Rest
<1>35. CASE WalkKey(t)
  <2>1. /\ At(t, "walk") /\ th[t].ix < Size(th[t].vec)
        /\ \/ th'[t] = [th[t] EXCEPT !.ix = th[t].ix + 1]
           \/ This(t).key # FREE /\ th'[t] = [th[t] EXCEPT !.pc = "walkval", !.word = This(t).key]
    BY <1>35, WalkKeyDoes
  <2>2. ~CopyValue(t) /\ ~Mark(t)
    BY <2>1 DEF CopyValue, Mark, At
  <2> QED
    BY <2>1, <2>2, <1>c DEF Past, At, Local, CallOK, Copying
<1>36. CASE WalkValue(t)
  <2>1. /\ At(t, "walkval")
        /\ \E m \in SUBSET Key :
            th'[t] = [th[t] EXCEPT !.pc = "walk", !.ix = th[t].ix + 1, !.word = Null, !.met = m]
    BY <1>36, WalkValueDoes
  <2>2. ~CopyValue(t) /\ ~Mark(t)
    BY <2>1 DEF CopyValue, Mark, At
  <2> QED
    BY <2>1, <2>2, <1>c DEF Past, At, Local, CallOK, Copying
<1>37. CASE WalkEnd(t)
  <2>1. /\ At(t, "walk")
        /\ th'[t] = Rest
    BY <1>37, WalkEndDoes
  <2>2. ~CopyValue(t) /\ ~Mark(t)
    BY <2>1 DEF CopyValue, Mark, At
  <2> QED
    BY <2>1, <2>2, <1>c DEF Past, At, Local, CallOK, Copying, Rest
<1>38. CASE ClearStart(t)
  <2>1. /\ At(t, "idle")
        /\ th'[t].pc = "acquire" /\ th'[t].op = "clear" /\ th'[t].key = Null /\ th'[t].vec = Null /\ th'[t].ix = 0
        /\ th'[t].own = Null /\ th'[t].kobj = Null /\ th'[t].word = Null /\ th'[t].np = Null /\ th'[t].met = {}
    BY <1>38, ClearStartDoes
  <2>2. ~CopyValue(t) /\ ~Mark(t)
    BY <2>1 DEF CopyValue, Mark, At
  <2> QED
    BY <2>1, <2>2, <1>c DEF Past, At, Local, CallOK, Copying
<1>39. CASE WalkStart(t)
  <2>1. /\ At(t, "idle")
        /\ th'[t].pc = "walk" /\ th'[t].op = "walk" /\ th'[t].key = Null /\ th'[t].vec = vec /\ th'[t].ix = 0
        /\ th'[t].own = Null /\ th'[t].kobj = Null /\ th'[t].word = Null /\ th'[t].np = Null /\ th'[t].met = {}
    BY <1>39, WalkStartDoes
  <2>2. ~CopyValue(t) /\ ~Mark(t)
    BY <2>1 DEF CopyValue, Mark, At
  <2> QED
    BY <2>1, <2>2, <1>c DEF Past, At, Local, CallOK, Copying
<1>40. ASSUME NEW k \in Key, LookupStart(t, k) PROVE Goal
  <2>1. At(t, "idle") /\ th'[t].pc \in {"probe", "acquire"}
    BY <1>40, LookupStartDoes
  <2>2. ~CopyValue(t) /\ ~Mark(t)
    BY <2>1 DEF CopyValue, Mark, At
  <2> QED
    BY <2>1, <2>2 DEF Past, At
<1>41. ASSUME NEW k \in Key, InsertStart(t, k) PROVE Goal
  <2>1. At(t, "idle") /\ th'[t].pc \in {"probe", "acquire"}
    BY <1>41, InsertStartDoes
  <2>2. ~CopyValue(t) /\ ~Mark(t)
    BY <2>1 DEF CopyValue, Mark, At
  <2> QED
    BY <2>1, <2>2 DEF Past, At
<1>42. ASSUME NEW k \in Key, AssignStart(t, k) PROVE Goal
  <2>1. At(t, "idle") /\ th'[t].pc \in {"probe", "acquire"}
    BY <1>42, AssignStartDoes
  <2>2. ~CopyValue(t) /\ ~Mark(t)
    BY <2>1 DEF CopyValue, Mark, At
  <2> QED
    BY <2>1, <2>2 DEF Past, At
<1> QED
  BY <1>1, <1>2, <1>3, <1>4, <1>5, <1>6, <1>7, <1>8, <1>9, <1>10, <1>11, <1>12, <1>13, <1>14, <1>15, <1>16, <1>17, <1>18, <1>19, <1>20, <1>21, <1>22, <1>23, <1>24, <1>25, <1>26, <1>27, <1>28, <1>29, <1>30, <1>31, <1>32, <1>33, <1>34, <1>35, <1>36, <1>37, <1>38, <1>39, <1>40, <1>41, <1>42 DEF Moves, Start, Proceed

(* A bit once set stays, unless the slot is wiped.                         *)
LEMMA BitKept ==
  ASSUME Shape, AloneOK, RoomOK, NEW t \in Thread, Moves(t), NEW w \in Vector,
         tab[w].pidx # 0, NEW i \in DOMAIN tab'[w].slot
  PROVE  /\ i \in DOMAIN tab[w].slot /\ tab'[w].slot[i].x \in BOOLEAN
         /\ tab[w].slot[i].x \in BOOLEAN
         /\ tab[w].slot[i].x => tab'[w].slot[i].x \/ SlotValueFreed(t, w, i)
                                  \/ SlotCopied(t, w, i)
         /\ tab'[w].slot[i].x => tab[w].slot[i].x \/ SlotBarred(t, w, i)
<1> USE DEF Shape
<1>1. SlotStep(t, w, i) /\ ~SlotMade(t, w, i) /\ i \in DOMAIN tab[w].slot
  BY SlotSteps DEF SlotStep, SlotMade
<1>2. tab'[w].slot[i] \in SlotRec
  <2>1. IsTable(tab'[w]) /\ tab'[w].pidx # 0
    BY TablesStep, TableFacts
  <2>2. tab'[w].slot \in [DOMAIN tab'[w].slot -> SlotRec]
    BY <2>1, TableFacts
  <2> QED
    BY <2>2
<1>3. tab'[w].slot[i].x \in BOOLEAN /\ tab[w].slot[i].x \in BOOLEAN
  BY <1>1, <1>2, SlotTyped DEF SlotRec
<1>4. \A k \in KeyObj, v \in ValObj : Pair(k, v).x = FALSE
  BY Pairs
<1>5. EmptySlot.x = FALSE
  BY DEF EmptySlot
<1> QED
  BY <1>1, <1>3, <1>4, <1>5 DEF SlotStep, SlotSame, SlotFilled, SlotSwapped, SlotTaken,
    SlotBuried, SlotBarred, SlotCopied, SlotKeyFreed, SlotValueFreed

(* Every step keeps the bits behind the loop that sets them.               *)
LEMMA BitsStep ==
  ASSUME Excluding, Structure, RoomOK, NEW t \in Thread, Moves(t)
  PROVE  BitsOK'
<1> USE DEF Structure, Shape
<1>1. /\ vec \in Vector /\ tab[vec].pidx # 0 /\ life[vec] = "live"
      /\ DOMAIN tab[vec].slot = 0..Size(vec) - 1
  BY Indices DEF Types, VectorsOK
<1>2. \A u \in Thread : \A i : Past(u, i) => lock = u /\ th[u].vec = vec
  BY DEF Past, LockOK, Copying
<1>3. \A u \in Thread \ {t} : \A i : Past(u, i)' <=> Past(u, i)
  BY ThreadTypes DEF Past
<1>4. \A i \in DOMAIN tab[vec].slot : tab[vec].slot[i].x = (\E u \in Thread : Past(u, i))
  BY DEF BitsOK, Past
<1>5. /\ Install(t) \/ AssignInstall(t) \/ vec' = vec
      /\ Install(t) \/ AssignInstall(t) =>
           vec' = th[t].np /\ At(t, "install") /\ th[t].np # Null /\ th[t].np \in Vector
  <2>1. Install(t) \/ AssignInstall(t) \/ vec' = vec
    BY ProbeFreeFrame, ProbeMatchFrame, ProbeNextFrame, FindValueFrame, AnswerFrame, PutValueFrame, UpdateInPlaceFrame, SwapValueFrame, DecrLimitFrame, PutWaitFrame, FillSlotFrame, StoreFailsFrame, CountUpFrame, OldKeyFrame, OldValueFrame, TakeValueFrame, TakeFailsFrame, CountDownFrame, BuryFrame, NoRehashFrame, RehashStartFrame, OutOfMemoryFrame, CopyKeyFrame, CopyValueFrame, SetLimitFrame, AssignAcquireFrame, MarkFrame, AssignLimitFrame, ClearAcquireFrame, ClearReadKeyFrame, ClearFreeKeyFrame, ClearFreeValueFrame, ClearSetLimitFrame, ClearDoneFrame, WalkKeyFrame, WalkValueFrame, WalkEndFrame, ClearStartFrame, WalkStartFrame, LookupStartFrame, InsertStartFrame, AssignStartFrame
    DEF Moves, Start, Proceed
  <2>2. Install(t) \/ AssignInstall(t) => vec' = th[t].np /\ At(t, "install")
    BY InstallFrame, AssignInstallFrame, InstallDoes, AssignInstallDoes
  <2>3. At(t, "install") => th[t].np # Null /\ th[t].np \in Vector
    BY Locals DEF CallsOK, CallOK, At, Copying, Local
  <2> QED
    BY <2>1, <2>2, <2>3
<1>6. ASSUME NEW i \in DOMAIN tab'[vec'].slot
      PROVE  tab'[vec'].slot[i].x = \E u \in Thread : Past(u, i)'
  <2>1. CASE Install(t) \/ AssignInstall(t)
    <3>1. vec' = th[t].np /\ At(t, "install") /\ th[t].np # Null /\ th[t].np \in Vector
      BY <1>5, <2>1
    <3>2. th'[t].pc \in {"probe", "idle"}
      BY <2>1, InstallDoes, AssignInstallDoes DEF Rest
    <3>3. ~Past(t, i)' /\ \A u \in Thread \ {t} : ~Past(u, i)'
      BY <1>2, <1>3, <3>1, <3>2 DEF Past, LockOK, At, Copying
    <3>4. ~tab'[vec'].slot[i].x /\ tab'[vec'].slot[i].x \in BOOLEAN
      <4>1. tab[vec'].pidx # 0
        BY <3>1 DEF VectorsOK
      <4>2. ~SlotBarred(t, vec', i)
        BY <3>1 DEF SlotBarred, VectorsOK
      <4>3. i \in DOMAIN tab[vec'].slot /\ EmptySlot.x = FALSE
        BY <3>1, <4>1, BitKept DEF EmptySlot
      <4>4. ~tab[vec'].slot[i].x
        BY <3>1, <4>3 DEF BitsOK
      <4> QED
        BY <3>1, <4>1, <4>2, <4>4, BitKept
    <3> QED
      BY <3>3, <3>4
  <2>2. CASE ~Install(t) /\ ~AssignInstall(t)
    <3>1. vec' = vec
      BY <1>5, <2>2
    <3>2. /\ i \in DOMAIN tab[vec].slot /\ i \in 0..Size(vec) - 1
          /\ tab'[vec].slot[i].x \in BOOLEAN /\ tab[vec].slot[i].x \in BOOLEAN
      BY <1>1, <3>1, BitKept
    <3>3. Past(t, i)' <=> (Past(t, i) \/ ((CopyValue(t) \/ Mark(t)) /\ i = th[t].ix))
      BY <2>2, <3>2, PastMoves
    <3>4. ~SlotCopied(t, vec, i)
      BY DEF SlotCopied
    <3>5. CASE (CopyValue(t) \/ Mark(t)) /\ i = th[t].ix
      <4>1. SlotStep(t, vec, i) /\ th[t].vec = vec
        BY <1>1, <3>1, <3>5, SlotSteps DEF CopyValue, Mark, At, LockOK, Copying
      <4>2. Writes(t, vec, i) /\ ~FillSlot(t) /\ ~SwapValue(t) /\ ~TakeValue(t) /\ ~Bury(t)
            /\ ~ClearFreeKey(t) /\ ~ClearFreeValue(t)
        BY <3>5, <4>1 DEF Writes, CopyValue, Mark, FillSlot, SwapValue, TakeValue, Bury,
          ClearFreeKey, ClearFreeValue, At
      <4>3. tab'[vec].slot[i].x
        BY <1>1, <3>4, <4>1, <4>2 DEF SlotStep, SlotSame, SlotFilled, SlotSwapped, SlotTaken,
          SlotBuried, SlotBarred, SlotKeyFreed, SlotValueFreed, SlotMade
      <4> QED
        BY <3>1, <3>2, <3>3, <3>5, <4>3
    <3>6. CASE ~((CopyValue(t) \/ Mark(t)) /\ i = th[t].ix)
      <4>1. ~SlotBarred(t, vec, i)
        BY <3>6 DEF SlotBarred
      <4>2. (\E u \in Thread : Past(u, i)') <=> (\E u \in Thread : Past(u, i))
        BY <1>3, <3>3, <3>6
      <4>3. tab[vec].slot[i].x <=> (\E u \in Thread : Past(u, i))
        BY <1>4, <3>2
      <4>4. CASE SlotValueFreed(t, vec, i)
        <5>1. ~tab'[vec].slot[i].x /\ th[t].pc = "clrval"
          BY <4>4 DEF SlotValueFreed, ClearFreeValue, At
        <5>2. \A u \in Thread : ~Past(u, i)
          BY <1>2, <5>1 DEF Past, LockOK, Clearing
        <5> QED
          BY <3>1, <3>2, <4>2, <5>1, <5>2
      <4>5. CASE ~SlotValueFreed(t, vec, i)
        <5>1. tab'[vec].slot[i].x <=> tab[vec].slot[i].x
          BY <1>1, <3>1, <3>4, <4>1, <4>5, BitKept
        <5> QED
          BY <3>1, <3>2, <4>2, <4>3, <5>1
      <4> QED
        BY <4>4, <4>5
    <3> QED
      BY <3>5, <3>6
  <2> QED
    BY <2>1, <2>2
<1>7. ASSUME NEW w \in Vector, life'[w] = "retired", NEW i \in DOMAIN tab'[w].slot
      PROVE  tab'[w].slot[i].x
  <2>1. \/ life[w] = "retired"
        \/ w = vec /\ (Install(t) \/ AssignInstall(t))
    <3>1. VectorStep(t, w)
      BY VectorsStep
    <3> QED
      BY <1>7, <3>1 DEF VectorStep, VectorKept, VectorMade, VectorReplaced
  <2>2. tab[w].pidx # 0
    BY <1>1, <2>1 DEF VectorsOK
  <2>3. i \in DOMAIN tab[w].slot
    BY <2>2, BitKept
  <2>4. tab[w].slot[i].x
    <3>1. CASE life[w] = "retired"
      BY <2>3, <3>1 DEF BitsOK
    <3>2. CASE w = vec /\ (Install(t) \/ AssignInstall(t))
      <4>1. Past(t, i)
        BY <1>5, <3>2 DEF Past, At
      <4> QED
        BY <1>4, <2>3, <3>2, <4>1
    <3> QED
      BY <2>1, <3>1, <3>2
  <2>5. ~SlotCopied(t, w, i)
    <3>1. SlotCopied(t, w, i) => life[w] = "live" /\ w # vec
      <4>1. w # Null
        BY Names
      <4> QED
        BY <4>1 DEF SlotCopied, VectorsOK
    <3> QED
      BY <2>1, <3>1
  <2>6. ~SlotValueFreed(t, w, i)
    <3> SUFFICES ASSUME SlotValueFreed(t, w, i) PROVE FALSE
      OBVIOUS
    <3>1. w = vec /\ At(t, "clrval")
      BY DEF SlotValueFreed, ClearFreeValue
    <3> QED
      BY <1>1, <1>5, <2>1, <3>1 DEF At
  <2> QED
    BY <2>2, <2>4, <2>5, <2>6, BitKept
<1>8. ASSUME NEW u \in Thread, th'[u].np # Null, NEW i \in DOMAIN tab'[th'[u].np].slot
      PROVE  LET s == tab'[th'[u].np].slot[i] IN s = EmptySlot \/ (IsLive(s) /\ ~s.x)
  <2> DEFINE w == th'[u].np
             s == tab'[w].slot[i]
  <2>1. w \in Vector
    BY <1>8, ThreadTypes DEF Local
  <2>2. SlotStep(t, w, i)
    BY <2>1, SlotSteps
  <2>3. \A k \in KeyObj, v \in ValObj : IsLive(Pair(k, v)) /\ Pair(k, v).x = FALSE
    BY Pairs
  <2>4. CASE SlotMade(t, w, i)
    BY <2>3, <2>4 DEF SlotMade
  <2>5. CASE ~SlotMade(t, w, i)
    <3>1. tab[w].pidx # 0 /\ i \in DOMAIN tab[w].slot
      BY <2>2, <2>5 DEF SlotStep
    <3>2. w = th[u].np
      <4>1. life[w] # "free"
        BY <2>1, <3>1 DEF VectorsOK
      <4> QED
        BY <1>8, <4>1, ThreadNp, ThreadTypes
    <3>3. tab[w].slot[i] = EmptySlot \/ (IsLive(tab[w].slot[i]) /\ ~tab[w].slot[i].x)
      BY <1>8, <3>1, <3>2 DEF BitsOK
    <3>4. w # vec /\ w # th[t].vec
      BY <1>8, <3>2 DEF VectorsOK
    <3>5. SlotSame(t, w, i) \/ SlotCopied(t, w, i)
      BY <2>2, <2>5, <3>4 DEF SlotStep, SlotFilled, SlotSwapped, SlotTaken, SlotBuried,
        SlotBarred, SlotKeyFreed, SlotValueFreed
    <3> QED
      BY <2>3, <3>3, <3>5 DEF SlotSame, SlotCopied
  <2> QED
    BY <2>4, <2>5
<1>9. \A u, i : Past(u, i)' <=> \/ th'[u].pc \in {"copykey", "copyval", "mark"} /\ i < th'[u].ix
                                \/ th'[u].pc \in {"setlimit", "install"}
  BY DEF Past
<1> QED
  BY <1>6, <1>7, <1>8, <1>9 DEF BitsOK

(* Every step keeps the structure.                                         *)
LEMMA StructureStep ==
  ASSUME Excluding, Structure, RoomOK, NEW t \in Thread, Moves(t), UNCHANGED role
  PROVE  Structure'
BY ShapeStep, BitsStep, WipedStep DEF Structure
-----------------------------------------------------------------------------
(* Where a step leads to, and which step leads away.                       *)
Arrives(t) ==
  /\ th'[t].pc = "dcas" => DecrLimit(t)
  /\ th'[t].pc = "count" => FillSlot(t)
  /\ th'[t].pc = "uncount" => TakeValue(t)
  /\ th'[t].pc = "copykey" => RehashStart(t) \/ CopyValue(t)
  /\ th'[t].pc = "copyval" => CopyKey(t)
  /\ th'[t].pc = "setlimit" => CopyValue(t)
  /\ th'[t].pc = "install" => SetLimit(t) \/ AssignLimit(t)
  /\ th'[t].op = "assign" => th[t].op = "assign" \/ \E k \in Key : AssignStart(t, k)
  /\ th'[t].op = "clear" => th[t].op = "clear" \/ ClearStart(t)
  /\ th[t].pc = "count" => CountUp(t)
  /\ th[t].pc = "uncount" => CountDown(t)
  /\ th[t].pc = "install" => Install(t) \/ AssignInstall(t)

(* Which steps lead to the places that the counts depend on.               *)
LEMMA Arrivals ==
  ASSUME Shape, NEW t \in Thread, Moves(t)
  PROVE  Arrives(t)
<1>c. CallOK(t) /\ th[t] \in Local /\ th[t].ix + 1 \in Nat
  BY DEF Shape, CallsOK, Types, Local
<1>1. CASE ProbeFree(t)
  <2>1. /\ At(t, "probe") /\ Here(t).key = FREE
        /\ th'[t] = [th[t] EXCEPT !.pc = IF Puts(t) THEN "limit" ELSE "answer"]
    BY <1>1, ProbeFreeDoes
  <2> QED
    BY <1>1, <2>1, <1>c DEF Arrives, At, Local
<1>2. CASE ProbeMatch(t)
  <2>1. /\ At(t, "probe") /\ Here(t).key \notin Word /\ Here(t).key[1] = th[t].key
        /\ th'[t] = [th[t] EXCEPT !.pc = "value"]
    BY <1>2, ProbeMatchDoes
  <2> QED
    BY <1>2, <2>1, <1>c DEF Arrives, At, Local
<1>3. CASE ProbeNext(t)
  <2>1. /\ At(t, "probe") /\ Passed(t, th[t].ix)
        /\ \/ /\ th[t].ix + 1 < Size(th[t].vec)
             /\ th'[t] = [th[t] EXCEPT !.ix = th[t].ix + 1]
           \/ /\ ~(th[t].ix + 1 < Size(th[t].vec)) /\ Puts(t)
             /\ th'[t] = [th[t] EXCEPT !.pc = "wild"]
           \/ ~Puts(t) /\ th'[t] = [th[t] EXCEPT !.pc = "answer"]
    BY <1>3, ProbeNextDoes
  <2> QED
    BY <1>3, <2>1, <1>c DEF Arrives, At, Local
<1>4. CASE FindValue(t)
  <2>1. /\ At(t, "value") /\ th[t].op = "find"
        /\ \E d \in ValObj \cup Word \cup {Null} :
            th'[t] = [th[t] EXCEPT !.pc = "answer", !.word = d]
    BY <1>4, FindValueDoes
  <2> QED
    BY <1>4, <2>1, <1>c DEF Arrives, At, Local
<1>5. CASE Answer(t)
  <2>1. /\ At(t, "answer")
        /\ th'[t] = Rest
    BY <1>5, AnswerDoes
  <2> QED
    BY <1>5, <2>1, <1>c DEF Arrives, At, Local, Rest
<1>6. CASE PutValue(t)
  <2>1. /\ At(t, "value") /\ Puts(t) /\ Usable(Here(t))
        /\ \E v \in ValObj :
            /\ th[t].op = "insert" => v = th[t].own
            /\ th'[t] = [th[t] EXCEPT !.pc = "swap", !.word = Here(t).val, !.own = v]
    BY <1>6, PutValueDoes
  <2> QED
    BY <1>6, <2>1, <1>c DEF Arrives, At, Local
<1>7. CASE UpdateInPlace(t)
  <2>1. /\ At(t, "value") /\ th[t].op = "update"
        /\ th'[t] = Rest
    BY <1>7, UpdateInPlaceDoes
  <2> QED
    BY <1>7, <2>1, <1>c DEF Arrives, At, Local, Rest
<1>8. CASE SwapValue(t)
  <2>1. /\ At(t, "swap") /\ Here(t).val = th[t].word /\ ~Here(t).x
        /\ th'[t] = Rest
    BY <1>8, SwapValueDoes
  <2> QED
    BY <1>8, <2>1, <1>c DEF Arrives, At, Local, Rest
<1>9. CASE DecrLimit(t)
  <2>1. /\ At(t, "limit") /\ limit > 0
        /\ \E k \in KeyObj, v \in ValObj :
            /\ th[t].kobj # Null => k = th[t].kobj
            /\ k[1] = th[t].key
            /\ th'[t] = [th[t] EXCEPT !.pc = "dcas", !.kobj = k, !.own = v]
    BY <1>9, DecrLimitDoes
  <2> QED
    BY <1>9, <2>1, <1>c DEF Arrives, At, Local
<1>10. CASE PutWait(t)
  <2>1. /\ At(t, "limit") \/ (At(t, "value") /\ Puts(t))
        /\ th'[t] = [th[t] EXCEPT !.pc = "rehash"]
    BY <1>10, PutWaitDoes
  <2> QED
    BY <1>10, <2>1, <1>c DEF Arrives, At, Local
<1>11. CASE FillSlot(t)
  <2>1. /\ At(t, "dcas") /\ Here(t) = EmptySlot
        /\ th'[t] = [th[t] EXCEPT !.pc = "count"]
    BY <1>11, FillSlotDoes
  <2> QED
    BY <1>11, <2>1, <1>c DEF Arrives, At, Local
<1>12. CASE StoreFails(t)
  <2>1. /\ At(t, "swap") \/ At(t, "dcas")
        /\ th'[t].pc = "probe" /\ th'[t].op = th[t].op /\ th'[t].key = th[t].key /\ th'[t].vec = vec /\ th'[t].ix = 0
        /\ th'[t].own = Kept(t) /\ th'[t].kobj = th[t].kobj /\ th'[t].word = Null /\ th'[t].np = Null /\ th'[t].met = {}
    BY <1>12, StoreFailsDoes
  <2> QED
    BY <1>12, <2>1, <1>c DEF Arrives, At, Local
<1>13. CASE CountUp(t)
  <2>1. /\ At(t, "count")
        /\ th'[t] = Rest
    BY <1>13, CountUpDoes
  <2> QED
    BY <1>13, <2>1, <1>c DEF Arrives, At, Local, Rest
<1>14. CASE OldKey(t)
  <2>1. /\ At(t, "value") /\ th[t].op = "erase"
        /\ th'[t] = [th[t] EXCEPT !.pc = "oldval", !.kobj = Here(t).key]
    BY <1>14, OldKeyDoes
  <2> QED
    BY <1>14, <2>1, <1>c DEF Arrives, At, Local
<1>15. CASE OldValue(t)
  <2>1. /\ At(t, "oldval")
        /\ \E l \in {"take", "rehash", "answer"}, o \in KeyObj \cup {Null}, d \in ValObj \cup {Null} :
            /\ l = "take" => /\ o = th[t].kobj /\ o # Null /\ d # Null
                           /\ ~Here(t).x /\ d = Here(t).val
            /\ l # "take" => o = Null /\ d = th[t].word
            /\ th'[t] = [th[t] EXCEPT !.pc = l, !.word = d, !.kobj = o]
    BY <1>15, OldValueDoes
  <2> QED
    BY <1>15, <2>1, <1>c DEF Arrives, At, Local
<1>16. CASE TakeValue(t)
  <2>1. /\ At(t, "take") /\ Here(t).val = th[t].word /\ ~Here(t).x
        /\ th'[t] = [th[t] EXCEPT !.pc = "uncount"]
    BY <1>16, TakeValueDoes
  <2> QED
    BY <1>16, <2>1, <1>c DEF Arrives, At, Local
<1>17. CASE TakeFails(t)
  <2>1. /\ At(t, "take")
        /\ th'[t].pc = "probe" /\ th'[t].op = "erase" /\ th'[t].key = th[t].key /\ th'[t].vec = vec /\ th'[t].ix = 0
        /\ th'[t].own = Null /\ th'[t].kobj = Null /\ th'[t].word = Null /\ th'[t].np = Null /\ th'[t].met = {}
    BY <1>17, TakeFailsDoes
  <2> QED
    BY <1>17, <2>1, <1>c DEF Arrives, At, Local
<1>18. CASE CountDown(t)
  <2>1. /\ At(t, "uncount")
        /\ th'[t] = [th[t] EXCEPT !.pc = "bury"]
    BY <1>18, CountDownDoes
  <2> QED
    BY <1>18, <2>1, <1>c DEF Arrives, At, Local
<1>19. CASE Bury(t)
  <2>1. /\ At(t, "bury")
        /\ th'[t] = Rest
    BY <1>19, BuryDoes
  <2> QED
    BY <1>19, <2>1, <1>c DEF Arrives, At, Local, Rest
<1>20. CASE NoRehash(t)
  <2>1. /\ At(t, "rehash") /\ lock = Null
        /\ th'[t].pc = "probe" /\ th'[t].op = th[t].op /\ th'[t].key = th[t].key /\ th'[t].vec = vec /\ th'[t].ix = 0
        /\ th'[t].own = th[t].own /\ th'[t].kobj = th[t].kobj /\ th'[t].word = Null /\ th'[t].np = Null /\ th'[t].met = {}
    BY <1>20, NoRehashDoes
  <2> QED
    BY <1>20, <2>1, <1>c DEF Arrives, At, Local
<1>21. CASE RehashStart(t)
  <2>1. /\ At(t, "rehash") /\ lock = Null /\ limit <= 0
        /\ \E w \in Vector : life[w] = "free" /\
            th'[t] = [th[t] EXCEPT !.pc = "copykey", !.vec = vec, !.ix = 0, !.word = Null, !.np = w]
    BY <1>21, RehashStartDoes
  <2> QED
    BY <1>21, <2>1, <1>c DEF Arrives, At, Local
<1>22. CASE OutOfMemory(t)
  <2>1. /\ At(t, "limit") \/ At(t, "rehash")
        /\ th'[t] = Rest
    BY <1>22, OutOfMemoryDoes
  <2> QED
    BY <1>22, <2>1, <1>c DEF Arrives, At, Local, Rest
<1>23. CASE CopyKey(t)
  <2>1. /\ At(t, "copykey")
        /\ th'[t] = [th[t] EXCEPT !.pc = "copyval", !.word = This(t).key]
    BY <1>23, CopyKeyDoes
  <2> QED
    BY <1>23, <2>1, <1>c DEF Arrives, At, Local
<1>24. CASE CopyValue(t)
  <2>1. /\ At(t, "copyval")
        /\ \/ /\ th[t].ix + 1 < Size(th[t].vec)
             /\ th'[t] = [th[t] EXCEPT !.pc = "copykey", !.ix = th[t].ix + 1, !.word = Null]
           \/ /\ ~(th[t].ix + 1 < Size(th[t].vec))
             /\ th'[t] = [th[t] EXCEPT !.pc = "setlimit", !.ix = 0, !.word = Null]
    BY <1>24, CopyValueDoes
  <2>2. th'[t].pc \in {"copykey", "setlimit"} /\ th'[t].op = th[t].op
    BY <2>1, <1>c DEF Local
  <2> QED
    BY <1>24, <2>1, <2>2, <1>c DEF Arrives, At
<1>25. CASE SetLimit(t)
  <2>1. /\ At(t, "setlimit")
        /\ th'[t] = [th[t] EXCEPT !.pc = "install"]
    BY <1>25, SetLimitDoes
  <2> QED
    BY <1>25, <2>1, <1>c DEF Arrives, At, Local
<1>26. CASE Install(t)
  <2>1. /\ At(t, "install") /\ th[t].op # "assign"
        /\ th'[t].pc = "probe" /\ th'[t].op = th[t].op /\ th'[t].key = th[t].key /\ th'[t].vec = th[t].np /\ th'[t].ix = 0
        /\ th'[t].own = th[t].own /\ th'[t].kobj = th[t].kobj /\ th'[t].word = Null /\ th'[t].np = Null /\ th'[t].met = {}
    BY <1>26, InstallDoes
  <2> QED
    BY <1>26, <2>1, <1>c DEF Arrives, At, Local
<1>27. CASE AssignAcquire(t)
  <2>1. /\ At(t, "acquire") /\ th[t].op = "assign" /\ lock = Null
        /\ th'[t] = [th[t] EXCEPT !.pc = "mark", !.vec = vec]
    BY <1>27, AssignAcquireDoes
  <2> QED
    BY <1>27, <2>1, <1>c DEF Arrives, At, Local
<1>28. CASE Mark(t)
  <2>1. /\ At(t, "mark") /\ th[t].ix < Size(th[t].vec)
        /\ \E o \in ValObj \cup {Null} :
            th'[t] = [th[t] EXCEPT !.ix = th[t].ix + 1, !.own = o]
    BY <1>28, MarkDoes
  <2> QED
    BY <1>28, <2>1, <1>c DEF Arrives, At, Local
<1>29. CASE AssignLimit(t)
  <2>1. /\ At(t, "mark") /\ th[t].ix = Size(th[t].vec)
        /\ th'[t] = [th[t] EXCEPT !.pc = "install"]
    BY <1>29, AssignLimitDoes
  <2> QED
    BY <1>29, <2>1, <1>c DEF Arrives, At, Local
<1>30. CASE AssignInstall(t)
  <2>1. /\ At(t, "install") /\ th[t].op = "assign"
        /\ th'[t] = Rest
    BY <1>30, AssignInstallDoes
  <2> QED
    BY <1>30, <2>1, <1>c DEF Arrives, At, Local, Rest
<1>31. CASE ClearAcquire(t)
  <2>1. /\ At(t, "acquire") /\ th[t].op = "clear" /\ lock = Null
        /\ th'[t] = [th[t] EXCEPT !.pc = "clrkey", !.vec = vec]
    BY <1>31, ClearAcquireDoes
  <2> QED
    BY <1>31, <2>1, <1>c DEF Arrives, At, Local
<1>32. CASE ClearReadKey(t)
  <2>1. /\ At(t, "clrkey")
        /\ th'[t] = [th[t] EXCEPT !.pc = "clrput", !.kobj = This(t).key]
    BY <1>32, ClearReadKeyDoes
  <2> QED
    BY <1>32, <2>1, <1>c DEF Arrives, At, Local
<1>33. CASE ClearFreeKey(t)
  <2>1. /\ At(t, "clrput")
        /\ th'[t] = [th[t] EXCEPT !.pc = "clrval"]
    BY <1>33, ClearFreeKeyDoes
  <2> QED
    BY <1>33, <2>1, <1>c DEF Arrives, At, Local
<1>34. CASE ClearFreeValue(t)
  <2>1. /\ At(t, "clrval")
        /\ \/ /\ th[t].ix + 1 < Size(th[t].vec)
             /\ \E o \in ValObj \cup {Null} :
                  th'[t] = [th[t] EXCEPT !.pc = "clrkey", !.ix = th[t].ix + 1, !.kobj = Null, !.own = o]
           \/ /\ ~(th[t].ix + 1 < Size(th[t].vec))
             /\ \E o \in ValObj \cup {Null} :
                  th'[t] = [th[t] EXCEPT !.pc = "clrlimit", !.ix = 0, !.kobj = Null, !.own = o]
    BY <1>34, ClearFreeValueDoes
  <2>2. th'[t].pc \in {"clrkey", "clrlimit"} /\ th'[t].op = th[t].op
    BY <2>1, <1>c DEF Local
  <2> QED
    BY <1>34, <2>1, <2>2, <1>c DEF Arrives, At
<1>35. CASE ClearSetLimit(t)
  <2>1. /\ At(t, "clrlimit")
        /\ th'[t] = [th[t] EXCEPT !.pc = "clrcount"]
    BY <1>35, ClearSetLimitDoes
  <2> QED
    BY <1>35, <2>1, <1>c DEF Arrives, At, Local
<1>36. CASE ClearDone(t)
  <2>1. /\ At(t, "clrcount")
        /\ th'[t] = Rest
    BY <1>36, ClearDoneDoes
  <2> QED
    BY <1>36, <2>1, <1>c DEF Arrives, At, Local, Rest
<1>37. CASE WalkKey(t)
  <2>1. /\ At(t, "walk") /\ th[t].ix < Size(th[t].vec)
        /\ \/ th'[t] = [th[t] EXCEPT !.ix = th[t].ix + 1]
           \/ This(t).key # FREE /\ th'[t] = [th[t] EXCEPT !.pc = "walkval", !.word = This(t).key]
    BY <1>37, WalkKeyDoes
  <2> QED
    BY <1>37, <2>1, <1>c DEF Arrives, At, Local
<1>38. CASE WalkValue(t)
  <2>1. /\ At(t, "walkval")
        /\ \E m \in SUBSET Key :
            th'[t] = [th[t] EXCEPT !.pc = "walk", !.ix = th[t].ix + 1, !.word = Null, !.met = m]
    BY <1>38, WalkValueDoes
  <2> QED
    BY <1>38, <2>1, <1>c DEF Arrives, At, Local
<1>39. CASE WalkEnd(t)
  <2>1. /\ At(t, "walk")
        /\ th'[t] = Rest
    BY <1>39, WalkEndDoes
  <2> QED
    BY <1>39, <2>1, <1>c DEF Arrives, At, Local, Rest
<1>40. CASE ClearStart(t)
  <2>1. /\ At(t, "idle")
        /\ th'[t].pc = "acquire" /\ th'[t].op = "clear" /\ th'[t].key = Null /\ th'[t].vec = Null /\ th'[t].ix = 0
        /\ th'[t].own = Null /\ th'[t].kobj = Null /\ th'[t].word = Null /\ th'[t].np = Null /\ th'[t].met = {}
    BY <1>40, ClearStartDoes
  <2> QED
    BY <1>40, <2>1, <1>c DEF Arrives, At, Local
<1>41. CASE WalkStart(t)
  <2>1. /\ At(t, "idle")
        /\ th'[t].pc = "walk" /\ th'[t].op = "walk" /\ th'[t].key = Null /\ th'[t].vec = vec /\ th'[t].ix = 0
        /\ th'[t].own = Null /\ th'[t].kobj = Null /\ th'[t].word = Null /\ th'[t].np = Null /\ th'[t].met = {}
    BY <1>41, WalkStartDoes
  <2> QED
    BY <1>41, <2>1, <1>c DEF Arrives, At, Local
<1>42. ASSUME NEW k \in Key, LookupStart(t, k) PROVE Arrives(t)
  <2>1. At(t, "idle") /\ th'[t].pc \in {"probe", "acquire"} /\ (th'[t].op = "assign" => AssignStart(t, k)) /\ th'[t].op # "clear"
    BY <1>42, LookupStartDoes
  <2> QED
    BY <2>1 DEF Arrives, At
<1>43. ASSUME NEW k \in Key, InsertStart(t, k) PROVE Arrives(t)
  <2>1. At(t, "idle") /\ th'[t].pc \in {"probe", "acquire"} /\ (th'[t].op = "assign" => AssignStart(t, k)) /\ th'[t].op # "clear"
    BY <1>43, InsertStartDoes
  <2> QED
    BY <2>1 DEF Arrives, At
<1>44. ASSUME NEW k \in Key, AssignStart(t, k) PROVE Arrives(t)
  <2>1. At(t, "idle") /\ th'[t].pc \in {"probe", "acquire"} /\ (th'[t].op = "assign" => AssignStart(t, k)) /\ th'[t].op # "clear"
    BY <1>44, AssignStartDoes
  <2> QED
    BY <2>1 DEF Arrives, At
<1> QED
  BY <1>1, <1>2, <1>3, <1>4, <1>5, <1>6, <1>7, <1>8, <1>9, <1>10, <1>11, <1>12, <1>13, <1>14, <1>15, <1>16, <1>17, <1>18, <1>19, <1>20, <1>21, <1>22, <1>23, <1>24, <1>25, <1>26, <1>27, <1>28, <1>29, <1>30, <1>31, <1>32, <1>33, <1>34, <1>35, <1>36, <1>37, <1>38, <1>39, <1>40, <1>41, <1>42, <1>43, <1>44 DEF Moves, Start, Proceed

-----------------------------------------------------------------------------
(* Slots in use, and slots that are live.                                  *)

(* At most one slot comes into use in a step.                              *)
Fills(t, w, i) == SlotFilled(t, w, i) \/ SlotCopied(t, w, i)

(* A step fills one slot at most.                                          *)
LEMMA FillsOne ==
  ASSUME Shape, AloneOK, RoomOK, NEW t \in Thread, NEW w, NEW i, NEW j,
         Fills(t, w, i), Fills(t, w, j)
  PROVE  i = j
<1>1. ~(FillSlot(t) /\ CopyValue(t))
  BY DEF FillSlot, CopyValue, At
<1>2. CASE FillSlot(t)
  BY <1>1, <1>2 DEF Fills, SlotFilled, SlotCopied
<1>3. CASE CopyValue(t)
  <2>1. SlotCopied(t, w, i) /\ SlotCopied(t, w, j)
    BY <1>1, <1>3 DEF Fills, SlotFilled
  <2> DEFINE P(n) == Pos(th[t].word[1], n, Size(w))
  <2>2. PICK a \in 0..Size(w) - 1 :
          i = P(a) /\ \A l \in 0..a - 1 : tab[w].slot[P(l)].key # FREE
    BY <2>1 DEF SlotCopied
  <2>3. PICK b \in 0..Size(w) - 1 :
          j = P(b) /\ \A l \in 0..b - 1 : tab[w].slot[P(l)].key # FREE
    BY <2>1 DEF SlotCopied
  <2>4. tab[w].slot[P(a)].key = FREE /\ tab[w].slot[P(b)].key = FREE
    BY <2>1, <2>2, <2>3 DEF SlotCopied
  <2> HIDE DEF P
  <2>5. ~(a < b) /\ ~(b < a)
    BY <2>2, <2>3, <2>4
  <2>6. a = b
    BY <2>2, <2>3, <2>5
  <2> QED
    BY <2>2, <2>3, <2>6
<1> QED
  BY <1>2, <1>3 DEF Fills, SlotFilled, SlotCopied

(* A slot is taken into use by being filled, and freed by clear alone.     *)
LEMMA UsedMoves ==
  ASSUME Shape, AloneOK, RoomOK, NEW t \in Thread, Moves(t), NEW w \in Vector,
         tab[w].pidx # 0, tab'[w].pidx # 0
  PROVE  /\ DOMAIN tab'[w].slot = DOMAIN tab[w].slot
         /\ \A i \in DOMAIN tab[w].slot :
              /\ tab'[w].slot[i].key # FREE /\ tab[w].slot[i].key = FREE =>
                   Fills(t, w, i)
              /\ tab[w].slot[i].key # FREE /\ tab'[w].slot[i].key = FREE =>
                   SlotKeyFreed(t, w, i)
<1>1. DOMAIN tab'[w].slot = DOMAIN tab[w].slot
  BY SizesKept
<1>2. ASSUME NEW i \in DOMAIN tab[w].slot
      PROVE  /\ tab'[w].slot[i].key # FREE /\ tab[w].slot[i].key = FREE =>
                  Fills(t, w, i)
             /\ tab[w].slot[i].key # FREE /\ tab'[w].slot[i].key = FREE =>
                  SlotKeyFreed(t, w, i)
  <2>1. SlotStep(t, w, i) /\ ~SlotMade(t, w, i)
    BY <1>1, SlotSteps DEF SlotMade
  <2>2. SlotBuried(t, w, i) => tab[w].slot[i].key # FREE
    BY DEF SlotBuried, Bury, Shape, TakenOK, Ended, Here, At
  <2>3. /\ SlotFilled(t, w, i) => tab[w].slot[i].key = FREE
        /\ SlotCopied(t, w, i) => tab[w].slot[i].key = FREE
    BY DEF SlotFilled, SlotCopied, EmptySlot
  <2>4. SlotBuried(t, w, i) => tab'[w].slot[i].key # FREE
    BY Names DEF SlotBuried
  <2> QED
    BY <2>1, <2>2, <2>3, <2>4 DEF SlotStep, SlotSame, SlotSwapped, SlotTaken,
      SlotBarred, SlotValueFreed, SlotKeyFreed, Fills
<1> QED
  BY <1>1, <1>2

(* The slots in use are one more after a step at most, and the same or     *)
(* fewer if it fills none.                                                 *)
LEMMA UsedGrows ==
  ASSUME Shape, AloneOK, RoomOK, NEW t \in Thread, Moves(t), NEW w \in Vector,
         tab[w].pidx # 0, tab'[w].pidx # 0
  PROVE  /\ IsFiniteSet(Used(w)) /\ IsFiniteSet(Used(w)')
         /\ Cardinality(Used(w)) \in Nat /\ Cardinality(Used(w)') \in Nat
         /\ Cardinality(Used(w)') <= Cardinality(Used(w)) + 1
         /\ (\A i : ~Fills(t, w, i)) =>
              /\ Used(w)' \subseteq Used(w)
              /\ Cardinality(Used(w)') <= Cardinality(Used(w))
         /\ ~ClearFreeKey(t) => Used(w) \subseteq Used(w)'
<1> DEFINE old == Used(w)
           new == Used(w)'
<1>1. /\ \A i \in new : i \in old \/ Fills(t, w, i)
      /\ ~ClearFreeKey(t) => old \subseteq new
  BY UsedMoves DEF Used, SlotKeyFreed
<1>2. IsFiniteSet(old) /\ Cardinality(old) \in Nat
  BY LiveFinite DEF Shape
<1>3. CASE \A i : ~Fills(t, w, i)
  <2>1. new \subseteq old
    BY <1>1, <1>3
  <2> HIDE DEF old, new
  <2>2. IsFiniteSet(new) /\ Cardinality(new) <= Cardinality(old)
    BY <1>2, <2>1, FS_Subset
  <2>3. Cardinality(new) \in Nat
    BY <2>2, FS_CardinalityType
  <2>4. Cardinality(new) <= Cardinality(old) + 1
    BY <1>2, <2>2, <2>3
  <2> QED
    BY <1>1, <1>2, <2>1, <2>2, <2>3, <2>4 DEF old, new
<1>4. ASSUME NEW i, Fills(t, w, i)
      PROVE  /\ IsFiniteSet(new) /\ Cardinality(new) \in Nat
             /\ Cardinality(new) <= Cardinality(old) + 1
  <2>1. new \subseteq old \cup {i}
    BY <1>1, <1>4, FillsOne
  <2> HIDE DEF old, new
  <2>2. IsFiniteSet(old \cup {i})
        /\ Cardinality(old \cup {i}) \in {Cardinality(old), Cardinality(old) + 1}
    BY <1>2, FS_AddElement
  <2>3. IsFiniteSet(new) /\ Cardinality(new) <= Cardinality(old \cup {i})
    BY <2>1, <2>2, FS_Subset
  <2>4. Cardinality(new) \in Nat
    BY <2>3, FS_CardinalityType
  <2> QED
    BY <1>2, <2>2, <2>3, <2>4
<1> QED
  BY <1>1, <1>2, <1>3, <1>4

(* Live slots are those that hold a pair.                                  *)
LEMMA LiveMoves ==
  ASSUME Shape, AloneOK, RoomOK, NEW t \in Thread, Moves(t), NEW w \in Vector,
         tab[w].pidx # 0, tab'[w].pidx # 0, NEW i \in DOMAIN tab[w].slot
  PROVE  /\ IsLive(tab'[w].slot[i]) /\ ~IsLive(tab[w].slot[i]) => Fills(t, w, i)
         /\ IsLive(tab[w].slot[i]) /\ ~IsLive(tab'[w].slot[i]) =>
              \/ SlotTaken(t, w, i) \/ SlotKeyFreed(t, w, i)
              \/ SlotValueFreed(t, w, i)
         /\ Fills(t, w, i) => IsLive(tab'[w].slot[i]) /\ ~IsLive(tab[w].slot[i])
         /\ SlotTaken(t, w, i) => ~IsLive(tab'[w].slot[i]) /\ IsLive(tab[w].slot[i])
<1> DEFINE s == tab[w].slot[i]
           r == tab'[w].slot[i]
<1>1. SlotStep(t, w, i) /\ ~SlotMade(t, w, i)
  BY SizesKept, SlotSteps DEF SlotMade
<1>2. SlotBuried(t, w, i) => ~IsLive(s) /\ ~IsLive(r)
  <2>1. SlotBuried(t, w, i) => s.val = DELT
    BY DEF SlotBuried, Bury, Shape, TakenOK, Here, At
  <2> QED
    BY <2>1 DEF SlotBuried, IsLive, Word
<1>3. /\ SlotFilled(t, w, i) => ~IsLive(s) /\ IsLive(r)
      /\ SlotCopied(t, w, i) => ~IsLive(s) /\ IsLive(r)
  <2>1. SlotFilled(t, w, i) => ~IsLive(s)
    BY DEF SlotFilled, IsLive, EmptySlot, Word
  <2>2. SlotCopied(t, w, i) => ~IsLive(s)
    BY DEF SlotCopied, IsLive, Word
  <2>3. Fills(t, w, i) => IsLive(r)
    <3>1. \A k \in KeyObj, v \in ValObj : IsLive(Pair(k, v))
      BY Pairs
    <3>2. SlotFilled(t, w, i) =>
            /\ th[t].kobj \in KeyObj /\ th[t].own \in ValObj
            /\ r = Pair(th[t].kobj, th[t].own)
      BY DEF SlotFilled
    <3>3. SlotCopied(t, w, i) =>
            /\ th[t].word \in KeyObj /\ This(t).val \in ValObj
            /\ r = Pair(th[t].word, This(t).val)
      BY DEF SlotCopied
    <3> HIDE DEF r
    <3> QED
      BY <3>1, <3>2, <3>3 DEF Fills
  <2> QED
    BY <2>1, <2>2, <2>3 DEF Fills
<1>4. SlotTaken(t, w, i) => IsLive(s) /\ ~IsLive(r)
  <2>1. SlotTaken(t, w, i) => s.key # FREE /\ s.val \in ValObj
    BY DEF SlotTaken, TakeValue, Shape, TakenOK, Ended, Here, At
  <2>2. SlotTaken(t, w, i) => s.key \notin Word
    BY <2>1, Names DEF Shape, SlotsOK, Word
  <2> QED
    BY <2>1, <2>2, Names DEF SlotTaken, IsLive, Word
<1>5. SlotSwapped(t, w, i) => (IsLive(s) <=> IsLive(r))
  BY Names DEF SlotSwapped, IsLive
<1>6. SlotSame(t, w, i) \/ SlotBarred(t, w, i) => (IsLive(s) <=> IsLive(r))
  BY DEF SlotSame, SlotBarred, IsLive
<1>7. SlotKeyFreed(t, w, i) \/ SlotValueFreed(t, w, i) => ~IsLive(r)
  BY DEF SlotKeyFreed, SlotValueFreed, IsLive, Word
<1> HIDE DEF s, r
<1> QED
  BY <1>1, <1>2, <1>3, <1>4, <1>5, <1>6, <1>7 DEF SlotStep, Fills, s, r

(* Who is about to fill a slot of the vector in use.                       *)
LEMMA UsingMoves ==
  ASSUME Shape, IsFiniteSet(Thread), NEW t \in Thread, Moves(t), NEW l
  PROVE  /\ IsFiniteSet(Using(l)) /\ IsFiniteSet(Using(l)')
         /\ Cardinality(Using(l)) \in Nat /\ Cardinality(Using(l)') \in Nat
         /\ vec' = vec => Using(l)' \ {t} = Using(l) \ {t}
<1>1. Using(l) \subseteq Thread /\ Using(l)' \subseteq Thread
  BY DEF Using
<1>2. IsFiniteSet(Using(l)) /\ IsFiniteSet(Using(l)')
  BY <1>1, FS_Subset
<1>3. vec' = vec => Using(l)' \ {t} = Using(l) \ {t}
  BY ThreadTypes DEF Using, At
<1> QED
  BY <1>2, <1>3, FS_CardinalityType

(* Two finite sets that differ in one element at most differ in size as    *)
(* they do in it.                                                          *)
LEMMA OneLess ==
  ASSUME NEW S, NEW R, NEW x, IsFiniteSet(S), IsFiniteSet(R), S \ {x} = R \ {x}
  PROVE  /\ Cardinality(S) \in Nat /\ Cardinality(R) \in Nat
         /\ x \in S /\ x \in R => Cardinality(R) = Cardinality(S)
         /\ x \notin S /\ x \notin R => Cardinality(R) = Cardinality(S)
         /\ x \in S /\ x \notin R => Cardinality(R) = Cardinality(S) - 1
         /\ x \notin S /\ x \in R => Cardinality(R) = Cardinality(S) + 1
<1>1. Cardinality(S) \in Nat /\ Cardinality(R) \in Nat
  BY FS_CardinalityType
<1>2. /\ Cardinality(S \ {x}) = IF x \in S THEN Cardinality(S) - 1 ELSE Cardinality(S)
      /\ Cardinality(R \ {x}) = IF x \in R THEN Cardinality(R) - 1 ELSE Cardinality(R)
  BY FS_RemoveElement
<1>3. (IF x \in S THEN Cardinality(S) - 1 ELSE Cardinality(S))
        = IF x \in R THEN Cardinality(R) - 1 ELSE Cardinality(R)
  BY <1>2
<1> QED
  BY <1>1, <1>3

=============================================================================
