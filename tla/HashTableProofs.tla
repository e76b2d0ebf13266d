-------------------------- MODULE HashTableProofs ---------------------------
(* Proofs about the hash table, for any number of threads, keys, slots and *)
(* vectors: its limit on the slots to fill, its number of elements, the    *)
(* types of its variables, and, whatever insertions, erasures and rehashes *)
(* interleave, its chains of probes, which have no gaps, and its keys,     *)
(* which have one slot in a vector.                                        *)
EXTENDS HashTableShape

-----------------------------------------------------------------------------
(* Room.                                                                   *)
LEMMA LimitMoves ==
  ASSUME Shape, NEW t \in Thread, Moves(t)
  PROVE  \/ limit' = limit
         \/ limit > 0 /\ limit' = limit - 1
         \/ SetLimit(t) \/ AssignLimit(t) \/ ClearAcquire(t) \/ ClearSetLimit(t)
<1>1. OutOfMemory(t) => limit' = limit \/ (limit > 0 /\ limit' = limit - 1)
  BY DEF OutOfMemory
<1>2. DecrLimit(t) => limit > 0 /\ limit' = limit - 1
  BY DEF DecrLimit
<1> QED
  BY <1>1, <1>2, ProbeFreeFrame, ProbeMatchFrame, ProbeNextFrame, FindValueFrame, AnswerFrame, PutValueFrame, UpdateInPlaceFrame, SwapValueFrame, PutWaitFrame, FillSlotFrame, StoreFailsFrame, CountUpFrame, OldKeyFrame, OldValueFrame, TakeValueFrame, TakeFailsFrame, CountDownFrame, BuryFrame, NoRehashFrame, RehashStartFrame, CopyKeyFrame, CopyValueFrame, InstallFrame, AssignAcquireFrame, MarkFrame, AssignInstallFrame, ClearReadKeyFrame, ClearFreeKeyFrame, ClearFreeValueFrame, ClearDoneFrame, WalkKeyFrame, WalkValueFrame, WalkEndFrame, ClearStartFrame, WalkStartFrame, LookupStartFrame, InsertStartFrame, AssignStartFrame DEF Moves, Start, Proceed

(* The vector in use after a step was there before it.                     *)
LEMMA VecMoves ==
  ASSUME Shape, AloneOK, RoomOK, NEW t \in Thread, Moves(t)
  PROVE  /\ vec \in Vector /\ tab[vec].pidx # 0
         /\ vec' \in Vector /\ tab[vec'].pidx # 0 /\ tab'[vec'].pidx # 0
         /\ \/ vec' = vec /\ ~Install(t) /\ ~AssignInstall(t)
            \/ /\ Install(t) \/ AssignInstall(t)
               /\ th[t].pc = "install" /\ vec' = th[t].np /\ limit' = limit
               /\ life[vec'] = "live" /\ vec' # vec
               /\ \A u \in Thread : th[u].vec # vec'
<1> USE DEF Shape
<1>1. vec \in Vector /\ tab[vec].pidx # 0
  BY DEF VectorsOK, Types
<1>2. vec' \in Vector => tab'[vec'].pidx # 0
  BY VectorStepOK DEF VectorsOK
<1>3. CASE Install(t) \/ AssignInstall(t)
  <2>1. vec' = th[t].np /\ At(t, "install") /\ limit' = limit
    BY <1>3, InstallFrame, AssignInstallFrame, InstallDoes, AssignInstallDoes
  <2>2. th[t].np # Null /\ th[t].np \in Vector
    BY <2>1, Locals DEF CallsOK, CallOK, At, Copying, Local
  <2>3. life[vec'] = "live" /\ vec' # vec /\ \A u \in Thread : th[u].vec # vec'
    BY <2>1, <2>2 DEF VectorsOK
  <2>4. tab[vec'].pidx # 0
    BY <2>1, <2>2, <2>3 DEF VectorsOK
  <2> QED
    BY <1>1, <1>2, <1>3, <2>1, <2>2, <2>3, <2>4 DEF At
<1>4. CASE ~Install(t) /\ ~AssignInstall(t)
  <2>1. vec' = vec
    BY <1>4, ProbeFreeFrame, ProbeMatchFrame, ProbeNextFrame, FindValueFrame, AnswerFrame, PutValueFrame, UpdateInPlaceFrame, SwapValueFrame, DecrLimitFrame, PutWaitFrame, FillSlotFrame, StoreFailsFrame, CountUpFrame, OldKeyFrame, OldValueFrame, TakeValueFrame, TakeFailsFrame, CountDownFrame, BuryFrame, NoRehashFrame, RehashStartFrame, OutOfMemoryFrame, CopyKeyFrame, CopyValueFrame, SetLimitFrame, AssignAcquireFrame, MarkFrame, AssignLimitFrame, ClearAcquireFrame, ClearReadKeyFrame, ClearFreeKeyFrame, ClearFreeValueFrame, ClearSetLimitFrame, ClearDoneFrame, WalkKeyFrame, WalkValueFrame, WalkEndFrame, ClearStartFrame, WalkStartFrame, LookupStartFrame, InsertStartFrame, AssignStartFrame DEF Moves, Start, Proceed
  <2> QED
    BY <1>1, <1>2, <1>4, <2>1
<1> QED
  BY <1>3, <1>4

(* A slot is filled by an insertion that was promised one, or by a copy.   *)
LEMMA FillsAt ==
  ASSUME NEW t \in Thread, NEW w, NEW i, Fills(t, w, i)
  PROVE  \/ FillSlot(t) /\ th[t].pc = "dcas" /\ w = th[t].vec
         \/ CopyValue(t) /\ th[t].pc = "copyval" /\ w = th[t].np /\ w # vec
  BY DEF Fills, SlotFilled, SlotCopied, FillSlot, CopyValue, At

(* What is used, promised and on its way fits in the vector in use.        *)
LEMMA RoomOfVec ==
  ASSUME Excluding, IsFiniteSet(Thread), Structure, RoomOK, CountOK,
         NEW t \in Thread, Moves(t), NEW w \in Vector, w = vec',
         \A u \in Thread : th'[u].pc # "install"
  PROVE  Room(w)' + Cardinality(Using("dcas")') <= Fsize(Size(w))'
<1> USE DEF Structure, Shape
<1> DEFINE use == Cardinality(Used(w))
           newuse == Cardinality(Used(w)')
           dcas == Cardinality(Using("dcas"))
           newdcas == Cardinality(Using("dcas")')
           share == Fsize(Size(w))
<1>1. tab[w].pidx # 0 /\ tab'[w].pidx # 0
  BY VecMoves
<1>2. /\ Fsize(Size(w))' = share /\ share \in Nat
  <2>1. Size(w)' = Size(w) /\ Size(w) \in Nat
    BY <1>1, SizesKept
  <2>2. Fsize(Size(w))' = share
    BY <2>1 DEF Fsize
  <2>3. share \in Nat
    BY <2>1, Shares
  <2> QED
    BY <2>2, <2>3
<1>3. /\ use \in Nat /\ newuse \in Nat /\ newuse <= use + 1
      /\ (\A i : ~Fills(t, w, i)) => newuse <= use
  BY <1>1, UsedGrows
<1>4. /\ dcas \in Nat /\ newdcas \in Nat
      /\ IsFiniteSet(Using("dcas")) /\ IsFiniteSet(Using("dcas")')
      /\ vec' = vec => Using("dcas")' \ {t} = Using("dcas") \ {t}
  BY UsingMoves
<1>5. limit \in Int /\ limit' \in Int
  BY LimitStep DEF Types
<1>6. Arrives(t)
  BY Arrivals
<1>7. /\ Room(w) = use + (IF limit > 0 THEN limit ELSE 0)
      /\ Room(w)' = newuse + (IF limit' > 0 THEN limit' ELSE 0)
  BY DEF Room
<1>8. CASE vec' # vec
  <2>1. /\ th[t].pc = "install" /\ w = th[t].np /\ limit' = limit
        /\ \A u \in Thread : th[u].vec # w
        /\ Install(t) \/ AssignInstall(t)
    BY <1>8, VecMoves
  <2>2. Room(w) <= share
    <3>1. CASE th[t].op = "assign"
      BY <2>1, <3>1 DEF RoomOK, At
    <3>2. CASE th[t].op # "assign"
      <4>1. Copier(t)
        BY <2>1, <3>2 DEF Copier, Exclusive, Copying, CallsOK, CallOK, Places, Clearing
      <4> QED
        BY <2>1, <4>1 DEF RoomOK, At
    <3> QED
      BY <3>1, <3>2
  <2>3. \A i : ~Fills(t, w, i)
    BY <2>1, FillsAt
  <2>4. newdcas = 0
    <3>1. th'[t].pc # "dcas"
      BY <2>1, <1>6 DEF Arrives, DecrLimit, At
    <3>2. \A u \in Thread \ {t} : th'[u] = th[u]
      BY ThreadTypes
    <3>3. Using("dcas")' = {}
      BY <2>1, <3>1, <3>2 DEF Using, At
    <3> QED
      BY <3>3, FS_EmptySet
  <2> QED
    BY <1>2, <1>3, <1>5, <1>7, <2>1, <2>2, <2>3, <2>4
<1>9. CASE vec' = vec
  <2>1. w = vec /\ ~Install(t) /\ ~AssignInstall(t)
    BY <1>9, VecMoves
  <2>2. Room(w) + dcas <= share
    <3>1. \A u \in Thread : ~At(u, "install")
      BY <1>6, <2>1, ThreadTypes DEF Arrives, At
    <3> QED
      BY <2>1, <3>1 DEF RoomOK
  <2>3. th'[t].pc = "dcas" => DecrLimit(t)
    BY <1>6 DEF Arrives
  <2>4. ~SetLimit(t) /\ ~AssignLimit(t)
    <3>1. SetLimit(t) => th'[t].pc = "install"
      BY SetLimitDoes, Locals DEF Local
    <3>2. AssignLimit(t) => th'[t].pc = "install"
      BY AssignLimitDoes, Locals DEF Local
    <3> QED
      BY <3>1, <3>2
  <2>5. /\ newdcas <= dcas + 1
        /\ th'[t].pc # "dcas" => newdcas <= dcas
        /\ th'[t].pc # "dcas" /\ t \in Using("dcas") => newdcas = dcas - 1
    <3>1. th'[t].pc # "dcas" => t \notin Using("dcas")'
      BY DEF Using, At
    <3> QED
      BY <1>4, <1>9, <3>1, OneLess
  <2>6. CASE DecrLimit(t)
    <3>1. \A i : ~Fills(t, w, i)
      BY <2>6, FillsAt DEF DecrLimit, At
    <3>2. limit > 0 /\ limit' = limit - 1
      BY <2>6 DEF DecrLimit
    <3> QED
      BY <1>2, <1>3, <1>4, <1>5, <1>7, <2>2, <2>5, <3>1, <3>2
  <2>7. CASE FillSlot(t) /\ th[t].vec = vec
    <3>1. th[t].pc = "dcas" /\ t \in Using("dcas")
      BY <2>7 DEF FillSlot, At, Using
    <3>2. th'[t].pc # "dcas"
      BY <2>3, <3>1 DEF DecrLimit, At
    <3>3. limit' = limit
      BY <2>7, FillSlotFrame
    <3> QED
      BY <1>2, <1>3, <1>4, <1>5, <1>7, <2>2, <2>5, <3>1, <3>2, <3>3
  <2>8. CASE ClearSetLimit(t)
    <3>1. At(t, "clrlimit") /\ limit' = Fsize(tab[vec].n)
      BY <2>8, ClearSetLimitFrame, ClearSetLimitDoes
    <3>2. th[t].op = "clear" /\ th[t].pc \in Clearing
      BY <3>1 DEF At, CallsOK, CallOK, Places, Clearing, Storing, Erasing, Copying
    <3>3. limit' <= share /\ limit' \in Nat
      <4>1. tab[vec].n \in 0..Size(vec) /\ Size(vec) \in Nat
        BY <1>1, <2>1, <3>2, Indices DEF CountOK
      <4>2. tab[vec].n \in Nat /\ tab[vec].n <= Size(vec)
        BY <4>1
      <4>3. /\ Fsize(tab[vec].n) \in Nat
            /\ Fsize(tab[vec].n) <= Fsize(Size(vec))
        BY <4>1, <4>2, Shares
      <4> QED
        BY <2>1, <3>1, <4>3
    <3>4. use = 0
      <4>1. \A i \in DOMAIN tab[vec].slot : tab[vec].slot[i] = EmptySlot
        BY <3>1, <3>2 DEF WipedOK, At
      <4>2. Used(w) = {}
        BY <2>1, <4>1 DEF Used, EmptySlot
      <4> QED
        BY <4>2, FS_EmptySet
    <3>5. \A i : ~Fills(t, w, i)
      BY <3>1, FillsAt DEF At
    <3>6. newdcas = 0
      <4>1. \A u \in Thread \ {t} : th[u].pc = "idle" /\ th'[u] = th[u]
        BY <3>2, ThreadTypes DEF AloneOK, Exclusive, At
      <4>2. th'[t].pc # "dcas"
        BY <2>3, <3>1 DEF DecrLimit, At
      <4>3. Using("dcas")' = {}
        BY <4>1, <4>2 DEF Using, At
      <4> QED
        BY <4>3, FS_EmptySet
    <3> QED
      BY <1>2, <1>3, <1>7, <3>3, <3>4, <3>5, <3>6
  <2>9. CASE ~DecrLimit(t) /\ ~(FillSlot(t) /\ th[t].vec = vec) /\ ~ClearSetLimit(t)
    <3>1. newdcas <= dcas
      BY <2>3, <2>5, <2>9
    <3>2. newuse <= use
      BY <1>3, <2>1, <2>9, FillsAt
    <3>3. limit' = limit \/ (limit > 0 /\ limit' = limit - 1) \/ limit' = 0
      BY <2>4, <2>9, LimitMoves, ClearAcquireFrame
    <3> QED
      BY <1>2, <1>3, <1>4, <1>5, <1>7, <2>2, <3>1, <3>2, <3>3
  <2> QED
    BY <2>6, <2>7, <2>8, <2>9
<1> QED
  BY <1>8, <1>9

(* What is in use before a place in a vector that is not being cleared.    *)
LEMMA BeforeGrows ==
  ASSUME Shape, AloneOK, RoomOK, NEW t \in Thread, Moves(t), NEW w \in Vector,
         tab[w].pidx # 0, tab'[w].pidx # 0, ~ClearFreeKey(t), NEW n \in Nat
  PROVE  /\ IsFiniteSet(UsedBefore(w, n)) /\ IsFiniteSet(UsedBefore(w, n)')
         /\ Cardinality(UsedBefore(w, n)) \in Nat /\ Cardinality(UsedBefore(w, n)') \in Nat
         /\ UsedBefore(w, n) \subseteq UsedBefore(w, n)'
         /\ Cardinality(UsedBefore(w, n)) <= Cardinality(UsedBefore(w, n)')
<1> DEFINE old == UsedBefore(w, n)
           new == UsedBefore(w, n)'
<1>1. IsFiniteSet(Used(w)) /\ IsFiniteSet(Used(w)') /\ Used(w) \subseteq Used(w)'
  BY UsedGrows
<1>2. old \subseteq Used(w) /\ new \subseteq Used(w)'
  BY DEF UsedBefore
<1>3. old \subseteq new
  BY <1>1 DEF UsedBefore
<1> HIDE DEF old, new
<1>4. IsFiniteSet(old) /\ IsFiniteSet(new)
  BY <1>1, <1>2, FS_Subset
<1>5. Cardinality(old) <= Cardinality(new)
  BY <1>3, <1>4, FS_Subset
<1> QED
  BY <1>3, <1>4, <1>5, FS_CardinalityType DEF old, new

(* The vector that another is copied from is in use while it is.           *)
LEMMA CopyMoves ==
  ASSUME Excluding, Structure, RoomOK, NEW t \in Thread, Moves(t),
         NEW u \in Thread, Copier(u), ~Install(u) \/ u # t
  PROVE  /\ vec' = vec /\ lock = u /\ th[u].vec = vec
         /\ th[u].np \in Vector /\ th[u].np # vec
         /\ tab[th[u].np].pidx # 0 /\ life[th[u].np] = "live"
         /\ ~ClearFreeKey(t)
         /\ u # t => /\ \A i : ~Fills(t, th[u].np, i)
                     /\ limit' = limit \/ limit' = limit - 1
                     /\ th'[u] = th[u]
<1> USE DEF Structure, Shape
<1>1. lock = u /\ th[u].vec = vec /\ th[u].np # Null /\ th[u].pc \notin Clearing
  BY DEF Copier, LockOK, CallsOK, CallOK, Copying, Clearing
<1>2. th[u].np \in Vector /\ th[u].np # vec /\ life[th[u].np] = "live" /\ tab[th[u].np].pidx # 0
  BY <1>1, Locals DEF VectorsOK, Local
<1>3. \A v \in Thread : th[v].pc \in Copying \cup Clearing \cup {"mark"} => v = u
  BY <1>1 DEF LockOK
<1>4. ~ClearFreeKey(t)
  BY <1>1, <1>3 DEF ClearFreeKey, At, Clearing
<1>5. vec' = vec
  <2>1. ~AssignInstall(u)
    BY DEF Copier, Exclusive, AssignInstall
  <2>2. Install(t) \/ AssignInstall(t) => t = u
    BY <1>3, InstallDoes, AssignInstallDoes DEF At, Copying
  <2> QED
    BY <2>1, <2>2, VecMoves
<1>6. ASSUME u # t
      PROVE  /\ \A i : ~Fills(t, th[u].np, i)
             /\ limit' = limit \/ limit' = limit - 1
             /\ th'[u] = th[u]
  <2>1. th[t].pc \notin Copying \cup Clearing \cup {"mark"}
    BY <1>3, <1>6
  <2>2. \A i : ~Fills(t, th[u].np, i)
    BY <1>1, <2>1, FillsAt DEF VectorsOK, Copying
  <2>3. ~SetLimit(t) /\ ~AssignLimit(t) /\ ~ClearAcquire(t) /\ ~ClearSetLimit(t)
    BY <1>1, <2>1, Names DEF SetLimit, AssignLimit, ClearAcquire, ClearSetLimit, At, Copying, Clearing
  <2> QED
    BY <1>6, <2>2, <2>3, LimitMoves, ThreadTypes
<1> QED
  BY <1>1, <1>2, <1>4, <1>5, <1>6

(* What is said of a copy stays while no slot of it is filled.             *)
LEMMA CopyStays ==
  ASSUME Excluding, Structure, RoomOK, NEW t \in Thread, Moves(t),
         NEW u \in Thread, Copier(u), NEW v \in Vector, NEW w \in Vector, NEW n \in Nat,
         v = vec, vec' = vec, w = th[u].np, n = th[u].ix,
         \A i : ~Fills(t, w, i), limit' <= limit, limit' \in Int, ~ClearFreeKey(t)
  PROVE  /\ Size(v)' <= Size(w)'
         /\ th[u].pc \in {"copykey", "copyval"} =>
              Cardinality(Used(w)') <= Cardinality(UsedBefore(v, n)')
         /\ th[u].pc = "setlimit" => Cardinality(Used(w)') <= Cardinality(Used(v)')
         /\ th[u].pc = "install" => Room(w)' <= Fsize(Size(w))'
<1> USE DEF Structure, Shape
<1>1. tab[v].pidx # 0 /\ tab'[v].pidx # 0
  BY VecMoves
<1>2. tab[w].pidx # 0 /\ tab'[w].pidx # 0
  <2>1. w # Null
    BY Names
  <2>2. life[w] = "live" /\ tab[w].pidx # 0
    BY <2>1 DEF VectorsOK
  <2>3. life'[w] # "gone" /\ life'[w] # "free"
    <3>1. VectorStep(t, w) /\ w # vec
      BY <2>1, VectorsStep DEF VectorsOK
    <3> QED
      BY <2>2, <3>1 DEF VectorStep, VectorKept, VectorMade, VectorReplaced
  <2> QED
    BY <2>2, <2>3, TablesStep
<1>3. /\ Size(v)' = Size(v) /\ Size(w)' = Size(w) /\ Size(v) \in Nat /\ Size(w) \in Nat
  BY <1>1, <1>2, SizesKept
<1>4. Size(v) <= Size(w)
  BY DEF RoomOK
<1>5. /\ Cardinality(Used(w)) \in Nat /\ Cardinality(Used(w)') \in Nat
      /\ Cardinality(Used(w)') <= Cardinality(Used(w))
  BY <1>2, UsedGrows
<1>6. /\ IsFiniteSet(Used(v)') /\ Cardinality(Used(v)) \in Nat /\ Cardinality(Used(v)') \in Nat
      /\ Used(v) \subseteq Used(v)'
  BY <1>1, UsedGrows
<1>7. Cardinality(Used(v)) <= Cardinality(Used(v)')
  BY <1>6, FS_Subset
<1>8. /\ Cardinality(UsedBefore(v, n)) \in Nat /\ Cardinality(UsedBefore(v, n)') \in Nat
      /\ Cardinality(UsedBefore(v, n)) <= Cardinality(UsedBefore(v, n)')
  BY <1>1, BeforeGrows
<1>9. th[u].pc \in {"copykey", "copyval"} =>
        Cardinality(Used(w)) <= Cardinality(UsedBefore(v, n))
  BY DEF RoomOK
<1>10. th[u].pc = "setlimit" => Cardinality(Used(w)) <= Cardinality(Used(v))
  BY DEF RoomOK, At
<1>11. th[u].pc = "install" => Room(w)' <= Fsize(Size(w))'
  <2>1. th[u].pc = "install" => Room(w) <= Fsize(Size(w))
    BY DEF RoomOK, At
  <2>2. Fsize(Size(w))' = Fsize(Size(w))
    BY <1>3 DEF Fsize
  <2>3. Fsize(Size(w)) \in Nat
    BY <1>3, Shares
  <2>4. /\ Room(w) = Cardinality(Used(w)) + (IF limit > 0 THEN limit ELSE 0)
        /\ Room(w)' = Cardinality(Used(w)') + (IF limit' > 0 THEN limit' ELSE 0)
    BY DEF Room
  <2>5. limit \in Int
    BY DEF Types
  <2> QED
    BY <1>5, <2>1, <2>2, <2>3, <2>4, <2>5
<1> QED
  BY <1>3, <1>4, <1>5, <1>6, <1>7, <1>8, <1>9, <1>10, <1>11

(* One more slot in use is behind when one more was copied.                *)
LEMMA CopyAdvances ==
  ASSUME Excluding, Structure, RoomOK, NEW t \in Thread, CopyValue(t),
         NEW v \in Vector, NEW w \in Vector, NEW n \in Nat,
         v = vec, w = th[t].np, n = th[t].ix
  PROVE  /\ Size(v)' <= Size(w)'
         /\ Cardinality(Used(w)') <= Cardinality(UsedBefore(v, n + 1)')
         /\ Cardinality(Used(w)') <= Cardinality(Used(v)')
<1> USE DEF Structure, Shape
<1>1. Moves(t) /\ At(t, "copyval")
  BY DEF Moves, Proceed, CopyValue
<1>2. Copier(t)
  BY <1>1 DEF At, Copier, Exclusive, CallsOK, CallOK, Places, Copying, Clearing
<1>3. /\ vec' = vec /\ lock = t /\ th[t].vec = vec /\ w # vec /\ tab[w].pidx # 0
      /\ life[w] = "live" /\ ~ClearFreeKey(t)
  BY <1>1, <1>2, CopyMoves DEF Install, At
<1>4. tab[v].pidx # 0 /\ tab'[v].pidx # 0
  BY <1>1, <1>3, VecMoves
<1>5. tab'[w].pidx # 0
  <2>1. VectorStep(t, w)
    BY <1>1, VectorsStep
  <2>2. life'[w] # "gone" /\ life'[w] # "free"
    BY <1>3, <2>1 DEF VectorStep, VectorKept, VectorMade, VectorReplaced
  <2> QED
    BY <1>1, <2>2, TablesStep
<1>6. Size(v)' <= Size(w)'
  <2>1. Size(v)' = Size(v) /\ Size(w)' = Size(w)
    BY <1>1, <1>3, <1>4, <1>5, SizesKept
  <2>2. Size(v) <= Size(w)
    BY <1>2 DEF RoomOK
  <2> QED
    BY <2>1, <2>2
<1> DEFINE use == Cardinality(Used(w))
           newuse == Cardinality(Used(w)')
           B(m) == UsedBefore(v, m)'
<1>7. /\ use \in Nat /\ newuse \in Nat /\ newuse <= use + 1
      /\ (\A i : ~Fills(t, w, i)) => newuse <= use
  BY <1>1, <1>3, <1>5, UsedGrows
<1>8. use <= Cardinality(B(n)) /\ Cardinality(B(n)) \in Nat
  <2>1. use <= Cardinality(UsedBefore(v, n))
    BY <1>1, <1>2 DEF RoomOK, At
  <2>2. /\ Cardinality(UsedBefore(v, n)) \in Nat /\ Cardinality(B(n)) \in Nat
        /\ Cardinality(UsedBefore(v, n)) <= Cardinality(B(n))
    BY <1>1, <1>3, <1>4, BeforeGrows
  <2> QED
    BY <1>7, <2>1, <2>2
<1>9. IsFiniteSet(B(n)) /\ IsFiniteSet(B(n + 1)) /\ Cardinality(B(n + 1)) \in Nat
  BY <1>1, <1>3, <1>4, BeforeGrows
<1>10. B(n) \subseteq B(n + 1)
  <2>1. \A i \in Used(v)' : i \in Nat
    BY <1>1, <1>4, SizesKept DEF Used
  <2> QED
    BY <2>1 DEF UsedBefore
<1>11. newuse <= Cardinality(B(n + 1))
  <2>1. CASE \A i : ~Fills(t, w, i)
    <3>1. Cardinality(B(n)) <= Cardinality(B(n + 1))
      BY <1>9, <1>10, FS_Subset
    <3> QED
      BY <1>7, <1>8, <1>9, <2>1, <3>1
  <2>2. ASSUME NEW i, Fills(t, w, i)
        PROVE  newuse <= Cardinality(B(n + 1))
    <3>1. This(t).val \in ValObj
      BY <1>1, <2>2 DEF Fills, SlotFilled, SlotCopied, FillSlot, At
    <3>2. n \in DOMAIN tab[v].slot /\ This(t) = tab[v].slot[n]
      BY <1>1, <1>3, Found DEF At, This
    <3>3. This(t).key # FREE
      <4>1. \A u \in Thread : ~At(u, "clrval")
        BY <1>1, <1>3 DEF LockOK, Clearing, Copying, At
      <4>2. tab[v].slot[n].key = FREE => tab[v].slot[n].val = FREE
        BY <3>2, <4>1 DEF SlotsOK
      <4>3. FREE \notin ValObj
        BY Names DEF Word
      <4> QED
        BY <3>1, <3>2, <4>2, <4>3
    <3>4. n \in Used(v)'
      <4>1. n \in Used(v)
        BY <3>2, <3>3 DEF Used
      <4> QED
        BY <1>1, <1>3, <1>4, <4>1, UsedGrows
    <3>5. n \notin B(n) /\ n \in B(n + 1)
      BY <3>4 DEF UsedBefore
    <3> HIDE DEF B
    <3>6. B(n) \cup {n} \subseteq B(n + 1)
      BY <1>10, <3>5
    <3>7. IsFiniteSet(B(n) \cup {n}) /\ Cardinality(B(n) \cup {n}) = Cardinality(B(n)) + 1
      BY <1>9, <3>5, FS_AddElement
    <3>8. Cardinality(B(n) \cup {n}) <= Cardinality(B(n + 1))
      BY <1>9, <3>6, FS_Subset
    <3> QED
      BY <1>7, <1>8, <1>9, <3>7, <3>8
  <2> QED
    BY <2>1, <2>2
<1>12. Cardinality(B(n + 1)) <= Cardinality(Used(v)') /\ Cardinality(Used(v)') \in Nat
  <2>1. IsFiniteSet(Used(v)') /\ Cardinality(Used(v)') \in Nat
    BY <1>1, <1>4, UsedGrows
  <2>2. B(n + 1) \subseteq Used(v)'
    BY DEF UsedBefore
  <2> QED
    BY <2>1, <2>2, FS_Subset
<1>13. newuse <= Cardinality(Used(v)')
  BY <1>7, <1>9, <1>11, <1>12
<1> QED
  BY <1>6, <1>11, <1>13

(* The vector that is being made has room for what will be copied.         *)
LEMMA RoomOfCopy ==
  ASSUME Excluding, IsFiniteSet(Thread), Structure, RoomOK, NEW t \in Thread, Moves(t),
         NEW u \in Thread, Copier(u)', NEW v \in Vector, NEW w \in Vector, NEW n \in Nat,
         v = vec, w = th'[u].np, n = th'[u].ix
  PROVE  /\ vec' = vec
         /\ Size(v)' <= Size(w)'
         /\ th'[u].pc \in {"copykey", "copyval"} =>
              Cardinality(Used(w)') <= Cardinality(UsedBefore(v, n)')
         /\ th'[u].pc = "setlimit" => Cardinality(Used(w)') <= Cardinality(Used(v)')
         /\ th'[u].pc = "install" => Room(w)' <= Fsize(Size(w))'
<1> USE DEF Structure, Shape
<1>1. vec' = vec
  <2>1. lock' = u
    BY LockStep DEF LockOK, Copier
  <2>2. ~Install(t) /\ ~AssignInstall(t)
    BY <2>1, InstallFrame, AssignInstallFrame, Names
  <2> QED
    BY <2>2, VecMoves
<1>2. th'[u].pc \in Copying /\ th'[u].op \notin {"assign", "clear"}
  BY DEF Copier, Exclusive
<1>3. limit \in Int /\ limit' \in Int /\ Arrives(t)
  BY LimitStep, Arrivals DEF Types
<1>4. CASE u # t
  <2>1. th'[u] = th[u]
    BY <1>4, ThreadTypes
  <2>2. Copier(u)
    BY <2>1 DEF Copier, Exclusive
  <2>3. /\ \A i : ~Fills(t, w, i)
        /\ limit' <= limit /\ ~ClearFreeKey(t)
    BY <1>3, <1>4, <2>1, <2>2, CopyMoves
  <2> QED
    BY <1>1, <1>3, <2>1, <2>2, <2>3, CopyStays
<1>5. CASE u = t /\ RehashStart(t)
  <2>1. /\ MadeTable(w, Make(Bigger(tab[vec].pidx)))
        /\ th'[t].pc = "copykey"
    BY <1>5, RehashStartMakes, RehashStartDoes, Locals DEF Local
  <2>2. tab[vec].pidx \in DOMAIN Entries /\ Bigger(tab[vec].pidx) \in DOMAIN Entries
        /\ Entries[tab[vec].pidx] <= Entries[Bigger(tab[vec].pidx)]
    <3>1. vec \in Vector /\ tab[vec].pidx # 0
      BY VecMoves
    <3> QED
      BY <3>1, Indices, Sizes
  <2>3. tab'[w] = Make(Bigger(tab[vec].pidx)) /\ v # w /\ tab'[v] = tab[v]
    BY <2>1 DEF MadeTable, VectorsOK
  <2>4. Size(v)' <= Size(w)'
    BY <2>2, <2>3, TableMade DEF Size
  <2>5. Used(w)' = {}
    <3>1. /\ \A i \in 0..Entries[Bigger(tab[vec].pidx)] - 1 : tab'[w].slot[i] = EmptySlot
          /\ DOMAIN tab'[w].slot = 0..Entries[Bigger(tab[vec].pidx)] - 1
      <4>1. DOMAIN tab'[w].slot = 0..Entries[Bigger(tab[vec].pidx)] - 1
        BY <2>3 DEF Make
      <4> QED
        BY <2>2, <2>3, <4>1, TableMade
    <3> QED
      BY <3>1 DEF Used, EmptySlot
  <2>6. Cardinality(Used(w)') = 0
    BY <2>5, FS_EmptySet
  <2>7. Cardinality(UsedBefore(v, n)') \in Nat
    <3>1. ~ClearFreeKey(t) /\ tab[v].pidx # 0 /\ tab'[v].pidx # 0
      BY <1>1, <1>5, VecMoves, RehashStartDoes, ClearFreeKeyDoes DEF At
    <3> QED
      BY <3>1, BeforeGrows
  <2> QED
    BY <1>1, <1>5, <2>1, <2>4, <2>6, <2>7
<1>6. CASE u = t /\ CopyValue(t)
  <2>1. /\ th'[t].np = th[t].np /\ th'[t].pc \in {"copykey", "setlimit"}
        /\ th'[t].pc = "copykey" => th'[t].ix = th[t].ix + 1
        /\ th[t].ix \in Nat
    BY <1>6, CopyValueDoes, Locals DEF Local
  <2>5. PICK m \in Nat : m = th[t].ix
    BY <2>1
  <2>2. /\ Size(v)' <= Size(w)'
        /\ Cardinality(Used(w)') <= Cardinality(UsedBefore(v, m + 1)')
        /\ Cardinality(Used(w)') <= Cardinality(Used(v)')
    <3>1. w = th[t].np
      BY <1>6, <2>1
    <3> QED
      BY <1>6, <2>5, <3>1, CopyAdvances
  <2>3. CASE th'[t].pc = "copykey"
    <3>1. n = m + 1
      BY <1>6, <2>1, <2>3, <2>5
    <3> QED
      BY <1>1, <1>6, <2>2, <2>3, <3>1
  <2>4. CASE th'[t].pc = "setlimit"
    BY <1>1, <1>6, <2>2, <2>4
  <2> QED
    BY <2>1, <2>3, <2>4
<1>7. CASE u = t /\ CopyKey(t)
  <2>1. At(t, "copykey") /\ th'[t].pc = "copyval" /\ th'[t].np = th[t].np /\ th'[t].ix = th[t].ix
    BY <1>7, CopyKeyDoes, Locals DEF Local
  <2>2. Copier(t)
    BY <2>1 DEF At, Copier, Exclusive, CallsOK, CallOK, Places, Copying, Clearing
  <2>3. (\A i : ~Fills(t, w, i)) /\ limit' = limit /\ ~ClearFreeKey(t)
    BY <1>7, <2>1, FillsAt, CopyKeyFrame DEF ClearFreeKey, At
  <2> QED
    BY <1>1, <1>3, <1>7, <2>1, <2>2, <2>3, CopyStays DEF At
<1>8. CASE u = t /\ SetLimit(t)
  <2>1. /\ At(t, "setlimit") /\ th'[t].pc = "install" /\ th'[t].np = th[t].np
        /\ th'[t].ix = th[t].ix
    BY <1>8, SetLimitDoes, Locals DEF Local
  <2>0. w = th[t].np
    BY <1>8, <2>1
  <2>2. Copier(t)
    BY <2>1 DEF At, Copier, Exclusive, CallsOK, CallOK, Places, Copying, Clearing
  <2>3. (\A i : ~Fills(t, w, i)) /\ limit' = Fsize(Size(w)) - Cardinality(LiveSlots(w))
    BY <1>8, <2>0, <2>1, FillsAt, SetLimitFrame DEF At
  <2>4. /\ w # vec /\ tab[w].pidx # 0 /\ lock = t /\ w # Null
        /\ life[w] = "live"
    BY <2>0, <2>1, <2>2, CopyMoves, Names DEF Install, At
  <2>5. tab[v].pidx # 0 /\ tab'[w].pidx # 0
    <3>1. VectorStep(t, w)
      BY VectorsStep
    <3>2. life'[w] # "gone" /\ life'[w] # "free"
      BY <2>4, <3>1 DEF VectorStep, VectorKept, VectorMade, VectorReplaced
    <3> QED
      BY <3>2, TablesStep, VecMoves
  <2>6. Size(w)' = Size(w) /\ Size(w) \in Nat /\ Size(v) \in Nat
    BY <2>4, <2>5, SizesKept, Indices
  <2>7. Size(v) <= Size(w) /\ Cardinality(Used(w)) <= Cardinality(Used(v))
    BY <2>0, <2>1, <2>2 DEF RoomOK
  <2>8. Size(v)' = Size(v)
    BY <1>1, <2>5, VecMoves, SizesKept
  <2>9. LiveSlots(w) = Used(w)
    <3>1. \A i \in DOMAIN tab[w].slot : tab[w].slot[i] = EmptySlot \/ IsLive(tab[w].slot[i])
      BY <2>0, <2>1, <2>4 DEF BitsOK
    <3>2. EmptySlot.key = FREE /\ ~IsLive(EmptySlot)
      BY DEF EmptySlot, IsLive, Word
    <3>3. \A i \in DOMAIN tab[w].slot : IsLive(tab[w].slot[i]) <=> tab[w].slot[i].key # FREE
      BY <3>1, <3>2 DEF IsLive, Word
    <3> QED
      BY <3>3 DEF LiveSlots, Used
  <2>10. /\ Cardinality(Used(w)') <= Cardinality(Used(w))
         /\ Cardinality(Used(w)') \in Nat /\ Cardinality(Used(w)) \in Nat
    BY <2>3, <2>4, <2>5, UsedGrows
  <2>11. Cardinality(Used(v)) <= Fsize(Size(v))
    <3>1. \A a \in Thread : ~At(a, "install")
      BY <2>1, <2>4 DEF LockOK, At, Copying
    <3>2. Room(v) + Cardinality(Using("dcas")) <= Fsize(Size(v))
      BY <3>1 DEF RoomOK
    <3>3. IsFiniteSet(Used(v)) /\ Cardinality(Used(v)) \in Nat
      BY LiveFinite
    <3>4. Cardinality(Using("dcas")) \in Nat
      BY UsingMoves
    <3>5. Fsize(Size(v)) \in Nat
      BY <2>6, Shares
    <3> QED
      BY <1>3, <3>2, <3>3, <3>4, <3>5 DEF Room
  <2>12. Fsize(Size(v)) <= Fsize(Size(w)) /\ Fsize(Size(v)) \in Nat /\ Fsize(Size(w)) \in Nat
    BY <2>6, <2>7, Shares
  <2>13. Cardinality(Used(v)) \in Nat
    BY LiveFinite
  <2>14. Fsize(Size(w))' = Fsize(Size(w))
    BY <2>6 DEF Fsize
  <2>15. Room(w)' = Cardinality(Used(w)') + (IF limit' > 0 THEN limit' ELSE 0)
    BY DEF Room
  <2>16. Room(w)' <= Fsize(Size(w))'
    BY <2>3, <2>7, <2>9, <2>10, <2>11, <2>12, <2>13, <2>14, <2>15
  <2> QED
    BY <1>1, <1>8, <2>1, <2>6, <2>7, <2>8, <2>16
<1> QED
  <2>1. u = t => RehashStart(t) \/ CopyValue(t) \/ CopyKey(t) \/ SetLimit(t)
    <3>1. ASSUME AssignLimit(t) PROVE th'[t].op = "assign"
      <4>1. th[t].pc = "mark" /\ th'[t].op = th[t].op
        BY <3>1, AssignLimitDoes, Locals DEF At, Local
      <4> QED
        BY <4>1 DEF CallsOK, CallOK, Places, Storing, Erasing, Copying, Clearing
    <3> QED
      BY <1>2, <1>3, <3>1 DEF Arrives, Copying
  <2> QED
    BY <1>4, <1>5, <1>6, <1>7, <1>8, <2>1

(* Who changes the number of elements.                                     *)
LEMMA CountMoves ==
  ASSUME Shape, RoomOK, NEW t \in Thread, Moves(t), NEW w \in Vector,
         tab[w].pidx # 0, tab'[w].pidx # 0
  PROVE  /\ tab[w].n \in Int
         /\ \/ /\ tab'[w].n = tab[w].n
               /\ ~(CountUp(t) /\ w = th[t].vec) /\ ~(CountDown(t) /\ w = th[t].vec)
               /\ ~(SetLimit(t) /\ w = th[t].np) /\ ~(ClearDone(t) /\ w = vec)
            \/ CountUp(t) /\ w = th[t].vec /\ tab'[w].n = tab[w].n + 1
            \/ CountDown(t) /\ w = th[t].vec /\ tab'[w].n = tab[w].n - 1
            \/ SetLimit(t) /\ w = th[t].np /\ tab'[w].n = Cardinality(LiveSlots(w))
            \/ ClearDone(t) /\ w = vec /\ tab'[w].n = 0
<1> USE DEF Shape
<1>0. tab[w].n \in Int /\ IsTable(tab[w])
  BY TableFacts DEF Types
<1>1. CASE CountUp(t)
  <2>1. Counted(th[t].vec, tab[th[t].vec].n + 1)
    BY <1>1, CountUpPuts
  <2>2. ~CountDown(t) /\ ~SetLimit(t) /\ ~ClearDone(t)
    BY <1>1 DEF CountUp, CountDown, SetLimit, ClearDone, At
  <2>3. tab'[w].n = IF w = th[t].vec THEN tab[th[t].vec].n + 1 ELSE tab[w].n
    BY <2>1 DEF Counted
  <2> QED
    BY <1>0, <1>1, <2>2, <2>3
<1>2. CASE CountDown(t)
  <2>1. Counted(th[t].vec, tab[th[t].vec].n - 1)
    BY <1>2, CountDownPuts
  <2>2. ~CountUp(t) /\ ~SetLimit(t) /\ ~ClearDone(t)
    BY <1>2 DEF CountUp, CountDown, SetLimit, ClearDone, At
  <2>3. tab'[w].n = IF w = th[t].vec THEN tab[th[t].vec].n - 1 ELSE tab[w].n
    BY <2>1 DEF Counted
  <2> QED
    BY <1>0, <1>2, <2>2, <2>3
<1>3. CASE SetLimit(t)
  <2>1. Counted(th[t].np, Cardinality(LiveSlots(th[t].np)))
    BY <1>3, SetLimitPuts
  <2>2. ~CountUp(t) /\ ~CountDown(t) /\ ~ClearDone(t)
    BY <1>3 DEF CountUp, CountDown, SetLimit, ClearDone, At
  <2>3. tab'[w].n = IF w = th[t].np THEN Cardinality(LiveSlots(th[t].np)) ELSE tab[w].n
    BY <2>1 DEF Counted
  <2> QED
    BY <1>0, <1>3, <2>2, <2>3
<1>4. CASE ClearDone(t)
  <2>1. Counted(vec, 0)
    BY <1>4, ClearDonePuts
  <2>2. ~CountUp(t) /\ ~CountDown(t) /\ ~SetLimit(t)
    BY <1>4 DEF CountUp, CountDown, SetLimit, ClearDone, At
  <2>3. tab'[w].n = IF w = vec THEN 0 ELSE tab[w].n
    BY <2>1 DEF Counted
  <2> QED
    BY <1>0, <1>4, <2>2, <2>3
<1>5. ASSUME NEW a, NEW b, NEW c, Put(a, b, c)
      PROVE  tab'[w].n = tab[w].n
  BY <1>5 DEF Put
<1>6. CASE FillSlot(t)
  <2>1. tab'[w].n = tab[w].n
    BY <1>5, <1>6, FillSlotPuts
  <2> QED
    BY <1>0, <1>6, <2>1 DEF FillSlot, CountUp, CountDown, SetLimit, ClearDone, At
<1>7. CASE SwapValue(t)
  <2>1. tab'[w].n = tab[w].n
    BY <1>5, <1>7, SwapValuePuts
  <2> QED
    BY <1>0, <1>7, <2>1 DEF SwapValue, CountUp, CountDown, SetLimit, ClearDone, At
<1>8. CASE TakeValue(t)
  <2>1. tab'[w].n = tab[w].n
    BY <1>5, <1>8, TakeValuePuts
  <2> QED
    BY <1>0, <1>8, <2>1 DEF TakeValue, CountUp, CountDown, SetLimit, ClearDone, At
<1>9. CASE Bury(t)
  <2>1. tab'[w].n = tab[w].n
    BY <1>5, <1>9, BuryPuts
  <2> QED
    BY <1>0, <1>9, <2>1 DEF Bury, CountUp, CountDown, SetLimit, ClearDone, At
<1>10. CASE Mark(t)
  <2>1. tab'[w].n = tab[w].n
    BY <1>5, <1>10, MarkPuts
  <2> QED
    BY <1>0, <1>10, <2>1 DEF Mark, CountUp, CountDown, SetLimit, ClearDone, At
<1>11. CASE ClearFreeKey(t)
  <2>1. tab'[w].n = tab[w].n
    BY <1>5, <1>11, ClearFreeKeyPuts
  <2> QED
    BY <1>0, <1>11, <2>1 DEF ClearFreeKey, CountUp, CountDown, SetLimit, ClearDone, At
<1>12. CASE ClearFreeValue(t)
  <2>1. tab'[w].n = tab[w].n
    BY <1>5, <1>12, ClearFreeValuePuts
  <2> QED
    BY <1>0, <1>12, <2>1 DEF ClearFreeValue, CountUp, CountDown, SetLimit, ClearDone, At
<1>13. CASE CopyValue(t)
  <2>1. tab'[w].n = tab[w].n
    <3>1. ASSUME NEW a, NEW b, NEW c, NEW d, NEW e, NEW f, PutBoth(a, b, c, d, e, f)
          PROVE  tab'[w].n = tab[w].n
      BY <3>1 DEF PutBoth
    <3>2. CASE Copied(t)
      BY <1>13, <3>1, <3>2, CopyValuePuts
    <3>3. CASE ~Copied(t)
      BY <1>5, <1>13, <3>3, CopyValuePuts
    <3> QED
      BY <3>2, <3>3
  <2> QED
    BY <1>0, <1>13, <2>1 DEF CopyValue, CountUp, CountDown, SetLimit, ClearDone, At
<1>14. CASE RehashStart(t) \/ \E k \in Key : AssignStart(t, k)
  <2>1. th'[t].np # w
    BY <1>14, RehashStartMakes, AssignStartMakes DEF MadeTable, VectorsOK
  <2>2. tab'[w] = tab[w]
    BY <1>14, <2>1, RehashStartMakes, AssignStartMakes DEF MadeTable
  <2>3. At(t, "rehash") \/ At(t, "idle")
    BY <1>14, RehashStartDoes, AssignStartDoes
  <2> QED
    BY <1>0, <2>2, <2>3 DEF CountUp, CountDown, SetLimit, ClearDone, At
<1>15. CASE /\ ~CountUp(t) /\ ~CountDown(t) /\ ~SetLimit(t) /\ ~ClearDone(t)
            /\ ~FillSlot(t) /\ ~SwapValue(t) /\ ~TakeValue(t) /\ ~Bury(t) /\ ~Mark(t)
            /\ ~ClearFreeKey(t) /\ ~ClearFreeValue(t) /\ ~CopyValue(t)
            /\ ~RehashStart(t) /\ ~(\E k \in Key : AssignStart(t, k))
  <2>1. tab'[w] = tab[w]
    BY <1>15, SameStep DEF SameTables
  <2> QED
    BY <1>0, <1>15, <2>1
<1> QED
  BY <1>1, <1>2, <1>3, <1>4, <1>6, <1>7, <1>8, <1>9, <1>10, <1>11, <1>12, <1>13,
    <1>14, <1>15

(* What assign has made holds one pair.                                    *)
LEMMA RoomOfAssign ==
  ASSUME Excluding, Structure, RoomOK, NEW t \in Thread, Moves(t),
         NEW u \in Thread, th'[u].op = "assign", NEW w \in Vector, w = th'[u].np
  PROVE  /\ Cardinality(Used(w)') = 1
         /\ Cardinality(LiveSlots(w)') = 1 /\ tab'[w].n = 1
         /\ th'[u].pc = "install" => Room(w)' <= Fsize(Size(w))'
<1> USE DEF Structure, Shape
<1>1. u = t
  <2>1. u # t => Exclusive(u)
    BY ThreadTypes DEF Exclusive
  <2> QED
    BY <2>1, AloneMoves
<1>2. Arrives(t) /\ CallsOK'
  BY Arrivals, CallsStep
<1>3. ASSUME NEW k \in Key, AssignStart(t, k)
      PROVE  /\ Cardinality(Used(w)') = 1
             /\ Cardinality(LiveSlots(w)') = 1 /\ tab'[w].n = 1
             /\ th'[t].pc = "acquire"
  <2>1. PICK o \in KeyObj, v \in ValObj, i \in 0..Entries[1] - 1 :
          MadeTable(w, [[Make(1) EXCEPT !.slot[i] = Pair(o, v)] EXCEPT !.n = 1])
    BY <1>1, <1>3, AssignStartMakes
  <2> DEFINE T == [Make(1) EXCEPT !.slot[i] = Pair(o, v)]
  <2>2. /\ IsTable(Make(1)) /\ Make(1).pidx = 1 /\ EntriesOf(Make(1)) = Entries[1]
        /\ \A j \in 0..Entries[1] - 1 : Make(1).slot[j] = EmptySlot
        /\ 1 \in DOMAIN Entries
    BY Sizes, TableMade
  <2>3. Pair(o, v) \in SlotRec /\ Pair(o, v).key = o /\ IsLive(Pair(o, v))
    BY Pairs
  <2>4. /\ IsTable(T) /\ T.pidx = 1
        /\ \A j \in 0..Entries[1] - 1 : T.slot[j] = IF j = i THEN Pair(o, v) ELSE EmptySlot
    BY <2>2, <2>3, TableWritten
  <2>5. tab'[w] = [T EXCEPT !.n = 1]
    BY <2>1 DEF MadeTable
  <2>6. DOMAIN T.slot = 0..Entries[1] - 1
    <3>1. T.pidx # 0 /\ EntriesOf(T) = Entries[1]
      BY <2>4 DEF EntriesOf
    <3> QED
      BY <2>4, <3>1, TableFacts
  <2> HIDE DEF T
  <2>7. tab'[w].slot = T.slot /\ tab'[w].n = 1
    <3>1. 1 \in Int
      OBVIOUS
    <3>2. T.pidx # 0
      BY <2>4
    <3> QED
      BY <2>4, <2>5, <3>1, <3>2, CountWritten
  <2>8. EmptySlot.key = FREE /\ ~IsLive(EmptySlot) /\ o # FREE
    BY Names DEF EmptySlot, IsLive, Word
  <2>9. Used(w)' = {i} /\ LiveSlots(w)' = {i}
    BY <2>3, <2>4, <2>6, <2>7, <2>8 DEF Used, LiveSlots
  <2>10. th'[t].pc = "acquire"
    BY <1>3, AssignStartDoes
  <2> QED
    BY <2>7, <2>9, <2>10, FS_Singleton
<1>4. CASE th[t].op = "assign"
  <2>1. th[t].pc \in {"acquire", "mark"}
    <3>1. th[t].pc \in {"acquire", "mark", "install"}
      BY <1>4 DEF CallsOK, CallOK, Places, Storing, Erasing, Copying, Clearing
    <3>2. ~Install(t) /\ ~AssignInstall(t)
      BY <1>1, <1>4, InstallDoes, AssignInstallDoes DEF Rest
    <3> QED
      BY <1>2, <3>1, <3>2 DEF Arrives
  <2>2. w = th[t].np /\ w # Null
    <3>1. th'[t].np # Null
      BY <1>1, <1>2 DEF CallsOK, CallOK
    <3>2. ~RehashStart(t) /\ ~(\E k \in Key : AssignStart(t, k))
      BY <2>1, RehashStartDoes, AssignStartDoes DEF At
    <3> QED
      BY <1>1, <3>1, <3>2, ThreadNp
  <2>3. /\ life[w] = "live" /\ w # vec /\ tab[w].pidx # 0
    BY <2>2 DEF VectorsOK
  <2>4. tab'[w].pidx # 0
    <3>1. VectorStep(t, w)
      BY VectorsStep
    <3>2. life'[w] # "gone" /\ life'[w] # "free"
      BY <2>3, <3>1 DEF VectorStep, VectorKept, VectorMade, VectorReplaced
    <3> QED
      BY <3>2, TablesStep
  <2>5. \A i : ~Fills(t, w, i)
    BY <2>1, FillsAt
  <2>6. Used(w)' = Used(w)
    <3>1. ~ClearFreeKey(t)
      BY <2>1 DEF ClearFreeKey, At
    <3> QED
      BY <2>3, <2>4, <2>5, <3>1, UsedGrows
  <2>7. LiveSlots(w)' = LiveSlots(w)
    <3>1. \A i : ~SlotTaken(t, w, i) /\ ~SlotKeyFreed(t, w, i) /\ ~SlotValueFreed(t, w, i)
      BY <2>1 DEF SlotTaken, SlotKeyFreed, SlotValueFreed, TakeValue, ClearFreeKey,
        ClearFreeValue, At
    <3>2. DOMAIN tab'[w].slot = DOMAIN tab[w].slot
      BY <2>3, <2>4, SizesKept
    <3>3. \A i \in DOMAIN tab[w].slot : IsLive(tab'[w].slot[i]) <=> IsLive(tab[w].slot[i])
      BY <2>3, <2>4, <2>5, <3>1, LiveMoves
    <3> QED
      BY <3>2, <3>3 DEF LiveSlots
  <2>8. tab'[w].n = tab[w].n
    BY <2>1, <2>3, <2>4, CountMoves DEF CountUp, CountDown, SetLimit, ClearDone, At
  <2>9. /\ Cardinality(Used(w)) = 1 /\ Cardinality(LiveSlots(w)) = 1 /\ tab[w].n = 1
    BY <1>4, <2>2 DEF RoomOK
  <2>10. th'[t].pc = "install" => Room(w)' <= Fsize(Size(w))'
    <3>1. SUFFICES ASSUME th'[t].pc = "install" PROVE Room(w)' <= Fsize(Size(w))'
      OBVIOUS
    <3>2. AssignLimit(t)
      BY <1>2, <2>1, <3>1 DEF Arrives, SetLimit, At
    <3>3. limit' = Fsize(Size(w)) - 1
      BY <2>2, <2>9, <3>2, AssignLimitFrame
    <3>4. Fsize(Size(w)) \in Nat \ {0}
      BY <2>3, Indices, Sizes DEF Size
    <3>5. Fsize(Size(w))' = Fsize(Size(w))
      BY <2>3, <2>4, SizesKept DEF Fsize
    <3>6. Room(w)' = 1 + (IF limit' > 0 THEN limit' ELSE 0)
      BY <2>6, <2>9 DEF Room
    <3> QED
      BY <3>3, <3>4, <3>5, <3>6
  <2> QED
    BY <1>1, <2>6, <2>7, <2>8, <2>9, <2>10
<1> QED
  BY <1>1, <1>2, <1>3, <1>4 DEF Arrives

(* No vector is ever full: that ends every probe.                          *)
LEMMA RoomOfOld ==
  ASSUME Excluding, IsFiniteSet(Thread), Structure, RoomOK, NEW t \in Thread, Moves(t),
         NEW w \in Vector, w = vec' \/ life'[w] = "retired"
  PROVE  Cardinality(Used(w)') < Size(w)'
<1> USE DEF Structure, Shape
<1>1. tab[w].pidx # 0 /\ tab'[w].pidx # 0
  <2>1. CASE w = vec'
    BY <2>1, VecMoves
  <2>2. CASE life'[w] = "retired"
    <3>1. VectorStep(t, w)
      BY VectorsStep
    <3>2. life[w] \in {"live", "retired"}
      BY <2>2, <3>1 DEF VectorStep, VectorKept, VectorMade, VectorReplaced, VectorsOK
    <3> QED
      BY <2>2, <3>2, TablesStep DEF VectorsOK
  <2> QED
    BY <2>1, <2>2
<1>2. /\ Size(w)' = Size(w) /\ Size(w) \in Nat \ {0}
      /\ Fsize(Size(w)) \in Nat /\ Fsize(Size(w)) < Size(w)
  <2>1. Fsize(Size(w)) \in Nat /\ Fsize(Size(w)) < Size(w)
    BY <1>1, Indices, Sizes DEF Size
  <2> QED
    BY <1>1, <2>1, SizesKept
<1>3. /\ Cardinality(Used(w)) \in Nat /\ Cardinality(Used(w)') \in Nat
      /\ Cardinality(Used(w)') <= Cardinality(Used(w)) + 1
      /\ (\A i : ~Fills(t, w, i)) => Cardinality(Used(w)') <= Cardinality(Used(w))
  BY <1>1, UsedGrows
<1>4. limit \in Int
  BY DEF Types
<1>5. CASE w = vec' /\ vec' # vec
  <2>1. th[t].pc = "install" /\ w = th[t].np
    BY <1>5, VecMoves
  <2>2. Room(w) <= Fsize(Size(w))
    <3>1. CASE th[t].op = "assign"
      BY <2>1, <3>1 DEF RoomOK, At
    <3>2. CASE th[t].op # "assign"
      <4>1. Copier(t)
        BY <2>1, <3>2 DEF Copier, Exclusive, Copying, CallsOK, CallOK, Places, Clearing
      <4> QED
        BY <2>1, <4>1 DEF RoomOK, At
    <3> QED
      BY <3>1, <3>2
  <2>3. \A i : ~Fills(t, w, i)
    BY <2>1, FillsAt
  <2>4. Cardinality(Used(w)) <= Fsize(Size(w))
    BY <1>2, <1>3, <1>4, <2>2 DEF Room
  <2> QED
    BY <1>2, <1>3, <2>3, <2>4
<1>6. CASE w = vec \/ life[w] = "retired"
  <2>1. Cardinality(Used(w)) < Size(w)
    BY <1>6 DEF RoomOK
  <2>2. CASE \A i : ~Fills(t, w, i)
    BY <1>2, <1>3, <2>1, <2>2
  <2>3. ASSUME NEW i, Fills(t, w, i)
        PROVE  Cardinality(Used(w)') < Size(w)'
    <3>1. SlotFilled(t, w, i)
      <4>1. ~SlotCopied(t, w, i)
        <5>1. SlotCopied(t, w, i) => life[w] = "live" /\ w # vec
          BY Names DEF SlotCopied, VectorsOK
        <5> QED
          BY <1>6, <5>1
      <4> QED
        BY <2>3, <4>1 DEF Fills
    <3>2. /\ tab[w].slot[i] = EmptySlot /\ w = th[t].vec /\ th[t].pc = "dcas"
          /\ i = Slot(t)
      BY <3>1 DEF SlotFilled, FillSlot, At
    <3>3. i \in DOMAIN tab[w].slot /\ EmptySlot.x = FALSE
      BY <3>2, Found DEF EmptySlot
    <3>4. w = vec
      BY <1>6, <3>2, <3>3 DEF BitsOK
    <3>5. \A u \in Thread : ~At(u, "install")
      BY <3>2, <3>3, <3>4 DEF BitsOK, At
    <3>6. Room(w) + Cardinality(Using("dcas")) <= Fsize(Size(w))
      BY <3>4, <3>5 DEF RoomOK
    <3>7. Cardinality(Using("dcas")) \in Nat /\ Cardinality(Using("dcas")) # 0
      <4>1. t \in Using("dcas")
        BY <3>2, <3>4 DEF Using, At
      <4>2. IsFiniteSet(Using("dcas")) /\ Cardinality(Using("dcas")) \in Nat
        BY UsingMoves
      <4> QED
        BY <4>1, <4>2, FS_EmptySet
    <3> QED
      BY <1>2, <1>3, <1>4, <3>6, <3>7 DEF Room
  <2> QED
    BY <2>2, <2>3
<1> QED
  <2>1. w = vec' \/ w = vec \/ life[w] = "retired"
    <3>1. VectorStep(t, w)
      BY VectorsStep
    <3> QED
      BY <3>1 DEF VectorStep, VectorKept, VectorMade, VectorReplaced
  <2> QED
    BY <1>5, <1>6, <2>1

(* Every step keeps room in the vectors.                                   *)
LEMMA RoomStep ==
  ASSUME Excluding, IsFiniteSet(Thread), Structure, RoomOK, CountOK,
         NEW t \in Thread, Moves(t)
  PROVE  RoomOK'
<1>0. Shape /\ AloneOK
  BY DEF Structure
<1>1. \A w \in Vector : w = vec' /\ (\A u \in Thread : th'[u].pc # "install") =>
        Room(w)' + Cardinality(Using("dcas")') <= Fsize(Size(w))'
  BY RoomOfVec
<1>2. ASSUME NEW u \in Thread, Copier(u)'
      PROVE  /\ Size(vec)' <= Size(th[u].np)'
             /\ th'[u].pc \in {"copykey", "copyval"} =>
                  Cardinality(Used(th[u].np)') <= Cardinality(UsedBefore(vec, th[u].ix)')
             /\ th'[u].pc = "setlimit" =>
                  Cardinality(Used(th[u].np)') <= Cardinality(Used(vec)')
             /\ th'[u].pc = "install" => Room(th[u].np)' <= Fsize(Size(th[u].np))'
  <2>1. th'[u].np \in Vector /\ th'[u].ix \in Nat
    <3>1. CallsOK' /\ th' \in [Thread -> Local]
      BY <1>0, CallsStep, ThreadTypes
    <3>2. th'[u].np # Null
      BY <1>2, <3>1 DEF Copier, CallsOK, CallOK
    <3> QED
      BY <3>1, <3>2 DEF Local
  <2>2. PICK v \in Vector, w \in Vector, n \in Nat : v = vec /\ w = th'[u].np /\ n = th'[u].ix
    BY <1>0, <2>1, VecMoves
  <2>3. /\ vec' = v
        /\ Size(v)' <= Size(w)'
        /\ th'[u].pc \in {"copykey", "copyval"} =>
             Cardinality(Used(w)') <= Cardinality(UsedBefore(v, n)')
        /\ th'[u].pc = "setlimit" => Cardinality(Used(w)') <= Cardinality(Used(v)')
        /\ th'[u].pc = "install" => Room(w)' <= Fsize(Size(w))'
    BY <1>2, <2>2, RoomOfCopy
  <2>4. /\ Size(v)' = Size(vec)' /\ Size(w)' = Size(th[u].np)'
        /\ Used(w)' = Used(th[u].np)' /\ Used(v)' = Used(vec)'
    BY <2>2, <2>3 DEF Size, Used
  <2>5. UsedBefore(v, n)' = UsedBefore(vec, th[u].ix)'
    BY <2>2, <2>3 DEF UsedBefore, Used
  <2>6. Room(w)' = Room(th[u].np)' /\ Fsize(Size(w))' = Fsize(Size(th[u].np))'
    BY <2>4 DEF Room, Fsize
  <2> QED
    BY <2>3, <2>4, <2>5, <2>6
<1>3. ASSUME NEW u \in Thread, th'[u].op = "assign"
      PROVE  /\ Cardinality(Used(th[u].np)') = 1
             /\ Cardinality(LiveSlots(th[u].np)') = 1 /\ tab'[th'[u].np].n = 1
             /\ th'[u].pc = "install" => Room(th[u].np)' <= Fsize(Size(th[u].np))'
  <2>1. th'[u].np \in Vector
    <3>1. CallsOK' /\ th' \in [Thread -> Local]
      BY <1>0, CallsStep, ThreadTypes
    <3>2. th'[u].np # Null
      BY <1>3, <3>1 DEF CallsOK, CallOK
    <3> QED
      BY <3>1, <3>2 DEF Local
  <2>2. PICK w \in Vector : w = th'[u].np
    BY <2>1
  <2>3. /\ Cardinality(Used(w)') = 1
        /\ Cardinality(LiveSlots(w)') = 1 /\ tab'[w].n = 1
        /\ th'[u].pc = "install" => Room(w)' <= Fsize(Size(w))'
    BY <1>3, <2>2, RoomOfAssign
  <2>4. /\ Used(w)' = Used(th[u].np)' /\ LiveSlots(w)' = LiveSlots(th[u].np)'
        /\ Size(w)' = Size(th[u].np)'
    BY <2>2 DEF Size, Used, LiveSlots
  <2>6. Room(w)' = Room(th[u].np)' /\ Fsize(Size(w))' = Fsize(Size(th[u].np))'
    BY <2>4 DEF Room, Fsize
  <2> QED
    BY <2>2, <2>3, <2>4, <2>6
<1>4. \A w \in Vector : w = vec' \/ life'[w] = "retired" => Cardinality(Used(w)') < Size(w)'
  BY RoomOfOld
<1> QED
  BY <1>1, <1>2, <1>3, <1>4 DEF RoomOK, At

-----------------------------------------------------------------------------
(* Counts.                                                                 *)

(* A clear goes on until it is done.                                       *)
LEMMA ClearGoesOn ==
  ASSUME Shape, NEW t \in Thread, Moves(t), th[t].op = "clear"
  PROVE  (th'[t].op = "clear" /\ th'[t].pc \in Clearing) \/ ClearDone(t)
<1>c. CallOK(t) /\ th[t] \in Local
  BY DEF Shape, CallsOK, Types
<1>0. th[t].pc \in Clearing \cup {"acquire"}
  BY <1>c DEF CallOK, Places
<1>1. ~ProbeFree(t)
  BY <1>0, ProbeFreeDoes DEF At, Clearing
<1>2. ~ProbeMatch(t)
  BY <1>0, ProbeMatchDoes DEF At, Clearing
<1>3. ~ProbeNext(t)
  BY <1>0, ProbeNextDoes DEF At, Clearing
<1>4. ~FindValue(t)
  BY <1>0, FindValueDoes DEF At, Clearing
<1>5. ~Answer(t)
  BY <1>0, AnswerDoes DEF At, Clearing
<1>6. ~PutValue(t)
  BY <1>0, PutValueDoes DEF At, Clearing
<1>7. ~UpdateInPlace(t)
  BY <1>0, UpdateInPlaceDoes DEF At, Clearing
<1>8. ~SwapValue(t)
  BY <1>0, SwapValueDoes DEF At, Clearing
<1>9. ~DecrLimit(t)
  BY <1>0, DecrLimitDoes DEF At, Clearing
<1>10. ~PutWait(t)
  BY <1>0, PutWaitDoes DEF At, Clearing
<1>11. ~FillSlot(t)
  BY <1>0, FillSlotDoes DEF At, Clearing
<1>12. ~StoreFails(t)
  BY <1>0, StoreFailsDoes DEF At, Clearing
<1>13. ~CountUp(t)
  BY <1>0, CountUpDoes DEF At, Clearing
<1>14. ~OldKey(t)
  BY <1>0, OldKeyDoes DEF At, Clearing
<1>15. ~OldValue(t)
  BY <1>0, OldValueDoes DEF At, Clearing
<1>16. ~TakeValue(t)
  BY <1>0, TakeValueDoes DEF At, Clearing
<1>17. ~TakeFails(t)
  BY <1>0, TakeFailsDoes DEF At, Clearing
<1>18. ~CountDown(t)
  BY <1>0, CountDownDoes DEF At, Clearing
<1>19. ~Bury(t)
  BY <1>0, BuryDoes DEF At, Clearing
<1>20. ~NoRehash(t)
  BY <1>0, NoRehashDoes DEF At, Clearing
<1>21. ~RehashStart(t)
  BY <1>0, RehashStartDoes DEF At, Clearing
<1>22. ~OutOfMemory(t)
  BY <1>0, OutOfMemoryDoes DEF At, Clearing
<1>23. ~CopyKey(t)
  BY <1>0, CopyKeyDoes DEF At, Clearing
<1>24. ~CopyValue(t)
  BY <1>0, CopyValueDoes DEF At, Clearing
<1>25. ~SetLimit(t)
  BY <1>0, SetLimitDoes DEF At, Clearing
<1>26. ~Install(t)
  BY <1>0, InstallDoes DEF At, Clearing
<1>27. ~AssignAcquire(t)
  BY <1>0, AssignAcquireDoes DEF At, Clearing
<1>28. ~Mark(t)
  BY <1>0, MarkDoes DEF At, Clearing
<1>29. ~AssignLimit(t)
  BY <1>0, AssignLimitDoes DEF At, Clearing
<1>30. ~AssignInstall(t)
  BY <1>0, AssignInstallDoes DEF At, Clearing
<1>31. ClearAcquire(t) => th'[t].op = "clear" /\ th'[t].pc \in Clearing
  BY <1>c, ClearAcquireDoes DEF Local, Clearing
<1>32. ClearReadKey(t) => th'[t].op = "clear" /\ th'[t].pc \in Clearing
  BY <1>c, ClearReadKeyDoes DEF Local, Clearing
<1>33. ClearFreeKey(t) => th'[t].op = "clear" /\ th'[t].pc \in Clearing
  BY <1>c, ClearFreeKeyDoes DEF Local, Clearing
<1>34. ClearFreeValue(t) => th'[t].op = "clear" /\ th'[t].pc \in Clearing
  BY <1>c, ClearFreeValueDoes DEF Local, Clearing
<1>35. ClearSetLimit(t) => th'[t].op = "clear" /\ th'[t].pc \in Clearing
  BY <1>c, ClearSetLimitDoes DEF Local, Clearing
<1>36. TRUE
  OBVIOUS
<1>37. ~WalkKey(t)
  BY <1>0, WalkKeyDoes DEF At, Clearing
<1>38. ~WalkValue(t)
  BY <1>0, WalkValueDoes DEF At, Clearing
<1>39. ~WalkEnd(t)
  BY <1>0, WalkEndDoes DEF At, Clearing
<1>40. ~ClearStart(t)
  BY <1>0, ClearStartDoes DEF At, Clearing
<1>41. ~WalkStart(t)
  BY <1>0, WalkStartDoes DEF At, Clearing
<1>42. ~\E k \in Key : LookupStart(t, k)
  BY <1>0, LookupStartDoes DEF At, Clearing
<1>43. ~\E k \in Key : InsertStart(t, k)
  BY <1>0, InsertStartDoes DEF At, Clearing
<1>44. ~\E k \in Key : AssignStart(t, k)
  BY <1>0, AssignStartDoes DEF At, Clearing
<1> QED
  BY <1>1, <1>2, <1>3, <1>4, <1>5, <1>6, <1>7, <1>8, <1>9, <1>10, <1>11, <1>12, <1>13, <1>14, <1>15, <1>16, <1>17, <1>18, <1>19, <1>20, <1>21, <1>22, <1>23, <1>24, <1>25, <1>26, <1>27, <1>28, <1>29, <1>30, <1>31, <1>32, <1>33, <1>34, <1>35, <1>36, <1>37, <1>38, <1>39, <1>40, <1>41, <1>42, <1>43, <1>44 DEF Moves, Start, Proceed

(* Nothing changes what is live in a vector that nobody stores in.         *)
LEMMA LiveStays ==
  ASSUME Shape, AloneOK, RoomOK, NEW t \in Thread, Moves(t), NEW w \in Vector,
         tab[w].pidx # 0, tab'[w].pidx # 0, \A i : ~Fills(t, w, i),
         ~(TakeValue(t) /\ w = th[t].vec), ~ClearFreeKey(t), ~ClearFreeValue(t)
  PROVE  LiveSlots(w)' = LiveSlots(w)
<1>1. DOMAIN tab'[w].slot = DOMAIN tab[w].slot
  BY SizesKept
<1>2. \A i : ~SlotTaken(t, w, i) /\ ~SlotKeyFreed(t, w, i) /\ ~SlotValueFreed(t, w, i)
  BY DEF SlotTaken, SlotKeyFreed, SlotValueFreed
<1>3. \A i \in DOMAIN tab[w].slot : IsLive(tab'[w].slot[i]) <=> IsLive(tab[w].slot[i])
  BY <1>2, LiveMoves
<1> QED
  BY <1>1, <1>3 DEF LiveSlots

(* Counts of threads about to count.                                       *)
LEMMA CountersMove ==
  ASSUME Shape, IsFiniteSet(Thread), NEW t \in Thread, Moves(t), vec' = vec, NEW l
  PROVE  LET a == Cardinality(Using(l))
             b == Cardinality(Using(l)')
         IN /\ a \in Nat /\ b \in Nat
            /\ t \in Using(l) /\ t \in Using(l)' => b = a
            /\ t \notin Using(l) /\ t \notin Using(l)' => b = a
            /\ t \in Using(l) /\ t \notin Using(l)' => b = a - 1
            /\ t \notin Using(l) /\ t \in Using(l)' => b = a + 1
<1>1. /\ IsFiniteSet(Using(l)) /\ IsFiniteSet(Using(l)')
      /\ Using(l)' \ {t} = Using(l) \ {t}
  BY UsingMoves
<1> QED
  BY <1>1, OneLess

(* Every step keeps the count of the vector in use exact.                  *)
LEMMA NelemsStep ==
  ASSUME Excluding, IsFiniteSet(Thread), Structure, RoomOK, CountOK,
         NEW t \in Thread, Moves(t), NEW w \in Vector, w = vec',
         \A u \in Thread : th'[u].op # "clear"
  PROVE  tab'[w].n + Cardinality(Using("count")') - Cardinality(Using("uncount")')
           = Cardinality(LiveSlots(w)')
<1> USE DEF Structure, Shape
<1>1. tab[w].pidx # 0 /\ tab'[w].pidx # 0 /\ tab[w].n \in Int
  BY VecMoves, CountMoves
<1>2. Arrives(t) /\ th[t] \in Local /\ \A u \in Thread \ {t} : th'[u] = th[u]
  BY Arrivals, ThreadTypes, Locals
<1>3. CASE vec' # vec
  <2>1. /\ th[t].pc = "install" /\ w = th[t].np
        /\ \A u \in Thread : th[u].vec # w
    BY <1>3, VecMoves
  <2>2. tab[w].n = Cardinality(LiveSlots(w))
    <3>1. CASE th[t].op = "assign"
      BY <2>1, <3>1 DEF RoomOK
    <3>2. CASE th[t].op # "assign"
      <4>1. Copier(t)
        BY <2>1, <3>2 DEF Copier, Exclusive, Copying, CallsOK, CallOK, Places, Clearing
      <4> QED
        BY <2>1, <4>1 DEF CountOK, At
    <3> QED
      BY <3>1, <3>2
  <2>3. LiveSlots(w)' = LiveSlots(w)
    BY <1>1, <2>1, LiveStays, FillsAt DEF TakeValue, ClearFreeKey, ClearFreeValue, At
  <2>4. tab'[w].n = tab[w].n
    BY <1>1, <2>1, CountMoves DEF CountUp, CountDown, SetLimit, ClearDone, At
  <2>5. Cardinality(Using("count")') = 0 /\ Cardinality(Using("uncount")') = 0
    <3>1. th'[t].pc # "count" /\ th'[t].pc # "uncount"
      BY <1>2, <2>1 DEF Arrives, FillSlot, TakeValue, At
    <3>2. Using("count")' = {} /\ Using("uncount")' = {}
      BY <1>2, <2>1, <3>1 DEF Using, At
    <3> QED
      BY <3>2, FS_EmptySet
  <2>6. Cardinality(LiveSlots(w)) \in Nat
    BY LiveFinite
  <2> QED
    BY <2>2, <2>3, <2>4, <2>5, <2>6
<1>4. CASE vec' = vec /\ ClearDone(t)
  <2>1. th[t].pc = "clrcount" /\ th'[t] = Rest /\ th[t].op = "clear"
    BY <1>4, ClearDoneDoes DEF At, CallsOK, CallOK, Places, Storing, Erasing, Copying, Clearing
  <2>2. tab'[w].n = 0
    BY <1>1, <1>4, <2>1, CountMoves DEF CountUp, CountDown, SetLimit, At
  <2>3. \A i \in DOMAIN tab[w].slot : tab[w].slot[i] = EmptySlot
    BY <1>4, <2>1 DEF WipedOK, Clearing
  <2>4. LiveSlots(w)' = LiveSlots(w)
    BY <1>1, <2>1, LiveStays, FillsAt DEF TakeValue, ClearFreeKey, ClearFreeValue, At
  <2>5. LiveSlots(w) = {}
    BY <2>3 DEF LiveSlots, IsLive, EmptySlot, Word
  <2>6. Using("count")' = {} /\ Using("uncount")' = {}
    <3>1. \A u \in Thread \ {t} : th[u].pc = "idle"
      BY <2>1 DEF AloneOK, Exclusive, At
    <3> QED
      BY <1>2, <2>1, <3>1 DEF Using, At, Rest
  <2> QED
    BY <2>2, <2>4, <2>5, <2>6, FS_EmptySet
<1>5. CASE vec' = vec /\ ~ClearDone(t)
  <2>0. w = vec
    BY <1>5
  <2> DEFINE n == tab[w].n
             m == tab'[w].n
             a == Cardinality(Using("count"))
             b == Cardinality(Using("count")')
             c == Cardinality(Using("uncount"))
             d == Cardinality(Using("uncount")')
             k == Cardinality(LiveSlots(w))
             l == Cardinality(LiveSlots(w)')
  <2>1. \A u \in Thread : th[u].op # "clear"
    BY <1>2, <1>5, ClearGoesOn
  <2>2. n + a - c = k /\ k \in Nat /\ n \in Int
    <3>1. Cardinality(LiveSlots(w)) \in Nat
      BY LiveFinite
    <3> QED
      BY <1>1, <2>0, <2>1, <3>1 DEF CountOK, NelemsExact
  <2>3. /\ a \in Nat /\ b \in Nat
        /\ t \in Using("count") /\ t \in Using("count")' => b = a
        /\ t \notin Using("count") /\ t \notin Using("count")' => b = a
        /\ t \in Using("count") /\ t \notin Using("count")' => b = a - 1
        /\ t \notin Using("count") /\ t \in Using("count")' => b = a + 1
    BY <1>5, CountersMove
  <2>4. /\ c \in Nat /\ d \in Nat
        /\ t \in Using("uncount") /\ t \in Using("uncount")' => d = c
        /\ t \notin Using("uncount") /\ t \notin Using("uncount")' => d = c
        /\ t \in Using("uncount") /\ t \notin Using("uncount")' => d = c - 1
        /\ t \notin Using("uncount") /\ t \in Using("uncount")' => d = c + 1
    BY <1>5, CountersMove
  <2>5. ~ClearFreeKey(t) /\ ~ClearFreeValue(t)
    BY <2>1 DEF ClearFreeKey, ClearFreeValue, At, CallsOK, CallOK, Places, Storing, Erasing, Copying
  <2>6. /\ (t \in Using("count")) <=> (th[t].pc = "count" /\ th[t].vec = vec)
        /\ (t \in Using("count")') <=> (th'[t].pc = "count" /\ th'[t].vec = vec)
        /\ (t \in Using("uncount")) <=> (th[t].pc = "uncount" /\ th[t].vec = vec)
        /\ (t \in Using("uncount")') <=> (th'[t].pc = "uncount" /\ th'[t].vec = vec)
    BY <1>5 DEF Using, At
  <2>7. DOMAIN tab'[w].slot = DOMAIN tab[w].slot
    BY <1>1, SizesKept
  <2>8. CASE FillSlot(t)
    <3>1. th[t].pc = "dcas" /\ th'[t].pc = "count" /\ th'[t].vec = th[t].vec
      BY <1>2, <2>8, FillSlotDoes DEF At, Local
    <3>2. m = n
      BY <1>1, <3>1, CountMoves DEF CountUp, CountDown, SetLimit, ClearDone, At
    <3>3. d = c
      BY <2>4, <2>6, <3>1
    <3>4. CASE th[t].vec # vec
      <4>1. l = k
        BY <1>1, <2>0, <2>5, <3>1, <3>4, LiveStays, FillsAt DEF TakeValue, At
      <4>2. b = a
        BY <2>3, <2>6, <3>1, <3>4
      <4> QED
        BY <2>2, <3>2, <3>3, <4>1, <4>2
    <3>5. CASE th[t].vec = vec
      <4>1. b = a + 1
        BY <2>3, <2>6, <3>1, <3>5
      <4>2. Slot(t) \in DOMAIN tab[w].slot
        BY <2>0, <3>1, <3>5, Found
      <4>3. SlotFilled(t, w, Slot(t))
        <5>1. SlotStep(t, w, Slot(t)) /\ Writes(t, w, Slot(t))
          BY <2>0, <2>7, <2>8, <3>5, <4>2, SlotSteps DEF Writes
        <5> QED
          BY <1>1, <3>1, <5>1 DEF SlotStep, SlotSame, SlotSwapped, SlotTaken, SlotBuried,
            SlotBarred, SlotCopied, SlotKeyFreed, SlotValueFreed, SlotMade,
            SwapValue, TakeValue, Bury, CopyValue, Mark, ClearFreeKey, ClearFreeValue, At
      <4>4. /\ \A i \in DOMAIN tab[w].slot :
                 /\ IsLive(tab'[w].slot[i]) /\ ~IsLive(tab[w].slot[i]) => i = Slot(t)
                 /\ IsLive(tab[w].slot[i]) => IsLive(tab'[w].slot[i])
            /\ IsLive(tab'[w].slot[Slot(t)]) /\ ~IsLive(tab[w].slot[Slot(t)])
        <5>1. \A i : Fills(t, w, i) => i = Slot(t)
          BY <3>1 DEF Fills, SlotFilled, SlotCopied, CopyValue, At
        <5>2. \A i : ~SlotTaken(t, w, i) /\ ~SlotKeyFreed(t, w, i) /\ ~SlotValueFreed(t, w, i)
          BY <2>5, <3>1 DEF SlotTaken, SlotKeyFreed, SlotValueFreed, TakeValue, At
        <5>3. Fills(t, w, Slot(t))
          BY <4>3 DEF Fills
        <5> QED
          BY <1>1, <4>2, <5>1, <5>2, <5>3, LiveMoves
      <4>5. LiveSlots(w)' \ {Slot(t)} = LiveSlots(w) \ {Slot(t)}
            /\ Slot(t) \in LiveSlots(w)' /\ Slot(t) \notin LiveSlots(w)
        BY <2>7, <4>2, <4>4 DEF LiveSlots
      <4>6. IsFiniteSet(LiveSlots(w)) /\ IsFiniteSet(LiveSlots(w)')
        <5>1. IsFiniteSet(LiveSlots(w)) /\ IsFiniteSet(DOMAIN tab[w].slot)
          BY LiveFinite
        <5>2. LiveSlots(w)' \subseteq DOMAIN tab[w].slot
          BY <2>7 DEF LiveSlots
        <5> QED
          BY <5>1, <5>2, FS_Subset
      <4>7. l = k + 1
        BY <4>5, <4>6, OneLess
      <4> QED
        BY <2>2, <2>3, <2>4, <3>2, <3>3, <4>1, <4>7
    <3> QED
      BY <3>4, <3>5
  <2>9. CASE TakeValue(t)
    <3>1. th[t].pc = "take" /\ th'[t].pc = "uncount" /\ th'[t].vec = th[t].vec
      BY <1>2, <2>9, TakeValueDoes DEF At, Local
    <3>2. m = n
      BY <1>1, <3>1, CountMoves DEF CountUp, CountDown, SetLimit, ClearDone, At
    <3>3. b = a
      BY <2>3, <2>6, <3>1
    <3>4. CASE th[t].vec # vec
      <4>1. l = k
        BY <1>1, <2>0, <2>5, <3>1, <3>4, LiveStays, FillsAt
      <4>2. d = c
        BY <2>4, <2>6, <3>1, <3>4
      <4> QED
        BY <2>2, <3>2, <3>3, <4>1, <4>2
    <3>5. CASE th[t].vec = vec
      <4>1. d = c + 1
        BY <2>4, <2>6, <3>1, <3>5
      <4>2. Slot(t) \in DOMAIN tab[w].slot
        BY <2>0, <3>1, <3>5, Found
      <4>3. SlotTaken(t, w, Slot(t))
        <5>1. SlotStep(t, w, Slot(t)) /\ Writes(t, w, Slot(t))
          BY <2>0, <2>7, <2>9, <3>5, <4>2, SlotSteps DEF Writes
        <5> QED
          BY <1>1, <3>1, <5>1 DEF SlotStep, SlotSame, SlotSwapped, SlotFilled, SlotBuried,
            SlotBarred, SlotCopied, SlotKeyFreed, SlotValueFreed, SlotMade,
            SwapValue, FillSlot, Bury, CopyValue, Mark, ClearFreeKey, ClearFreeValue, At
      <4>4. /\ \A i \in DOMAIN tab[w].slot :
                 /\ IsLive(tab[w].slot[i]) /\ ~IsLive(tab'[w].slot[i]) => i = Slot(t)
                 /\ IsLive(tab'[w].slot[i]) => IsLive(tab[w].slot[i])
            /\ ~IsLive(tab'[w].slot[Slot(t)]) /\ IsLive(tab[w].slot[Slot(t)])
        <5>1. \A i : SlotTaken(t, w, i) => i = Slot(t)
          BY DEF SlotTaken
        <5>2. \A i : ~Fills(t, w, i) /\ ~SlotKeyFreed(t, w, i) /\ ~SlotValueFreed(t, w, i)
          BY <2>5, <3>1, FillsAt DEF SlotKeyFreed, SlotValueFreed
        <5> QED
          BY <1>1, <4>2, <4>3, <5>1, <5>2, LiveMoves
      <4>5. LiveSlots(w)' \ {Slot(t)} = LiveSlots(w) \ {Slot(t)}
            /\ Slot(t) \notin LiveSlots(w)' /\ Slot(t) \in LiveSlots(w)
        BY <2>7, <4>2, <4>4 DEF LiveSlots
      <4>6. IsFiniteSet(LiveSlots(w)) /\ IsFiniteSet(LiveSlots(w)')
        <5>1. IsFiniteSet(LiveSlots(w)) /\ IsFiniteSet(DOMAIN tab[w].slot)
          BY LiveFinite
        <5>2. LiveSlots(w)' \subseteq DOMAIN tab[w].slot
          BY <2>7 DEF LiveSlots
        <5> QED
          BY <5>1, <5>2, FS_Subset
      <4>7. l = k - 1
        BY <4>5, <4>6, OneLess
      <4> QED
        BY <2>2, <2>3, <2>4, <3>2, <3>3, <4>1, <4>7
    <3> QED
      BY <3>4, <3>5
  <2>10. CASE ~FillSlot(t) /\ ~TakeValue(t)
    <3>1. l = k
      <4>1. \A i : ~Fills(t, w, i)
        BY <2>0, <2>10, FillsAt
      <4>2. LiveSlots(w)' = LiveSlots(w)
        BY <1>1, <2>5, <2>10, <4>1, LiveStays
      <4> QED
        BY <4>2
    <3>2. th'[t].pc # "count" /\ th'[t].pc # "uncount"
      BY <1>2, <2>10 DEF Arrives
    <3>3. th[t].pc = "count" <=> CountUp(t)
      BY <1>2 DEF Arrives, CountUp, At
    <3>4. th[t].pc = "uncount" <=> CountDown(t)
      BY <1>2 DEF Arrives, CountDown, At
    <3>5. ~(SetLimit(t) /\ w = th[t].np)
      <4>1. SetLimit(t) => th[t].np # Null
        BY DEF SetLimit, At, CallsOK, CallOK, Copying
      <4> QED
        BY <2>0, <4>1 DEF VectorsOK
    <3>6. \/ m = n /\ ~(CountUp(t) /\ th[t].vec = vec) /\ ~(CountDown(t) /\ th[t].vec = vec)
          \/ CountUp(t) /\ th[t].vec = vec /\ m = n + 1
          \/ CountDown(t) /\ th[t].vec = vec /\ m = n - 1
      BY <1>1, <1>5, <2>0, <3>5, CountMoves
    <3>7. /\ b = IF th[t].pc = "count" /\ th[t].vec = vec THEN a - 1 ELSE a
          /\ d = IF th[t].pc = "uncount" /\ th[t].vec = vec THEN c - 1 ELSE c
      BY <2>3, <2>4, <2>6, <3>2
    <3> HIDE DEF n, m, a, b, c, d, k, l
    <3> QED
      BY <2>2, <2>3, <2>4, <3>1, <3>3, <3>4, <3>6, <3>7 DEF n, m, a, b, c, d, k, l
  <2> QED
    BY <2>8, <2>9, <2>10
<1> QED
  BY <1>3, <1>4, <1>5

(* A new vector is installed with the number of its pairs.                 *)
LEMMA CountOfCopy ==
  ASSUME Excluding, Structure, RoomOK, CountOK, NEW t \in Thread, Moves(t),
         NEW u \in Thread, Copier(u)', th'[u].pc = "install",
         NEW w \in Vector, w = th'[u].np
  PROVE  tab'[w].n = Cardinality(LiveSlots(w)')
<1> USE DEF Structure, Shape
<1>1. Arrives(t) /\ th[t] \in Local /\ \A v \in Thread \ {t} : th'[v] = th[v]
  BY Arrivals, ThreadTypes, Locals
<1>2. th'[u].op \notin {"clear", "assign"}
  BY DEF Copier, Exclusive
<1>3. tab'[w].pidx # 0
  <2>1. VectorsOK'
    BY VectorStepOK
  <2>2. w # Null
    BY Names
  <2> QED
    BY <2>1, <2>2 DEF VectorsOK
<1>4. CASE u # t
  <2>1. th'[u] = th[u] /\ w = th[u].np /\ Copier(u) /\ th[u].pc = "install"
    BY <1>1, <1>2, <1>4 DEF Copier, Exclusive, Copying
  <2>2. /\ lock = u /\ w # vec /\ tab[w].pidx # 0
        /\ ~ClearFreeKey(t) /\ \A i : ~Fills(t, w, i)
    BY <1>4, <2>1, CopyMoves
  <2>3. w # Null
    BY Names
  <2>4. th[t].vec # w /\ th[t].np # w
    BY <1>4, <2>1, <2>3 DEF VectorsOK
  <2>5. ~ClearFreeValue(t)
    BY <1>4, <2>2 DEF ClearFreeValue, At, LockOK, Clearing
  <2>6. LiveSlots(w)' = LiveSlots(w)
    BY <1>3, <2>2, <2>4, <2>5, LiveStays
  <2>7. tab'[w].n = tab[w].n
    BY <1>3, <2>2, <2>4, CountMoves
  <2>8. tab[w].n = Cardinality(LiveSlots(w))
    BY <2>1 DEF CountOK, At
  <2> QED
    BY <2>6, <2>7, <2>8
<1>5. CASE u = t
  <2>1. SetLimit(t)
    <3>1. SetLimit(t) \/ AssignLimit(t)
      BY <1>1, <1>5 DEF Arrives
    <3>2. ASSUME AssignLimit(t) PROVE FALSE
      <4>1. th[t].pc = "mark" /\ th'[t].op = th[t].op
        BY <1>1, <3>2, AssignLimitDoes DEF At, Local
      <4> QED
        BY <1>2, <1>5, <4>1 DEF CallsOK, CallOK, Places, Storing, Erasing, Copying, Clearing
    <3> QED
      BY <3>1, <3>2
  <2>2. th[t].pc = "setlimit" /\ th'[t].np = th[t].np /\ th'[t].op = th[t].op
    BY <1>1, <2>1, SetLimitDoes DEF At, Local
  <2>3. Copier(t) /\ ~Install(t)
    BY <1>2, <1>5, <2>2 DEF Copier, Exclusive, Copying, Install, At
  <2>4. w # vec /\ tab[w].pidx # 0 /\ w = th[t].np
    BY <1>5, <2>2, <2>3, CopyMoves
  <2>5. LiveSlots(w)' = LiveSlots(w)
    BY <1>3, <2>2, <2>4, LiveStays, FillsAt DEF TakeValue, ClearFreeKey, ClearFreeValue, At
  <2>6. tab'[w].n = Cardinality(LiveSlots(w))
    <3>1. ~CountUp(t) /\ ~CountDown(t) /\ ~ClearDone(t)
      BY <2>2 DEF CountUp, CountDown, ClearDone, At
    <3> QED
      BY <1>3, <2>1, <2>4, <3>1, CountMoves
  <2> QED
    BY <2>5, <2>6
<1> QED
  BY <1>4, <1>5

(* What clear computes the limit from.                                     *)
LEMMA CountOfClear ==
  ASSUME Excluding, Structure, RoomOK, CountOK, NEW t \in Thread, Moves(t),
         NEW u \in Thread, th'[u].op = "clear", NEW w \in Vector, w = vec'
  PROVE  tab'[w].n \in 0..NewSize(w)
<1> USE DEF Structure, Shape
<1>1. Arrives(t) /\ th[t] \in Local /\ \A v \in Thread \ {t} : th'[v] = th[v]
  BY Arrivals, ThreadTypes, Locals
<1>2. tab[w].pidx # 0 /\ tab'[w].pidx # 0
  BY VecMoves
<1>3. /\ Size(w)' = Size(w) /\ Size(w) \in Nat
      /\ DOMAIN tab[w].slot = 0..Size(w) - 1
  BY <1>2, SizesKept
<1>4. NewSize(w) = Size(w)
  BY <1>3 DEF NewSize, Size
<1>5. u = t
  <2>1. ASSUME u # t PROVE FALSE
    <3>1. th[u].op = "clear" /\ Exclusive(u)
      BY <1>1, <2>1 DEF Exclusive
    <3> QED
      BY <2>1, <3>1, AloneMoves
  <2> QED
    BY <2>1
<1>6. CASE th[t].op = "clear"
  <2>1. th[t].pc \in Clearing \cup {"acquire"}
    BY <1>6 DEF CallsOK, CallOK, Places
  <2>2. w = vec
    BY <2>1, VecMoves DEF Clearing
  <2>3. ~ClearDone(t)
    <3>1. ClearDone(t) => th'[t] = Rest
      BY ClearDoneDoes
    <3> QED
      BY <1>5, <3>1 DEF Rest
  <2>4. tab'[w].n = tab[w].n
    BY <1>2, <2>1, <2>3, CountMoves DEF CountUp, CountDown, SetLimit, At, Clearing
  <2> QED
    BY <1>4, <1>6, <2>2, <2>4 DEF CountOK
<1>7. CASE th[t].op # "clear"
  <2>1. ClearStart(t)
    BY <1>1, <1>5, <1>7 DEF Arrives
  <2>2. /\ \A v \in Thread : At(v, "idle")
        /\ tab' = tab /\ vec' = vec
    <3>1. /\ Call(t, [Rest EXCEPT !.op = "clear", !.pc = "acquire"])
          /\ tab' = tab
      BY <2>1 DEF ClearStart
    <3>2. [Rest EXCEPT !.op = "clear", !.pc = "acquire"].op \in Alone
      BY DEF Rest, Excluding
    <3> QED
      BY <3>1, <3>2 DEF Call
  <2>3. \A v \in Thread : th[v].op # "clear"
    BY <2>2 DEF At, CallsOK, CallOK, Places, Clearing
  <2>4. Using("count") = {} /\ Using("uncount") = {}
    BY <2>2 DEF Using, At
  <2>5. /\ IsFiniteSet(LiveSlots(w)) /\ IsFiniteSet(DOMAIN tab[w].slot)
        /\ Cardinality(LiveSlots(w)) \in Nat
    BY <1>2, LiveFinite
  <2>6. tab[w].n = Cardinality(LiveSlots(w))
    <3>1. tab[vec].n + Cardinality(Using("count")) - Cardinality(Using("uncount"))
            = Cardinality(LiveSlots(vec))
      BY <2>3 DEF CountOK, NelemsExact
    <3>2. tab[w].n \in Int
      BY <1>2, CountMoves
    <3>3. Cardinality(Using("count")) = 0 /\ Cardinality(Using("uncount")) = 0
      BY <2>4, FS_EmptySet
    <3>4. w = vec
      BY <2>2
    <3> QED
      BY <2>5, <3>1, <3>2, <3>3, <3>4
  <2>7. Cardinality(LiveSlots(w)) <= Size(w)
    <3>1. LiveSlots(w) \subseteq DOMAIN tab[w].slot
      BY DEF LiveSlots
    <3>2. Cardinality(LiveSlots(w)) <= Cardinality(DOMAIN tab[w].slot)
      BY <2>5, <3>1, FS_Subset
    <3>3. Cardinality(0..Size(w) - 1) = Size(w)
      <4>1. 0 \in Int /\ Size(w) - 1 \in Int
        BY <1>3
      <4>2. Cardinality(0..Size(w) - 1) =
              IF 0 > Size(w) - 1 THEN 0 ELSE (Size(w) - 1) - 0 + 1
        BY <4>1, FS_Interval
      <4> QED
        BY <1>3, <4>2
    <3> QED
      BY <1>3, <3>2, <3>3
  <2> QED
    BY <1>3, <1>4, <2>2, <2>5, <2>6, <2>7
<1> QED
  BY <1>6, <1>7

(* Every step keeps the counts exact, also those of vectors in the making. *)
LEMMA CountStep ==
  ASSUME Excluding, IsFiniteSet(Thread), Structure, RoomOK, CountOK,
         NEW t \in Thread, Moves(t)
  PROVE  CountOK'
<1>0. Shape /\ AloneOK
  BY DEF Structure
<1>1. PICK w \in Vector : w = vec'
  BY <1>0, VecMoves
<1>2. LiveSlots(w)' = LiveSlots(vec)' /\ Size(w)' = Size(vec)' /\ NewSize(w) = Size(w)'
  BY <1>1 DEF LiveSlots, Size, NewSize
<1>3. NelemsExact'
  <2>1. (\A u \in Thread : th'[u].op # "clear") =>
          tab'[w].n + Cardinality(Using("count")') - Cardinality(Using("uncount")')
            = Cardinality(LiveSlots(w)')
    BY <1>1, NelemsStep
  <2> QED
    BY <1>1, <1>2, <2>1 DEF NelemsExact
<1>4. ASSUME NEW u \in Thread, Copier(u)', th'[u].pc = "install"
      PROVE  tab'[th'[u].np].n = Cardinality(LiveSlots(th[u].np)')
  <2>1. th'[u].np \in Vector
    <3>1. CallsOK' /\ th' \in [Thread -> Local]
      BY <1>0, CallsStep, ThreadTypes
    <3>2. th'[u].np # Null
      BY <1>4, <3>1 DEF Copier, CallsOK, CallOK
    <3> QED
      BY <3>1, <3>2 DEF Local
  <2>2. PICK v \in Vector : v = th'[u].np
    BY <2>1
  <2>3. tab'[v].n = Cardinality(LiveSlots(v)')
    BY <1>4, <2>2, CountOfCopy
  <2>4. LiveSlots(v)' = LiveSlots(th[u].np)'
    BY <2>2 DEF LiveSlots
  <2> QED
    BY <2>2, <2>3, <2>4
<1>5. ASSUME NEW u \in Thread, th'[u].op = "clear"
      PROVE  tab'[vec'].n \in 0..Size(vec)'
  <2>1. tab'[w].n \in 0..NewSize(w)
    BY <1>1, <1>5, CountOfClear
  <2> QED
    BY <1>1, <1>2, <2>1
<1> QED
  BY <1>3, <1>4, <1>5 DEF CountOK, At

-----------------------------------------------------------------------------
(* The whole.                                                              *)

(* A vector that is made is empty.                                         *)
LEMMA FirstVector ==
  ASSUME Init
  PROVE  /\ vec \in Vector /\ tab[vec].pidx = 1 /\ tab[vec].n = 0
         /\ DOMAIN tab[vec].slot = 0..Entries[1] - 1
         /\ \A i \in DOMAIN tab[vec].slot : tab[vec].slot[i] = EmptySlot
         /\ \A w \in Vector : w # vec => tab[w] = NoTable
         /\ IsTable(tab[vec])
<1>1. vec \in Vector
  BY TableAssumption DEF Init, Vector
<1>2. tab[vec] = Make(1)
  BY <1>1 DEF Init
<1>3. EmptySlot \in SlotRec
  BY DEF EmptySlot, SlotRec, Word
<1>4. Make(1) \in TableOf(1)
  BY <1>3 DEF Make, TableOf
<1> QED
  BY <1>1, <1>2, <1>4, Sizes DEF Make, Init, IsTable

(* The initial states have the structure.                                  *)
LEMMA InitShape ==
  ASSUME Init
  PROVE  Shape
<1>1. Types
  <2>1. Rest \in Local
    BY RecordMade
  <2>2. \A w \in Vector : IsTable(tab[w])
    BY FirstVector DEF IsTable
  <2>3. limit \in Int
    BY Sizes DEF Init
  <2>4. waits \in [Obj -> SUBSET Thread]
    BY DEF Init
  <2>5. life \in [Obj -> {"free", "live", "retired", "gone", "twice"}]
    BY DEF Init
  <2>6. tab = [w \in Vector |-> tab[w]]
    BY DEF Init
  <2> QED
    BY <2>1, <2>2, <2>3, <2>4, <2>5, <2>6, FirstVector DEF Init, Types
<1>2. \A t \in Thread : th[t] = Rest
  BY DEF Init
<1>3. CallsOK
  BY <1>2 DEF CallsOK, CallOK, Places, Rest, At, Puts, Exclusive, Copying, Clearing, KeyOps, Label
<1>4. LockOK
  BY <1>2, Names DEF LockOK, Init, Rest, Copying, Clearing
<1>5. VectorsOK
  <2>1. \A w \in Vector : w \in Obj /\ (tab[w].pidx = 0 <=> w # vec)
    BY FirstVector, Names DEF NoTable
  <2>2. \A w \in Vector : life[w] = IF w = vec THEN "live" ELSE "free"
    BY <2>1 DEF Init
  <2> QED
    BY <1>2, <2>1, <2>2, FirstVector DEF VectorsOK, Rest
<1>6. IndexOK
  BY <1>2 DEF IndexOK, Rest
<1>7. SlotsOK
  BY FirstVector DEF SlotsOK, EmptySlot, NoTable
<1>8. TakenOK /\ WalksOK
  BY <1>2 DEF TakenOK, WalksOK, Rest, Ended, At
<1> QED
  BY <1>1, <1>3, <1>4, <1>5, <1>6, <1>7, <1>8 DEF Shape

(* And the room and the counts.                                            *)
LEMMA InitCore ==
  ASSUME Init, IsFiniteSet(Thread)
  PROVE  Core
<1>1. Shape
  BY InitShape
<1>2. \A t \in Thread : th[t] = Rest
  BY DEF Init
<1>3. AloneOK /\ WipedOK
  BY <1>2 DEF AloneOK, WipedOK, Rest, Exclusive, Clearing
<1>4. BitsOK
  <2>1. \A w \in Vector : life[w] # "retired"
    BY Names DEF Init
  <2>2. \A i \in DOMAIN tab[vec].slot : tab[vec].slot[i].x = FALSE
    BY FirstVector DEF EmptySlot
  <2>3. \A t \in Thread : th[t].pc = "idle" /\ th[t].np = Null
    BY <1>2 DEF Rest
  <2> QED
    BY <2>1, <2>2, <2>3 DEF BitsOK
<1>5. Used(vec) = {} /\ LiveSlots(vec) = {}
  BY FirstVector DEF Used, LiveSlots, IsLive, EmptySlot, Word
<1>6. \A l \in {"dcas", "count", "uncount"} : Using(l) = {}
  BY <1>2 DEF Using, Rest, At
<1>7. /\ Cardinality(Used(vec)) = 0 /\ Cardinality(LiveSlots(vec)) = 0
      /\ Cardinality(Using("dcas")) = 0 /\ Cardinality(Using("count")) = 0
      /\ Cardinality(Using("uncount")) = 0
  BY <1>5, <1>6, FS_EmptySet
<1>8. Size(vec) = Entries[1]
  BY FirstVector DEF Size
<1>9. RoomOK
  <2>1. Room(vec) + Cardinality(Using("dcas")) <= Fsize(Size(vec))
    <3>1. limit = Fsize(Entries[1]) /\ limit \in Nat
      BY Sizes DEF Init
    <3> QED
      BY <1>7, <1>8, <3>1 DEF Room
  <2>2. \A t \in Thread : ~Copier(t) /\ th[t].op # "assign"
    BY <1>2 DEF Copier, Rest, Copying
  <2>3. \A w \in Vector : w = vec \/ life[w] = "retired" => Cardinality(Used(w)) < Size(w)
    <3>1. \A w \in Vector : life[w] # "retired"
      BY Names DEF Init
    <3> QED
      BY <1>7, <1>8, <3>1, Sizes
  <2> QED
    BY <2>1, <2>2, <2>3 DEF RoomOK
<1>10. CountOK
  <2>1. NelemsExact
    BY <1>7, FirstVector DEF NelemsExact
  <2> QED
    BY <1>2, <2>1 DEF CountOK, Rest, Copier, Copying
<1> QED
  BY <1>1, <1>3, <1>4, <1>9, <1>10 DEF Core, Structure

(* Without a step nothing changes.                                         *)
LEMMA CoreStutters ==
  ASSUME Core, UNCHANGED vars
  PROVE  Core'
<1>1. /\ role' = role /\ vec' = vec /\ limit' = limit /\ lock' = lock /\ tab' = tab
      /\ life' = life /\ waits' = waits /\ th' = th
  BY DEF vars
<1> USE DEF Core, Structure, Shape
<1>2. Types' /\ CallsOK' /\ LockOK' /\ VectorsOK'
  BY <1>1 DEF Types, CallsOK, CallOK, Puts, At, Exclusive, LockOK, VectorsOK
<1>3. IndexOK' /\ SlotsOK' /\ TakenOK' /\ WalksOK'
  BY <1>1 DEF IndexOK, Size, At, SlotsOK, TakenOK, Here, Slot, WalksOK, This
<1>4. AloneOK' /\ BitsOK'
  <2>1. AloneOK'
    BY <1>1 DEF AloneOK, Exclusive, At
  <2>2. BitsOK'
    BY <1>1 DEF BitsOK
  <2> QED
    BY <2>1, <2>2
<1>7. WipedOK'
  BY <1>1 DEF WipedOK, This, At
<1>5. RoomOK'
  BY <1>1 DEF RoomOK, At, Room, Used, Using, Size, Copier, Exclusive, UsedBefore, LiveSlots
<1>6. CountOK'
  BY <1>1 DEF CountOK, NelemsExact, Using, LiveSlots, Copier, Exclusive, At, Size
<1> QED
  BY <1>2, <1>3, <1>4, <1>5, <1>6, <1>7

(* Core is an invariant, if who clears or assigns is alone.                *)
LEMMA CoreStep ==
  ASSUME Excluding, IsFiniteSet(Thread), Core, [Next]_vars
  PROVE  Core'
<1>1. ASSUME NEW t \in Thread, Moves(t), UNCHANGED role
      PROVE  Core'
  BY <1>1, StructureStep, RoomStep, CountStep DEF Core
<1>2. CASE Next
  BY <1>1, <1>2 DEF Next, Moves
<1>3. CASE UNCHANGED vars
  BY <1>3, CoreStutters
<1> QED
  BY <1>2, <1>3

(* What a find may answer is a value.                                      *)
SeenOK == seen \in [Thread -> SUBSET (ValObj \cup Key \cup {Null})]

(* The value that a table holds for a key is a value.                      *)
LEMMA ContentsTyped ==
  ASSUME NEW T, IsTable(T), NEW k \in Key
  PROVE  LET slot == T.slot
             where == {i \in DOMAIN slot : IsLive(slot[i]) /\ slot[i].key[1] = k}
         IN  where # {} => slot[CHOOSE i \in where : TRUE].val \in ValObj
<1> DEFINE slot == T.slot
           where == {i \in DOMAIN slot : IsLive(slot[i]) /\ slot[i].key[1] = k}
<1>1. ASSUME where # {}
      PROVE  slot[CHOOSE i \in where : TRUE].val \in ValObj
  <2>1. PICK j : j = CHOOSE i \in where : TRUE
    OBVIOUS
  <2>2. j \in where
    BY <1>1, <2>1
  <2>3. slot[j] \in SlotRec /\ IsLive(slot[j])
    BY <2>2, TableFacts
  <2>4. slot[j].val \in ValObj
    BY <2>3 DEF SlotRec, IsLive
  <2> QED
    BY <2>1, <2>4
<1> QED
  BY <1>1

(* Every step keeps the type of what calls in progress may answer.         *)
LEMMA SeenStep ==
  ASSUME Core, Core', SeenOK, [Next]_vars
  PROVE  SeenOK'
<1> USE DEF Core, Structure, Shape
<1>1. CASE UNCHANGED vars
  BY <1>1 DEF vars, SeenOK
<1>2. CASE Next
  <2> DEFINE map == Contents(vec)'
  <2>1. \A k \in Key : map[k] \in ValObj \cup {Null}
    <3>1. PICK w \in Vector : w = vec'
      BY DEF Types
    <3>2. IsTable(tab'[w])
      BY DEF Types
    <3> DEFINE slot == tab'[w].slot
               Where(k) == {i \in DOMAIN slot : IsLive(slot[i]) /\ slot[i].key[1] = k}
    <3>3. \A k \in Key : Where(k) # {} => slot[CHOOSE i \in Where(k) : TRUE].val \in ValObj
      BY <3>2, ContentsTyped
    <3>4. map = [k \in Key |-> IF Where(k) = {} THEN Null
                              ELSE slot[CHOOSE i \in Where(k) : TRUE].val]
      BY <3>1 DEF Contents
    <3> HIDE DEF slot, Where, map
    <3> QED
      BY <3>3, <3>4
  <2>2. \A t \in Thread : th'[t].op \in {"find", "erase"} => th'[t].key \in Key
    BY DEF CallsOK, CallOK, KeyOps
  <2> DEFINE S == SUBSET (ValObj \cup Key \cup {Null})
             sets(t) == CASE th'[t].op = "find" -> Earlier(t) \cup {map[th'[t].key]}
               [] th'[t].op = "erase" ->
                    Earlier(t) \cup ({map[th'[t].key]} \cap {Null})
               [] th'[t].op = "walk" ->
                    {k \in IF At(t, "idle") THEN Key ELSE seen[t] : map[k] # Null}
               [] OTHER -> {}
  <2>3. seen' = [t \in Thread |-> sets(t)]
    BY <1>2 DEF Next, Observe
  <2>4. ASSUME NEW t \in Thread PROVE sets(t) \in S
    <3> HIDE DEF map
    <3>1. Earlier(t) \in S /\ seen[t] \in S
      BY DEF Earlier, SeenOK
    <3>2. CASE th'[t].op = "find"
      BY <2>1, <2>2, <3>1, <3>2
    <3>3. CASE th'[t].op = "erase"
      BY <2>1, <2>2, <3>1, <3>3
    <3>4. CASE th'[t].op = "walk"
      BY <3>1, <3>4
    <3>5. CASE th'[t].op \notin {"find", "erase", "walk"}
      BY <3>5
    <3> QED
      BY <3>2, <3>3, <3>4, <3>5
  <2> HIDE DEF sets
  <2> QED
    BY <2>3, <2>4 DEF SeenOK
<1> QED
  BY <1>1, <1>2

(* The invariant has the types in it.                                      *)
LEMMA TypesOfCore ==
  ASSUME Core, SeenOK
  PROVE  TypeOK
<1> USE DEF Core, Structure, Shape
<1>1. ASSUME NEW w \in Vector
      PROVE  /\ tab[w].n \in Int /\ tab[w].pidx \in {0} \cup DOMAIN Entries
             /\ \A i \in DOMAIN tab[w].slot : tab[w].slot[i] \in SlotRec
  <2>1. IsTable(tab[w])
    BY DEF Types
  <2>2. CASE tab[w].pidx = 0
    BY <2>1, <2>2, TableFacts DEF NoTable
  <2>3. CASE tab[w].pidx # 0
    BY <2>1, <2>3, TableFacts
  <2> QED
    BY <2>2, <2>3
<1> QED
  BY <1>1 DEF TypeOK, Types, SeenOK, SlotRec, Local

(* Core and the types of what was seen hold in every state.                *)
THEOREM Invariance ==
  ASSUME Excluding, IsFiniteSet(Thread)
  PROVE  Spec => [](Core /\ SeenOK)
<1>1. Init => Core /\ SeenOK
  <2>1. Init => SeenOK
    BY DEF Init, SeenOK
  <2> QED
    BY <2>1, InitCore
<1>2. Core /\ SeenOK /\ [Next]_vars => Core' /\ SeenOK'
  BY CoreStep, SeenStep
<1> QED
  BY <1>1, <1>2, PTL DEF Spec

(* What the variables hold, through every call of every thread.            *)
THEOREM TypeCorrect ==
  ASSUME Excluding, IsFiniteSet(Thread)
  PROVE  Spec => []TypeOK
<1>1. Core /\ SeenOK => TypeOK
  BY TypesOfCore
<1> QED
  BY <1>1, Invariance, PTL

(* The slots in use, those about to be filled and those that grow_limit    *)
(* still allows leave the share of free slots that ends every probe        *)
(* (_Decr_limit, _Rehash, clear and _Assign_vector).                       *)
THEOREM RoomIsLeft ==
  ASSUME Excluding, IsFiniteSet(Thread)
  PROVE  Spec => []RoomLeft
<1>1. Core => RoomLeft
  <2>1. ASSUME Core, \A t \in Thread : ~At(t, "install")
        PROVE  Cardinality(Used(vec)) + Cardinality(Using("dcas"))
                 + (IF limit > 0 THEN limit ELSE 0) <= Fsize(Size(vec))
    <3> USE DEF Core, Structure, Shape
    <3>1. vec \in Vector /\ tab[vec].pidx # 0
      BY <2>1, Names DEF Types, VectorsOK
    <3>2. Room(vec) + Cardinality(Using("dcas")) <= Fsize(Size(vec))
      BY <2>1, <3>1 DEF RoomOK
    <3>3. Cardinality(Used(vec)) \in Nat /\ limit \in Int
      BY <2>1, <3>1, LiveFinite DEF Types
    <3>4. Cardinality(Using("dcas")) \in Nat
      <4>1. Using("dcas") \subseteq Thread
        BY DEF Using
      <4> QED
        BY <4>1, FS_Subset, FS_CardinalityType
    <3> QED
      BY <3>2, <3>3, <3>4 DEF Room
  <2> QED
    BY <2>1 DEF RoomLeft
<1> QED
  BY <1>1, Invariance, PTL

(* nelems of the vector in use is the number of its live pairs but for the *)
(* calls that are about to count, through every rehash (_Upsert, _Erase,   *)
(* _Rehash, clear and _Assign_vector).                                     *)
THEOREM CountIsExact ==
  ASSUME Excluding, IsFiniteSet(Thread)
  PROVE  Spec => []NelemsExact
<1>1. Core => NelemsExact
  BY DEF Core, CountOK
<1> QED
  BY <1>1, Invariance, PTL
-----------------------------------------------------------------------------
(* Probes.                                                                 *)

(* How a step continues a probe.                                           *)
ProbesBy(t) ==
  th'[t].pc \in Probing =>
    \/ th'[t].pc = "probe" /\ th'[t].ix = 0
    \/ /\ th[t].pc = "probe" /\ th'[t].pc = "probe" /\ Passed(t, th[t].ix)
       /\ th'[t].vec = th[t].vec /\ th'[t].key = th[t].key /\ th'[t].ix = th[t].ix + 1
    \/ /\ th[t].pc \in Probing
       /\ th'[t].vec = th[t].vec /\ th'[t].key = th[t].key /\ th'[t].ix = th[t].ix
       /\ (th'[t].pc \in Ended) =>
            (th[t].pc \in Ended \/ (th[t].pc = "probe" /\ Here(t).key \notin Word /\ Here(t).key[1] = th[t].key))
       /\ th'[t].pc = "oldval" => th'[t].kobj = Here(t).key
       /\ th'[t].pc = "take" => th[t].pc = "oldval" /\ th'[t].kobj = th[t].kobj
       /\ th'[t].pc = "uncount" => TakeValue(t) /\ th'[t].kobj = th[t].kobj
       /\ th'[t].pc = "bury" => CountDown(t) /\ th'[t].kobj = th[t].kobj

(* Where a step leads a probe: one slot further, to its end, or to its     *)
(* start.                                                                  *)
LEMMA ProbeMoves ==
  ASSUME Shape, NEW t \in Thread, Moves(t)
  PROVE  ProbesBy(t)
<1>c. CallOK(t) /\ th[t] \in Local /\ th[t].ix + 1 \in Nat
  BY DEF Shape, CallsOK, Types, Local
<1>1. CASE ProbeFree(t)
  <2>1. /\ At(t, "probe") /\ Here(t).key = FREE
        /\ th'[t] = [th[t] EXCEPT !.pc = IF Puts(t) THEN "limit" ELSE "answer"]
    BY <1>1, ProbeFreeDoes
  <2> QED
    BY <1>1, <2>1, <1>c DEF ProbesBy, Probing, Ended, At, Local
<1>2. CASE ProbeMatch(t)
  <2>1. /\ At(t, "probe") /\ Here(t).key \notin Word /\ Here(t).key[1] = th[t].key
        /\ th'[t] = [th[t] EXCEPT !.pc = "value"]
    BY <1>2, ProbeMatchDoes
  <2> QED
    BY <1>2, <2>1, <1>c DEF ProbesBy, Probing, Ended, At, Local
<1>3. CASE ProbeNext(t)
  <2>1. /\ At(t, "probe") /\ Passed(t, th[t].ix)
        /\ \/ /\ th[t].ix + 1 < Size(th[t].vec)
             /\ th'[t] = [th[t] EXCEPT !.ix = th[t].ix + 1]
           \/ /\ ~(th[t].ix + 1 < Size(th[t].vec)) /\ Puts(t)
             /\ th'[t] = [th[t] EXCEPT !.pc = "wild"]
           \/ ~Puts(t) /\ th'[t] = [th[t] EXCEPT !.pc = "answer"]
    BY <1>3, ProbeNextDoes
  <2> QED
    BY <1>3, <2>1, <1>c DEF ProbesBy, Probing, Ended, At, Local
<1>4. CASE FindValue(t)
  <2>1. /\ At(t, "value") /\ th[t].op = "find"
        /\ \E d \in ValObj \cup Word \cup {Null} :
            th'[t] = [th[t] EXCEPT !.pc = "answer", !.word = d]
    BY <1>4, FindValueDoes
  <2> QED
    BY <1>4, <2>1, <1>c DEF ProbesBy, Probing, Ended, At, Local
<1>5. CASE Answer(t)
  <2>1. /\ At(t, "answer")
        /\ th'[t] = Rest
    BY <1>5, AnswerDoes
  <2> QED
    BY <1>5, <2>1, <1>c DEF ProbesBy, Probing, Ended, At, Local, Rest
<1>6. CASE PutValue(t)
  <2>1. /\ At(t, "value") /\ Puts(t) /\ Usable(Here(t))
        /\ \E v \in ValObj :
            /\ th[t].op = "insert" => v = th[t].own
            /\ th'[t] = [th[t] EXCEPT !.pc = "swap", !.word = Here(t).val, !.own = v]
    BY <1>6, PutValueDoes
  <2> QED
    BY <1>6, <2>1, <1>c DEF ProbesBy, Probing, Ended, At, Local
<1>7. CASE UpdateInPlace(t)
  <2>1. /\ At(t, "value") /\ th[t].op = "update"
        /\ th'[t] = Rest
    BY <1>7, UpdateInPlaceDoes
  <2> QED
    BY <1>7, <2>1, <1>c DEF ProbesBy, Probing, Ended, At, Local, Rest
<1>8. CASE SwapValue(t)
  <2>1. /\ At(t, "swap") /\ Here(t).val = th[t].word /\ ~Here(t).x
        /\ th'[t] = Rest
    BY <1>8, SwapValueDoes
  <2> QED
    BY <1>8, <2>1, <1>c DEF ProbesBy, Probing, Ended, At, Local, Rest
<1>9. CASE DecrLimit(t)
  <2>1. /\ At(t, "limit") /\ limit > 0
        /\ \E k \in KeyObj, v \in ValObj :
            /\ th[t].kobj # Null => k = th[t].kobj
            /\ k[1] = th[t].key
            /\ th'[t] = [th[t] EXCEPT !.pc = "dcas", !.kobj = k, !.own = v]
    BY <1>9, DecrLimitDoes
  <2> QED
    BY <1>9, <2>1, <1>c DEF ProbesBy, Probing, Ended, At, Local
<1>10. CASE PutWait(t)
  <2>1. /\ At(t, "limit") \/ (At(t, "value") /\ Puts(t))
        /\ th'[t] = [th[t] EXCEPT !.pc = "rehash"]
    BY <1>10, PutWaitDoes
  <2> QED
    BY <1>10, <2>1, <1>c DEF ProbesBy, Probing, Ended, At, Local
<1>11. CASE FillSlot(t)
  <2>1. /\ At(t, "dcas") /\ Here(t) = EmptySlot
        /\ th'[t] = [th[t] EXCEPT !.pc = "count"]
    BY <1>11, FillSlotDoes
  <2> QED
    BY <1>11, <2>1, <1>c DEF ProbesBy, Probing, Ended, At, Local
<1>12. CASE StoreFails(t)
  <2>1. /\ At(t, "swap") \/ At(t, "dcas")
        /\ th'[t].pc = "probe" /\ th'[t].op = th[t].op /\ th'[t].key = th[t].key /\ th'[t].vec = vec /\ th'[t].ix = 0
        /\ th'[t].own = Kept(t) /\ th'[t].kobj = th[t].kobj /\ th'[t].word = Null /\ th'[t].np = Null /\ th'[t].met = {}
    BY <1>12, StoreFailsDoes
  <2> QED
    BY <1>12, <2>1, <1>c DEF ProbesBy, Probing, Ended, At, Local
<1>13. CASE CountUp(t)
  <2>1. /\ At(t, "count")
        /\ th'[t] = Rest
    BY <1>13, CountUpDoes
  <2> QED
    BY <1>13, <2>1, <1>c DEF ProbesBy, Probing, Ended, At, Local, Rest
<1>14. CASE OldKey(t)
  <2>1. /\ At(t, "value") /\ th[t].op = "erase"
        /\ th'[t] = [th[t] EXCEPT !.pc = "oldval", !.kobj = Here(t).key]
    BY <1>14, OldKeyDoes
  <2> QED
    BY <1>14, <2>1, <1>c DEF ProbesBy, Probing, Ended, At, Local
<1>15. CASE OldValue(t)
  <2>1. /\ At(t, "oldval")
        /\ \E l \in {"take", "rehash", "answer"}, o \in KeyObj \cup {Null}, d \in ValObj \cup {Null} :
            /\ l = "take" => /\ o = th[t].kobj /\ o # Null /\ d # Null
                           /\ ~Here(t).x /\ d = Here(t).val
            /\ l # "take" => o = Null /\ d = th[t].word
            /\ th'[t] = [th[t] EXCEPT !.pc = l, !.word = d, !.kobj = o]
    BY <1>15, OldValueDoes
  <2> QED
    BY <1>15, <2>1, <1>c DEF ProbesBy, Probing, Ended, At, Local
<1>16. CASE TakeValue(t)
  <2>1. /\ At(t, "take") /\ Here(t).val = th[t].word /\ ~Here(t).x
        /\ th'[t] = [th[t] EXCEPT !.pc = "uncount"]
    BY <1>16, TakeValueDoes
  <2> QED
    BY <1>16, <2>1, <1>c DEF ProbesBy, Probing, Ended, At, Local
<1>17. CASE TakeFails(t)
  <2>1. /\ At(t, "take")
        /\ th'[t].pc = "probe" /\ th'[t].op = "erase" /\ th'[t].key = th[t].key /\ th'[t].vec = vec /\ th'[t].ix = 0
        /\ th'[t].own = Null /\ th'[t].kobj = Null /\ th'[t].word = Null /\ th'[t].np = Null /\ th'[t].met = {}
    BY <1>17, TakeFailsDoes
  <2> QED
    BY <1>17, <2>1, <1>c DEF ProbesBy, Probing, Ended, At, Local
<1>18. CASE CountDown(t)
  <2>1. /\ At(t, "uncount")
        /\ th'[t] = [th[t] EXCEPT !.pc = "bury"]
    BY <1>18, CountDownDoes
  <2> QED
    BY <1>18, <2>1, <1>c DEF ProbesBy, Probing, Ended, At, Local
<1>19. CASE Bury(t)
  <2>1. /\ At(t, "bury")
        /\ th'[t] = Rest
    BY <1>19, BuryDoes
  <2> QED
    BY <1>19, <2>1, <1>c DEF ProbesBy, Probing, Ended, At, Local, Rest
<1>20. CASE NoRehash(t)
  <2>1. /\ At(t, "rehash") /\ lock = Null
        /\ th'[t].pc = "probe" /\ th'[t].op = th[t].op /\ th'[t].key = th[t].key /\ th'[t].vec = vec /\ th'[t].ix = 0
        /\ th'[t].own = th[t].own /\ th'[t].kobj = th[t].kobj /\ th'[t].word = Null /\ th'[t].np = Null /\ th'[t].met = {}
    BY <1>20, NoRehashDoes
  <2> QED
    BY <1>20, <2>1, <1>c DEF ProbesBy, Probing, Ended, At, Local
<1>21. CASE RehashStart(t)
  <2>1. /\ At(t, "rehash") /\ lock = Null /\ limit <= 0
        /\ \E w \in Vector : life[w] = "free" /\
            th'[t] = [th[t] EXCEPT !.pc = "copykey", !.vec = vec, !.ix = 0, !.word = Null, !.np = w]
    BY <1>21, RehashStartDoes
  <2> QED
    BY <1>21, <2>1, <1>c DEF ProbesBy, Probing, Ended, At, Local
<1>22. CASE OutOfMemory(t)
  <2>1. /\ At(t, "limit") \/ At(t, "rehash")
        /\ th'[t] = Rest
    BY <1>22, OutOfMemoryDoes
  <2> QED
    BY <1>22, <2>1, <1>c DEF ProbesBy, Probing, Ended, At, Local, Rest
<1>23. CASE CopyKey(t)
  <2>1. /\ At(t, "copykey")
        /\ th'[t] = [th[t] EXCEPT !.pc = "copyval", !.word = This(t).key]
    BY <1>23, CopyKeyDoes
  <2> QED
    BY <1>23, <2>1, <1>c DEF ProbesBy, Probing, Ended, At, Local
<1>24. CASE CopyValue(t)
  <2>1. /\ At(t, "copyval")
        /\ \/ /\ th[t].ix + 1 < Size(th[t].vec)
             /\ th'[t] = [th[t] EXCEPT !.pc = "copykey", !.ix = th[t].ix + 1, !.word = Null]
           \/ /\ ~(th[t].ix + 1 < Size(th[t].vec))
             /\ th'[t] = [th[t] EXCEPT !.pc = "setlimit", !.ix = 0, !.word = Null]
    BY <1>24, CopyValueDoes
  <2>2. th'[t].pc \in {"copykey", "setlimit"}
    BY <2>1, <1>c DEF Local
  <2> QED
    BY <2>2 DEF ProbesBy, Probing
<1>25. CASE SetLimit(t)
  <2>1. /\ At(t, "setlimit")
        /\ th'[t] = [th[t] EXCEPT !.pc = "install"]
    BY <1>25, SetLimitDoes
  <2> QED
    BY <1>25, <2>1, <1>c DEF ProbesBy, Probing, Ended, At, Local
<1>26. CASE Install(t)
  <2>1. /\ At(t, "install") /\ th[t].op # "assign"
        /\ th'[t].pc = "probe" /\ th'[t].op = th[t].op /\ th'[t].key = th[t].key /\ th'[t].vec = th[t].np /\ th'[t].ix = 0
        /\ th'[t].own = th[t].own /\ th'[t].kobj = th[t].kobj /\ th'[t].word = Null /\ th'[t].np = Null /\ th'[t].met = {}
    BY <1>26, InstallDoes
  <2> QED
    BY <1>26, <2>1, <1>c DEF ProbesBy, Probing, Ended, At, Local
<1>27. CASE AssignAcquire(t)
  <2>1. /\ At(t, "acquire") /\ th[t].op = "assign" /\ lock = Null
        /\ th'[t] = [th[t] EXCEPT !.pc = "mark", !.vec = vec]
    BY <1>27, AssignAcquireDoes
  <2> QED
    BY <1>27, <2>1, <1>c DEF ProbesBy, Probing, Ended, At, Local
<1>28. CASE Mark(t)
  <2>1. /\ At(t, "mark") /\ th[t].ix < Size(th[t].vec)
        /\ \E o \in ValObj \cup {Null} :
            th'[t] = [th[t] EXCEPT !.ix = th[t].ix + 1, !.own = o]
    BY <1>28, MarkDoes
  <2> QED
    BY <1>28, <2>1, <1>c DEF ProbesBy, Probing, Ended, At, Local
<1>29. CASE AssignLimit(t)
  <2>1. /\ At(t, "mark") /\ th[t].ix = Size(th[t].vec)
        /\ th'[t] = [th[t] EXCEPT !.pc = "install"]
    BY <1>29, AssignLimitDoes
  <2> QED
    BY <1>29, <2>1, <1>c DEF ProbesBy, Probing, Ended, At, Local
<1>30. CASE AssignInstall(t)
  <2>1. /\ At(t, "install") /\ th[t].op = "assign"
        /\ th'[t] = Rest
    BY <1>30, AssignInstallDoes
  <2> QED
    BY <1>30, <2>1, <1>c DEF ProbesBy, Probing, Ended, At, Local, Rest
<1>31. CASE ClearAcquire(t)
  <2>1. /\ At(t, "acquire") /\ th[t].op = "clear" /\ lock = Null
        /\ th'[t] = [th[t] EXCEPT !.pc = "clrkey", !.vec = vec]
    BY <1>31, ClearAcquireDoes
  <2> QED
    BY <1>31, <2>1, <1>c DEF ProbesBy, Probing, Ended, At, Local
<1>32. CASE ClearReadKey(t)
  <2>1. /\ At(t, "clrkey")
        /\ th'[t] = [th[t] EXCEPT !.pc = "clrput", !.kobj = This(t).key]
    BY <1>32, ClearReadKeyDoes
  <2> QED
    BY <1>32, <2>1, <1>c DEF ProbesBy, Probing, Ended, At, Local
<1>33. CASE ClearFreeKey(t)
  <2>1. /\ At(t, "clrput")
        /\ th'[t] = [th[t] EXCEPT !.pc = "clrval"]
    BY <1>33, ClearFreeKeyDoes
  <2> QED
    BY <1>33, <2>1, <1>c DEF ProbesBy, Probing, Ended, At, Local
<1>34. CASE ClearFreeValue(t)
  <2>1. /\ At(t, "clrval")
        /\ \/ /\ th[t].ix + 1 < Size(th[t].vec)
             /\ \E o \in ValObj \cup {Null} :
                  th'[t] = [th[t] EXCEPT !.pc = "clrkey", !.ix = th[t].ix + 1, !.kobj = Null, !.own = o]
           \/ /\ ~(th[t].ix + 1 < Size(th[t].vec))
             /\ \E o \in ValObj \cup {Null} :
                  th'[t] = [th[t] EXCEPT !.pc = "clrlimit", !.ix = 0, !.kobj = Null, !.own = o]
    BY <1>34, ClearFreeValueDoes
  <2>2. th'[t].pc \in {"clrkey", "clrlimit"}
    BY <2>1, <1>c DEF Local
  <2> QED
    BY <2>2 DEF ProbesBy, Probing
<1>35. CASE ClearSetLimit(t)
  <2>1. /\ At(t, "clrlimit")
        /\ th'[t] = [th[t] EXCEPT !.pc = "clrcount"]
    BY <1>35, ClearSetLimitDoes
  <2> QED
    BY <1>35, <2>1, <1>c DEF ProbesBy, Probing, Ended, At, Local
<1>36. CASE ClearDone(t)
  <2>1. /\ At(t, "clrcount")
        /\ th'[t] = Rest
    BY <1>36, ClearDoneDoes
  <2> QED
    BY <1>36, <2>1, <1>c DEF ProbesBy, Probing, Ended, At, Local, Rest
<1>37. CASE WalkKey(t)
  <2>1. /\ At(t, "walk") /\ th[t].ix < Size(th[t].vec)
        /\ \/ th'[t] = [th[t] EXCEPT !.ix = th[t].ix + 1]
           \/ This(t).key # FREE /\ th'[t] = [th[t] EXCEPT !.pc = "walkval", !.word = This(t).key]
    BY <1>37, WalkKeyDoes
  <2> QED
    BY <1>37, <2>1, <1>c DEF ProbesBy, Probing, Ended, At, Local
<1>38. CASE WalkValue(t)
  <2>1. /\ At(t, "walkval")
        /\ \E m \in SUBSET Key :
            th'[t] = [th[t] EXCEPT !.pc = "walk", !.ix = th[t].ix + 1, !.word = Null, !.met = m]
    BY <1>38, WalkValueDoes
  <2> QED
    BY <1>38, <2>1, <1>c DEF ProbesBy, Probing, Ended, At, Local
<1>39. CASE WalkEnd(t)
  <2>1. /\ At(t, "walk")
        /\ th'[t] = Rest
    BY <1>39, WalkEndDoes
  <2> QED
    BY <1>39, <2>1, <1>c DEF ProbesBy, Probing, Ended, At, Local, Rest
<1>40. CASE ClearStart(t)
  <2>1. /\ At(t, "idle")
        /\ th'[t].pc = "acquire" /\ th'[t].op = "clear" /\ th'[t].key = Null /\ th'[t].vec = Null /\ th'[t].ix = 0
        /\ th'[t].own = Null /\ th'[t].kobj = Null /\ th'[t].word = Null /\ th'[t].np = Null /\ th'[t].met = {}
    BY <1>40, ClearStartDoes
  <2> QED
    BY <1>40, <2>1, <1>c DEF ProbesBy, Probing, Ended, At, Local
<1>41. CASE WalkStart(t)
  <2>1. /\ At(t, "idle")
        /\ th'[t].pc = "walk" /\ th'[t].op = "walk" /\ th'[t].key = Null /\ th'[t].vec = vec /\ th'[t].ix = 0
        /\ th'[t].own = Null /\ th'[t].kobj = Null /\ th'[t].word = Null /\ th'[t].np = Null /\ th'[t].met = {}
    BY <1>41, WalkStartDoes
  <2> QED
    BY <1>41, <2>1, <1>c DEF ProbesBy, Probing, Ended, At, Local
<1>42. ASSUME NEW k \in Key, LookupStart(t, k) PROVE ProbesBy(t)
  <2>1. th'[t].pc \in {"probe", "acquire"} /\ th'[t].ix = 0
    BY <1>42, LookupStartDoes
  <2> QED
    BY <2>1 DEF ProbesBy, Probing
<1>43. ASSUME NEW k \in Key, InsertStart(t, k) PROVE ProbesBy(t)
  <2>1. th'[t].pc \in {"probe", "acquire"} /\ th'[t].ix = 0
    BY <1>43, InsertStartDoes
  <2> QED
    BY <2>1 DEF ProbesBy, Probing
<1>44. ASSUME NEW k \in Key, AssignStart(t, k) PROVE ProbesBy(t)
  <2>1. th'[t].pc \in {"probe", "acquire"} /\ th'[t].ix = 0
    BY <1>44, AssignStartDoes
  <2> QED
    BY <2>1 DEF ProbesBy, Probing
<1> QED
  BY <1>1, <1>2, <1>3, <1>4, <1>5, <1>6, <1>7, <1>8, <1>9, <1>10, <1>11, <1>12, <1>13, <1>14, <1>15, <1>16, <1>17, <1>18, <1>19, <1>20, <1>21, <1>22, <1>23, <1>24, <1>25, <1>26, <1>27, <1>28, <1>29, <1>30, <1>31, <1>32, <1>33, <1>34, <1>35, <1>36, <1>37, <1>38, <1>39, <1>40, <1>41, <1>42, <1>43, <1>44 DEF Moves, Start, Proceed

(* A probe comes to no slot twice.                                         *)
LEMMA ProbesApart ==
  ASSUME NEW k \in Key, NEW p \in DOMAIN Entries,
         NEW i \in 0..Entries[p] - 1, NEW j \in 0..Entries[p] - 1,
         Pos(k, i, Entries[p]) = Pos(k, j, Entries[p])
  PROVE  i = j
<1> DEFINE n == Entries[p]
           S == 0..n - 1
           f == [l \in S |-> Pos(k, l, n)]
<1>1. n \in Nat \ {0}
  BY Sizes
<1>2. IsFiniteSet(S)
  BY <1>1, FS_Interval
<1>3. f \in Surjection(S, S)
  <2>1. \A l \in S : f[l] \in S
    BY <1>1, Positions
  <2>2. \A m \in S : \E l \in S : f[l] = m
    BY Positions
  <2> HIDE DEF S
  <2> QED
    BY <2>1, <2>2 DEF Surjection
<1>4. f \in Injection(S, S)
  <2> HIDE DEF S, f
  <2> QED
    BY <1>2, <1>3, FS_Surjection
<1>5. f[i] = f[j]
  OBVIOUS
<1> HIDE DEF f
<1> QED
  BY <1>4, <1>5 DEF Injection, IsInjective

(* What a step does to the keys of a table that there was.                 *)
KeyStep(t, w, i) ==
  \/ tab'[w].slot[i].key = tab[w].slot[i].key
  \/ SlotFilled(t, w, i) \/ SlotCopied(t, w, i)
  \/ SlotBuried(t, w, i) \/ SlotKeyFreed(t, w, i)

(* How the key of a slot in use may change: it stays, or is buried or      *)
(* freed.                                                                  *)
LEMMA KeyMoves ==
  ASSUME Shape, AloneOK, RoomOK, NEW t \in Thread, Moves(t), NEW w \in Vector,
         tab[w].pidx # 0, tab'[w].pidx # 0
  PROVE  /\ tab[w].pidx \in DOMAIN Entries /\ Size(w) = Entries[tab[w].pidx]
         /\ Size(w)' = Size(w) /\ Size(w) \in Nat \ {0}
         /\ DOMAIN tab[w].slot = 0..Size(w) - 1
         /\ DOMAIN tab'[w].slot = 0..Size(w) - 1
         /\ \A i \in DOMAIN tab[w].slot : KeyStep(t, w, i)
<1>1. /\ Size(w)' = Size(w) /\ Size(w) \in Nat \ {0}
      /\ DOMAIN tab[w].slot = 0..Size(w) - 1
      /\ DOMAIN tab'[w].slot = 0..Size(w) - 1
  BY SizesKept
<1>2. tab[w].pidx \in DOMAIN Entries
  BY Indices DEF Shape
<1>3. ASSUME NEW i \in DOMAIN tab[w].slot PROVE KeyStep(t, w, i)
  <2>1. SlotStep(t, w, i) /\ ~SlotMade(t, w, i)
    BY <1>1, SlotSteps DEF SlotMade
  <2> QED
    BY <2>1 DEF SlotStep, SlotSame, SlotSwapped, SlotTaken, SlotBarred,
      SlotValueFreed, KeyStep
<1> QED
  BY <1>1, <1>2, <1>3 DEF Size

(* Where a key comes to lie.                                               *)
LEMMA FilledAt ==
  ASSUME Structure, ProbesOK, NEW t \in Thread, NEW w \in Vector, NEW i,
         Fills(t, w, i), tab'[w].slot[i].key[1] \in Key
  PROVE  LET k == tab'[w].slot[i].key[1] IN
         \E a \in 0..Size(w) - 1 :
           /\ i = Pos(k, a, Size(w)) /\ tab[w].slot[i].key = FREE
           /\ \A l \in 0..a - 1 : tab[w].slot[Pos(k, l, Size(w))].key # FREE
<1> USE DEF Structure, Shape
<1>1. CASE SlotFilled(t, w, i)
  <2>1. /\ th[t].pc = "dcas" /\ w = th[t].vec /\ i = Slot(t)
        /\ tab[w].slot[i].key = FREE /\ tab'[w].slot[i].key = th[t].kobj
    <3>1. tab[w].slot[i].key = FREE
      BY <1>1 DEF SlotFilled, EmptySlot
    <3>2. /\ th[t].kobj \in KeyObj /\ th[t].own \in ValObj
          /\ tab'[w].slot[i] = Pair(th[t].kobj, th[t].own)
      BY <1>1 DEF SlotFilled
    <3>3. tab'[w].slot[i].key = th[t].kobj
      BY <3>2 DEF Pair
    <3> QED
      BY <1>1, <3>1, <3>3 DEF SlotFilled, FillSlot, At
  <2>2. th[t].op \in {"insert", "update"} /\ th[t].kobj # Null
    BY <2>1 DEF CallsOK, CallOK, Places, At, Erasing, Copying, Clearing
  <2>3. th[t].kobj[1] = th[t].key
    BY <2>2 DEF CallsOK, CallOK, Puts
  <2>4. th[t].ix \in Nat /\ th[t].ix < Size(w)
    <3>1. th[t].vec # Null
      BY <2>1 DEF CallsOK, CallOK
    <3> QED
      BY <2>1, <2>2, <3>1 DEF IndexOK, Types, Local
  <2>5. Size(w) \in Nat
    BY <2>1, Found, Indices
  <2>6. \A l \in 0..th[t].ix - 1 : Passed(t, l)
    BY <2>1 DEF ProbesOK, Probing
  <2>7. PICK a : a = th[t].ix
    OBVIOUS
  <2>8. a \in 0..Size(w) - 1
    BY <2>4, <2>5, <2>7
  <2>9. i = Pos(th[t].key, a, Size(w))
    BY <2>1, <2>7 DEF Slot
  <2>10. \A l \in 0..a - 1 : tab[w].slot[Pos(th[t].key, l, Size(w))].key # FREE
    BY <2>1, <2>6, <2>7 DEF Passed
  <2>11. tab'[w].slot[i].key[1] = th[t].key
    BY <2>1, <2>3
  <2> QED
    BY <2>1, <2>8, <2>9, <2>10, <2>11
<1>2. CASE SlotCopied(t, w, i)
  <2>1. tab'[w].slot[i].key = th[t].word
    <3>1. /\ th[t].word \in KeyObj /\ This(t).val \in ValObj
          /\ tab'[w].slot[i] = Pair(th[t].word, This(t).val)
      BY <1>2 DEF SlotCopied
    <3> QED
      BY <3>1 DEF Pair
  <2> QED
    BY <1>2, <2>1 DEF SlotCopied
<1> QED
  BY <1>1, <1>2 DEF Fills

(* Chains stay whole in a vector that was there before the step.           *)
LEMMA ChainedStays ==
  ASSUME Structure, RoomOK, ProbesOK, NEW t \in Thread, Moves(t), NEW w \in Vector,
         tab[w].pidx # 0, tab'[w].pidx # 0, \A i : ~SlotKeyFreed(t, w, i), Chained(w)
  PROVE  Chained(w)'
<1> USE DEF Structure
<1>1. /\ tab[w].pidx \in DOMAIN Entries /\ Size(w) = Entries[tab[w].pidx]
      /\ Size(w)' = Size(w) /\ Size(w) \in Nat \ {0}
      /\ DOMAIN tab[w].slot = 0..Size(w) - 1
      /\ \A i \in DOMAIN tab[w].slot : KeyStep(t, w, i)
  BY KeyMoves
<1>2. ASSUME NEW k \in Key, NEW j \in 0..Size(w) - 1, NEW l \in 0..j - 1,
             tab'[w].slot[Pos(k, j, Size(w))].key \notin Word,
             tab'[w].slot[Pos(k, j, Size(w))].key[1] = k
      PROVE  tab'[w].slot[Pos(k, l, Size(w))].key # FREE
  <2>0. l \in 0..Size(w) - 1
    BY <1>1
  <2>1. PICK m, i : /\ i = Pos(k, j, Size(w)) /\ m = Pos(k, l, Size(w))
                    /\ i \in DOMAIN tab[w].slot /\ m \in DOMAIN tab[w].slot
    <3>1. j \in Nat /\ l \in Nat
      BY <1>1, <2>0
    <3>2. /\ Pos(k, j, Size(w)) \in DOMAIN tab[w].slot
          /\ Pos(k, l, Size(w)) \in DOMAIN tab[w].slot
      BY <1>1, <3>1, Positions
    <3> QED
      BY <3>2
  <2>2. tab[w].slot[m].key # FREE
    <3>1. CASE tab'[w].slot[i].key = tab[w].slot[i].key
      BY <1>2, <2>1, <3>1 DEF Chained
    <3>2. CASE Fills(t, w, i)
      <4>1. PICK a \in 0..Size(w) - 1 :
              /\ i = Pos(k, a, Size(w))
              /\ \A b \in 0..a - 1 : tab[w].slot[Pos(k, b, Size(w))].key # FREE
        BY <1>2, <2>1, <3>2, FilledAt
      <4>2. a = j
        BY <1>1, <2>1, <4>1, ProbesApart
      <4> QED
        BY <2>1, <4>1, <4>2
    <3>3. ~SlotBuried(t, w, i) /\ ~SlotKeyFreed(t, w, i)
      BY <1>2, <2>1 DEF SlotBuried, SlotKeyFreed, Word
    <3> QED
      BY <1>1, <2>1, <3>1, <3>2, <3>3 DEF KeyStep, Fills
  <2>3. tab'[w].slot[m].key # FREE
    BY <2>1, <2>2, UsedMoves
  <2> QED
    BY <2>1, <2>3
<1> QED
  BY <1>1, <1>2 DEF Chained

(* Every step keeps the chains whole.                                      *)
LEMMA ChainsStep ==
  ASSUME Excluding, Structure, RoomOK, ChainsOK, ProbesOK, NEW t \in Thread, Moves(t)
  PROVE  ChainsOK'
<1> USE DEF Structure
<1> SUFFICES ASSUME NEW w \in Vector, tab'[w].pidx # 0,
                    ~\E u \in Thread : th'[u].pc \in Clearing /\ w = vec'
             PROVE  Chained(w)'
  BY DEF ChainsOK
<1>1. CASE tab[w].pidx = 0
  <2>1. \A i \in DOMAIN tab'[w].slot : SlotMade(t, w, i)
    BY <1>1, SlotSteps DEF SlotStep
  <2>2. tab'[w].pidx \in DOMAIN Entries /\ DOMAIN tab'[w].slot = 0..NewSize(w) - 1
    BY TablesStep, TableFacts DEF NewSize, EntriesOf, Shape
  <2>3. NewSize(w) \in Nat \ {0} /\ Size(w)' = NewSize(w)
    BY <2>2, Sizes DEF NewSize, Size
  <2>4. ASSUME NEW k \in Key, NEW j \in 0..NewSize(w) - 1, NEW l \in 0..j - 1,
               tab'[w].slot[Pos(k, j, NewSize(w))].key \notin Word,
               tab'[w].slot[Pos(k, j, NewSize(w))].key[1] = k
        PROVE  FALSE
    <3>1. PICK i : i = Pos(k, j, NewSize(w)) /\ i \in DOMAIN tab'[w].slot
      <4>1. PICK p \in DOMAIN Entries : p = tab'[w].pidx
        BY <2>2
      <4>2. NewSize(w) = Entries[p] /\ j \in Nat
        BY <2>3, <4>1 DEF NewSize
      <4>3. Pos(k, j, Entries[p]) \in 0..Entries[p] - 1
        BY <4>2, Positions
      <4> QED
        BY <2>2, <4>2, <4>3
    <3>2. SlotMade(t, w, i)
      BY <2>1, <3>1
    <3>3. tab'[w].slot[i] # EmptySlot
      BY <2>4, <3>1 DEF EmptySlot, Word
    <3>4. PICK k0 \in Key, o \in KeyObj, v \in ValObj :
            /\ o[1] = k0 /\ i = Pos(k0, 0, Entries[1]) /\ tab'[w].pidx = 1
            /\ tab'[w].slot[i] = Pair(o, v)
      BY <3>2, <3>3 DEF SlotMade
    <3>5. k0 = k
      BY <2>4, <3>1, <3>4 DEF Pair
    <3>6. NewSize(w) = Entries[1]
      BY <3>4 DEF NewSize
    <3>7. 0 \in 0..Entries[1] - 1 /\ j \in 0..Entries[1] - 1
      BY <2>3, <3>6
    <3>8. j = 0
      <4>1. Pos(k, j, Entries[1]) = Pos(k, 0, Entries[1])
        BY <3>1, <3>4, <3>5, <3>6
      <4>2. 1 \in DOMAIN Entries
        BY Sizes
      <4> QED
        BY <3>7, <4>1, <4>2, ProbesApart
    <3> QED
      BY <3>8
  <2> QED
    BY <2>3, <2>4 DEF Chained
<1>2. CASE tab[w].pidx # 0 /\ ~\E u \in Thread : th[u].pc \in Clearing /\ w = vec
  <2>1. \A i : ~SlotKeyFreed(t, w, i)
    BY <1>2 DEF SlotKeyFreed, ClearFreeKey, At, Clearing
  <2>2. Chained(w)
    BY <1>2 DEF ChainsOK
  <2> QED
    BY <1>2, <2>1, <2>2, ChainedStays
<1>3. CASE tab[w].pidx # 0 /\ \E u \in Thread : th[u].pc \in Clearing /\ w = vec
  <2>1. PICK u \in Thread : th[u].pc \in Clearing /\ w = vec
    BY <1>3
  <2>2. th[u].op = "clear"
    BY <2>1 DEF Shape, CallsOK, CallOK, Places, Storing, Erasing, Copying, Clearing
  <2>3. u = t
    BY <2>2, AloneMoves DEF Exclusive
  <2>4. vec' = vec
    BY <2>1, <2>3, VecMoves DEF Clearing
  <2>5. ClearDone(t)
    BY <2>1, <2>2, <2>3, <2>4, ClearGoesOn
  <2>6. \A i \in DOMAIN tab[w].slot : tab[w].slot[i] = EmptySlot
    BY <2>1, <2>3, <2>5 DEF WipedOK, ClearDone, At
  <2>7. \A i \in DOMAIN tab[w].slot : tab'[w].slot[i].key = FREE
    <3>1. \A i : ~Fills(t, w, i)
      BY <2>5, FillsAt DEF ClearDone, At
    <3>2. \A i \in DOMAIN tab[w].slot : tab[w].slot[i].key = FREE
      BY <2>6 DEF EmptySlot
    <3> QED
      BY <1>3, <3>1, <3>2, UsedMoves
  <2>8. /\ Size(w)' = Size(w) /\ Size(w) \in Nat \ {0}
        /\ DOMAIN tab[w].slot = 0..Size(w) - 1
        /\ tab[w].pidx \in DOMAIN Entries /\ Size(w) = Entries[tab[w].pidx]
    BY <1>3, KeyMoves
  <2>9. \A k \in Key, j \in 0..Size(w) - 1 : tab'[w].slot[Pos(k, j, Size(w))].key \in Word
    <3>1. PICK p \in DOMAIN Entries : Size(w) = Entries[p]
      BY <2>8
    <3>2. \A k \in Key, j \in 0..Size(w) - 1 : Pos(k, j, Size(w)) \in 0..Size(w) - 1
      BY <2>8, <3>1, Positions
    <3> QED
      BY <2>7, <2>8, <3>2 DEF Word
  <2> QED
    BY <2>8, <2>9 DEF Chained
<1> QED
  BY <1>1, <1>2, <1>3

(* An assign is about the key that it was given.                           *)
LEMMA KeyOfAssign ==
  ASSUME Shape, NEW t \in Thread, NEW k \in Key, AssignStart(t, k)
  PROVE  th'[t].key = k
BY AssignStartDoes

(* No step gives a key a second slot in a vector.                          *)
LEMMA OneSlotStep ==
  ASSUME Excluding, Structure, RoomOK, SlotsInv, NEW t \in Thread, Moves(t)
  PROVE  OneSlotPerKey'
<1> USE DEF Structure, SlotsInv
<1> SUFFICES ASSUME NEW w \in Vector, NEW i \in DOMAIN tab'[w].slot,
                    NEW j \in DOMAIN tab'[w].slot, i # j,
                    tab'[w].slot[i].key \notin Word, tab'[w].slot[j].key \notin Word,
                    tab'[w].slot[i].key[1] = tab'[w].slot[j].key[1]
             PROVE  FALSE
  BY DEF OneSlotPerKey
<1>1. CASE tab[w].pidx = 0
  <2>1. /\ tab'[w].slot[i] # EmptySlot /\ tab'[w].slot[j] # EmptySlot
        /\ SlotMade(t, w, i) /\ SlotMade(t, w, j)
    BY <1>1, SlotSteps DEF SlotStep, EmptySlot, Word
  <2>2. PICK k \in Key : AssignStart(t, k) /\ i = Pos(k, 0, Entries[1])
    BY <2>1 DEF SlotMade
  <2>3. PICK l \in Key : AssignStart(t, l) /\ j = Pos(l, 0, Entries[1])
    BY <2>1 DEF SlotMade
  <2>4. th'[t].key = k
    BY <2>2, KeyOfAssign
  <2>5. th'[t].key = l
    BY <2>3, KeyOfAssign
  <2> QED
    BY <2>2, <2>3, <2>4, <2>5
<1>2. CASE tab[w].pidx # 0
  <2>0. tab'[w].pidx # 0
    BY TablesStep, TableFacts DEF Shape
  <2>1. /\ tab[w].pidx \in DOMAIN Entries /\ Size(w) = Entries[tab[w].pidx]
        /\ Size(w) \in Nat \ {0}
        /\ DOMAIN tab[w].slot = 0..Size(w) - 1 /\ DOMAIN tab'[w].slot = 0..Size(w) - 1
        /\ \A m \in DOMAIN tab[w].slot : KeyStep(t, w, m)
    BY <1>2, <2>0, KeyMoves
  <2>2. \A m \in {i, j} :
           (tab'[w].slot[m].key = tab[w].slot[m].key) \/ Fills(t, w, m)
    BY <2>1 DEF KeyStep, Fills, SlotBuried, SlotKeyFreed, Word
  <2>3. ~(Fills(t, w, i) /\ Fills(t, w, j))
    BY FillsOne
  <2>4. CASE ~Fills(t, w, i) /\ ~Fills(t, w, j)
    BY <2>1, <2>2, <2>4 DEF OneSlotPerKey
  <2>5. ASSUME NEW m \in {i, j}, NEW n \in {i, j}, m # n, Fills(t, w, m), ~Fills(t, w, n)
        PROVE  FALSE
    <3>1. /\ tab'[w].slot[n].key = tab[w].slot[n].key
          /\ tab[w].slot[n].key \notin Word
          /\ tab'[w].slot[m].key[1] = tab[w].slot[n].key[1]
      BY <2>2, <2>5
    <3>2. PICK k \in Key : k = tab[w].slot[n].key[1]
      <4>1. tab[w].slot[n].key \in KeyObj
        BY <2>1, <2>5, <3>1, SlotTyped DEF Shape
      <4> QED
        BY <4>1 DEF KeyObj
    <3>3. PICK a \in 0..Size(w) - 1 :
            /\ m = Pos(k, a, Size(w)) /\ tab[w].slot[m].key = FREE
            /\ \A l \in 0..a - 1 : tab[w].slot[Pos(k, l, Size(w))].key # FREE
      <4>1. tab'[w].slot[m].key[1] = k /\ k \in Key
        BY <3>1, <3>2
      <4> QED
        BY <2>5, <4>1, FilledAt
    <3>4. CASE SlotFilled(t, w, m)
      <4>1. PICK b \in 0..Size(w) - 1 : n = Pos(k, b, Size(w))
        <5>1. PICK p \in DOMAIN Entries : Size(w) = Entries[p]
          BY <2>1
        <5>2. n \in 0..Entries[p] - 1
          BY <2>1, <2>5, <5>1
        <5>3. \E b \in 0..Entries[p] - 1 : n = Pos(k, b, Entries[p])
          BY <5>2, Positions
        <5> QED
          BY <5>1, <5>3
      <4>2. Chained(w)
        <5>1. th[t].pc = "dcas" /\ th[t].op # "clear"
          BY <3>4 DEF SlotFilled, FillSlot, At, Shape, CallsOK, CallOK, Places, Clearing
        <5>2. ASSUME NEW u \in Thread, th[u].pc \in Clearing PROVE FALSE
          <6>1. th[u].op = "clear"
            BY <5>2 DEF Shape, CallsOK, CallOK, Places, Storing, Erasing, Copying, Clearing
          <6>2. u = t
            BY <6>1, AloneMoves DEF Exclusive
          <6> QED
            BY <5>1, <6>1, <6>2
        <5> QED
          BY <1>2, <5>2 DEF ChainsOK
      <4>3. ~(a < b)
        <5>1. ASSUME a < b PROVE FALSE
          <6>1. a \in 0..b - 1
            BY <2>1, <5>1
          <6>2. tab[w].slot[Pos(k, a, Size(w))].key # FREE
            BY <3>1, <3>2, <4>1, <4>2, <6>1 DEF Chained
          <6> QED
            BY <3>3, <6>2
        <5> QED
          BY <5>1
      <4>4. ~(b < a)
        <5>1. ASSUME b < a PROVE FALSE
          <6>1. /\ th[t].pc = "dcas" /\ w = th[t].vec /\ m = Slot(t)
                /\ k = th[t].key
            <7>1. /\ th[t].pc = "dcas" /\ w = th[t].vec /\ m = Slot(t)
                  /\ tab'[w].slot[m].key = th[t].kobj
              BY <3>4 DEF SlotFilled, FillSlot, At, Pair
            <7>2. th[t].kobj[1] = th[t].key
              BY <7>1 DEF Shape, CallsOK, CallOK, Puts, Places, At, Erasing, Copying, Clearing
            <7> QED
              BY <3>1, <3>2, <7>1, <7>2
          <6>2. th[t].ix = a
            <7>1. th[t].ix \in 0..Size(w) - 1
              <8>1. /\ th[t].vec # Null /\ th[t].op \in {"insert", "update"}
                BY <6>1 DEF Shape, CallsOK, CallOK, Puts, Places, At, Erasing, Copying, Clearing
              <8>2. th[t].ix \in Nat /\ th[t].ix < Size(w)
                BY <6>1, <8>1 DEF Shape, IndexOK, Types, Local
              <8> QED
                BY <2>1, <8>2
            <7>2. Pos(k, th[t].ix, Size(w)) = Pos(k, a, Size(w))
              BY <3>3, <6>1 DEF Slot
            <7> QED
              BY <2>1, <7>1, <7>2, ProbesApart
          <6>3. Passed(t, b)
            <7>1. b \in 0..th[t].ix - 1
              BY <2>1, <5>1, <6>2
            <7> QED
              BY <6>1, <7>1 DEF ProbesOK, Probing
          <6> QED
            BY <3>1, <3>2, <4>1, <6>1, <6>3 DEF Passed, Word
        <5> QED
          BY <5>1
      <4>5. a = b
        BY <4>3, <4>4, <2>1
      <4> QED
        BY <2>5, <3>3, <4>1, <4>5
    <3>5. CASE SlotCopied(t, w, m)
      <4>1. /\ th[t].pc = "copyval" /\ w = th[t].np /\ w # vec /\ th[t].vec = vec
            /\ th[t].word \in KeyObj /\ This(t).val \in ValObj
            /\ tab'[w].slot[m].key = th[t].word
        <5>1. /\ th[t].pc = "copyval" /\ w = th[t].np /\ w # vec /\ th[t].vec = vec
              /\ th[t].word \in KeyObj /\ This(t).val \in ValObj
              /\ tab'[w].slot[m] = Pair(th[t].word, This(t).val)
          BY <3>5 DEF SlotCopied, CopyValue, At
        <5> QED
          BY <5>1 DEF Pair
      <4>2. Copier(t)
        <5>1. th[t].op \notin {"clear", "assign"}
          BY <4>1 DEF Shape, CallsOK, CallOK, Places, Clearing
        <5> QED
          BY <4>1, <5>1 DEF Copier, Exclusive, Copying
      <4>3. PICK l \in DOMAIN tab[vec].slot :
              /\ tab[vec].slot[l] = [tab[w].slot[n] EXCEPT !.x = TRUE]
              /\ l < th[t].ix
        <5>1. tab[w].slot[n] # EmptySlot
          BY <3>1 DEF EmptySlot, Word
        <5>2. n \in DOMAIN tab[th[t].np].slot
          BY <2>1, <2>5, <4>1
        <5>3. \E l \in DOMAIN tab[vec].slot :
                /\ tab[vec].slot[l] = [tab[th[t].np].slot[n] EXCEPT !.x = TRUE]
                /\ th[t].pc \in {"copykey", "copyval"} => l < th[t].ix
          BY <4>1, <4>2, <5>1, <5>2 DEF CopiesOK
        <5> QED
          BY <4>1, <5>3
      <4>4. tab[vec].slot[l].key = tab[w].slot[n].key
        <5>1. tab[w].slot[n] \in SlotRec
          BY <2>1, <2>5, SlotTyped DEF Shape
        <5> QED
          BY <4>3, <5>1 DEF SlotRec
      <4>5. th[t].ix \in DOMAIN tab[vec].slot /\ This(t) = tab[vec].slot[th[t].ix]
        BY <4>1, Found DEF Shape, This
      <4>6. This(t).key = th[t].word
        <5>1. This(t).key \in {th[t].word, DELT}
          BY <4>1, <4>2, Names DEF CopiesOK, At, Word
        <5>2. This(t).key # DELT
          <6>1. vec \in Vector
            BY DEF Shape, Types
          <6> QED
            BY <4>1, <4>5, <6>1, Names DEF Shape, SlotsOK, Word
        <5> QED
          BY <5>1, <5>2
      <4>7. l # th[t].ix
        <5>1. th[t].ix \in Nat
          BY DEF Shape, Types, Local
        <5> QED
          BY <4>3, <5>1
      <4>8. th[t].word \notin Word /\ th[t].word[1] = tab[w].slot[n].key[1]
        BY <3>1, <4>1, Names
      <4> QED
        BY <3>1, <4>3, <4>4, <4>5, <4>6, <4>7, <4>8 DEF OneSlotPerKey, Shape, Types
    <3> QED
      BY <2>5, <3>4, <3>5 DEF Fills
  <2> QED
    BY <2>3, <2>4, <2>5
<1> QED
  BY <1>1, <1>2

-----------------------------------------------------------------------------
(* Copies.                                                                 *)

(* A pair that was copied stays in the old vector as it is.                *)
LEMMA BarredFixed ==
  ASSUME Excluding, Structure, RoomOK, NEW t \in Thread, Moves(t),
         NEW u \in Thread, Copier(u), ~Install(u) \/ u # t,
         NEW i \in DOMAIN tab[vec].slot, IsLive(tab[vec].slot[i]), tab[vec].slot[i].x,
         CopyValue(t) /\ u = t => i # th[u].ix
  PROVE  i \in DOMAIN tab'[vec].slot /\ tab'[vec].slot[i] = tab[vec].slot[i]
<1> USE DEF Structure
<1>1. vec' = vec /\ lock = u /\ ~ClearFreeKey(t)
  BY CopyMoves
<1>2. PICK w \in Vector : w = vec /\ tab[w].pidx # 0 /\ tab'[w].pidx # 0
  BY <1>1, VecMoves
<1>3. DOMAIN tab'[w].slot = DOMAIN tab[w].slot
  BY <1>2, SizesKept
<1>4. SlotStep(t, w, i) /\ ~SlotMade(t, w, i)
  BY <1>2, <1>3, SlotSteps DEF SlotMade
<1>5. ~SlotFilled(t, w, i)
  BY <1>2 DEF SlotFilled, EmptySlot
<1>6. ~SlotSwapped(t, w, i) /\ ~SlotTaken(t, w, i) /\ ~SlotCopied(t, w, i)
  BY <1>2 DEF SlotSwapped, SlotTaken, SlotCopied
<1>7. ~SlotBuried(t, w, i)
  <2>1. SlotBuried(t, w, i) => tab[w].slot[i].val = DELT
    BY DEF SlotBuried, Bury, At, Shape, TakenOK, Here
  <2> QED
    BY <1>2, <2>1 DEF IsLive, Word
<1>8. ~SlotBarred(t, w, i)
  <2>1. ASSUME SlotBarred(t, w, i) PROVE FALSE
    <3>1. /\ CopyValue(t) \/ Mark(t)
          /\ i = th[t].ix
      BY <2>1 DEF SlotBarred
    <3>2. th[t].pc \in {"copyval", "mark"}
      BY <3>1 DEF CopyValue, Mark, At
    <3>3. lock = t
      BY <3>2 DEF Shape, LockOK, Copying
    <3>4. u = t /\ ~Mark(t)
      BY <1>1, <3>3 DEF Copier, Copying, Mark, At
    <3> QED
      BY <3>1, <3>4
  <2> QED
    BY <2>1
<1>9. ~SlotKeyFreed(t, w, i)
  BY <1>1 DEF SlotKeyFreed
<1>10. ~SlotValueFreed(t, w, i)
  <2>1. ASSUME th[t].pc = "clrval" PROVE FALSE
    <3>1. lock = t
      BY <2>1 DEF Shape, LockOK, Clearing
    <3> QED
      BY <1>1, <2>1, <3>1 DEF Copier, Copying
  <2> QED
    BY <2>1 DEF SlotValueFreed, ClearFreeValue, At
<1> QED
  BY <1>2, <1>3, <1>4, <1>5, <1>6, <1>7, <1>8, <1>9, <1>10 DEF SlotStep, SlotSame

(* Another slot of the new vector keeps its pair.                          *)
LEMMA CopiesKept ==
  ASSUME Excluding, Structure, RoomOK, CopiesOK, NEW t \in Thread, Moves(t),
         NEW u \in Thread, Copier(u), ~Install(u) \/ u # t, CopyValue(t) => u = t,
         NEW w \in Vector, w = th[u].np, NEW i \in DOMAIN tab[w].slot,
         tab'[w].slot[i] = tab[w].slot[i]
  PROVE  \/ tab'[w].slot[i] = EmptySlot
         \/ /\ IsLive(tab'[w].slot[i])
            /\ \E j \in DOMAIN tab'[vec].slot :
                 /\ tab'[vec].slot[j] = [tab'[w].slot[i] EXCEPT !.x = TRUE]
                 /\ th[u].pc \in {"copykey", "copyval"} => j < th[u].ix
<1>1. CASE tab[w].slot[i] = EmptySlot
  BY <1>1
<1>2. CASE tab[w].slot[i] # EmptySlot
  <2>1. PICK s : s = tab[w].slot[i] /\ s = tab'[w].slot[i]
    OBVIOUS
  <2>2. IsLive(s) /\ \E j \in DOMAIN tab[vec].slot :
           /\ tab[vec].slot[j] = [s EXCEPT !.x = TRUE]
           /\ th[u].pc \in {"copykey", "copyval"} => j < th[u].ix
    BY <1>2, <2>1 DEF CopiesOK
  <2>3. PICK j \in DOMAIN tab[vec].slot :
           /\ tab[vec].slot[j] = [s EXCEPT !.x = TRUE]
           /\ th[u].pc \in {"copykey", "copyval"} => j < th[u].ix
    BY <2>2
  <2>4. s \in SlotRec
    BY <2>1, SlotTyped DEF Structure, Shape
  <2>5. IsLive(tab[vec].slot[j]) /\ tab[vec].slot[j].x
    BY <2>2, <2>3, <2>4 DEF SlotRec, IsLive
  <2>6. CopyValue(t) /\ u = t => j # th[u].ix
    <3>1. th[u].ix \in Nat
      BY DEF Structure, Shape, Types, Local
    <3>2. CopyValue(t) /\ u = t => th[u].pc = "copyval"
      BY DEF CopyValue, At
    <3> QED
      BY <2>3, <3>1, <3>2
  <2>7. j \in DOMAIN tab'[vec].slot /\ tab'[vec].slot[j] = tab[vec].slot[j]
    BY <2>5, <2>6, BarredFixed
  <2> QED
    BY <2>1, <2>2, <2>3, <2>7
<1> QED
  BY <1>1, <1>2

(* What a copier reads in the vector in use.                               *)
LEMMA CopierReads ==
  ASSUME Structure, CopiesOK, NEW t \in Thread, Copier(t)
  PROVE  /\ lock = t /\ th[t].vec = vec /\ th[t].np \in Vector /\ th[t].np # vec
         /\ th[t].pc = "copyval" =>
              /\ th[t].ix \in DOMAIN tab[vec].slot
              /\ This(t) = tab[vec].slot[th[t].ix] /\ This(t) \in SlotRec
              /\ IsLive([This(t) EXCEPT !.key = th[t].word]) => This(t).key = th[t].word
<1> USE DEF Structure, Shape
<1>1. lock = t /\ th[t].vec = vec
  BY DEF LockOK, Copier
<1>2. th[t].np # Null /\ th[t].np \in Vector
  BY DEF Copier, CallsOK, CallOK, Types, Local
<1>3. th[t].np # vec
  BY <1>2 DEF VectorsOK
<1>4. ASSUME th[t].pc = "copyval"
      PROVE  /\ th[t].ix \in DOMAIN tab[vec].slot
             /\ This(t) = tab[vec].slot[th[t].ix] /\ This(t) \in SlotRec
             /\ IsLive([This(t) EXCEPT !.key = th[t].word]) => This(t).key = th[t].word
  <2>1. th[t].ix \in DOMAIN tab[vec].slot /\ This(t) = tab[vec].slot[th[t].ix]
    BY <1>1, <1>4, Found DEF This
  <2>2. vec \in Vector
    BY DEF Types
  <2>3. This(t) \in SlotRec
    BY <2>1, <2>2, SlotTyped
  <2>4. ASSUME IsLive([This(t) EXCEPT !.key = th[t].word])
        PROVE  This(t).key = th[t].word
    <3>1. th[t].word \notin Word /\ This(t).val \notin Word
      BY <2>3, <2>4 DEF IsLive, SlotRec
    <3>2. This(t).key \in {th[t].word, DELT}
      BY <1>4, <3>1 DEF CopiesOK, At, Word
    <3>3. This(t).key # DELT
      BY <2>1, <2>2, <3>1 DEF SlotsOK, Word
    <3> QED
      BY <3>2, <3>3
  <2> QED
    BY <2>1, <2>3, <2>4
<1> QED
  BY <1>1, <1>2, <1>3, <1>4

(* Nobody else writes in the vector that is being made.                    *)
LEMMA CopyUntouched ==
  ASSUME Excluding, Structure, RoomOK, NEW t \in Thread, Moves(t),
         NEW u \in Thread, Copier(u), ~Install(u) \/ u # t, ~CopyValue(t),
         NEW w \in Vector, w = th[u].np, NEW i \in DOMAIN tab'[w].slot
  PROVE  i \in DOMAIN tab[w].slot /\ tab'[w].slot[i] = tab[w].slot[i]
<1> USE DEF Structure
<1>1. tab[w].pidx # 0 /\ w # vec
  BY CopyMoves
<1>2. SlotStep(t, w, i)
  BY SlotSteps
<1>3. i \in DOMAIN tab[w].slot
  BY <1>1, <1>2 DEF SlotStep, SlotMade
<1>4. th[t].vec # w
  <2>1. w # Null
    BY Names
  <2> QED
    BY <2>1 DEF Shape, VectorsOK
<1> QED
  BY <1>1, <1>2, <1>3, <1>4 DEF SlotStep, SlotMade, SlotSame, SlotFilled, SlotSwapped,
    SlotTaken, SlotBuried, SlotBarred, SlotCopied, SlotKeyFreed, SlotValueFreed

CopyGoal(u, w) ==
  /\ \A i \in DOMAIN tab'[w].slot :
       \/ tab'[w].slot[i] = EmptySlot
       \/ /\ IsLive(tab'[w].slot[i])
          /\ \E j \in DOMAIN tab'[vec'].slot :
               /\ tab'[vec'].slot[j] = [tab'[w].slot[i] EXCEPT !.x = TRUE]
               /\ th'[u].pc \in {"copykey", "copyval"} => j < th'[u].ix
  /\ th'[u].pc = "copyval" =>
       th'[u].word = FREE \/
         tab'[th'[u].vec].slot[th'[u].ix].key \in {th'[u].word, DELT}

(* A step of another thread leaves what a rehash has copied, and where     *)
(* from.                                                                   *)
LEMMA CopiesOther ==
  ASSUME Excluding, Structure, RoomOK, CopiesOK, NEW t \in Thread, Moves(t),
         NEW u \in Thread \ {t}, Copier(u)', NEW w \in Vector, w = th'[u].np
  PROVE  CopyGoal(u, w)
<1> USE DEF Structure
<1>1. th'[u] = th[u]
  BY ThreadTypes
<1>2. Copier(u) /\ w = th[u].np
  BY <1>1 DEF Copier, Exclusive
<1>3. vec' = vec /\ lock = u /\ ~ClearFreeKey(t) /\ th[u].vec = vec
  BY <1>2, CopyMoves
<1>4. ~CopyValue(t)
  <2>1. th[t].pc = "copyval" => lock = t
    BY DEF Shape, LockOK, Copying
  <2> QED
    BY <1>3, <2>1 DEF CopyValue, At
<1>5. ASSUME NEW i \in DOMAIN tab'[w].slot
      PROVE  \/ tab'[w].slot[i] = EmptySlot
             \/ /\ IsLive(tab'[w].slot[i])
                /\ \E j \in DOMAIN tab'[vec].slot :
                     /\ tab'[vec].slot[j] = [tab'[w].slot[i] EXCEPT !.x = TRUE]
                     /\ th[u].pc \in {"copykey", "copyval"} => j < th[u].ix
  <2>1. i \in DOMAIN tab[w].slot /\ tab'[w].slot[i] = tab[w].slot[i]
    BY <1>2, <1>4, CopyUntouched
  <2> QED
    BY <1>2, <1>4, <2>1, CopiesKept
<1>6. ASSUME th[u].pc = "copyval"
      PROVE  th[u].word = FREE \/ tab'[vec].slot[th[u].ix].key \in {th[u].word, DELT}
  <2>1. PICK v, i : /\ v \in Vector /\ v = vec /\ i = th[u].ix
                    /\ tab[v].pidx # 0 /\ tab'[v].pidx # 0
    BY <1>3, VecMoves
  <2>2. i \in DOMAIN tab[v].slot /\ This(u) = tab[v].slot[i]
    BY <1>2, <1>6, <2>1, CopierReads
  <2>3. th[u].word = FREE \/ tab[v].slot[i].key \in {th[u].word, DELT}
    BY <1>2, <1>6, <2>2 DEF CopiesOK, At
  <2>4. KeyStep(t, v, i)
    BY <2>1, <2>2, KeyMoves
  <2>5. tab'[v].slot[i].key \in {tab[v].slot[i].key, DELT} \/ tab[v].slot[i].key = FREE
    <3>1. SlotFilled(t, v, i) => tab[v].slot[i].key = FREE
      BY DEF SlotFilled, EmptySlot
    <3>2. SlotCopied(t, v, i) => tab[v].slot[i].key = FREE
      BY DEF SlotCopied
    <3>3. SlotBuried(t, v, i) => tab'[v].slot[i].key = DELT
      BY DEF SlotBuried
    <3>4. ~SlotKeyFreed(t, v, i)
      BY <1>3 DEF SlotKeyFreed
    <3> QED
      BY <2>4, <3>1, <3>2, <3>3, <3>4 DEF KeyStep
  <2> QED
    BY <2>1, <2>3, <2>5, Names
<1> QED
  BY <1>1, <1>3, <1>5, <1>6 DEF CopyGoal

(* So does a step of the rehash, which adds one copy at most.              *)
LEMMA CopiesOwn ==
  ASSUME Excluding, Structure, RoomOK, CopiesOK, NEW t \in Thread, Moves(t),
         Copier(t)', NEW w \in Vector, w = th'[t].np
  PROVE  CopyGoal(t, w)
<1> USE DEF Structure
<1>1. Arrives(t) /\ th[t] \in Local /\ th'[t].pc \in Copying
  BY Arrivals, Locals DEF Copier, Shape
<1>2. RehashStart(t) \/ CopyKey(t) \/ CopyValue(t) \/ SetLimit(t)
  <2>1. ASSUME AssignLimit(t) PROVE FALSE
    <3>1. th[t].pc = "mark" /\ th'[t].op = th[t].op
      BY <1>1, <2>1, AssignLimitDoes DEF At, Local, Shape
    <3>2. th[t].op = "assign"
      BY <3>1 DEF Shape, CallsOK, CallOK, Places, Storing, Erasing, Copying, Clearing
    <3> QED
      BY <3>1, <3>2 DEF Copier, Exclusive
  <2> QED
    BY <1>1, <2>1 DEF Arrives, Copying
<1>3. CASE RehashStart(t)
  <2>1. th[t].pc = "rehash" /\ th'[t].pc = "copykey"
    BY <1>1, <1>3, RehashStartDoes DEF At, Local, Shape
  <2>2. \A i \in DOMAIN tab'[w].slot : tab'[w].slot[i] = EmptySlot
    <3>1. tab[w].pidx = 0
      BY <1>3, RehashStartMakes DEF MadeTable, Shape, VectorsOK
    <3>2. \A k \in Key : ~AssignStart(t, k)
      BY <2>1, AssignStartDoes DEF At, Shape
    <3> QED
      BY <3>1, <3>2, SlotSteps DEF SlotStep, SlotMade
  <2> QED
    BY <2>1, <2>2 DEF CopyGoal
<1>4. CASE CopyKey(t) \/ SetLimit(t)
  <2>1. /\ th[t].pc \in {"copykey", "setlimit"} /\ th'[t].op = th[t].op
        /\ th'[t].np = th[t].np /\ th'[t].vec = th[t].vec /\ th'[t].ix = th[t].ix
        /\ th[t].pc = "copykey" => th'[t].word = This(t).key /\ CopyKey(t)
        /\ th[t].pc = "setlimit" => th'[t].pc = "install"
    <3>1. CASE CopyKey(t)
      <4>1. /\ th[t].pc = "copykey"
            /\ th'[t] = [th[t] EXCEPT !.pc = "copyval", !.word = This(t).key]
        BY <3>1, CopyKeyDoes DEF At
      <4> QED
        BY <1>1, <3>1, <4>1 DEF Local
    <3>2. CASE SetLimit(t)
      <4>1. /\ th[t].pc = "setlimit" /\ th'[t] = [th[t] EXCEPT !.pc = "install"]
        BY <3>2, SetLimitDoes DEF At
      <4> QED
        BY <1>1, <3>2, <4>1 DEF Local
    <3> QED
      BY <1>4, <3>1, <3>2
  <2>2. Copier(t) /\ ~CopyValue(t) /\ ~Install(t)
    BY <2>1 DEF Copier, Exclusive, Copying, CopyValue, Install, At
  <2>3. vec' = vec /\ th[t].vec = vec
    BY <2>2, CopyMoves
  <2>4. ASSUME NEW i \in DOMAIN tab'[w].slot
        PROVE  \/ tab'[w].slot[i] = EmptySlot
               \/ /\ IsLive(tab'[w].slot[i])
                  /\ \E j \in DOMAIN tab'[vec].slot :
                       /\ tab'[vec].slot[j] = [tab'[w].slot[i] EXCEPT !.x = TRUE]
                       /\ th[t].pc \in {"copykey", "copyval"} => j < th[t].ix
    <3>1. i \in DOMAIN tab[w].slot /\ tab'[w].slot[i] = tab[w].slot[i]
      BY <2>1, <2>2, CopyUntouched
    <3> QED
      BY <2>1, <2>2, <3>1, CopiesKept
  <2>5. CopyKey(t) => tab' = tab
    BY DEF CopyKey
  <2>6. th'[t].pc = "copyval" => th[t].pc = "copykey"
    BY <2>1
  <2>7. th'[t].pc \in {"copykey", "copyval"} => th[t].pc = "copykey"
    BY <2>1
  <2>8. th'[t].pc = "copyval" => tab'[th'[t].vec].slot[th'[t].ix].key = th'[t].word
    BY <2>1, <2>5, <2>6 DEF This
  <2> QED
    BY <2>1, <2>3, <2>4, <2>7, <2>8 DEF CopyGoal
<1>5. CASE CopyValue(t)
  <2>1. /\ th[t].pc = "copyval" /\ th'[t].op = th[t].op /\ th'[t].np = th[t].np
        /\ th'[t].vec = th[t].vec /\ th'[t].pc \in {"copykey", "setlimit"}
        /\ th'[t].pc = "copykey" => th'[t].ix = th[t].ix + 1
    <3>1. th[t].pc = "copyval"
      BY <1>5 DEF CopyValue, At
    <3>2. th[t].ix + 1 \in Nat
      BY <1>1 DEF Local
    <3> QED
      BY <1>1, <1>5, <3>1, <3>2, CopyValueDoes DEF Local, Shape
  <2>2. Copier(t) /\ ~Install(t)
    BY <2>1 DEF Copier, Exclusive, Copying, Install, At
  <2>3. vec' = vec /\ th[t].vec = vec /\ w # vec /\ tab[w].pidx # 0 /\ w = th[t].np
    BY <2>1, <2>2, CopyMoves
  <2>4. th[t].ix \in Nat
    BY <1>1 DEF Local
  <2>5. ASSUME NEW i \in DOMAIN tab'[w].slot
        PROVE  \/ tab'[w].slot[i] = EmptySlot
               \/ /\ IsLive(tab'[w].slot[i])
                  /\ \E j \in DOMAIN tab'[vec].slot :
                       /\ tab'[vec].slot[j] = [tab'[w].slot[i] EXCEPT !.x = TRUE]
                       /\ j <= th[t].ix
    <3>1. SlotStep(t, w, i)
      BY SlotSteps
    <3>2. i \in DOMAIN tab[w].slot /\ (SlotSame(t, w, i) \/ SlotCopied(t, w, i))
      BY <2>1, <2>3, <3>1 DEF SlotStep, SlotMade, SlotFilled, SlotSwapped,
        SlotTaken, SlotBuried, SlotBarred, SlotKeyFreed, SlotValueFreed
    <3>3. CASE SlotSame(t, w, i)
      <4>1. tab'[w].slot[i] = tab[w].slot[i]
        BY <3>3 DEF SlotSame
      <4>2. \/ tab'[w].slot[i] = EmptySlot
            \/ /\ IsLive(tab'[w].slot[i])
               /\ \E j \in DOMAIN tab'[vec].slot :
                    /\ tab'[vec].slot[j] = [tab'[w].slot[i] EXCEPT !.x = TRUE]
                    /\ th[t].pc \in {"copykey", "copyval"} => j < th[t].ix
        BY <2>2, <2>3, <3>2, <4>1, CopiesKept
      <4>3. \A j \in DOMAIN tab'[vec].slot : j < th[t].ix => j <= th[t].ix
        <5>1. PICK v \in Vector : v = vec /\ tab[v].pidx # 0 /\ tab'[v].pidx # 0
          BY <2>3, VecMoves
        <5>2. DOMAIN tab'[v].slot = 0..Size(v) - 1 /\ Size(v) \in Nat
          BY <5>1, SizesKept
        <5> QED
          BY <2>4, <5>1, <5>2
      <4> QED
        BY <2>1, <4>2, <4>3
    <3>4. CASE SlotCopied(t, w, i)
      <4>1. /\ th[t].word \in KeyObj /\ This(t).val \in ValObj
            /\ tab'[w].slot[i] = Pair(th[t].word, This(t).val)
        BY <3>4 DEF SlotCopied
      <4>2. PICK v, j :
              /\ v \in Vector /\ v = vec /\ j = th[t].ix /\ tab[v].pidx # 0 /\ tab'[v].pidx # 0
        BY <2>3, VecMoves
      <4>3. /\ j \in DOMAIN tab[v].slot /\ This(t) = tab[v].slot[j] /\ This(t) \in SlotRec
            /\ IsLive([This(t) EXCEPT !.key = th[t].word]) => This(t).key = th[t].word
        BY <2>1, <2>2, <4>2, CopierReads
      <4>4. This(t).key = th[t].word
        <5>1. th[t].word \notin Word /\ This(t).val \notin Word
          BY <4>1, Names
        <5>2. IsLive([This(t) EXCEPT !.key = th[t].word])
          BY <4>3, <5>1 DEF IsLive, SlotRec
        <5> QED
          BY <4>3, <5>2
      <4>5. j \in DOMAIN tab'[v].slot /\ SlotStep(t, v, j)
        <5>1. DOMAIN tab'[v].slot = DOMAIN tab[v].slot
          BY <4>2, SizesKept
        <5> QED
          BY <4>2, <4>3, <5>1, SlotSteps
      <4>6. SlotBarred(t, v, j)
        BY <1>5, <2>1, <2>3, <4>2, <4>5 DEF SlotStep, SlotMade, SlotSame, Writes, SlotFilled,
          SlotSwapped, SlotTaken, SlotBuried, SlotCopied, SlotKeyFreed, SlotValueFreed,
          FillSlot, SwapValue, TakeValue, Bury, ClearFreeKey, ClearFreeValue, At
      <4>7. tab'[v].slot[j] \in SlotRec
        <5>1. IsTable(tab'[v])
          BY <4>2, TablesStep
        <5> QED
          BY <4>2, <4>5, <5>1, TableFacts
      <4>8. /\ tab'[v].slot[j].key = th[t].word /\ tab'[v].slot[j].val = This(t).val
            /\ tab'[v].slot[j].x = TRUE
        BY <4>3, <4>4, <4>6, <4>7 DEF SlotBarred, SlotRec
      <4>9. tab'[v].slot[j] = [tab'[w].slot[i] EXCEPT !.x = TRUE]
        <5>1. PICK a, b, r, s : /\ a = th[t].word /\ b = This(t).val
                                /\ r = tab'[v].slot[j] /\ s = tab'[w].slot[i]
          OBVIOUS
        <5>2. s = [key |-> a, val |-> b, x |-> FALSE]
          BY <4>1, <5>1 DEF Pair
        <5>3. r \in SlotRec /\ r.key = a /\ r.val = b /\ r.x = TRUE
          BY <4>7, <4>8, <5>1
        <5>4. r = [s EXCEPT !.x = TRUE]
          BY <5>2, <5>3 DEF SlotRec
        <5> QED
          BY <5>1, <5>4
      <4>10. IsLive(tab'[w].slot[i])
        BY <4>1, Pairs
      <4> QED
        BY <2>4, <4>2, <4>5, <4>9, <4>10
    <3> QED
      BY <3>2, <3>3, <3>4
  <2>6. ASSUME th'[t].pc = "copykey", NEW j \in DOMAIN tab'[vec].slot, j <= th[t].ix
        PROVE  j < th'[t].ix
    <3>1. PICK v \in Vector : v = vec /\ tab[v].pidx # 0 /\ tab'[v].pidx # 0
      BY <2>3, VecMoves
    <3>2. j \in Nat
      <4>1. DOMAIN tab'[v].slot = 0..Size(v) - 1 /\ Size(v) \in Nat
        BY <3>1, SizesKept
      <4> QED
        BY <2>6, <3>1, <4>1
    <3> QED
      BY <2>1, <2>4, <2>6, <3>2
  <2> QED
    BY <2>1, <2>3, <2>5, <2>6 DEF CopyGoal
<1> QED
  BY <1>2, <1>3, <1>4, <1>5

(* Every step keeps the copies true to the slots they come from.           *)
LEMMA CopiesStep ==
  ASSUME Excluding, Structure, RoomOK, CopiesOK, NEW t \in Thread, Moves(t)
  PROVE  CopiesOK'
<1>1. ASSUME NEW u \in Thread, Copier(u)'
      PROVE  CopyGoal(u, th'[u].np)
  <2>1. th'[u].np \in Vector
    <3>1. CallsOK' /\ th' \in [Thread -> Local]
      BY CallsStep, ThreadTypes DEF Structure
    <3>2. th'[u].np # Null
      BY <1>1, <3>1 DEF Copier, CallsOK, CallOK
    <3> QED
      BY <3>1, <3>2 DEF Local
  <2>2. PICK w \in Vector : w = th'[u].np
    BY <2>1
  <2>3. CopyGoal(u, w)
    BY <1>1, <2>2, CopiesOther, CopiesOwn
  <2> QED
    BY <2>2, <2>3
<1>2. ASSUME NEW u \in Thread, Copier(u)'
      PROVE  /\ \A i \in DOMAIN tab'[th'[u].np].slot :
                  LET s == tab'[th'[u].np].slot[i] IN
                  \/ s = EmptySlot
                  \/ /\ IsLive(s)
                     /\ \E j \in DOMAIN tab'[vec'].slot :
                          /\ tab'[vec'].slot[j] = [s EXCEPT !.x = TRUE]
                          /\ th'[u].pc \in {"copykey", "copyval"} => j < th'[u].ix
             /\ th'[u].pc = "copyval" =>
                  th'[u].word = FREE \/ This(u)'.key \in {th'[u].word, DELT}
  BY <1>1, <1>2 DEF CopyGoal, This
<1> QED
  BY <1>2 DEF CopiesOK, At

-----------------------------------------------------------------------------
(* Probes.                                                                 *)

(* While somebody probes no key is freed.                                  *)
LEMMA KeyEndures ==
  ASSUME Structure, RoomOK, NEW t \in Thread, Moves(t),
         NEW u \in Thread, th[u].pc \in Probing,
         NEW w \in Vector, tab[w].pidx # 0, tab'[w].pidx # 0,
         NEW i \in DOMAIN tab[w].slot, tab[w].slot[i].key # FREE
  PROVE  \/ tab'[w].slot[i].key = tab[w].slot[i].key
         \/ tab'[w].slot[i].key = DELT /\ SlotBuried(t, w, i)
<1> USE DEF Structure
<1>1. KeyStep(t, w, i)
  BY KeyMoves
<1>2. ~SlotFilled(t, w, i) /\ ~SlotCopied(t, w, i)
  BY DEF SlotFilled, SlotCopied, EmptySlot
<1>3. ~SlotKeyFreed(t, w, i)
  <2>1. ASSUME th[t].pc = "clrput" PROVE FALSE
    <3>1. Exclusive(t)
      BY <2>1 DEF Exclusive, Shape, CallsOK, CallOK, Places, Storing, Erasing, Copying, Clearing
    <3>2. u # t /\ th[u].pc # "idle"
      BY <2>1 DEF Probing
    <3> QED
      BY <3>1, <3>2 DEF AloneOK, At
  <2> QED
    BY <2>1 DEF SlotKeyFreed, ClearFreeKey, At
<1> QED
  BY <1>1, <1>2, <1>3 DEF KeyStep, SlotBuried

(* A thread whose probe stands still, or has passed one more slot.         *)
LEMMA SameVector ==
  ASSUME Structure, RoomOK, NEW t \in Thread, Moves(t),
         NEW u \in Thread, th[u].pc \in Probing, th'[u].vec = th[u].vec
  PROVE  \E w \in Vector :
           /\ w = th[u].vec /\ tab[w].pidx # 0 /\ tab'[w].pidx # 0
           /\ Size(w)' = Size(w) /\ Size(w) \in Nat \ {0}
           /\ DOMAIN tab[w].slot = 0..Size(w) - 1
           /\ tab[w].pidx \in DOMAIN Entries /\ Size(w) = Entries[tab[w].pidx]
           /\ th[u].ix \in 0..Size(w) - 1 /\ th[u].key \in Key
<1> USE DEF Structure
<1>1. th[u].vec # Null /\ th[u].op \in KeyOps /\ th[u].op # "walk" /\ th[u].op # "assign"
  BY DEF Shape, CallsOK, CallOK, Probing, Places, KeyOps, Clearing
<1>2. PICK w \in Vector : w = th[u].vec /\ tab[w].pidx # 0
  BY <1>1, Whereabouts DEF Shape
<1>3. tab'[w].pidx # 0
  BY <1>1, <1>2, SizesStep
<1>4. /\ Size(w)' = Size(w) /\ Size(w) \in Nat \ {0}
      /\ DOMAIN tab[w].slot = 0..Size(w) - 1
      /\ tab[w].pidx \in DOMAIN Entries /\ Size(w) = Entries[tab[w].pidx]
  BY <1>2, <1>3, KeyMoves
<1>5. th[u].ix \in Nat /\ th[u].ix < Size(w)
  BY <1>1, <1>2 DEF Shape, IndexOK, Types, Local
<1>6. th[u].key \in Key
  BY <1>1 DEF Shape, CallsOK, CallOK
<1> QED
  BY <1>2, <1>3, <1>4, <1>5, <1>6

(* What a probe has passed stays in use and does not become its key.       *)
LEMMA PassedStays ==
  ASSUME Structure, RoomOK, NEW t \in Thread, Moves(t),
         NEW u \in Thread, th[u].pc \in Probing, th'[u].vec = th[u].vec,
         th'[u].key = th[u].key, NEW j \in 0..th[u].ix, Passed(u, j)
  PROVE  Passed(u, j)'
<1>1. PICK w \in Vector :
        /\ w = th[u].vec /\ tab[w].pidx # 0 /\ tab'[w].pidx # 0
        /\ Size(w)' = Size(w) /\ Size(w) \in Nat \ {0}
        /\ DOMAIN tab[w].slot = 0..Size(w) - 1
        /\ tab[w].pidx \in DOMAIN Entries /\ Size(w) = Entries[tab[w].pidx]
        /\ th[u].ix \in 0..Size(w) - 1 /\ th[u].key \in Key
  BY SameVector
<1>2. PICK k, i : k \in Key /\ k = th[u].key /\ i = Pos(k, j, Size(w))
  BY <1>1
<1>3. i \in DOMAIN tab[w].slot
  <2>1. j \in Nat
    BY <1>1
  <2>2. PICK p \in DOMAIN Entries : Size(w) = Entries[p]
    BY <1>1
  <2>3. Pos(k, j, Entries[p]) \in 0..Entries[p] - 1
    BY <1>2, <2>1, Positions
  <2> QED
    BY <1>1, <1>2, <2>2, <2>3
<1>4. tab[w].slot[i].key # FREE /\ (tab[w].slot[i].key # DELT => tab[w].slot[i].key[1] # k)
  BY <1>1, <1>2 DEF Passed
<1>5. tab'[w].slot[i].key \in {tab[w].slot[i].key, DELT}
  BY <1>1, <1>3, <1>4, KeyEndures
<1>6. tab'[w].slot[i].key # FREE /\ (tab'[w].slot[i].key # DELT => tab'[w].slot[i].key[1] # k)
  BY <1>4, <1>5, Names
<1>7. Size(th[u].vec)' = Size(w)
  BY <1>1 DEF Size
<1> QED
  BY <1>1, <1>2, <1>6, <1>7 DEF Passed

(* The key that a probe has ended at stays, or is buried.                  *)
LEMMA HereStays ==
  ASSUME Structure, RoomOK, NEW t \in Thread, Moves(t),
         NEW u \in Thread, th[u].pc \in Probing, th'[u].vec = th[u].vec,
         th'[u].key = th[u].key, th'[u].ix = th[u].ix, Here(u).key # FREE
  PROVE  /\ Slot(u)' = Slot(u)
         /\ \/ Here(u)'.key = Here(u).key
            \/ /\ Here(u)'.key = DELT
               /\ th[t].pc = "bury" /\ th[t].vec = th[u].vec /\ Slot(t) = Slot(u)
<1>1. PICK w \in Vector :
        /\ w = th[u].vec /\ tab[w].pidx # 0 /\ tab'[w].pidx # 0
        /\ Size(w)' = Size(w) /\ Size(w) \in Nat \ {0}
        /\ DOMAIN tab[w].slot = 0..Size(w) - 1
        /\ tab[w].pidx \in DOMAIN Entries /\ Size(w) = Entries[tab[w].pidx]
        /\ th[u].ix \in 0..Size(w) - 1 /\ th[u].key \in Key
  BY SameVector
<1>2. PICK i : i = Slot(u) /\ i = Pos(th[u].key, th[u].ix, Size(w))
  BY <1>1 DEF Slot
<1>3. i \in DOMAIN tab[w].slot
  <2>1. th[u].ix \in Nat
    BY <1>1
  <2>2. PICK p \in DOMAIN Entries, k \in Key, a \in Nat :
          Size(w) = Entries[p] /\ k = th[u].key /\ a = th[u].ix
    BY <1>1, <2>1
  <2>3. Pos(k, a, Entries[p]) \in 0..Entries[p] - 1
    BY Positions
  <2> QED
    BY <1>1, <1>2, <2>2, <2>3
<1>4. Slot(u)' = i
  <2>1. Size(th[u].vec)' = Size(w)
    BY <1>1 DEF Size
  <2> QED
    BY <1>2, <2>1 DEF Slot
<1>5. Here(u) = tab[w].slot[i] /\ Here(u)' = tab'[w].slot[i]
  BY <1>1, <1>2, <1>4 DEF Here
<1>6. \/ tab'[w].slot[i].key = tab[w].slot[i].key
      \/ tab'[w].slot[i].key = DELT /\ SlotBuried(t, w, i)
  BY <1>1, <1>3, <1>5, KeyEndures
<1>7. SlotBuried(t, w, i) => th[t].pc = "bury" /\ th[t].vec = w /\ Slot(t) = i
  BY DEF SlotBuried, Bury, At
<1> QED
  BY <1>1, <1>2, <1>4, <1>5, <1>6, <1>7

(* Every step keeps what probes have passed.                               *)
LEMMA PassedStep ==
  ASSUME Structure, RoomOK, ProbesOK, NEW t \in Thread, Moves(t),
         NEW u \in Thread, th'[u].pc \in Probing, NEW j \in 0..th'[u].ix - 1
  PROVE  Passed(u, j)'
<1>0. th[u].ix \in Nat /\ (u # t => th'[u] = th[u])
  BY ThreadTypes DEF Structure, Shape, Types, Local
<1>1. CASE u # t
  <2>1. Passed(u, j) /\ j \in 0..th[u].ix
    BY <1>0, <1>1 DEF ProbesOK
  <2> QED
    BY <1>0, <1>1, <2>1, PassedStays
<1>2. CASE u = t
  <2>0. ProbesBy(t)
    BY ProbeMoves DEF Structure
  <2>1. CASE th'[t].ix = 0
    BY <1>2, <2>1
  <2>2. CASE th'[t].ix # 0
    <3>1. /\ th[t].pc \in Probing /\ th'[t].vec = th[t].vec /\ th'[t].key = th[t].key
          /\ \/ th'[t].ix = th[t].ix
             \/ th'[t].ix = th[t].ix + 1 /\ Passed(t, th[t].ix)
      BY <1>2, <2>0, <2>2 DEF ProbesBy, Probing
    <3>2. j \in 0..th[t].ix /\ Passed(t, j)
      BY <1>0, <1>2, <3>1 DEF ProbesOK
    <3> QED
      BY <1>2, <3>1, <3>2, PassedStays
  <2> QED
    BY <2>1, <2>2
<1> QED
  BY <1>1, <1>2

(* Where a probe has ended.                                                *)
LEMMA EndedStep ==
  ASSUME Structure, RoomOK, ProbesOK, NEW t \in Thread, Moves(t),
         NEW u \in Thread, th'[u].pc \in Ended
  PROVE  /\ Slot(u)' = Slot(u) /\ th'[u].vec = th[u].vec
         /\ Here(u)'.key # DELT => Here(u)'.key[1] = th'[u].key
         /\ th'[u].pc \in {"oldval", "take"} => Here(u)'.key \in {th'[u].kobj, DELT}
         /\ th'[u].pc \in {"uncount", "bury"} => Here(u)'.key = th'[u].kobj
         /\ th'[u].pc \in {"uncount", "bury"} =>
              (th[u].pc \in {"uncount", "bury"} \/ (u = t /\ TakeValue(t)))
<1> USE DEF Structure
<1>0. ProbesBy(t) /\ (u # t => th'[u] = th[u])
  BY ProbeMoves, ThreadTypes
<1>1. /\ th[u].pc \in Probing
      /\ th'[u].vec = th[u].vec /\ th'[u].key = th[u].key /\ th'[u].ix = th[u].ix
      /\ th[u].pc \in Ended \/ (th[u].pc = "probe" /\ Here(u).key \notin Word
                                  /\ Here(u).key[1] = th[u].key)
      /\ th'[u].pc = "oldval" =>
           th'[u].kobj = Here(u).key \/ (th[u].pc = "oldval" /\ th'[u].kobj = th[u].kobj)
      /\ th'[u].pc = "take" => th[u].pc \in {"oldval", "take"} /\ th'[u].kobj = th[u].kobj
      /\ th'[u].pc \in {"uncount", "bury"} =>
           /\ th'[u].kobj = th[u].kobj
           /\ \/ th[u].pc \in {"uncount", "bury"} /\ (u # t \/ CountDown(t))
              \/ u = t /\ TakeValue(t)
  <2>1. CASE u # t
    BY <1>0, <2>1 DEF Ended, Probing
  <2>2. CASE u = t
    <3>1. CountDown(t) => th[t].pc = "uncount"
      BY DEF CountDown, At
    <3> QED
      BY <1>0, <2>2, <3>1 DEF ProbesBy, Ended, Probing
  <2> QED
    BY <2>1, <2>2
<1>2. Here(u).key # FREE
  BY <1>1 DEF Shape, TakenOK, Word
<1>3. Here(u).key # DELT => Here(u).key[1] = th[u].key
  BY <1>1 DEF ProbesOK
<1>4. /\ Slot(u)' = Slot(u)
      /\ \/ Here(u)'.key = Here(u).key
         \/ /\ Here(u)'.key = DELT
            /\ th[t].pc = "bury" /\ th[t].vec = th[u].vec /\ Slot(t) = Slot(u)
  BY <1>1, <1>2, HereStays
<1>5. Here(u)'.key # DELT => Here(u)'.key[1] = th'[u].key
  BY <1>1, <1>3, <1>4
<1>6. th'[u].pc \in {"oldval", "take"} => Here(u)'.key \in {th'[u].kobj, DELT}
  BY <1>1, <1>4 DEF ProbesOK
<1>7. ASSUME th'[u].pc \in {"uncount", "bury"} PROVE Here(u)'.key = th'[u].kobj
  <2>1. CASE u = t /\ TakeValue(t)
    <3>1. th[t].pc = "take" /\ Here(t).val = th[t].word
      BY <2>1 DEF TakeValue, At
    <3>2. Here(t).key \in {th[t].kobj, DELT}
      BY <3>1 DEF ProbesOK
    <3>3. th[t].word \in ValObj
      BY <3>1 DEF Shape, CallsOK, CallOK
    <3>4. Here(t).key # DELT
      <4>1. th[t].vec \in Vector /\ Slot(t) \in DOMAIN tab[th[t].vec].slot
        BY <3>1, Found DEF Shape
      <4> QED
        BY <3>1, <3>3, <4>1, Names DEF Shape, SlotsOK, Here, Word
    <3> QED
      BY <1>1, <1>4, <1>7, <2>1, <3>1, <3>2, <3>4
  <2>2. CASE th[u].pc \in {"uncount", "bury"} /\ (u # t \/ CountDown(t))
    <3>1. Here(u).key = th[u].kobj
      BY <2>2 DEF ProbesOK
    <3>2. ~(th[t].pc = "bury" /\ th[t].vec = th[u].vec /\ Slot(t) = Slot(u))
      <4>1. CASE u # t
        BY <2>2, <4>1 DEF ProbesOK
      <4>2. CASE CountDown(t)
        BY <4>2 DEF CountDown, At
      <4> QED
        BY <2>2, <4>1, <4>2
    <3> QED
      BY <1>1, <1>4, <1>7, <3>1, <3>2
  <2> QED
    BY <1>1, <1>7, <2>1, <2>2
<1> QED
  BY <1>1, <1>4, <1>5, <1>6, <1>7

(* Two threads never erase in the same slot.                               *)
LEMMA ErasersApart ==
  ASSUME Structure, RoomOK, ProbesOK, NEW t \in Thread, Moves(t),
         NEW u \in Thread, NEW v \in Thread \ {t}, u # v,
         th'[u].pc \in {"uncount", "bury"}, th'[v].pc \in {"uncount", "bury"},
         th'[u].vec = th'[v].vec
  PROVE  Slot(u)' # Slot(v)'
<1> USE DEF Structure
<1>1. th'[v] = th[v]
  BY ThreadTypes
<1>2. /\ Slot(u)' = Slot(u) /\ Slot(v)' = Slot(v)
      /\ th[u].vec = th[v].vec
      /\ th[u].pc \in {"uncount", "bury"} \/ (u = t /\ TakeValue(t))
  BY EndedStep DEF Ended
<1>3. CASE th[u].pc \in {"uncount", "bury"}
  BY <1>1, <1>2, <1>3 DEF ProbesOK
<1>4. CASE u = t /\ TakeValue(t)
  <2>1. th[t].pc = "take" /\ Here(t).val = th[t].word
    BY <1>4 DEF TakeValue, At
  <2>2. Here(t).val # DELT
    BY <2>1, Names DEF Shape, CallsOK, CallOK, Word
  <2>3. Here(v).val = DELT
    BY <1>1 DEF Shape, TakenOK
  <2>4. Slot(u) = Slot(v) => Here(v) = Here(t)
    BY <1>2, <1>4 DEF Here
  <2> QED
    BY <1>2, <2>2, <2>3, <2>4
<1> QED
  BY <1>2, <1>3, <1>4

(* Every step keeps the probes right, and two erasers apart.               *)
LEMMA ProbesStep ==
  ASSUME Excluding, Structure, RoomOK, ProbesOK, NEW t \in Thread, Moves(t)
  PROVE  ProbesOK'
<1>1. ASSUME NEW u \in Thread, th'[u].pc \in {"uncount", "bury"},
             NEW v \in Thread \ {u}, th'[v].pc \in {"uncount", "bury"},
             th'[v].vec = th'[u].vec
      PROVE  Slot(v)' # Slot(u)'
  BY <1>1, ErasersApart
<1>2. ASSUME NEW u \in Thread, th'[u].pc \in {"uncount", "bury"}
      PROVE  Here(u)'.val = DELT
  <2>1. TakenOK'
    BY TakenStep DEF Structure, Shape
  <2> QED
    BY <1>2, <2>1 DEF TakenOK
<1>3. ASSUME NEW u \in Thread, th'[u].pc \in Ended
      PROVE  /\ Here(u)'.key # DELT => Here(u)'.key[1] = th'[u].key
             /\ th'[u].pc \in {"oldval", "take"} => Here(u)'.key \in {th'[u].kobj, DELT}
             /\ th'[u].pc \in {"uncount", "bury"} => Here(u)'.key = th'[u].kobj
  BY <1>3, EndedStep
<1>4. ASSUME NEW u \in Thread, th'[u].pc \in Probing, NEW j \in 0..th'[u].ix - 1
      PROVE  Passed(u, j)'
  BY <1>4, PassedStep
<1> QED
  BY <1>1, <1>2, <1>3, <1>4 DEF ProbesOK, Ended, At

-----------------------------------------------------------------------------
(* The whole of it.                                                        *)

(* An empty table has whole chains and no key twice.                       *)
LEMMA InitSlots ==
  ASSUME Init
  PROVE  SlotsInv
<1>1. \A t \in Thread : th[t].pc = "idle" /\ th[t].np = Null
  BY DEF Init, Rest
<1>2. /\ vec \in Vector /\ tab[vec].pidx = 1
      /\ \A i \in DOMAIN tab[vec].slot : tab[vec].slot[i] = EmptySlot
      /\ \A w \in Vector : w # vec => tab[w].pidx = 0 /\ DOMAIN tab[w].slot = {}
  BY FirstVector DEF NoTable
<1>3. ChainsOK
  <2>1. ASSUME NEW k \in Key, NEW j \in 0..Size(vec) - 1
        PROVE  tab[vec].slot[Pos(k, j, Size(vec))].key = FREE
    <3>1. 1 \in DOMAIN Entries /\ Size(vec) = Entries[1]
      BY <1>2, Sizes DEF Size
    <3>2. Pos(k, j, Entries[1]) \in 0..Entries[1] - 1
      BY <2>1, <3>1, Positions
    <3>3. DOMAIN tab[vec].slot = 0..Entries[1] - 1
      BY FirstVector
    <3> QED
      BY <1>2, <3>1, <3>2, <3>3 DEF EmptySlot
  <2>2. Chained(vec)
    BY <2>1 DEF Chained, Word
  <2> QED
    BY <1>2, <2>2 DEF ChainsOK
<1>4. ProbesOK
  BY <1>1 DEF ProbesOK, Probing, Ended
<1>5. CopiesOK
  BY <1>1 DEF CopiesOK, Copier, Copying
<1>6. OneSlotPerKey
  BY <1>2 DEF OneSlotPerKey, EmptySlot, Word
<1> QED
  BY <1>3, <1>4, <1>5, <1>6 DEF SlotsInv

(* A step that changes nothing keeps all of it.                            *)
LEMMA SlotsStutter ==
  ASSUME SlotsInv, UNCHANGED vars
  PROVE  SlotsInv'
<1>1. /\ role' = role /\ vec' = vec /\ limit' = limit /\ lock' = lock /\ tab' = tab
      /\ life' = life /\ waits' = waits /\ th' = th
  BY DEF vars
<1> USE DEF SlotsInv
<1>2. ChainsOK'
  BY <1>1 DEF ChainsOK, Chained, Size
<1>3. ProbesOK'
  <2>1. ASSUME NEW t \in Thread
        PROVE  Slot(t)' = Slot(t) /\ Here(t)' = Here(t)
    BY <1>1 DEF Here, Slot, Size
  <2>2. ASSUME NEW t \in Thread, NEW j, Passed(t, j)
        PROVE  Passed(t, j)'
    BY <1>1, <2>2 DEF Passed, Size
  <2> QED
    BY <1>1, <2>1, <2>2 DEF ProbesOK
<1>4. CopiesOK'
  <2>1. ASSUME NEW u \in Thread, Copier(u)'
        PROVE  Copier(u)
    BY <1>1, <2>1 DEF Copier, Exclusive
  <2>2. ASSUME NEW u \in Thread, Copier(u)'
        PROVE  /\ \A i \in DOMAIN tab[th[u].np].slot :
                    LET s == tab[th[u].np].slot[i] IN
                    \/ s = EmptySlot
                    \/ /\ IsLive(s)
                       /\ \E j \in DOMAIN tab[vec].slot :
                            /\ tab[vec].slot[j] = [s EXCEPT !.x = TRUE]
                            /\ th[u].pc \in {"copykey", "copyval"} => j < th[u].ix
               /\ th[u].pc = "copyval" =>
                    th[u].word = FREE \/ This(u).key \in {th[u].word, DELT}
    BY <2>1, <2>2 DEF CopiesOK, At
  <2>3. ASSUME NEW u \in Thread
        PROVE  This(u)' = This(u)
    BY <1>1 DEF This
  <2> QED
    BY <1>1, <2>2, <2>3 DEF CopiesOK, At
<1>5. OneSlotPerKey'
  BY <1>1 DEF OneSlotPerKey
<1> QED
  BY <1>2, <1>3, <1>4, <1>5

(* SlotsInv is an invariant along with Core.                               *)
LEMMA SlotsInvStep ==
  ASSUME Excluding, Core, SlotsInv, [Next]_vars
  PROVE  SlotsInv'
<1>1. ASSUME NEW t \in Thread, Moves(t)
      PROVE  SlotsInv'
  <2> USE DEF Core, SlotsInv
  <2>1. ChainsOK'
    BY <1>1, ChainsStep
  <2>2. ProbesOK'
    BY <1>1, ProbesStep
  <2>3. CopiesOK'
    BY <1>1, CopiesStep
  <2>4. OneSlotPerKey'
    BY <1>1, OneSlotStep
  <2> QED
    BY <2>1, <2>2, <2>3, <2>4
<1>2. CASE Next
  BY <1>1, <1>2 DEF Next, Moves
<1>3. CASE UNCHANGED vars
  BY <1>3, SlotsStutter
<1> QED
  BY <1>2, <1>3

(* Every chain of probes is without gaps, no probe has passed its key, and *)
(* what a rehash copies is what it has read (_Lookup, _Insert, _Upsert,    *)
(* _Rehash).                                                               *)
THEOREM ChainsAreWhole ==
  ASSUME Excluding, IsFiniteSet(Thread)
  PROVE  Spec => [](Core /\ SlotsInv)
<1>1. Init => Core /\ SlotsInv
  BY InitCore, InitSlots
<1>2. Core /\ SlotsInv /\ [Next]_vars => Core' /\ SlotsInv'
  BY CoreStep, SlotsInvStep
<1> QED
  BY <1>1, <1>2, PTL DEF Spec

(* A key has one slot in the vector in use, whatever insertions, erasures  *)
(* and rehashes run into one another (_Upsert, _Erase and _Rehash).        *)
THEOREM KeysHaveOneSlot ==
  ASSUME Excluding, IsFiniteSet(Thread)
  PROVE  Spec => []OneSlotPerKey
<1>1. SlotsInv => OneSlotPerKey
  BY DEF SlotsInv
<1> QED
  BY <1>1, ChainsAreWhole, PTL
=============================================================================
