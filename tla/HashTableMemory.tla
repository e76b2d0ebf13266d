-------------------------- MODULE HashTableMemory ---------------------------
(* Proofs about the hash table, for any number of threads, keys, slots and *)
(* vectors: every key and value has one owner, which alone finalizes it,   *)
(* and no thread comes to what was destroyed.                              *)
EXTENDS HashTableProofs

-----------------------------------------------------------------------------
(* What a step does to the life of a key or a value.                       *)

LifeKept(t, o) ==
  /\ \/ waits'[o] = waits[o]
     \/ waits'[o] = waits[o] \ {t} /\ th'[t] = Rest
  /\ \/ life'[o] = life[o]
     \/ life[o] = "retired" /\ waits'[o] = {} /\ life'[o] = "gone"

LifeMade(t, o) ==
  life'[o] = "live" /\ (life[o] = "free" \/ o \in Made(t))

(* It is freed by who has made it, and did not store it,                   *)
LifeDropped(t, o) ==
  /\ o \in Made(t) /\ o \notin Held(t)' /\ life'[o] = "gone"
  /\ \/ UpdateInPlace(t) \/ OutOfMemory(t) \/ StoreFails(t)
     \/ SwapValue(t) /\ o = th[t].kobj

(* or finalized by who has taken it.                                       *)
LifeRetired(t, o) ==
  /\ \A u \in Thread : InCs(u) /\ InCs(u)' => u \in waits'[o]
  /\ life'[o] = IF life[o] # "live" THEN "twice"
                ELSE IF waits'[o] = {} THEN "gone" ELSE "retired"
  /\ \/ SwapValue(t) /\ o = th[t].word
     \/ Bury(t) /\ o \in {th[t].kobj, th[t].word}
     \/ Mark(t) /\ This(t).val \in ValObj /\ o \in {This(t).key, This(t).val}
     \/ ClearFreeValue(t) /\ o \in {th[t].kobj, This(t).val}

LifeStep(t, o) ==
  LifeKept(t, o) \/ LifeMade(t, o) \/ LifeDropped(t, o) \/ LifeRetired(t, o)

(* A key or a value is an object of its own kind.                          *)
LEMMA Elements ==
  ASSUME NEW o \in Elem
  PROVE  /\ o \in Obj /\ o \notin Vector /\ o \notin Word /\ o # Null
         /\ o \in KeyObj => o \notin ValObj
  BY Names DEF Elem

(* A call that is over holds nothing.                                      *)
LEMMA NothingHeld ==
  ASSUME NEW t \in Thread, th'[t] = Rest
  PROVE  Held(t)' = {} /\ ~InCs(t)'
  BY DEF Held, Made, Taken, Rest, Puts, At, InCs

(* Where nobody leaves a section, who is waited for does not change.       *)
LEMMA MemoryStays ==
  ASSUME Types, NEW new, NEW freed, NEW retired, Memory(new, freed, retired, {}),
         NEW o \in Obj, o \notin new, o \notin freed, o \notin retired
  PROVE  /\ waits'[o] = waits[o]
         /\ life'[o] = life[o] \/ (life[o] = "retired" /\ waits'[o] = {} /\ life'[o] = "gone")
<1>1. PICK left : left = {}
  OBVIOUS
<1>2. Memory(new, freed, retired, left)
  BY <1>1
<1>3. o \notin new \cup freed \cup retired
  OBVIOUS
<1>4. /\ waits'[o] = waits[o] \ left
      /\ life'[o] = IF life[o] = "retired" /\ waits'[o] = {} THEN "gone" ELSE life[o]
  BY <1>2, <1>3, MemoryStep
<1>5. waits[o] \in SUBSET Thread
  BY DEF Types
<1>6. waits'[o] = waits[o]
  BY <1>1, <1>4, <1>5
<1> QED
  BY <1>4, <1>6

(* What a step does to the life of a key or a value is one of the four.    *)
LEMMA LifeSteps ==
  ASSUME Shape, ErasersOK, NEW t \in Thread, Moves(t), NEW o \in Elem
  PROVE  LifeStep(t, o)
<1> USE DEF Shape
<1>a. /\ th[t].own \in ValObj \cup {Null} /\ th[t].kobj \in KeyObj \cup Word \cup {Null}
      /\ CallOK(t) /\ th[t] \in Local
  BY DEF Types, Local, CallsOK
<1>b. o \in Obj /\ o \notin Word /\ o # Null /\ o \notin Vector
  BY Elements
<1>c. \A freed, retired, ts :
        Done(t, freed, retired, ts) =>
          /\ th'[t] = Rest /\ Held(t)' = {}
          /\ o \in freed => life'[o] = "gone"
          /\ o \notin freed \cup retired => LifeStep(t, o)
          /\ o \notin freed /\ o \in retired =>
               /\ \A u \in Thread : InCs(u) /\ InCs(u)' => u \in waits'[o]
               /\ life'[o] = IF life[o] # "live" THEN "twice"
                             ELSE IF waits'[o] = {} THEN "gone" ELSE "retired"
  <2> TAKE freed, retired, ts
  <2> HAVE Done(t, freed, retired, ts)
  <2>1. Memory({}, freed, retired, {t}) /\ th'[t] = Rest
    BY DEF Done, Types
  <2>2. Held(t)' = {} /\ ~InCs(t)'
    BY <2>1, NothingHeld
  <2>3. ASSUME o \notin freed \cup retired PROVE LifeStep(t, o)
    BY <1>b, <2>1, <2>3, MemoryStep DEF LifeStep, LifeKept
  <2>4. ASSUME o \notin freed, o \in retired
        PROVE  /\ \A u \in Thread : InCs(u) /\ InCs(u)' => u \in waits'[o]
               /\ life'[o] = IF life[o] # "live" THEN "twice"
                             ELSE IF waits'[o] = {} THEN "gone" ELSE "retired"
    BY <1>b, <2>1, <2>2, <2>4, MemoryStep
  <2>5. o \in freed => life'[o] = "gone"
    BY <1>b, <2>1, MemoryStep
  <2> QED
    BY <2>1, <2>2, <2>3, <2>4, <2>5
<1>d. \A new, retired :
        Memory(new, {}, retired, {}) =>
          /\ o \notin new \cup retired => LifeStep(t, o)
          /\ o \in new => life'[o] = "live"
          /\ o \notin new /\ o \in retired =>
               /\ \A u \in Thread : InCs(u) /\ InCs(u)' => u \in waits'[o]
               /\ life'[o] = IF life[o] # "live" THEN "twice"
                             ELSE IF waits'[o] = {} THEN "gone" ELSE "retired"
  <2> TAKE new, retired
  <2> HAVE Memory(new, {}, retired, {})
  <2>1. ASSUME o \notin new \cup retired PROVE LifeStep(t, o)
    BY <1>b, <2>1, MemoryStays DEF LifeStep, LifeKept
  <2>2. ASSUME o \notin new, o \in retired
        PROVE  /\ \A u \in Thread : InCs(u) /\ InCs(u)' => u \in waits'[o]
               /\ life'[o] = IF life[o] # "live" THEN "twice"
                             ELSE IF waits'[o] = {} THEN "gone" ELSE "retired"
    BY <1>b, <2>2, MemoryStep
  <2> QED
    BY <1>b, <2>1, <2>2, MemoryStep
<1>e. UNCHANGED <<life, waits>> => LifeStep(t, o)
  BY DEF LifeStep, LifeKept
<1>f. Puts(t) /\ ~At(t, "count") => Made(t) = {th[t].own, th[t].kobj}
  BY DEF Made
<1>1. CASE ProbeFree(t)
  BY <1>e, <1>1 DEF ProbeFree
<1>2. CASE ProbeMatch(t)
  BY <1>e, <1>2 DEF ProbeMatch
<1>3. CASE ProbeNext(t)
  BY <1>e, <1>3 DEF ProbeNext
<1>4. CASE FindValue(t)
  BY <1>e, <1>4 DEF FindValue
<1>5. CASE PutWait(t)
  BY <1>e, <1>5 DEF PutWait
<1>6. CASE FillSlot(t)
  BY <1>e, <1>6 DEF FillSlot
<1>7. CASE OldKey(t)
  BY <1>e, <1>7 DEF OldKey
<1>8. CASE OldValue(t)
  BY <1>e, <1>8 DEF OldValue
<1>9. CASE TakeValue(t)
  BY <1>e, <1>9 DEF TakeValue
<1>10. CASE TakeFails(t)
  BY <1>e, <1>10 DEF TakeFails
<1>11. CASE CountDown(t)
  BY <1>e, <1>11 DEF CountDown
<1>12. CASE NoRehash(t)
  BY <1>e, <1>12 DEF NoRehash
<1>13. CASE CopyKey(t)
  BY <1>e, <1>13 DEF CopyKey
<1>14. CASE CopyValue(t)
  BY <1>e, <1>14 DEF CopyValue
<1>15. CASE SetLimit(t)
  BY <1>e, <1>15 DEF SetLimit
<1>16. CASE AssignAcquire(t)
  BY <1>e, <1>16 DEF AssignAcquire
<1>17. CASE AssignLimit(t)
  BY <1>e, <1>17 DEF AssignLimit
<1>18. CASE ClearStart(t)
  BY <1>e, <1>18 DEF ClearStart, Call
<1>19. CASE ClearAcquire(t)
  BY <1>e, <1>19 DEF ClearAcquire
<1>20. CASE ClearReadKey(t)
  BY <1>e, <1>20 DEF ClearReadKey
<1>21. CASE ClearFreeKey(t)
  BY <1>e, <1>21 DEF ClearFreeKey
<1>22. CASE ClearSetLimit(t)
  BY <1>e, <1>22 DEF ClearSetLimit
<1>23. CASE WalkStart(t)
  BY <1>e, <1>23 DEF WalkStart, Call
<1>24. CASE WalkKey(t)
  BY <1>e, <1>24 DEF WalkKey
<1>25. CASE WalkValue(t)
  BY <1>e, <1>25 DEF WalkValue
<1>26. CASE Answer(t)
  BY <1>c, <1>26 DEF Answer
<1>27. CASE CountUp(t)
  BY <1>c, <1>27 DEF CountUp
<1>28. CASE ClearDone(t)
  BY <1>c, <1>28 DEF ClearDone
<1>29. CASE WalkEnd(t)
  BY <1>c, <1>29 DEF WalkEnd
<1>30. CASE UpdateInPlace(t)
  <2>1. Puts(t) /\ ~At(t, "count") /\ Done(t, Only(th[t].kobj), {}, tab)
    BY <1>30 DEF UpdateInPlace, Puts, At
  <2>2. CASE o \in Only(th[t].kobj)
    BY <1>c, <1>f, <1>30, <2>1, <2>2 DEF LifeStep, LifeDropped, Only
  <2>3. CASE o \notin Only(th[t].kobj)
    BY <1>c, <2>1, <2>3
  <2> QED
    BY <2>2, <2>3
<1>31. CASE OutOfMemory(t)
  <2>1. Done(t, Only(th[t].own) \cup Only(th[t].kobj), {}, tab)
    BY <1>31 DEF OutOfMemory
  <2>2. th[t].pc \in {"limit", "rehash"}
    BY <1>31 DEF OutOfMemory, At
  <2>3. CASE o \in Only(th[t].own) \cup Only(th[t].kobj)
    <3>1. o = th[t].own \/ o = th[t].kobj
      BY <2>3 DEF Only
    <3>2. th[t].op \in {"insert", "update", "erase"}
      BY <1>a, <2>2 DEF CallOK, Places, Copying, Clearing
    <3>3. th[t].op # "erase"
      BY <1>a, <1>b, <2>2, <3>1 DEF CallOK, ErasersOK
    <3>4. o \in Made(t)
      BY <1>f, <2>2, <3>1, <3>2, <3>3 DEF Puts, At
    <3> QED
      BY <1>c, <1>31, <2>1, <3>4 DEF LifeStep, LifeDropped
  <2>4. CASE o \notin Only(th[t].own) \cup Only(th[t].kobj)
    BY <1>c, <2>1, <2>4
  <2> QED
    BY <2>3, <2>4
<1>32. CASE SwapValue(t)
  <2>1. PICK ts : Done(t, Only(th[t].kobj), {th[t].word}, ts)
    BY <1>32 DEF SwapValue
  <2>2. At(t, "swap") /\ Puts(t)
    BY <1>a, <1>32 DEF SwapValue, CallOK, Places, At, Puts, Copying, Clearing, Erasing
  <2>3. CASE o \in Only(th[t].kobj)
    BY <1>c, <1>f, <1>32, <2>1, <2>2, <2>3 DEF LifeStep, LifeDropped, Only, At
  <2>4. CASE o = th[t].word /\ o \notin Only(th[t].kobj)
    BY <1>c, <1>32, <2>1, <2>4 DEF LifeStep, LifeRetired
  <2>5. CASE o \notin Only(th[t].kobj) \cup {th[t].word}
    BY <1>c, <2>1, <2>5
  <2> QED
    BY <2>3, <2>4, <2>5
<1>33. CASE Bury(t)
  <2>1. PICK ts : Done(t, {}, Only(th[t].kobj) \cup Only(th[t].word), ts)
    BY <1>33 DEF Bury
  <2>2. CASE o \in Only(th[t].kobj) \cup Only(th[t].word)
    BY <1>c, <1>33, <2>1, <2>2 DEF LifeStep, LifeRetired, Only
  <2>3. CASE o \notin Only(th[t].kobj) \cup Only(th[t].word)
    BY <1>c, <2>1, <2>3
  <2> QED
    BY <2>2, <2>3
<1>34. CASE PutValue(t)
  <2>1. PICK v \in IF th[t].op = "insert" THEN {th[t].own} ELSE Fresh(ValObj) :
          Memory({v}, {}, {}, {})
    BY <1>34 DEF PutValue
  <2>2. CASE o = v
    <3>1. life[v] = "free" \/ v = th[t].own
      BY <2>1 DEF Fresh
    <3>2. Puts(t) /\ ~At(t, "count")
      BY <1>34 DEF PutValue, At
    <3>3. life'[o] = "live"
      BY <1>d, <2>1, <2>2
    <3> QED
      BY <1>f, <2>2, <3>1, <3>2, <3>3 DEF LifeStep, LifeMade
  <2>3. CASE o # v
    BY <1>d, <2>1, <2>3
  <2> QED
    BY <2>2, <2>3
<1>35. CASE DecrLimit(t)
  <2>1. PICK k \in IF th[t].kobj = Null THEN Fresh({th[t].key} \X (1..Copies))
                   ELSE {th[t].kobj},
             v \in IF th[t].op = "insert" THEN {th[t].own} ELSE Fresh(ValObj) :
          Memory({k, v}, {}, {}, {})
    BY <1>35 DEF DecrLimit
  <2>2. CASE o \in {k, v}
    <3>1. (life[k] = "free" \/ k = th[t].kobj) /\ (life[v] = "free" \/ v = th[t].own)
      BY <2>1 DEF Fresh
    <3>2. Puts(t) /\ ~At(t, "count")
      BY <1>a, <1>35 DEF DecrLimit, At, CallOK, Places, Puts, Copying, Clearing, Erasing
    <3>3. life'[o] = "live"
      BY <1>d, <2>1, <2>2
    <3> QED
      BY <1>f, <2>2, <3>1, <3>2, <3>3 DEF LifeStep, LifeMade
  <2>3. CASE o \notin {k, v}
    BY <1>d, <2>1, <2>3
  <2> QED
    BY <2>2, <2>3
<1>36. CASE StoreFails(t)
  <2>1. Memory({}, Only(th[t].own) \ Only(Kept(t)), {}, {}) /\ th[t].pc \in {"swap", "dcas"}
    BY <1>36 DEF StoreFails, StoreMustFail, At
  <2>2. CASE o \in Only(th[t].own) \ Only(Kept(t))
    <3>1. o = th[t].own /\ o # Kept(t)
      BY <1>b, <2>2 DEF Only
    <3>2. Puts(t) /\ o \in Made(t)
      BY <1>a, <1>f, <2>1, <3>1 DEF CallOK, Places, Puts, At, Copying, Clearing, Erasing
    <3>3. /\ th'[t].pc = "probe" /\ th'[t].op = th[t].op
          /\ th'[t].own = Kept(t) /\ th'[t].kobj = th[t].kobj
      BY <1>36, StoreFailsDoes
    <3>4. Held(t)' = {Kept(t), th[t].kobj}
      BY <3>2, <3>3 DEF Held, Made, Taken, Puts, At
    <3>5. o # th[t].kobj
      BY <1>a, <1>b, <3>1, Names
    <3>6. life'[o] = "gone"
      BY <1>b, <2>1, <2>2, MemoryStep
    <3> QED
      BY <1>36, <3>1, <3>2, <3>4, <3>5, <3>6 DEF LifeStep, LifeDropped
  <2>3. CASE o \notin Only(th[t].own) \ Only(Kept(t))
    BY <1>b, <2>1, <2>3, MemoryStays DEF LifeStep, LifeKept
  <2> QED
    BY <2>2, <2>3
<1>37. CASE RehashStart(t)
  <2>1. PICK w \in Fresh(Vector) : Memory({w}, {}, {}, {})
    BY <1>37 DEF RehashStart
  <2> QED
    BY <1>b, <1>d, <2>1 DEF Fresh
<1>38. CASE Install(t)
  <2>1. Memory({}, {}, {th[t].vec}, {})
    BY <1>38 DEF Install
  <2>2. th[t].vec \in Vector \cup {Null}
    BY <1>a DEF Local
  <2> QED
    BY <1>b, <1>d, <2>1, <2>2
<1>39. CASE AssignInstall(t)
  <2>1. Done(t, {}, {th[t].vec}, tab)
    BY <1>39 DEF AssignInstall
  <2>2. th[t].vec \in Vector \cup {Null}
    BY <1>a DEF Local
  <2> QED
    BY <1>b, <1>c, <2>1, <2>2
<1>40. CASE Mark(t)
  <2>1. /\ Memory({}, {}, IF This(t).val \in Word THEN {} ELSE {This(t).key, This(t).val}, {})
        /\ This(t).val \in ValObj \cup Word
    BY <1>40, Locals DEF Mark, At
  <2>2. CASE This(t).val \in Word
    BY <1>d, <2>1, <2>2
  <2>3. CASE This(t).val \notin Word
    <3>1. CASE o \in {This(t).key, This(t).val}
      BY <1>d, <1>40, <2>1, <2>3, <3>1 DEF LifeStep, LifeRetired
    <3>2. CASE o \notin {This(t).key, This(t).val}
      BY <1>d, <2>1, <2>3, <3>2
    <3> QED
      BY <3>1, <3>2
  <2> QED
    BY <2>2, <2>3
<1>41. CASE ClearFreeValue(t)
  <2>1. Memory({}, {}, Only(th[t].kobj) \cup Only(This(t).val), {})
    BY <1>41 DEF ClearFreeValue
  <2>2. CASE o \in Only(th[t].kobj) \cup Only(This(t).val)
    BY <1>d, <1>41, <2>1, <2>2 DEF LifeStep, LifeRetired, Only
  <2>3. CASE o \notin Only(th[t].kobj) \cup Only(This(t).val)
    BY <1>d, <2>1, <2>3
  <2> QED
    BY <2>2, <2>3
<1>42. ASSUME NEW k \in Key, InsertStart(t, k)
       PROVE  LifeStep(t, o)
  <2>1. PICK v \in Fresh(ValObj) : Memory({v}, {}, {}, {})
    BY <1>42 DEF InsertStart
  <2>2. life[v] = "free"
    BY <2>1 DEF Fresh
  <2> QED
    BY <1>d, <2>1, <2>2 DEF LifeStep, LifeMade
<1>43. ASSUME NEW k \in Key, AssignStart(t, k)
       PROVE  LifeStep(t, o)
  <2>1. PICK w \in Fresh(Vector), p \in Fresh({k} \X (1..Copies)), v \in Fresh(ValObj) :
          Memory({w, p, v}, {}, {}, {})
    BY <1>43 DEF AssignStart
  <2>2. life[v] = "free" /\ life[p] = "free" /\ o # w
    BY <1>b, <2>1 DEF Fresh
  <2> QED
    BY <1>d, <2>1, <2>2 DEF LifeStep, LifeMade
<1>44. ASSUME NEW k \in Key, LookupStart(t, k)
       PROVE  LifeStep(t, o)
  BY <1>e, <1>44 DEF LookupStart
<1> QED
  BY <1>1, <1>2, <1>3, <1>4, <1>5, <1>6, <1>7, <1>8, <1>9, <1>10, <1>11,
     <1>12, <1>13, <1>14, <1>15, <1>16, <1>17, <1>18, <1>19, <1>20, <1>21,
     <1>22, <1>23, <1>24, <1>25, <1>26, <1>27, <1>28, <1>29, <1>30, <1>31,
     <1>32, <1>33, <1>34, <1>35, <1>36, <1>37, <1>38, <1>39, <1>40, <1>41,
     <1>42, <1>43, <1>44 DEF Moves, Start, Proceed

-----------------------------------------------------------------------------
(* How a key or a value comes into a slot.                                 *)

(* Who has made it stores it in the vector in use,                         *)
SlotStores(t, w, i, o) ==
  /\ FillSlot(t) \/ (SwapValue(t) /\ o = th[t].own)
  /\ i = Slot(t) /\ w = vec /\ vec' = vec /\ th[t].vec = vec
  /\ o \in Made(t) /\ o \notin Held(t)'

(* or a rehash copies it, out of a slot that the copy bars,                *)
SlotCopies(t, w, i, o) ==
  /\ CopyValue(t) /\ Copier(t) /\ w = th[t].np /\ w # vec /\ vec' = vec
  /\ SlotCopied(t, w, i)
  /\ \E j : j = th[t].ix /\ Owner(vec, j, o) /\ ~Owner(vec, j, o)'

(* or it is in the table that assign was given.                            *)
SlotBorn(t, w, i, o) ==
  /\ \E k \in Key : AssignStart(t, k) /\ i = Pos(k, 0, Entries[1])
                                      /\ th'[t].key = k
  /\ w = th'[t].np /\ w # vec /\ vec' = vec
  /\ life[o] = "free" /\ life'[o] = "live"

(* A slot without the bit that a thread comes to is in the vector in use.  *)
LEMMA Unbarred ==
  ASSUME Structure, NEW t \in Thread, th[t].vec # Null,
         NEW i \in DOMAIN tab[th[t].vec].slot, ~tab[th[t].vec].slot[i].x
  PROVE  th[t].vec = vec
<1> USE DEF Structure, Shape
<1>1. th[t].vec \in Vector
  BY DEF Types, Local
<1> QED
  BY <1>1 DEF VectorsOK, BitsOK

(* A step that does not install leaves the vector in use.                  *)
LEMMA VecStays ==
  ASSUME Structure, RoomOK, NEW t \in Thread, Moves(t), th[t].pc # "install"
  PROVE  /\ vec' = vec /\ vec \in Vector
         /\ tab[vec].pidx # 0 /\ tab'[vec].pidx # 0
         /\ DOMAIN tab'[vec].slot = DOMAIN tab[vec].slot
<1> USE DEF Structure
<1>1. /\ vec' = vec /\ vec \in Vector /\ tab[vec].pidx # 0 /\ tab'[vec].pidx # 0
  BY VecMoves
<1> QED
  BY <1>1, SizesKept

(* What is copied was in the slot, which is then barred.                   *)
LEMMA CopyBars ==
  ASSUME Excluding, Structure, RoomOK, CopiesOK, NEW t \in Thread, Moves(t), CopyValue(t),
         Copied(t), NEW o \in Elem, o \in {th[t].word, This(t).val}, NEW w, w = th[t].np,
         NEW n, SlotCopied(t, w, n)
  PROVE  SlotCopies(t, w, n, o)
<1> USE DEF Structure
<1>1. At(t, "copyval") /\ th[t].pc = "copyval"
  BY DEF CopyValue, At
<1>2. Copier(t)
  <2>1. CallOK(t)
    BY DEF Shape, CallsOK
  <2>2. th[t].op # "clear" /\ th[t].op # "assign"
    BY <1>1, <2>1 DEF CallOK, Places, Clearing
  <2> QED
    BY <1>1, <2>2 DEF Copier, Copying, Exclusive
<1>3. /\ th[t].vec = vec /\ w # vec
      /\ th[t].ix \in DOMAIN tab[vec].slot
      /\ This(t) = tab[vec].slot[th[t].ix] /\ This(t) \in SlotRec
      /\ This(t).key = th[t].word
  BY <1>1, <1>2, CopierReads DEF Copied
<1>4. vec' = vec /\ vec \in Vector /\ tab'[vec].pidx # 0
      /\ DOMAIN tab'[vec].slot = DOMAIN tab[vec].slot
  BY <1>1, VecStays
<1>5. ~This(t).x
  <2>1. ASSUME This(t).x PROVE FALSE
    <3>0. tab[vec].slot[th[t].ix].x =
            \E u \in Thread :
              \/ th[u].pc \in {"copykey", "copyval", "mark"} /\ th[t].ix < th[u].ix
              \/ th[u].pc \in {"setlimit", "install"}
      BY <1>3 DEF BitsOK
    <3>1. PICK u \in Thread :
            \/ th[u].pc \in {"copykey", "copyval", "mark"} /\ th[t].ix < th[u].ix
            \/ th[u].pc \in {"setlimit", "install"}
      BY <1>3, <2>1, <3>0
    <3>2. lock = u /\ lock = t
      BY <1>1, <3>1 DEF Shape, LockOK, Copying
    <3>3. th[t].ix \in Nat
      BY DEF Shape, Types, Local
    <3> QED
      BY <1>1, <3>1, <3>2, <3>3
  <2> QED
    BY <2>1
<1>6. Owner(vec, th[t].ix, o)
  BY <1>3, <1>5 DEF Owner, Owning, In
<1>7. tab'[vec].slot[th[t].ix].x /\ tab'[vec].slot[th[t].ix].val = This(t).val
  <2>0. tab[vec].pidx # 0 /\ Shape /\ AloneOK
    BY <1>1, VecStays
  <2>1. SlotStep(t, vec, th[t].ix)
    BY <1>3, <1>4, <2>0, SlotSteps
  <2>1a. ~SlotMade(t, vec, th[t].ix)
    BY <2>0 DEF SlotMade
  <2>2. Writes(t, vec, th[t].ix)
    BY <1>3 DEF Writes
  <2>3. ~FillSlot(t) /\ ~SwapValue(t) /\ ~TakeValue(t) /\ ~Bury(t)
    BY <1>1 DEF FillSlot, SwapValue, TakeValue, Bury, At
  <2>4. ~ClearFreeKey(t) /\ ~ClearFreeValue(t)
    BY <1>1 DEF ClearFreeKey, ClearFreeValue, At
  <2>5. SlotBarred(t, vec, th[t].ix)
    BY <1>3, <2>1, <2>1a, <2>2, <2>3, <2>4 DEF SlotStep, SlotSame, SlotFilled, SlotSwapped,
       SlotTaken, SlotBuried, SlotCopied, SlotKeyFreed, SlotValueFreed
  <2> QED
    BY <1>3, <2>5 DEF SlotBarred
<1>8. This(t).val # DELT
  BY DEF Copied, IsLive, Word
<1>9. PICK i : i = th[t].ix
  OBVIOUS
<1>10. ~Owner(vec, i, o)'
  <2>1. tab'[vec].slot[i].x /\ tab'[vec].slot[i].val # DELT
    BY <1>7, <1>8, <1>9
  <2>2. ~Owning(tab'[vec'].slot[i])
    BY <1>4, <2>1 DEF Owning
  <2> QED
    BY <2>2 DEF Owner
<1> QED
  BY <1>2, <1>3, <1>4, <1>6, <1>9, <1>10 DEF SlotCopies

(* The slot that a rehash copies is one.                                   *)
LEMMA CopyingReads ==
  ASSUME Structure, CopiesOK, NEW t \in Thread, Moves(t), CopyValue(t)
  PROVE  Copier(t) /\ This(t) \in SlotRec
<1>1. At(t, "copyval") /\ CallOK(t)
  BY DEF CopyValue, Structure, Shape, CallsOK
<1>2. Copier(t)
  BY <1>1 DEF CallOK, Places, Clearing, Copier, Copying, Exclusive, At
<1> QED
  BY <1>1, <1>2, CopierReads DEF At

(* Where what a slot holds comes from.                                     *)
LEMMA SlotSources ==
  ASSUME Excluding, Structure, RoomOK, CopiesOK, NEW t \in Thread, Moves(t),
         NEW w \in Vector, NEW i \in DOMAIN tab'[w].slot, NEW o \in Elem,
         In(o, tab'[w].slot[i])
  PROVE  \/ /\ i \in DOMAIN tab[w].slot /\ In(o, tab[w].slot[i])
            /\ Owning(tab'[w].slot[i]) => Owning(tab[w].slot[i])
         \/ SlotStores(t, w, i, o) \/ SlotCopies(t, w, i, o) \/ SlotBorn(t, w, i, o)
<1> USE DEF Structure
<1>1. SlotStep(t, w, i)
  BY SlotSteps
<1>2. /\ o \notin Word /\ o \in Obj
      /\ CallOK(t) /\ th[t] \in Local
  BY Elements DEF Shape, CallsOK, Types
<1> DEFINE s == tab[w].slot[i]
           r == tab'[w].slot[i]
           Old == /\ i \in DOMAIN tab[w].slot /\ In(o, s)
                  /\ Owning(r) => Owning(s)
<1>3. CASE SlotMade(t, w, i)
  <2>1. CASE RehashStart(t) /\ r = EmptySlot
    BY <1>2, <2>1 DEF In, EmptySlot, Word
  <2>2. CASE \E k \in Key : AssignStart(t, k)
    <3>1. PICK k \in Key : AssignStart(t, k)
      BY <2>2
    <3>2. PICK p \in KeyObj, v \in ValObj :
            /\ life[p] = "free" /\ life[v] = "free"
            /\ Memory({th'[t].np, p, v}, {}, {}, {})
            /\ \E a \in 0..Entries[1] - 1 :
                 /\ a = Pos(k, 0, Entries[1]) /\ p[1] = k
                 /\ MadeTable(th'[t].np,
                         [[Make(1) EXCEPT !.slot[a] = Pair(p, v)] EXCEPT !.n = 1])
      BY <3>1, AssignStartMakes
    <3>2a. PICK a \in 0..Entries[1] - 1 :
             /\ a = Pos(k, 0, Entries[1])
             /\ MadeTable(th'[t].np,
                          [[Make(1) EXCEPT !.slot[a] = Pair(p, v)] EXCEPT !.n = 1])
      BY <3>2
    <3>3. w = th'[t].np
      BY <1>3 DEF SlotMade
    <3>4. tab'[w] = [[Make(1) EXCEPT !.slot[a] = Pair(p, v)] EXCEPT !.n = 1]
      BY <3>2a, <3>3 DEF MadeTable
    <3>5. r = EmptySlot \/ (i = a /\ r = Pair(p, v))
      <4>1. i \in DOMAIN Make(1).slot
        BY <3>4
      <4> QED
        BY <3>4, <4>1 DEF Make
    <3>6. o \in {p, v} /\ i = a
      BY <1>2, <3>5 DEF In, EmptySlot, Pair, Word
    <3>6a. life'[o] = "live"
      BY <1>2, <3>2, <3>6, MemoryStep
    <3>6b. th'[t].key = k
      BY <3>1, AssignStartDoes
    <3>6c. w # vec
      BY <1>3 DEF SlotMade, Shape, VectorsOK
    <3>7. vec' = vec
      BY <3>1, AssignStartFrame
    <3> QED
      BY <3>1, <3>2, <3>2a, <3>3, <3>6, <3>6a, <3>6b, <3>6c, <3>7 DEF SlotBorn
  <2> QED
    BY <1>3, <2>1, <2>2 DEF SlotMade
<1>4. CASE i \in DOMAIN tab[w].slot /\ ~SlotMade(t, w, i)
  <2>1. CASE SlotSame(t, w, i)
    BY <1>4, <2>1 DEF SlotSame
  <2>2. CASE SlotFilled(t, w, i)
    <3>1. FillSlot(t) /\ w = th[t].vec /\ i = Slot(t) /\ At(t, "dcas")
      BY <2>2 DEF SlotFilled, FillSlot
    <3>2. o \in {th[t].kobj, th[t].own}
      BY <2>2 DEF SlotFilled, In, Pair
    <3>3. Puts(t)
      BY <1>2, <3>1 DEF CallOK, Places, Puts, At, Copying, Clearing, Erasing
    <3>4. o \in Made(t)
      BY <3>1, <3>2, <3>3 DEF Made, At
    <3>5. th'[t] = [th[t] EXCEPT !.pc = "count"]
      BY <3>1, FillSlotDoes
    <3>6. Held(t)' = {}
      BY <1>2, <3>5 DEF Held, Made, Taken, At, Local
    <3>7. ~tab[w].slot[i].x /\ th[t].vec # Null
      BY <1>2, <2>2, <3>1 DEF SlotFilled, EmptySlot, CallOK, At
    <3>8. th[t].vec = vec
      BY <1>4, <3>1, <3>7, Unbarred
    <3>9. vec' = vec
      BY <3>1, VecStays DEF At
    <3> QED
      BY <3>1, <3>4, <3>6, <3>8, <3>9 DEF SlotStores
  <2>3. CASE SlotSwapped(t, w, i)
    <3>1. SwapValue(t) /\ w = th[t].vec /\ i = Slot(t) /\ At(t, "swap")
      BY <2>3 DEF SlotSwapped, SwapValue
    <3>2. CASE o = tab[w].slot[i].key
      BY <1>4, <2>3, <3>2 DEF SlotSwapped, In, Owning
    <3>3. CASE o = th[t].own
      <4>1. Puts(t)
        BY <1>2, <3>1 DEF CallOK, Places, Puts, At, Copying, Clearing, Erasing
      <4>2. o \in Made(t)
        BY <3>1, <3>3, <4>1 DEF Made, At
      <4>3. Held(t)' = {}
        BY <3>1, SwapValueDoes, NothingHeld
      <4>4. ~tab[w].slot[i].x /\ th[t].vec # Null
        BY <1>2, <2>3, <3>1 DEF SlotSwapped, CallOK, At
      <4>5. th[t].vec = vec
        BY <1>4, <3>1, <4>4, Unbarred
      <4>6. vec' = vec
        BY <3>1, VecStays DEF At
      <4> QED
        BY <3>1, <3>3, <4>2, <4>3, <4>5, <4>6 DEF SlotStores
    <3> QED
      BY <2>3, <3>2, <3>3 DEF SlotSwapped, In
  <2>4. CASE SlotTaken(t, w, i)
    BY <1>2, <1>4, <2>4 DEF SlotTaken, In, Owning, Word
  <2>5. CASE SlotBuried(t, w, i)
    BY <1>2, <1>4, <2>5 DEF SlotBuried, In, Owning, Word
  <2>6. CASE SlotBarred(t, w, i)
    BY <1>2, <1>4, <2>6 DEF SlotBarred, In, Owning
  <2>7. CASE SlotCopied(t, w, i)
    <3>0. r = Pair(th[t].word, This(t).val)
      BY <2>7 DEF SlotCopied
    <3>1. /\ CopyValue(t) /\ w = th[t].np
          /\ o \in {th[t].word, This(t).val}
      <4>1. r.key = th[t].word /\ r.val = This(t).val
        BY <3>0 DEF Pair
      <4> QED
        BY <2>7, <4>1 DEF SlotCopied, In
    <3>2. Copied(t)
      <4>1. th[t].word \notin Word /\ This(t).val \notin Word /\ th[t].pc = "copyval"
        BY <2>7, Names DEF SlotCopied, CopyValue, At
      <4>2. This(t) \in SlotRec
        BY <2>7, <4>1, CopyingReads DEF SlotCopied
      <4> QED
        BY <4>1, <4>2 DEF Copied, IsLive, SlotRec
    <3> QED
      BY <2>7, <3>1, <3>2, CopyBars
  <2>8. CASE SlotKeyFreed(t, w, i)
    BY <1>2, <1>4, <2>8 DEF SlotKeyFreed, In, Owning, Word
  <2>9. CASE SlotValueFreed(t, w, i)
    <3>1. th[t].pc = "clrval" /\ w = vec /\ i = th[t].ix /\ w = th[t].vec
      BY <2>9 DEF SlotValueFreed, ClearFreeValue, At
    <3>2. This(t).key = FREE
      BY <3>1 DEF WipedOK, Clearing, At
    <3> QED
      BY <1>2, <2>9, <3>1, <3>2 DEF SlotValueFreed, In, Word, This
  <2> QED
    BY <1>1, <1>4, <2>1, <2>2, <2>3, <2>4, <2>5, <2>6, <2>7, <2>8, <2>9 DEF SlotStep
<1> QED
  BY <1>1, <1>3, <1>4 DEF SlotStep

-----------------------------------------------------------------------------
(* How an object comes to be held by a call.                               *)

HeldFrom(t, o) ==
  \/ o \in Held(t) /\ (o \in Made(t)' => o \in Made(t))
  \/ o \in Made(t)' /\ life[o] = "free" /\ life'[o] = "live"
  \/ TakeValue(t) /\ o = th[t].word
  \/ ClearFreeKey(t) /\ o = th[t].kobj

(* What a call holds it held before, or makes it, or takes it in this step. *)
LEMMA HeldSteps ==
  ASSUME Shape, NEW t \in Thread, Moves(t), NEW o \in Elem, o \in Held(t)'
  PROVE  HeldFrom(t, o)
<1> USE DEF Shape
<1>a. /\ th[t].own \in ValObj \cup {Null} /\ th[t].kobj \in KeyObj \cup Word \cup {Null}
      /\ CallOK(t) /\ th[t] \in Local
  BY DEF Types, Local, CallsOK
<1>b. o \in Obj /\ o \notin Word /\ o # Null
  BY Elements
<1>c. th'[t] # Rest
  BY NothingHeld
<1>d. ASSUME th'[t].op = th[t].op, th'[t].own = th[t].own, th'[t].kobj = th[t].kobj,
             th[t].pc # "count", th'[t].pc \notin {"uncount", "bury", "clrval"}
      PROVE  HeldFrom(t, o)
  <2>1. Held(t)' = Made(t)' /\ Made(t)' \subseteq Made(t)
    BY <1>d DEF Held, Made, Taken, Puts, At
  <2> QED
    BY <2>1 DEF HeldFrom, Held
<1>e. th'[t].op \notin {"insert", "update"} /\ th'[t].pc \notin {"uncount", "bury", "clrval"}
        => FALSE
  BY DEF Held, Made, Taken, Puts, At
<1>f. th'[t].own = Null /\ th'[t].kobj = Null /\ th'[t].pc \notin {"uncount", "bury", "clrval"}
        => FALSE
  BY <1>b DEF Held, Made, Taken, Puts, At
<1>1. CASE Answer(t)
  BY <1>c, <1>1, AnswerDoes
<1>2. CASE UpdateInPlace(t)
  BY <1>c, <1>2, UpdateInPlaceDoes
<1>3. CASE SwapValue(t)
  BY <1>c, <1>3, SwapValueDoes
<1>4. CASE CountUp(t)
  BY <1>c, <1>4, CountUpDoes
<1>5. CASE OutOfMemory(t)
  BY <1>c, <1>5, OutOfMemoryDoes
<1>6. CASE Bury(t)
  BY <1>c, <1>6, BuryDoes
<1>7. CASE AssignInstall(t)
  BY <1>c, <1>7, AssignInstallDoes
<1>8. CASE ClearDone(t)
  BY <1>c, <1>8, ClearDoneDoes
<1>9. CASE WalkEnd(t)
  BY <1>c, <1>9, WalkEndDoes
<1>10. CASE ProbeFree(t)
  <2>1. /\ th'[t].op = th[t].op /\ th'[t].own = th[t].own /\ th'[t].kobj = th[t].kobj
        /\ th[t].pc # "count" /\ th'[t].pc \notin {"uncount", "bury", "clrval"}
    BY <1>a, <1>10, ProbeFreeDoes DEF At, Local
  <2> QED
    BY <1>d, <2>1
<1>11. CASE ProbeMatch(t)
  <2>1. /\ th'[t].op = th[t].op /\ th'[t].own = th[t].own /\ th'[t].kobj = th[t].kobj
        /\ th[t].pc # "count" /\ th'[t].pc \notin {"uncount", "bury", "clrval"}
    BY <1>a, <1>11, ProbeMatchDoes DEF At, Local
  <2> QED
    BY <1>d, <2>1
<1>12. CASE ProbeNext(t)
  <2>1. /\ th'[t].op = th[t].op /\ th'[t].own = th[t].own /\ th'[t].kobj = th[t].kobj
        /\ th[t].pc # "count" /\ th'[t].pc \notin {"uncount", "bury", "clrval"}
    BY <1>a, <1>12, ProbeNextDoes DEF At, Local
  <2> QED
    BY <1>d, <2>1
<1>13. CASE PutWait(t)
  <2>1. /\ th'[t].op = th[t].op /\ th'[t].own = th[t].own /\ th'[t].kobj = th[t].kobj
        /\ th[t].pc # "count" /\ th'[t].pc \notin {"uncount", "bury", "clrval"}
    BY <1>a, <1>13, PutWaitDoes DEF At, Local
  <2> QED
    BY <1>d, <2>1
<1>14. CASE SetLimit(t)
  <2>1. /\ th'[t].op = th[t].op /\ th'[t].own = th[t].own /\ th'[t].kobj = th[t].kobj
        /\ th[t].pc # "count" /\ th'[t].pc \notin {"uncount", "bury", "clrval"}
    BY <1>a, <1>14, SetLimitDoes DEF At, Local
  <2> QED
    BY <1>d, <2>1
<1>15. CASE CopyKey(t)
  <2>1. /\ th'[t].op = th[t].op /\ th'[t].own = th[t].own /\ th'[t].kobj = th[t].kobj
        /\ th[t].pc # "count" /\ th'[t].pc \notin {"uncount", "bury", "clrval"}
    BY <1>a, <1>15, CopyKeyDoes DEF At, Local
  <2> QED
    BY <1>d, <2>1
<1>16. CASE CopyValue(t)
  <2>1. /\ th'[t].op = th[t].op /\ th'[t].own = th[t].own /\ th'[t].kobj = th[t].kobj
        /\ th[t].pc # "count" /\ th'[t].pc \notin {"uncount", "bury", "clrval"}
    BY <1>a, <1>16, CopyValueDoes DEF At, Local
  <2> QED
    BY <1>d, <2>1
<1>17. CASE RehashStart(t)
  <2>1. /\ th'[t].op = th[t].op /\ th'[t].own = th[t].own /\ th'[t].kobj = th[t].kobj
        /\ th[t].pc # "count" /\ th'[t].pc \notin {"uncount", "bury", "clrval"}
    BY <1>a, <1>17, RehashStartDoes DEF At, Local
  <2> QED
    BY <1>d, <2>1
<1>18. CASE NoRehash(t)
  <2>1. /\ th'[t].op = th[t].op /\ th'[t].own = th[t].own /\ th'[t].kobj = th[t].kobj
        /\ th[t].pc # "count" /\ th'[t].pc \notin {"uncount", "bury", "clrval"}
    BY <1>a, <1>18, NoRehashDoes DEF At, Local
  <2> QED
    BY <1>d, <2>1
<1>19. CASE Install(t)
  <2>1. /\ th'[t].op = th[t].op /\ th'[t].own = th[t].own /\ th'[t].kobj = th[t].kobj
        /\ th[t].pc # "count" /\ th'[t].pc \notin {"uncount", "bury", "clrval"}
    BY <1>a, <1>19, InstallDoes DEF At, Local
  <2> QED
    BY <1>d, <2>1
<1>20. CASE FindValue(t)
  <2>1. th'[t].op \notin {"insert", "update"} /\ th'[t].pc \notin {"uncount", "bury", "clrval"}
    BY <1>a, <1>20, FindValueDoes
       DEF At, Local, CallOK, Places, Storing, Copying, Clearing, Erasing
  <2> QED
    BY <1>e, <2>1
<1>21. CASE OldKey(t)
  <2>1. th'[t].op \notin {"insert", "update"} /\ th'[t].pc \notin {"uncount", "bury", "clrval"}
    BY <1>a, <1>21, OldKeyDoes
       DEF At, Local, CallOK, Places, Storing, Copying, Clearing, Erasing
  <2> QED
    BY <1>e, <2>1
<1>22. CASE TakeFails(t)
  <2>1. th'[t].op \notin {"insert", "update"} /\ th'[t].pc \notin {"uncount", "bury", "clrval"}
    BY <1>a, <1>22, TakeFailsDoes
       DEF At, Local, CallOK, Places, Storing, Copying, Clearing, Erasing
  <2> QED
    BY <1>e, <2>1
<1>23. CASE AssignAcquire(t)
  <2>1. th'[t].op \notin {"insert", "update"} /\ th'[t].pc \notin {"uncount", "bury", "clrval"}
    BY <1>a, <1>23, AssignAcquireDoes
       DEF At, Local, CallOK, Places, Storing, Copying, Clearing, Erasing
  <2> QED
    BY <1>e, <2>1
<1>24. CASE AssignLimit(t)
  <2>1. th'[t].op \notin {"insert", "update"} /\ th'[t].pc \notin {"uncount", "bury", "clrval"}
    BY <1>a, <1>24, AssignLimitDoes
       DEF At, Local, CallOK, Places, Storing, Copying, Clearing, Erasing
  <2> QED
    BY <1>e, <2>1
<1>25. CASE Mark(t)
  <2>1. th'[t].op \notin {"insert", "update"} /\ th'[t].pc \notin {"uncount", "bury", "clrval"}
    BY <1>a, <1>25, MarkDoes
       DEF At, Local, CallOK, Places, Storing, Copying, Clearing, Erasing
  <2> QED
    BY <1>e, <2>1
<1>26. CASE ClearAcquire(t)
  <2>1. th'[t].op \notin {"insert", "update"} /\ th'[t].pc \notin {"uncount", "bury", "clrval"}
    BY <1>a, <1>26, ClearAcquireDoes
       DEF At, Local, CallOK, Places, Storing, Copying, Clearing, Erasing
  <2> QED
    BY <1>e, <2>1
<1>27. CASE ClearReadKey(t)
  <2>1. th'[t].op \notin {"insert", "update"} /\ th'[t].pc \notin {"uncount", "bury", "clrval"}
    BY <1>a, <1>27, ClearReadKeyDoes
       DEF At, Local, CallOK, Places, Storing, Copying, Clearing, Erasing
  <2> QED
    BY <1>e, <2>1
<1>28. CASE ClearSetLimit(t)
  <2>1. th'[t].op \notin {"insert", "update"} /\ th'[t].pc \notin {"uncount", "bury", "clrval"}
    BY <1>a, <1>28, ClearSetLimitDoes
       DEF At, Local, CallOK, Places, Storing, Copying, Clearing, Erasing
  <2> QED
    BY <1>e, <2>1
<1>29. CASE WalkKey(t)
  <2>1. th'[t].op \notin {"insert", "update"} /\ th'[t].pc \notin {"uncount", "bury", "clrval"}
    BY <1>a, <1>29, WalkKeyDoes
       DEF At, Local, CallOK, Places, Storing, Copying, Clearing, Erasing
  <2> QED
    BY <1>e, <2>1
<1>30. CASE WalkValue(t)
  <2>1. th'[t].op \notin {"insert", "update"} /\ th'[t].pc \notin {"uncount", "bury", "clrval"}
    BY <1>a, <1>30, WalkValueDoes
       DEF At, Local, CallOK, Places, Storing, Copying, Clearing, Erasing
  <2> QED
    BY <1>e, <2>1
<1>31. CASE \E k \in Key : LookupStart(t, k)
  <2>1. PICK k \in Key : LookupStart(t, k)
    BY <1>31
  <2>2. th'[t].own = Null /\ th'[t].kobj = Null /\ th'[t].pc \notin {"uncount", "bury", "clrval"}
    BY <2>1, LookupStartDoes
  <2> QED
    BY <1>f, <2>2
<1>32. CASE \E k \in Key : AssignStart(t, k)
  <2>1. PICK k \in Key : AssignStart(t, k)
    BY <1>32
  <2>2. th'[t].own = Null /\ th'[t].kobj = Null /\ th'[t].pc \notin {"uncount", "bury", "clrval"}
    BY <2>1, AssignStartDoes
  <2> QED
    BY <1>f, <2>2
<1>33. CASE ClearStart(t)
  <2>2. th'[t].own = Null /\ th'[t].kobj = Null /\ th'[t].pc \notin {"uncount", "bury", "clrval"}
    BY <1>33, ClearStartDoes
  <2> QED
    BY <1>f, <2>2
<1>34. CASE WalkStart(t)
  <2>2. th'[t].own = Null /\ th'[t].kobj = Null /\ th'[t].pc \notin {"uncount", "bury", "clrval"}
    BY <1>34, WalkStartDoes
  <2> QED
    BY <1>f, <2>2
<1>35. CASE OldValue(t)
  <2>1. PICK l \in {"take", "rehash", "answer"}, p \in KeyObj \cup {Null}, d \in ValObj \cup {Null} :
          /\ l = "take" => /\ p = th[t].kobj /\ p # Null /\ d # Null
                            /\ ~Here(t).x /\ d = Here(t).val
          /\ l # "take" => p = Null /\ d = th[t].word
          /\ th'[t] = [th[t] EXCEPT !.pc = l, !.word = d, !.kobj = p]
    BY <1>35, OldValueDoes
  <2>2. th'[t].op = th[t].op /\ th'[t].pc = l
    BY <1>a, <2>1 DEF Local
  <2>3. th[t].op = "erase"
    BY <1>a, <1>35, OldValueDoes DEF At, CallOK, Places, Storing, Copying, Clearing
  <2> QED
    BY <1>e, <2>2, <2>3
<1>36. CASE ClearFreeValue(t)
  <2>1. th'[t].op = th[t].op /\ th'[t].pc \in {"clrkey", "clrlimit"}
    <3>1. CASE th[t].ix + 1 < Size(th[t].vec)
      <4>1. PICK v : th'[t] = [th[t] EXCEPT !.pc = "clrkey", !.ix = th[t].ix + 1, !.kobj = Null, !.own = v]
        BY <1>36, <3>1, ClearFreeValueDoes
      <4> QED
        BY <1>a, <4>1 DEF Local
    <3>2. CASE ~(th[t].ix + 1 < Size(th[t].vec))
      <4>1. PICK v : th'[t] = [th[t] EXCEPT !.pc = "clrlimit", !.ix = 0, !.kobj = Null, !.own = v]
        BY <1>36, <3>2, ClearFreeValueDoes
      <4> QED
        BY <1>a, <4>1 DEF Local
    <3> QED
      BY <3>1, <3>2
  <2>3. th[t].op = "clear"
    BY <1>a, <1>36, ClearFreeValueDoes DEF At, CallOK, Places, Storing, Copying, Erasing
  <2> QED
    BY <1>e, <2>1, <2>3
<1>37. CASE \E k \in Key : InsertStart(t, k)
  <2>1. PICK k \in Key : InsertStart(t, k)
    BY <1>37
  <2>2. PICK v \in Fresh(ValObj) :
          /\ Call(t, [Started("insert", k) EXCEPT !.own = v])
          /\ Memory({v}, {}, {}, {})
    BY <2>1 DEF InsertStart
  <2>3. life[v] = "free"
    BY <2>2 DEF Fresh
  <2>4. th'[t] = [Started("insert", k) EXCEPT !.own = v]
    BY <1>a, <2>2 DEF Call, Types
  <2>5. /\ th'[t].op = "insert" /\ th'[t].pc = "probe"
        /\ th'[t].own = v /\ th'[t].kobj = Null
    BY <2>4 DEF Started, Rest
  <2>6. o = v /\ o \in Made(t)'
    BY <1>b, <2>5 DEF Held, Made, Taken, Puts, At
  <2>7. life'[o] = "live"
    BY <1>b, <2>2, <2>6, MemoryStep
  <2> QED
    BY <2>3, <2>6, <2>7 DEF HeldFrom
<1>38. CASE PutValue(t)
  <2>1. PICK v \in IF th[t].op = "insert" THEN {th[t].own} ELSE Fresh(ValObj) :
          /\ th' = [th EXCEPT ![t].pc = "swap", ![t].word = Here(t).val,
                              ![t].own = v]
          /\ Memory({v}, {}, {}, {})
    BY <1>38 DEF PutValue
  <2>2. /\ th'[t].op = th[t].op /\ th'[t].kobj = th[t].kobj /\ th'[t].own = v
        /\ th'[t].pc = "swap"
    BY <1>a, <2>1 DEF Types, Local
  <2>3. At(t, "value") /\ Puts(t)
    BY <1>38 DEF PutValue
  <2>4. Held(t)' = {v, th[t].kobj} /\ Made(t)' = {v, th[t].kobj}
        /\ Made(t) = {th[t].own, th[t].kobj}
    BY <2>2, <2>3 DEF Held, Made, Taken, Puts, At
  <2>5. CASE o = th[t].kobj
    BY <2>4, <2>5 DEF HeldFrom, Held
  <2>6. CASE o = v
    <3>1. o = th[t].own \/ life[o] = "free"
      BY <2>1, <2>6 DEF Fresh
    <3>2. life'[o] = "live"
      BY <1>b, <2>1, <2>6, MemoryStep
    <3> QED
      BY <2>4, <2>6, <3>1, <3>2 DEF HeldFrom, Held
  <2> QED
    BY <2>4, <2>5, <2>6
<1>39. CASE DecrLimit(t)
  <2>1. PICK k \in IF th[t].kobj = Null THEN Fresh({th[t].key} \X (1..Copies))
                   ELSE {th[t].kobj},
             v \in IF th[t].op = "insert" THEN {th[t].own} ELSE Fresh(ValObj) :
          /\ th' = [th EXCEPT ![t].pc = "dcas", ![t].kobj = k, ![t].own = v]
          /\ Memory({k, v}, {}, {}, {})
    BY <1>39 DEF DecrLimit
  <2>2. /\ th'[t].op = th[t].op /\ th'[t].kobj = k /\ th'[t].own = v
        /\ th'[t].pc = "dcas"
    BY <1>a, <2>1 DEF Types, Local
  <2>3. th[t].pc = "limit" /\ Puts(t)
    BY <1>a, <1>39 DEF DecrLimit, At, CallOK, Places, Puts, Copying, Clearing, Erasing
  <2>4. Held(t)' = {v, k} /\ Made(t)' = {v, k}
        /\ Made(t) = {th[t].own, th[t].kobj}
    BY <2>2, <2>3 DEF Held, Made, Taken, Puts, At
  <2>5. /\ k = th[t].kobj \/ life[k] = "free"
        /\ v = th[t].own \/ life[v] = "free"
    BY <2>1 DEF Fresh
  <2>6. life'[o] = "live"
    BY <1>b, <2>1, <2>4, MemoryStep
  <2> QED
    BY <2>4, <2>5, <2>6 DEF HeldFrom, Held
<1>40. CASE StoreFails(t)
  <2>1. /\ th'[t].op = th[t].op /\ th'[t].kobj = th[t].kobj /\ th'[t].own = Kept(t)
        /\ th'[t].pc = "probe" /\ th[t].pc \in {"swap", "dcas"}
    BY <1>40, StoreFailsDoes DEF At
  <2>2. Kept(t) \in {Null, th[t].own}
    BY DEF Kept
  <2>3. Held(t)' \subseteq {Kept(t), th[t].kobj} /\ (Puts(t) \/ Held(t)' = {})
    BY <2>1 DEF Held, Made, Taken, Puts, At
  <2>4. Puts(t) => Made(t) = {th[t].own, th[t].kobj}
    BY <2>1 DEF Made, At
  <2>5. o \in Made(t)
    BY <1>b, <2>2, <2>3, <2>4
  <2> QED
    BY <2>5 DEF HeldFrom, Held
<1>41. CASE FillSlot(t)
  <2>1. th'[t].pc = "count"
    BY <1>a, <1>41, FillSlotDoes DEF Local
  <2> QED
    BY <2>1 DEF Held, Made, Taken, At
<1>42. CASE TakeValue(t)
  <2>1. th'[t].pc = "uncount" /\ th'[t].word = th[t].word /\ th'[t].op = th[t].op
        /\ th[t].pc = "take"
    BY <1>a, <1>42, TakeValueDoes DEF Local, At
  <2>2. ~(Puts(t)')
    BY <1>a, <2>1 DEF CallOK, Places, Puts, Storing, Copying, Clearing
  <2>3. o = th[t].word
    BY <2>1, <2>2 DEF Held, Made, Taken, At
  <2> QED
    BY <1>42, <2>3 DEF HeldFrom
<1>43. CASE CountDown(t)
  <2>1. th'[t].pc = "bury" /\ th'[t].word = th[t].word /\ th'[t].op = th[t].op
        /\ th[t].pc = "uncount"
    BY <1>a, <1>43, CountDownDoes DEF Local, At
  <2>2. ~(Puts(t)')
    BY <1>a, <2>1 DEF CallOK, Places, Puts, Storing, Copying, Clearing
  <2>3. o = th[t].word /\ Made(t)' = {}
    BY <2>1, <2>2 DEF Held, Made, Taken, At
  <2> QED
    BY <2>1, <2>3 DEF HeldFrom, Held, Taken
<1>44. CASE ClearFreeKey(t)
  <2>1. th'[t].pc = "clrval" /\ th'[t].kobj = th[t].kobj /\ th'[t].op = th[t].op
        /\ th[t].pc = "clrput"
    BY <1>a, <1>44, ClearFreeKeyDoes DEF Local, At
  <2>2. ~(Puts(t)')
    BY <1>a, <2>1 DEF CallOK, Places, Puts, Storing, Copying, Erasing
  <2>3. o = th[t].kobj
    BY <2>1, <2>2 DEF Held, Made, Taken, At
  <2> QED
    BY <1>44, <2>3 DEF HeldFrom
<1> QED
  BY <1>1, <1>2, <1>3, <1>4, <1>5, <1>6, <1>7, <1>8, <1>9, <1>10, <1>11, <1>12, <1>13, <1>14, <1>15, <1>16, <1>17, <1>18, <1>19, <1>20, <1>21, <1>22, <1>23, <1>24, <1>25, <1>26, <1>27, <1>28, <1>29, <1>30, <1>31, <1>32, <1>33, <1>34, <1>35, <1>36, <1>37, <1>38, <1>39, <1>40, <1>41, <1>42, <1>43, <1>44 DEF Moves, Start, Proceed

-----------------------------------------------------------------------------
(* How an object comes to be read.                                         *)

WordFrom(t, o) ==
  /\ InCs(t)'
  /\ \/ th[t].word = o
     \/ /\ th'[t].vec = th[t].vec /\ InCs(t)
        /\ \E i \in DOMAIN tab[th[t].vec].slot : In(o, tab[th[t].vec].slot[i])

(* The word that a call has read it had before, or reads in a slot.        *)
LEMMA WordSteps ==
  ASSUME Shape, WordsOK, NEW t \in Thread, Moves(t)
  PROVE  /\ th'[t].word \notin Vector
         /\ \A o \in Elem : th'[t].word = o => WordFrom(t, o)
<1> DEFINE Goal == /\ th'[t].word \notin Vector
                   /\ \A o \in Elem : th'[t].word = o => WordFrom(t, o)
<1> USE DEF Shape
<1>a. CallOK(t) /\ th[t] \in Local
  BY DEF Types, CallsOK
<1>b. Null \notin Vector /\ \A o \in Elem : o # Null /\ o \notin Word
  BY Elements, Names
<1>c. th'[t].word = Null => Goal
  BY <1>b
<1>d. th'[t].word = th[t].word /\ th'[t].op = th[t].op => Goal
  BY DEF WordsOK, WordFrom, InCs
<1>e. ASSUME th[t].op \notin {"none", "clear", "assign"}, th'[t].op = th[t].op,
             th'[t].vec = th[t].vec, NEW i \in DOMAIN tab[th[t].vec].slot,
             th'[t].word \in {tab[th[t].vec].slot[i].key, tab[th[t].vec].slot[i].val},
             th'[t].word \in KeyObj \cup ValObj \cup Word
      PROVE  Goal
  <2>1. th'[t].word \notin Vector
    BY <1>e, Names DEF Word
  <2> QED
    BY <1>e, <2>1 DEF WordFrom, InCs, In
<1>1. CASE Answer(t)
  <2>1. th'[t] = Rest
    BY <1>1, AnswerDoes
  <2> QED
    BY <1>c, <2>1 DEF Rest
<1>2. CASE UpdateInPlace(t)
  <2>1. th'[t] = Rest
    BY <1>2, UpdateInPlaceDoes
  <2> QED
    BY <1>c, <2>1 DEF Rest
<1>3. CASE SwapValue(t)
  <2>1. th'[t] = Rest
    BY <1>3, SwapValueDoes
  <2> QED
    BY <1>c, <2>1 DEF Rest
<1>4. CASE CountUp(t)
  <2>1. th'[t] = Rest
    BY <1>4, CountUpDoes
  <2> QED
    BY <1>c, <2>1 DEF Rest
<1>5. CASE OutOfMemory(t)
  <2>1. th'[t] = Rest
    BY <1>5, OutOfMemoryDoes
  <2> QED
    BY <1>c, <2>1 DEF Rest
<1>6. CASE Bury(t)
  <2>1. th'[t] = Rest
    BY <1>6, BuryDoes
  <2> QED
    BY <1>c, <2>1 DEF Rest
<1>7. CASE AssignInstall(t)
  <2>1. th'[t] = Rest
    BY <1>7, AssignInstallDoes
  <2> QED
    BY <1>c, <2>1 DEF Rest
<1>8. CASE ClearDone(t)
  <2>1. th'[t] = Rest
    BY <1>8, ClearDoneDoes
  <2> QED
    BY <1>c, <2>1 DEF Rest
<1>9. CASE WalkEnd(t)
  <2>1. th'[t] = Rest
    BY <1>9, WalkEndDoes
  <2> QED
    BY <1>c, <2>1 DEF Rest
<1>10. CASE ProbeFree(t)
  <2>1. th'[t].word = th[t].word /\ th'[t].op = th[t].op
    BY <1>a, <1>10, ProbeFreeDoes DEF Local
  <2> QED
    BY <1>d, <2>1
<1>11. CASE ProbeMatch(t)
  <2>1. th'[t].word = th[t].word /\ th'[t].op = th[t].op
    BY <1>a, <1>11, ProbeMatchDoes DEF Local
  <2> QED
    BY <1>d, <2>1
<1>12. CASE ProbeNext(t)
  <2>1. th'[t].word = th[t].word /\ th'[t].op = th[t].op
    BY <1>a, <1>12, ProbeNextDoes DEF Local
  <2> QED
    BY <1>d, <2>1
<1>13. CASE PutWait(t)
  <2>1. th'[t].word = th[t].word /\ th'[t].op = th[t].op
    BY <1>a, <1>13, PutWaitDoes DEF Local
  <2> QED
    BY <1>d, <2>1
<1>14. CASE SetLimit(t)
  <2>1. th'[t].word = th[t].word /\ th'[t].op = th[t].op
    BY <1>a, <1>14, SetLimitDoes DEF Local
  <2> QED
    BY <1>d, <2>1
<1>15. CASE OldKey(t)
  <2>1. th'[t].word = th[t].word /\ th'[t].op = th[t].op
    BY <1>a, <1>15, OldKeyDoes DEF Local
  <2> QED
    BY <1>d, <2>1
<1>16. CASE TakeValue(t)
  <2>1. th'[t].word = th[t].word /\ th'[t].op = th[t].op
    BY <1>a, <1>16, TakeValueDoes DEF Local
  <2> QED
    BY <1>d, <2>1
<1>17. CASE CountDown(t)
  <2>1. th'[t].word = th[t].word /\ th'[t].op = th[t].op
    BY <1>a, <1>17, CountDownDoes DEF Local
  <2> QED
    BY <1>d, <2>1
<1>18. CASE FillSlot(t)
  <2>1. th'[t].word = th[t].word /\ th'[t].op = th[t].op
    BY <1>a, <1>18, FillSlotDoes DEF Local
  <2> QED
    BY <1>d, <2>1
<1>19. CASE AssignAcquire(t)
  <2>1. th'[t].word = th[t].word /\ th'[t].op = th[t].op
    BY <1>a, <1>19, AssignAcquireDoes DEF Local
  <2> QED
    BY <1>d, <2>1
<1>20. CASE AssignLimit(t)
  <2>1. th'[t].word = th[t].word /\ th'[t].op = th[t].op
    BY <1>a, <1>20, AssignLimitDoes DEF Local
  <2> QED
    BY <1>d, <2>1
<1>21. CASE ClearAcquire(t)
  <2>1. th'[t].word = th[t].word /\ th'[t].op = th[t].op
    BY <1>a, <1>21, ClearAcquireDoes DEF Local
  <2> QED
    BY <1>d, <2>1
<1>22. CASE ClearReadKey(t)
  <2>1. th'[t].word = th[t].word /\ th'[t].op = th[t].op
    BY <1>a, <1>22, ClearReadKeyDoes DEF Local
  <2> QED
    BY <1>d, <2>1
<1>23. CASE ClearFreeKey(t)
  <2>1. th'[t].word = th[t].word /\ th'[t].op = th[t].op
    BY <1>a, <1>23, ClearFreeKeyDoes DEF Local
  <2> QED
    BY <1>d, <2>1
<1>24. CASE ClearSetLimit(t)
  <2>1. th'[t].word = th[t].word /\ th'[t].op = th[t].op
    BY <1>a, <1>24, ClearSetLimitDoes DEF Local
  <2> QED
    BY <1>d, <2>1
<1>25. CASE StoreFails(t)
  <2>1. th'[t].word = Null
    BY <1>a, <1>25, StoreFailsDoes DEF Local
  <2> QED
    BY <1>c, <2>1
<1>26. CASE NoRehash(t)
  <2>1. th'[t].word = Null
    BY <1>a, <1>26, NoRehashDoes DEF Local
  <2> QED
    BY <1>c, <2>1
<1>27. CASE Install(t)
  <2>1. th'[t].word = Null
    BY <1>a, <1>27, InstallDoes DEF Local
  <2> QED
    BY <1>c, <2>1
<1>28. CASE TakeFails(t)
  <2>1. th'[t].word = Null
    BY <1>a, <1>28, TakeFailsDoes DEF Local
  <2> QED
    BY <1>c, <2>1
<1>29. CASE ClearStart(t)
  <2>1. th'[t].word = Null
    BY <1>a, <1>29, ClearStartDoes DEF Local
  <2> QED
    BY <1>c, <2>1
<1>30. CASE WalkStart(t)
  <2>1. th'[t].word = Null
    BY <1>a, <1>30, WalkStartDoes DEF Local
  <2> QED
    BY <1>c, <2>1
<1>31. CASE \E k \in Key : LookupStart(t, k)
  <2>1. th'[t].word = Null
    BY <1>31, LookupStartDoes
  <2> QED
    BY <1>c, <2>1
<1>32. CASE \E k \in Key : InsertStart(t, k)
  <2>1. th'[t].word = Null
    BY <1>32, InsertStartDoes
  <2> QED
    BY <1>c, <2>1
<1>33. CASE \E k \in Key : AssignStart(t, k)
  <2>1. th'[t].word = Null
    BY <1>33, AssignStartDoes
  <2> QED
    BY <1>c, <2>1
<1>34. CASE RehashStart(t)
  <2>1. PICK w \in Vector :
          th'[t] = [th[t] EXCEPT !.pc = "copykey", !.vec = vec, !.ix = 0, !.word = Null, !.np = w]
    BY <1>34, RehashStartDoes
  <2>2. th'[t].word = Null
    BY <1>a, <2>1 DEF Local
  <2> QED
    BY <1>c, <2>2
<1>35. CASE CopyValue(t)
  <2>1. th'[t].word = Null
    BY <1>a, <1>35, CopyValueDoes DEF Local
  <2> QED
    BY <1>c, <2>1
<1>36. CASE WalkValue(t)
  <2>1. PICK m \in SUBSET Key :
          th'[t] = [th[t] EXCEPT !.pc = "walk", !.ix = th[t].ix + 1, !.word = Null, !.met = m]
    BY <1>36, WalkValueDoes
  <2>2. th'[t].word = Null
    BY <1>a, <2>1 DEF Local
  <2> QED
    BY <1>c, <2>2
<1>37. CASE DecrLimit(t)
  <2>1. PICK k \in KeyObj, v \in ValObj :
          /\ th[t].kobj # Null => k = th[t].kobj
          /\ k[1] = th[t].key
          /\ th'[t] = [th[t] EXCEPT !.pc = "dcas", !.kobj = k, !.own = v]
    BY <1>37, DecrLimitDoes
  <2>2. th'[t].word = th[t].word /\ th'[t].op = th[t].op
    BY <1>a, <2>1 DEF Local
  <2> QED
    BY <1>d, <2>2
<1>38. CASE Mark(t)
  <2>1. PICK v \in ValObj \cup {Null} :
          th'[t] = [th[t] EXCEPT !.ix = th[t].ix + 1, !.own = v]
    BY <1>38, MarkDoes
  <2>2. th'[t].word = th[t].word /\ th'[t].op = th[t].op
    BY <1>a, <2>1 DEF Local
  <2> QED
    BY <1>d, <2>2
<1>39. CASE ClearFreeValue(t)
  <2>1. th'[t].word = th[t].word /\ th'[t].op = th[t].op
    <3>1. CASE th[t].ix + 1 < Size(th[t].vec)
      <4>1. PICK v : th'[t] = [th[t] EXCEPT !.pc = "clrkey", !.ix = th[t].ix + 1, !.kobj = Null, !.own = v]
        BY <1>39, <3>1, ClearFreeValueDoes
      <4> QED
        BY <1>a, <4>1 DEF Local
    <3>2. CASE ~(th[t].ix + 1 < Size(th[t].vec))
      <4>1. PICK v : th'[t] = [th[t] EXCEPT !.pc = "clrlimit", !.ix = 0, !.kobj = Null, !.own = v]
        BY <1>39, <3>2, ClearFreeValueDoes
      <4> QED
        BY <1>a, <4>1 DEF Local
    <3> QED
      BY <3>1, <3>2
  <2> QED
    BY <1>d, <2>1
<1>40. CASE FindValue(t)
  <2>1. /\ At(t, "value") /\ th[t].op = "find"
        /\ th' = [th EXCEPT ![t].pc = "answer",
                    ![t].word = IF Here(t).val = DELT THEN Null ELSE Here(t).val]
    BY <1>40 DEF FindValue
  <2>2. CASE Here(t).val = DELT
    <3>1. th'[t].word = Null
      BY <1>a, <2>1, <2>2 DEF Types, Local
    <3> QED
      BY <1>c, <3>1
  <2>3. CASE Here(t).val # DELT
    <3>1. th'[t].word = Here(t).val /\ th'[t].op = th[t].op /\ th'[t].vec = th[t].vec
      BY <1>a, <2>1, <2>3 DEF Types, Local
    <3>2. Slot(t) \in DOMAIN tab[th[t].vec].slot /\ Here(t).val \in ValObj \cup Word
      BY <2>1, Found DEF At
    <3> QED
      BY <1>e, <2>1, <3>1, <3>2 DEF Here
  <2> QED
    BY <2>2, <2>3
<1>41. CASE PutValue(t)
  <2>1. /\ At(t, "value") /\ Puts(t)
        /\ \E v \in ValObj :
             th'[t] = [th[t] EXCEPT !.pc = "swap", !.word = Here(t).val, !.own = v]
    BY <1>41, PutValueDoes
  <2>2. PICK v \in ValObj :
          th'[t] = [th[t] EXCEPT !.pc = "swap", !.word = Here(t).val, !.own = v]
    BY <2>1
  <2>3. th'[t].word = Here(t).val /\ th'[t].op = th[t].op /\ th'[t].vec = th[t].vec
    BY <1>a, <2>2 DEF Local
  <2>4. Slot(t) \in DOMAIN tab[th[t].vec].slot /\ Here(t).val \in ValObj \cup Word
    BY <2>1, Found DEF At
  <2> QED
    BY <1>e, <2>1, <2>3, <2>4 DEF Here, Puts
<1>42. CASE OldValue(t)
  <2>1. PICK l \in {"take", "rehash", "answer"}, p \in KeyObj \cup {Null}, d \in ValObj \cup {Null} :
          /\ l = "take" => /\ p = th[t].kobj /\ p # Null /\ d # Null
                            /\ ~Here(t).x /\ d = Here(t).val
          /\ l # "take" => p = Null /\ d = th[t].word
          /\ th'[t] = [th[t] EXCEPT !.pc = l, !.word = d, !.kobj = p]
    BY <1>42, OldValueDoes
  <2>2. /\ th'[t].op = th[t].op /\ th'[t].vec = th[t].vec /\ th'[t].word = d
        /\ th[t].pc = "oldval"
    BY <1>a, <1>42, <2>1, OldValueDoes DEF Local, At
  <2>3. th[t].op = "erase"
    BY <1>a, <2>2 DEF CallOK, Places, Storing, Copying, Clearing
  <2>4. Slot(t) \in DOMAIN tab[th[t].vec].slot
    BY <2>2, Found
  <2>5. CASE l = "take"
    BY <1>e, <2>1, <2>2, <2>3, <2>4, <2>5 DEF Here
  <2>6. CASE l # "take"
    BY <1>d, <2>1, <2>2, <2>6
  <2> QED
    BY <2>5, <2>6
<1>43. CASE CopyKey(t)
  <2>1. th'[t].word = This(t).key /\ th'[t].op = th[t].op /\ th'[t].vec = th[t].vec
        /\ th[t].pc = "copykey"
    BY <1>a, <1>43, CopyKeyDoes DEF Local, At
  <2>2. th[t].ix \in DOMAIN tab[th[t].vec].slot /\ This(t).key \in KeyObj \cup Word
    BY <2>1, Found
  <2>3. th[t].op \notin {"none", "clear", "assign"}
    BY <1>a, <2>1 DEF CallOK, Places, Clearing
  <2> QED
    BY <1>e, <2>1, <2>2, <2>3 DEF This
<1>44. CASE WalkKey(t)
  <2>1. th[t].pc = "walk" /\ th[t].ix < Size(th[t].vec)
    BY <1>44, WalkKeyDoes DEF At
  <2>2. th[t].ix \in DOMAIN tab[th[t].vec].slot /\ This(t).key \in KeyObj \cup Word
    BY <2>1, Found
  <2>3. th[t].op \notin {"none", "clear", "assign"}
    BY <1>a, <2>1 DEF CallOK, Places, Clearing, Storing, Erasing, Copying
  <2>4. CASE th'[t] = [th[t] EXCEPT !.ix = th[t].ix + 1]
    <3>1. th'[t].word = th[t].word /\ th'[t].op = th[t].op
      BY <1>a, <2>4 DEF Local
    <3> QED
      BY <1>d, <3>1
  <2>5. CASE th'[t] = [th[t] EXCEPT !.pc = "walkval", !.word = This(t).key]
    <3>1. th'[t].word = This(t).key /\ th'[t].op = th[t].op /\ th'[t].vec = th[t].vec
      BY <1>a, <2>5 DEF Local
    <3> QED
      BY <1>e, <2>2, <2>3, <3>1 DEF This
  <2> QED
    BY <1>44, <2>4, <2>5, WalkKeyDoes
<1> QED
  BY <1>1, <1>2, <1>3, <1>4, <1>5, <1>6, <1>7, <1>8, <1>9, <1>10, <1>11, <1>12, <1>13, <1>14, <1>15, <1>16, <1>17, <1>18, <1>19, <1>20, <1>21, <1>22, <1>23, <1>24, <1>25, <1>26, <1>27, <1>28, <1>29, <1>30, <1>31, <1>32, <1>33, <1>34, <1>35, <1>36, <1>37, <1>38, <1>39, <1>40, <1>41, <1>42, <1>43, <1>44 DEF Moves, Start, Proceed

(* An erase has a key only while it is about to take it away.              *)
LEMMA ErasersStep ==
  ASSUME Shape, ErasersOK, NEW t \in Thread, Moves(t)
  PROVE  ErasersOK'
<1> USE DEF Shape
<1> DEFINE Last == {"oldval", "take", "uncount", "bury"}
           Goal == th'[t].op = "erase" => th'[t].pc \in Last \/ th'[t].kobj = Null
<1>a. CallOK(t) /\ th[t] \in Local
  BY DEF Types, CallsOK
<1>b. Goal => ErasersOK'
  BY ThreadTypes DEF ErasersOK
<1>c. th'[t].op # "erase" \/ th'[t].kobj = Null \/ th'[t].pc \in Last => ErasersOK'
  BY <1>b
<1>d. ASSUME th'[t].op = th[t].op, th'[t].kobj = th[t].kobj, th[t].pc \notin Last
      PROVE  ErasersOK'
  BY <1>b, <1>d DEF ErasersOK
<1>e. ASSUME th[t].op # "erase", th'[t].op = th[t].op
      PROVE  ErasersOK'
  BY <1>b, <1>e
<1>1. CASE Answer(t)
  <2>1. th'[t] = Rest
    BY <1>1, AnswerDoes
  <2> QED
    BY <1>c, <2>1 DEF Rest
<1>2. CASE UpdateInPlace(t)
  <2>1. th'[t] = Rest
    BY <1>2, UpdateInPlaceDoes
  <2> QED
    BY <1>c, <2>1 DEF Rest
<1>3. CASE SwapValue(t)
  <2>1. th'[t] = Rest
    BY <1>3, SwapValueDoes
  <2> QED
    BY <1>c, <2>1 DEF Rest
<1>4. CASE CountUp(t)
  <2>1. th'[t] = Rest
    BY <1>4, CountUpDoes
  <2> QED
    BY <1>c, <2>1 DEF Rest
<1>5. CASE OutOfMemory(t)
  <2>1. th'[t] = Rest
    BY <1>5, OutOfMemoryDoes
  <2> QED
    BY <1>c, <2>1 DEF Rest
<1>6. CASE Bury(t)
  <2>1. th'[t] = Rest
    BY <1>6, BuryDoes
  <2> QED
    BY <1>c, <2>1 DEF Rest
<1>7. CASE AssignInstall(t)
  <2>1. th'[t] = Rest
    BY <1>7, AssignInstallDoes
  <2> QED
    BY <1>c, <2>1 DEF Rest
<1>8. CASE ClearDone(t)
  <2>1. th'[t] = Rest
    BY <1>8, ClearDoneDoes
  <2> QED
    BY <1>c, <2>1 DEF Rest
<1>9. CASE WalkEnd(t)
  <2>1. th'[t] = Rest
    BY <1>9, WalkEndDoes
  <2> QED
    BY <1>c, <2>1 DEF Rest
<1>10. CASE ProbeFree(t)
  <2>1. th'[t].op = th[t].op /\ th'[t].kobj = th[t].kobj /\ th[t].pc \notin Last
    BY <1>a, <1>10, ProbeFreeDoes DEF At, Local
  <2> QED
    BY <1>d, <2>1
<1>11. CASE ProbeMatch(t)
  <2>1. th'[t].op = th[t].op /\ th'[t].kobj = th[t].kobj /\ th[t].pc \notin Last
    BY <1>a, <1>11, ProbeMatchDoes DEF At, Local
  <2> QED
    BY <1>d, <2>1
<1>12. CASE ProbeNext(t)
  <2>1. th'[t].op = th[t].op /\ th'[t].kobj = th[t].kobj /\ th[t].pc \notin Last
    BY <1>a, <1>12, ProbeNextDoes DEF At, Local
  <2> QED
    BY <1>d, <2>1
<1>13. CASE PutWait(t)
  <2>1. th'[t].op = th[t].op /\ th'[t].kobj = th[t].kobj /\ th[t].pc \notin Last
    BY <1>a, <1>13, PutWaitDoes DEF At, Local
  <2> QED
    BY <1>d, <2>1
<1>14. CASE SetLimit(t)
  <2>1. th'[t].op = th[t].op /\ th'[t].kobj = th[t].kobj /\ th[t].pc \notin Last
    BY <1>a, <1>14, SetLimitDoes DEF At, Local
  <2> QED
    BY <1>d, <2>1
<1>15. CASE CopyKey(t)
  <2>1. th'[t].op = th[t].op /\ th'[t].kobj = th[t].kobj /\ th[t].pc \notin Last
    BY <1>a, <1>15, CopyKeyDoes DEF At, Local
  <2> QED
    BY <1>d, <2>1
<1>16. CASE CopyValue(t)
  <2>1. th'[t].op = th[t].op /\ th'[t].kobj = th[t].kobj /\ th[t].pc \notin Last
    BY <1>a, <1>16, CopyValueDoes DEF At, Local
  <2> QED
    BY <1>d, <2>1
<1>17. CASE NoRehash(t)
  <2>1. th'[t].op = th[t].op /\ th'[t].kobj = th[t].kobj /\ th[t].pc \notin Last
    BY <1>a, <1>17, NoRehashDoes DEF At, Local
  <2> QED
    BY <1>d, <2>1
<1>18. CASE Install(t)
  <2>1. th'[t].op = th[t].op /\ th'[t].kobj = th[t].kobj /\ th[t].pc \notin Last
    BY <1>a, <1>18, InstallDoes DEF At, Local
  <2> QED
    BY <1>d, <2>1
<1>19. CASE StoreFails(t)
  <2>1. th'[t].op = th[t].op /\ th'[t].kobj = th[t].kobj /\ th[t].pc \notin Last
    BY <1>a, <1>19, StoreFailsDoes DEF At, Local
  <2> QED
    BY <1>d, <2>1
<1>20. CASE RehashStart(t)
  <2>1. th'[t].op = th[t].op /\ th'[t].kobj = th[t].kobj /\ th[t].pc \notin Last
    BY <1>a, <1>20, RehashStartDoes DEF At, Local
  <2> QED
    BY <1>d, <2>1
<1>21. CASE FindValue(t)
  <2>1. th[t].op # "erase"
    BY <1>a, <1>21, FindValueDoes DEF At, CallOK, Places, Puts, Storing, Copying, Clearing, Erasing
  <2>2. th'[t].op = th[t].op
    BY <1>a, <1>21, FindValueDoes DEF Local
  <2> QED
    BY <1>e, <2>1, <2>2
<1>22. CASE PutValue(t)
  <2>1. th[t].op # "erase"
    BY <1>a, <1>22, PutValueDoes DEF At, CallOK, Places, Puts, Storing, Copying, Clearing, Erasing
  <2>2. th'[t].op = th[t].op
    BY <1>a, <1>22, PutValueDoes DEF Local
  <2> QED
    BY <1>e, <2>1, <2>2
<1>23. CASE AssignAcquire(t)
  <2>1. th[t].op # "erase"
    BY <1>a, <1>23, AssignAcquireDoes DEF At, CallOK, Places, Puts, Storing, Copying, Clearing, Erasing
  <2>2. th'[t].op = th[t].op
    BY <1>a, <1>23, AssignAcquireDoes DEF Local
  <2> QED
    BY <1>e, <2>1, <2>2
<1>24. CASE Mark(t)
  <2>1. th[t].op # "erase"
    BY <1>a, <1>24, MarkDoes DEF At, CallOK, Places, Puts, Storing, Copying, Clearing, Erasing
  <2>2. th'[t].op = th[t].op
    BY <1>a, <1>24, MarkDoes DEF Local
  <2> QED
    BY <1>e, <2>1, <2>2
<1>25. CASE AssignLimit(t)
  <2>1. th[t].op # "erase"
    BY <1>a, <1>25, AssignLimitDoes DEF At, CallOK, Places, Puts, Storing, Copying, Clearing, Erasing
  <2>2. th'[t].op = th[t].op
    BY <1>a, <1>25, AssignLimitDoes DEF Local
  <2> QED
    BY <1>e, <2>1, <2>2
<1>26. CASE ClearAcquire(t)
  <2>1. th[t].op # "erase"
    BY <1>a, <1>26, ClearAcquireDoes DEF At, CallOK, Places, Puts, Storing, Copying, Clearing, Erasing
  <2>2. th'[t].op = th[t].op
    BY <1>a, <1>26, ClearAcquireDoes DEF Local
  <2> QED
    BY <1>e, <2>1, <2>2
<1>27. CASE ClearReadKey(t)
  <2>1. th[t].op # "erase"
    BY <1>a, <1>27, ClearReadKeyDoes DEF At, CallOK, Places, Puts, Storing, Copying, Clearing, Erasing
  <2>2. th'[t].op = th[t].op
    BY <1>a, <1>27, ClearReadKeyDoes DEF Local
  <2> QED
    BY <1>e, <2>1, <2>2
<1>28. CASE ClearFreeKey(t)
  <2>1. th[t].op # "erase"
    BY <1>a, <1>28, ClearFreeKeyDoes DEF At, CallOK, Places, Puts, Storing, Copying, Clearing, Erasing
  <2>2. th'[t].op = th[t].op
    BY <1>a, <1>28, ClearFreeKeyDoes DEF Local
  <2> QED
    BY <1>e, <2>1, <2>2
<1>29. CASE ClearSetLimit(t)
  <2>1. th[t].op # "erase"
    BY <1>a, <1>29, ClearSetLimitDoes DEF At, CallOK, Places, Puts, Storing, Copying, Clearing, Erasing
  <2>2. th'[t].op = th[t].op
    BY <1>a, <1>29, ClearSetLimitDoes DEF Local
  <2> QED
    BY <1>e, <2>1, <2>2
<1>30. CASE WalkKey(t)
  <2>1. th[t].op # "erase"
    BY <1>a, <1>30, WalkKeyDoes DEF At, CallOK, Places, Puts, Storing, Copying, Clearing, Erasing
  <2>2. th'[t].op = th[t].op
    BY <1>a, <1>30, WalkKeyDoes DEF Local
  <2> QED
    BY <1>e, <2>1, <2>2
<1>31. CASE WalkValue(t)
  <2>1. th[t].op # "erase"
    BY <1>a, <1>31, WalkValueDoes DEF At, CallOK, Places, Puts, Storing, Copying, Clearing, Erasing
  <2>2. th'[t].op = th[t].op
    BY <1>a, <1>31, WalkValueDoes DEF Local
  <2> QED
    BY <1>e, <2>1, <2>2
<1>32. CASE FillSlot(t)
  <2>1. th[t].op # "erase"
    BY <1>a, <1>32, FillSlotDoes DEF At, CallOK, Places, Puts, Storing, Copying, Clearing, Erasing
  <2>2. th'[t].op = th[t].op
    BY <1>a, <1>32, FillSlotDoes DEF Local
  <2> QED
    BY <1>e, <2>1, <2>2
<1>33. CASE DecrLimit(t)
  <2>1. th[t].op # "erase"
    BY <1>a, <1>33, DecrLimitDoes DEF At, CallOK, Places, Puts, Storing, Copying, Clearing, Erasing
  <2>2. th'[t].op = th[t].op
    BY <1>a, <1>33, DecrLimitDoes DEF Local
  <2> QED
    BY <1>e, <2>1, <2>2
<1>34. CASE ClearFreeValue(t)
  <2>1. th[t].op # "erase"
    BY <1>a, <1>34, ClearFreeValueDoes DEF At, CallOK, Places, Puts, Storing, Copying, Clearing, Erasing
  <2>2. th'[t].op = th[t].op
    BY <1>a, <1>34, ClearFreeValueDoes DEF Local
  <2> QED
    BY <1>e, <2>1, <2>2
<1>35. CASE OldKey(t)
  <2>1. th'[t].pc \in Last
    BY <1>a, <1>35, OldKeyDoes DEF Local
  <2> QED
    BY <1>c, <2>1
<1>36. CASE TakeValue(t)
  <2>1. th'[t].pc \in Last
    BY <1>a, <1>36, TakeValueDoes DEF Local
  <2> QED
    BY <1>c, <2>1
<1>37. CASE CountDown(t)
  <2>1. th'[t].pc \in Last
    BY <1>a, <1>37, CountDownDoes DEF Local
  <2> QED
    BY <1>c, <2>1
<1>38. CASE TakeFails(t)
  <2>1. th'[t].kobj = Null
    BY <1>a, <1>38, TakeFailsDoes DEF Local
  <2> QED
    BY <1>c, <2>1
<1>39. CASE ClearStart(t)
  <2>1. th'[t].kobj = Null
    BY <1>a, <1>39, ClearStartDoes DEF Local
  <2> QED
    BY <1>c, <2>1
<1>40. CASE WalkStart(t)
  <2>1. th'[t].kobj = Null
    BY <1>a, <1>40, WalkStartDoes DEF Local
  <2> QED
    BY <1>c, <2>1
<1>41. CASE \E k \in Key : LookupStart(t, k)
  <2>1. th'[t].kobj = Null
    BY <1>41, LookupStartDoes
  <2> QED
    BY <1>c, <2>1
<1>42. CASE \E k \in Key : InsertStart(t, k)
  <2>1. th'[t].kobj = Null
    BY <1>42, InsertStartDoes
  <2> QED
    BY <1>c, <2>1
<1>43. CASE \E k \in Key : AssignStart(t, k)
  <2>1. th'[t].kobj = Null
    BY <1>43, AssignStartDoes
  <2> QED
    BY <1>c, <2>1
<1>44. CASE OldValue(t)
  <2>1. PICK l \in {"take", "rehash", "answer"}, p \in KeyObj \cup {Null}, d \in ValObj \cup {Null} :
          /\ l = "take" => /\ p = th[t].kobj /\ p # Null /\ d # Null
                            /\ ~Here(t).x /\ d = Here(t).val
          /\ l # "take" => p = Null /\ d = th[t].word
          /\ th'[t] = [th[t] EXCEPT !.pc = l, !.word = d, !.kobj = p]
    BY <1>44, OldValueDoes
  <2>2. th'[t].pc = l /\ th'[t].kobj = p
    BY <1>a, <2>1 DEF Local
  <2> QED
    BY <1>c, <2>1, <2>2
<1> QED
  BY <1>1, <1>2, <1>3, <1>4, <1>5, <1>6, <1>7, <1>8, <1>9, <1>10, <1>11, <1>12, <1>13, <1>14, <1>15, <1>16, <1>17, <1>18, <1>19, <1>20, <1>21, <1>22, <1>23, <1>24, <1>25, <1>26, <1>27, <1>28, <1>29, <1>30, <1>31, <1>32, <1>33, <1>34, <1>35, <1>36, <1>37, <1>38, <1>39, <1>40, <1>41, <1>42, <1>43, <1>44 DEF Moves, Start, Proceed

-----------------------------------------------------------------------------
(* How an object leaves a slot.                                            *)

(* What becomes of the slot that a step writes to.                         *)
LEMMA Writing ==
  ASSUME Shape, AloneOK, RoomOK, NEW t \in Thread, Moves(t), NEW w \in Vector,
         tab[w].pidx # 0, NEW i \in DOMAIN tab'[w].slot, Writes(t, w, i)
  PROVE  /\ SwapValue(t) => SlotSwapped(t, w, i)
         /\ TakeValue(t) => SlotTaken(t, w, i)
         /\ Bury(t) => SlotBuried(t, w, i)
         /\ Mark(t) => SlotBarred(t, w, i)
         /\ ClearFreeKey(t) => SlotKeyFreed(t, w, i)
         /\ ClearFreeValue(t) => SlotValueFreed(t, w, i)
<1>1. SlotStep(t, w, i) /\ ~SlotMade(t, w, i)
  BY SlotSteps DEF SlotMade
<1>2. /\ FillSlot(t) => th[t].pc = "dcas"
      /\ SwapValue(t) => th[t].pc = "swap"
      /\ TakeValue(t) => th[t].pc = "take"
      /\ Bury(t) => th[t].pc = "bury"
      /\ CopyValue(t) => th[t].pc = "copyval"
      /\ Mark(t) => th[t].pc = "mark"
      /\ ClearFreeKey(t) => th[t].pc = "clrput"
      /\ ClearFreeValue(t) => th[t].pc = "clrval"
  BY DEF FillSlot, SwapValue, TakeValue, Bury, CopyValue, Mark, ClearFreeKey,
         ClearFreeValue, At
<1> QED
  BY <1>1, <1>2 DEF SlotStep, SlotSame, SlotFilled, SlotSwapped, SlotTaken, SlotBuried,
     SlotBarred, SlotCopied, SlotKeyFreed, SlotValueFreed

(* The slot that clear or assign has come to does not have the bit.        *)
LEMMA AloneUnbarred ==
  ASSUME Structure, NEW t \in Thread, th[t].pc \in Clearing \cup {"mark"},
         NEW i \in DOMAIN tab[vec].slot, th[t].pc = "mark" => i = th[t].ix
  PROVE  ~tab[vec].slot[i].x
<1> USE DEF Structure, Shape
<1> SUFFICES ASSUME tab[vec].slot[i].x PROVE FALSE
  OBVIOUS
<1>1. tab[vec].slot[i].x =
        \E u \in Thread :
          \/ th[u].pc \in {"copykey", "copyval", "mark"} /\ i < th[u].ix
          \/ th[u].pc \in {"setlimit", "install"}
  BY DEF BitsOK
<1>2. PICK u \in Thread :
        \/ th[u].pc \in {"copykey", "copyval", "mark"} /\ i < th[u].ix
        \/ th[u].pc \in {"setlimit", "install"}
  BY <1>1
<1>3. lock = u /\ lock = t
  BY <1>2 DEF LockOK, Copying
<1>4. th[t].ix \in Nat
  BY DEF Types, Local
<1> QED
  BY <1>2, <1>3, <1>4 DEF Clearing

(* What a slot of the vector in use loses,                                 *)
Loses(t, i, o) ==
  /\ Owner(vec, i, o)
  /\ i \in DOMAIN tab'[vec].slot /\ ~In(o, tab'[vec].slot[i])

(* when an erase takes a value, or clear a key.                            *)
LEMMA TakenFrom ==
  ASSUME Structure, RoomOK, NEW t \in Thread, Moves(t), NEW o \in Elem,
         \/ TakeValue(t) /\ o = th[t].word
         \/ ClearFreeKey(t) /\ o = th[t].kobj
  PROVE  /\ vec' = vec /\ o \notin Made(t)' /\ life' = life
         /\ \E i \in DOMAIN tab[vec].slot : Loses(t, i, o)
<1> USE DEF Structure, Shape
<1>1. /\ o \notin Word /\ o # Null /\ (o \in KeyObj => o \notin ValObj)
      /\ CallOK(t) /\ th[t] \in Local
  BY Elements DEF CallsOK, Types
<1>2. CASE TakeValue(t) /\ o = th[t].word
  <2>1. /\ th[t].pc = "take" /\ Here(t).val = o /\ ~Here(t).x
        /\ th'[t] = [th[t] EXCEPT !.pc = "uncount"]
    BY <1>2, TakeValueDoes DEF At
  <2>2. /\ th[t].vec \in Vector /\ Slot(t) \in DOMAIN tab[th[t].vec].slot
        /\ Here(t).key \in KeyObj \cup Word /\ Here(t).val \in ValObj \cup Word
    BY <2>1, Found
  <2>3. th[t].vec = vec
    BY <1>1, <2>1, <2>2, Unbarred DEF Here, CallOK
  <2>4. /\ vec' = vec /\ vec \in Vector /\ tab[vec].pidx # 0
        /\ DOMAIN tab'[vec].slot = DOMAIN tab[vec].slot
    BY <2>1, VecStays
  <2>5. PICK i : i = Slot(t)
    OBVIOUS
  <2>6. i \in DOMAIN tab[vec].slot /\ Here(t) = tab[vec].slot[i]
    BY <2>2, <2>3, <2>5 DEF Here
  <2>7. Owner(vec, i, o)
    BY <2>1, <2>6 DEF Owner, Owning, In
  <2>8. Writes(t, vec, i)
    BY <1>2, <2>3, <2>5 DEF Writes
  <2>9. SlotTaken(t, vec, i)
    BY <1>2, <2>4, <2>6, <2>8, Writing
  <2>10. ~In(o, tab'[vec].slot[i])
    BY <1>1, <2>1, <2>2, <2>6, <2>9 DEF SlotTaken, In, Word
  <2>11. o \notin Made(t)'
    <3>1. th[t].op = "erase"
      BY <1>1, <2>1 DEF CallOK, Places, Storing, Copying, Clearing
    <3> QED
      BY <1>1, <2>1, <3>1 DEF Made, Puts, Local
  <2>12. life' = life
    BY <1>2 DEF TakeValue
  <2> QED
    BY <2>4, <2>6, <2>7, <2>10, <2>11, <2>12 DEF Loses
<1>3. CASE ClearFreeKey(t) /\ o = th[t].kobj
  <2>1. /\ th[t].pc = "clrput" /\ th'[t] = [th[t] EXCEPT !.pc = "clrval"]
    BY <1>3, ClearFreeKeyDoes DEF At
  <2>2. /\ th[t].ix \in DOMAIN tab[th[t].vec].slot
        /\ This(t).key \in KeyObj \cup Word /\ This(t).val \in ValObj \cup Word
    BY <2>1, Found
  <2>3. th[t].vec = vec
    BY <2>1 DEF LockOK, Clearing
  <2>4. /\ vec' = vec /\ vec \in Vector /\ tab[vec].pidx # 0
        /\ DOMAIN tab'[vec].slot = DOMAIN tab[vec].slot
    BY <2>1, VecStays
  <2>5. PICK i : i = th[t].ix
    OBVIOUS
  <2>6. i \in DOMAIN tab[vec].slot /\ This(t) = tab[vec].slot[i]
    BY <2>2, <2>3, <2>5 DEF This
  <2>7. Owner(vec, i, o)
    <3>1. ~tab[vec].slot[i].x
      BY <2>1, <2>6, AloneUnbarred DEF Clearing
    <3>2. This(t).key = o
      BY <1>3, <2>1 DEF WipedOK, Clearing, At
    <3> QED
      BY <2>6, <3>1, <3>2 DEF Owner, Owning, In
  <2>8. Writes(t, vec, i)
    BY <1>3, <2>3, <2>5 DEF Writes
  <2>9. SlotKeyFreed(t, vec, i)
    BY <1>3, <2>4, <2>6, <2>8, Writing
  <2>10. ~In(o, tab'[vec].slot[i])
    <3>1. This(t).key = o
      BY <1>3, <2>1 DEF WipedOK, Clearing, At
    <3> QED
      BY <1>1, <2>2, <2>6, <2>9, <3>1 DEF SlotKeyFreed, In, Word
  <2>11. o \notin Made(t)'
    <3>1. th[t].op = "clear"
      BY <1>1, <2>1 DEF CallOK, Places, Storing, Copying, Erasing
    <3> QED
      BY <1>1, <2>1, <3>1 DEF Made, Puts, Local
  <2>12. life' = life
    BY <1>3 DEF ClearFreeKey
  <2> QED
    BY <2>4, <2>6, <2>7, <2>10, <2>11, <2>12 DEF Loses
<1> QED
  BY <1>2, <1>3

(* What is finalized is no longer held, or no longer owned by the slot     *)
(* that it was in.                                                         *)
GivesUp(t, w, i, o) ==
  /\ w = th[t].vec /\ Owner(w, i, o) /\ ~Owner(w, i, o)'
  /\ Mark(t) \/ i \notin DOMAIN tab'[w].slot \/ ~In(o, tab'[w].slot[i])

Retires(t, o) ==
  /\ life[o] = "live" /\ th[t].pc # "install"
  /\ \/ o \in Taken(t) /\ Held(t)' = {}
     \/ \E w \in Vector : \E i \in DOMAIN tab[w].slot : GivesUp(t, w, i, o)

(* What a slot owns is live, and no call holds it.                         *)
LEMMA OwnedAreLive ==
  ASSUME OwnersOK, NEW w \in Vector, NEW i \in DOMAIN tab[w].slot, NEW o \in Elem,
         Owner(w, i, o)
  PROVE  life[o] = "live" /\ \A t \in Thread : o \notin Held(t)
BY DEF OwnersOK

(* A swap finalizes the value that its slot owned.                         *)
LEMMA SwapRetires ==
  ASSUME Structure, RoomOK, OwnersOK, HeldOK, NEW t \in Thread, Moves(t),
         NEW o \in Elem, SwapValue(t), o = th[t].word
  PROVE  Retires(t, o)
<1> USE DEF Structure, Shape
<1>0. /\ o \notin Word /\ o # Null /\ (o \in KeyObj => o \notin ValObj)
      /\ CallOK(t) /\ th[t] \in Local
  BY Elements DEF CallsOK, Types
<1>1. th[t].pc = "swap" /\ Here(t).val = o /\ ~Here(t).x
  BY SwapValueDoes DEF At
<1>2. /\ th[t].vec \in Vector /\ Slot(t) \in DOMAIN tab[th[t].vec].slot
      /\ Here(t).key \in KeyObj \cup Word /\ Here(t).val \in ValObj \cup Word
  BY <1>1, Found
<1>3. th[t].vec = vec
  BY <1>0, <1>1, <1>2, Unbarred DEF Here, CallOK
<1>4. /\ vec' = vec /\ vec \in Vector /\ tab[vec].pidx # 0
      /\ DOMAIN tab'[vec].slot = DOMAIN tab[vec].slot
  BY <1>1, VecStays
<1>5. PICK i : i = Slot(t)
  OBVIOUS
<1>6. i \in DOMAIN tab[vec].slot /\ Here(t) = tab[vec].slot[i]
  BY <1>2, <1>3, <1>5 DEF Here
<1>7. Owner(vec, i, o)
  BY <1>1, <1>6 DEF Owner, Owning, In
<1>8. Writes(t, vec, i)
  BY <1>3, <1>5 DEF Writes
<1>9. SlotSwapped(t, vec, i)
  BY <1>4, <1>6, <1>8, Writing
<1>10. th[t].own # o
  <2>1. th[t].own \in ValObj /\ Puts(t)
    BY <1>0, <1>1, Names DEF CallOK, At, Local, Places, Puts, Copying, Clearing, Erasing
  <2>2. th[t].own \in Made(t) /\ th[t].own \in Elem
    BY <1>1, <2>1 DEF Made, At, Elem
  <2>3. th[t].own \in Held(t)
    BY <2>2 DEF Held
  <2>4. ~In(th[t].own, tab[vec].slot[i])
    BY <1>6, <2>2, <2>3 DEF HeldOK
  <2> QED
    BY <1>1, <1>6, <2>4 DEF In
<1>11. ~In(o, tab'[vec].slot[i])
  BY <1>0, <1>1, <1>2, <1>6, <1>9, <1>10 DEF SlotSwapped, In, Word
<1>12. ~Owner(vec, i, o)'
  BY <1>4, <1>11 DEF Owner
<1>13. GivesUp(t, vec, i, o)
  BY <1>3, <1>4, <1>7, <1>11, <1>12 DEF GivesUp
<1> QED
  BY <1>1, <1>4, <1>6, <1>7, <1>13, OwnedAreLive DEF Retires

(* An erase finalizes the key that its slot owned, and the value it took.  *)
LEMMA BuryRetires ==
  ASSUME Structure, RoomOK, ProbesOK, OwnersOK, HeldOK, NEW t \in Thread, Moves(t),
         NEW o \in Elem, Bury(t), o \in {th[t].kobj, th[t].word}
  PROVE  Retires(t, o)
<1> USE DEF Structure, Shape
<1>0. /\ o \notin Word /\ o # Null
      /\ CallOK(t) /\ th[t] \in Local
  BY Elements DEF CallsOK, Types
<1>1. th[t].pc = "bury" /\ th'[t] = Rest
  BY BuryDoes DEF At
<1>2. CASE o = th[t].word
  <2>1. o \in Taken(t)
    BY <1>1, <1>2 DEF Taken
  <2>2. life[o] = "live"
    BY <2>1 DEF HeldOK, Held
  <2> QED
    BY <1>1, <2>1, <2>2, NothingHeld DEF Retires
<1>3. CASE o = th[t].kobj
  <2>1. PICK w \in Vector : w = th[t].vec /\ tab[w].pidx # 0
    BY <1>1, Found
  <2>2. PICK i \in DOMAIN tab[w].slot : i = Slot(t) /\ Here(t) = tab[w].slot[i]
    BY <1>1, <2>1, Found DEF Here
  <2>3. Here(t).key = o /\ Here(t).val = DELT
    BY <1>1, <1>3 DEF ProbesOK
  <2>4. Owner(w, i, o)
    BY <2>2, <2>3 DEF Owner, Owning, In
  <2>5. Writes(t, w, i)
    BY <2>1, <2>2 DEF Writes
  <2>6. i \in DOMAIN tab'[w].slot => ~In(o, tab'[w].slot[i])
    <3> HAVE i \in DOMAIN tab'[w].slot
    <3>1. SlotBuried(t, w, i)
      BY <2>1, <2>5, Writing
    <3> QED
      BY <1>0, <2>2, <2>3, <3>1 DEF SlotBuried, In, Word
  <2>7. ~Owner(w, i, o)'
    BY <2>6 DEF Owner
  <2>8. GivesUp(t, w, i, o)
    BY <2>1, <2>4, <2>6, <2>7 DEF GivesUp
  <2> QED
    BY <1>1, <2>4, <2>8, OwnedAreLive DEF Retires
<1> QED
  BY <1>2, <1>3

(* An assign finalizes what a slot owned that it bars.                     *)
LEMMA MarkRetires ==
  ASSUME Structure, RoomOK, OwnersOK, NEW t \in Thread, Moves(t),
         NEW o \in Elem, Mark(t), This(t).val \in ValObj, o \in {This(t).key, This(t).val}
  PROVE  Retires(t, o)
<1> USE DEF Structure, Shape
<1>1. th[t].pc = "mark" /\ th[t].ix < Size(th[t].vec)
  BY MarkDoes DEF At
<1>3. th[t].vec = vec
  BY <1>1 DEF LockOK
<1>4. /\ vec' = vec /\ vec \in Vector /\ tab[vec].pidx # 0
      /\ DOMAIN tab'[vec].slot = DOMAIN tab[vec].slot
  BY <1>1, VecStays
<1>5. PICK i : i = th[t].ix
  OBVIOUS
<1>6. i \in DOMAIN tab[vec].slot /\ This(t) = tab[vec].slot[i]
  BY <1>1, <1>3, <1>5, Found DEF This
<1>7. Owner(vec, i, o)
  <2>1. ~tab[vec].slot[i].x
    BY <1>1, <1>5, <1>6, AloneUnbarred
  <2> QED
    BY <1>6, <2>1 DEF Owner, Owning, In
<1>8. Writes(t, vec, i)
  BY <1>3, <1>5 DEF Writes
<1>9. SlotBarred(t, vec, i)
  BY <1>4, <1>6, <1>8, Writing
<1>12. ~Owner(vec, i, o)'
  <2>1. tab'[vec].slot[i].x /\ tab'[vec].slot[i].val # DELT
    BY <1>6, <1>9, Names DEF SlotBarred, Word
  <2>2. ~Owning(tab'[vec].slot[i])
    BY <2>1 DEF Owning
  <2> QED
    BY <1>4, <2>2 DEF Owner
<1>13. GivesUp(t, vec, i, o)
  BY <1>3, <1>7, <1>12 DEF GivesUp
<1> QED
  BY <1>1, <1>4, <1>6, <1>7, <1>13, OwnedAreLive DEF Retires

(* clear finalizes the key that it took, and the value its slot owned.     *)
LEMMA ClearRetires ==
  ASSUME Structure, RoomOK, OwnersOK, HeldOK, NEW t \in Thread, Moves(t),
         NEW o \in Elem, ClearFreeValue(t), o \in {th[t].kobj, This(t).val}
  PROVE  Retires(t, o)
<1> USE DEF Structure, Shape
<1>0. /\ o \notin Word /\ o # Null
      /\ CallOK(t) /\ th[t] \in Local
  BY Elements DEF CallsOK, Types
<1>1. th[t].pc = "clrval"
  BY ClearFreeValueDoes DEF At
<1>2. CASE o = th[t].kobj
  <2>1. o \in Taken(t)
    BY <1>1, <1>2 DEF Taken, At
  <2>2. life[o] = "live"
    BY <2>1 DEF HeldOK, Held
  <2>3. th'[t].op = th[t].op /\ th'[t].pc \in {"clrkey", "clrlimit"}
    <3>1. CASE th[t].ix + 1 < Size(th[t].vec)
      <4>1. PICK v : th'[t] = [th[t] EXCEPT !.pc = "clrkey", !.ix = th[t].ix + 1, !.kobj = Null, !.own = v]
        BY <3>1, ClearFreeValueDoes
      <4> QED
        BY <1>0, <4>1 DEF Local
    <3>2. CASE ~(th[t].ix + 1 < Size(th[t].vec))
      <4>1. PICK v : th'[t] = [th[t] EXCEPT !.pc = "clrlimit", !.ix = 0, !.kobj = Null, !.own = v]
        BY <3>2, ClearFreeValueDoes
      <4> QED
        BY <1>0, <4>1 DEF Local
    <3> QED
      BY <3>1, <3>2
  <2>4. th[t].op = "clear"
    BY <1>0, <1>1 DEF CallOK, Places, Storing, Copying, Erasing
  <2>5. Held(t)' = {}
    BY <2>3, <2>4 DEF Held, Made, Taken, Puts, At
  <2> QED
    BY <1>1, <2>1, <2>2, <2>5 DEF Retires
<1>3. CASE o = This(t).val
  <2>3. th[t].vec = vec
    BY <1>1 DEF LockOK, Clearing
  <2>4. /\ vec' = vec /\ vec \in Vector /\ tab[vec].pidx # 0
        /\ DOMAIN tab'[vec].slot = DOMAIN tab[vec].slot
    BY <1>1, VecStays
  <2>5. PICK i : i = th[t].ix
    OBVIOUS
  <2>6. i \in DOMAIN tab[vec].slot /\ This(t) = tab[vec].slot[i]
    BY <1>1, <2>3, <2>5, Found DEF This
  <2>7. Owner(vec, i, o)
    <3>1. ~tab[vec].slot[i].x
      BY <1>1, <2>6, AloneUnbarred DEF Clearing
    <3> QED
      BY <1>3, <2>6, <3>1 DEF Owner, Owning, In
  <2>8. Writes(t, vec, i)
    BY <2>3, <2>5 DEF Writes
  <2>9. SlotValueFreed(t, vec, i)
    BY <2>4, <2>6, <2>8, Writing
  <2>10. ~In(o, tab'[vec].slot[i])
    <3>1. This(t).key = FREE
      BY <1>1 DEF WipedOK, Clearing, At
    <3> QED
      BY <1>0, <2>6, <2>9, <3>1 DEF SlotValueFreed, In, Word
  <2>12. ~Owner(vec, i, o)'
    BY <2>4, <2>10 DEF Owner
  <2>13. GivesUp(t, vec, i, o)
    BY <2>3, <2>7, <2>10, <2>12 DEF GivesUp
  <2> QED
    BY <1>1, <2>4, <2>6, <2>7, <2>13, OwnedAreLive DEF Retires
<1> QED
  BY <1>2, <1>3

(* What is finalized is live until then, and is given up by who finalizes  *)
(* it.                                                                     *)
LEMMA RetiredFrom ==
  ASSUME Structure, RoomOK, ProbesOK, OwnersOK, HeldOK, NEW t \in Thread, Moves(t),
         NEW o \in Elem, LifeRetired(t, o)
  PROVE  Retires(t, o)
BY SwapRetires, BuryRetires, MarkRetires, ClearRetires DEF LifeRetired

-----------------------------------------------------------------------------
(* Owners.                                                                 *)

(* How a rehash, or an assign, goes on.                                    *)
LEMMA CopyingMoves ==
  ASSUME NEW t \in Thread, Moves(t), th[t].pc \in Copying
  PROVE  CopyKey(t) \/ CopyValue(t) \/ SetLimit(t) \/ Install(t) \/ AssignInstall(t)
<1>1. th[t].pc \in {"copykey", "copyval", "setlimit", "install"}
  BY DEF Copying
<1>2. ~Start(t)
  BY <1>1 DEF Start, LookupStart, InsertStart, AssignStart, ClearStart, WalkStart, Call, At
<1>3. Proceed(t)
  BY <1>2 DEF Moves
<1> QED
  BY <1>1, <1>3 DEF Proceed, At, ProbeFree, ProbeMatch, ProbeNext, FindValue, Answer, PutValue, UpdateInPlace, SwapValue, DecrLimit, PutWait, FillSlot, StoreFails, CountUp, OldKey, OldValue, TakeValue, TakeFails, CountDown, Bury, NoRehash, RehashStart, OutOfMemory, AssignAcquire, Mark, AssignLimit, ClearAcquire, ClearReadKey, ClearFreeKey, ClearFreeValue, ClearSetLimit, ClearDone, WalkKey, WalkValue, WalkEnd, StoreMustFail

(* A rehash is at it until it installs the vector that it makes.           *)
LEMMA CopierStays ==
  ASSUME Shape, NEW t \in Thread, Moves(t), vec' = vec, NEW u \in Thread, Copier(u)
  PROVE  Copier(u)' /\ th'[u].np = th[u].np
<1> USE DEF Shape
<1>1. CASE u # t
  <2>1. th'[u] = th[u]
    BY <1>1, ThreadTypes
  <2> QED
    BY <2>1 DEF Copier, Exclusive
<1>2. CASE u = t
  <2>1. th[t] \in Local /\ th[t].pc \in Copying /\ CallOK(t) /\ ~Exclusive(t)
    BY <1>2 DEF Types, CallsOK, Copier
  <2>2. ~Install(t) /\ ~AssignInstall(t)
    <3>1. th[t].np # Null
      BY <2>1 DEF CallOK
    <3>2. th[t].np # vec
      BY <3>1 DEF VectorsOK
    <3> QED
      BY <3>2 DEF Install, AssignInstall
  <2>3. CASE CopyKey(t)
    <3>1. th'[t] = [th[t] EXCEPT !.pc = "copyval", !.word = This(t).key]
      BY <2>3, CopyKeyDoes
    <3> QED
      BY <1>2, <2>1, <3>1 DEF Copier, Exclusive, Local, Copying
  <2>4. CASE CopyValue(t)
    <3>1. \/ th'[t] = [th[t] EXCEPT !.pc = "copykey", !.ix = th[t].ix + 1, !.word = Null]
          \/ th'[t] = [th[t] EXCEPT !.pc = "setlimit", !.ix = 0, !.word = Null]
      BY <2>4, CopyValueDoes
    <3>2. /\ th'[t].pc \in {"copykey", "setlimit"} /\ th'[t].op = th[t].op
          /\ th'[t].np = th[t].np
      <4>1. CASE th'[t] = [th[t] EXCEPT !.pc = "copykey", !.ix = th[t].ix + 1, !.word = Null]
        BY <2>1, <4>1 DEF Local
      <4>2. CASE th'[t] = [th[t] EXCEPT !.pc = "setlimit", !.ix = 0, !.word = Null]
        BY <2>1, <4>2 DEF Local
      <4> QED
        BY <3>1, <4>1, <4>2
    <3> QED
      BY <1>2, <2>1, <3>2 DEF Copier, Exclusive, Copying
  <2>5. CASE SetLimit(t)
    <3>1. th'[t] = [th[t] EXCEPT !.pc = "install"]
      BY <2>5, SetLimitDoes
    <3> QED
      BY <1>2, <2>1, <3>1 DEF Copier, Exclusive, Local, Copying
  <2> QED
    BY <2>1, <2>2, <2>3, <2>4, <2>5, CopyingMoves
<1> QED
  BY <1>1, <1>2

(* A vector that is being made owns what is in it.                         *)
LEMMA NewOwns ==
  ASSUME BitsOK, NEW u \in Thread, th[u].np # Null, NEW w, w = th[u].np,
         NEW i \in DOMAIN tab[w].slot, NEW o \in Elem, In(o, tab[w].slot[i])
  PROVE  Owner(w, i, o)
<1>1. LET s == tab[w].slot[i] IN s = EmptySlot \/ (IsLive(s) /\ ~s.x)
  BY DEF BitsOK
<1>2. tab[w].slot[i] # EmptySlot
  BY Elements DEF In, EmptySlot, Word
<1> QED
  BY <1>1, <1>2 DEF Owner, Owning

(* A slot that has what it had before, and only such a slot, is in the     *)
(* vector that a step installs.                                            *)
LEMMA InstalledOwns ==
  ASSUME Excluding, Core, SlotsInv, NEW t \in Thread, Moves(t), vec' # vec,
         NEW i \in DOMAIN tab'[vec'].slot, NEW o \in Elem, In(o, tab'[vec'].slot[i])
  PROVE  Owner(vec', i, o) /\ vec' \in Vector /\ th[t].pc = "install" /\ vec' = th[t].np
<1> USE DEF Core, Structure, SlotsInv
<1>1. /\ th[t].pc = "install" /\ vec' = th[t].np /\ vec' \in Vector
  BY VecMoves
<1>2. PICK w \in Vector : w = vec'
  BY <1>1
<1>3. i \in DOMAIN tab'[w].slot /\ In(o, tab'[w].slot[i])
  BY <1>2
<1>4. i \in DOMAIN tab[w].slot /\ In(o, tab[w].slot[i])
  BY <1>3, SlotSources DEF SlotStores, SlotCopies, SlotBorn
<1>5. th[t].np # Null
  BY <1>1, <1>2, Names
<1> QED
  BY <1>1, <1>2, <1>4, <1>5, NewOwns

(* Who stores a thing in the table had made it, and holds it no longer.    *)
LEMMA StoredWas ==
  ASSUME Core, MemoryInv, NEW t \in Thread, Moves(t), NEW w, NEW i, NEW o \in Elem,
         SlotStores(t, w, i, o)
  PROVE  /\ o \in Held(t) /\ o \in Made(t) /\ o \notin Held(t)'
         /\ th[t].pc \in {"swap", "dcas"} /\ life'[o] = "live"
<1> USE DEF Core, Structure, MemoryInv
<1>1. /\ o \in Held(t) /\ o \in Made(t) /\ o \notin Held(t)'
      /\ FillSlot(t) \/ (SwapValue(t) /\ o = th[t].own)
  BY DEF SlotStores, Held
<1>2. th[t].pc \in {"swap", "dcas"}
  BY <1>1 DEF FillSlot, SwapValue, At
<1>3. life[o] = "live"
  BY <1>1 DEF HeldOK
<1>4. ~LifeDropped(t, o)
  <2>1. CASE FillSlot(t)
    BY <2>1 DEF LifeDropped, FillSlot, UpdateInPlace, OutOfMemory, StoreFails, StoreMustFail, SwapValue, At
  <2>2. CASE SwapValue(t) /\ o = th[t].own
    <3>1. o # th[t].kobj
      <4>1. th[t].own \in ValObj \cup {Null} /\ th[t].kobj \in KeyObj \cup Word \cup {Null}
        BY Locals DEF Shape
      <4> QED
        BY <2>2, <4>1, Elements
    <3> QED
      BY <2>2, <3>1 DEF LifeDropped, UpdateInPlace, OutOfMemory, StoreFails, StoreMustFail, SwapValue, At
  <2> QED
    BY <1>1, <2>1, <2>2
<1>5. ~LifeRetired(t, o)
  <2>1. CASE FillSlot(t)
    BY <2>1 DEF LifeRetired, FillSlot, Bury, Mark, ClearFreeValue, SwapValue, At
  <2>2. CASE SwapValue(t) /\ o = th[t].own
    <3>1. o # th[t].word
      BY <1>1 DEF HeldOK
    <3> QED
      BY <2>2, <3>1 DEF LifeRetired, Bury, Mark, ClearFreeValue, SwapValue, At
  <2> QED
    BY <1>1, <2>1, <2>2
<1>6. LifeKept(t, o) \/ LifeMade(t, o)
  BY <1>4, <1>5, LifeSteps DEF LifeStep
<1> QED
  BY <1>1, <1>2, <1>3, <1>6 DEF LifeKept, LifeMade

(* What a rehash copies had an owner, and has another then.                *)
LEMMA CopiedWas ==
  ASSUME Core, MemoryInv, NEW t \in Thread, Moves(t), NEW w, NEW i, NEW o \in Elem,
         SlotCopies(t, w, i, o)
  PROVE  /\ life' = life /\ life[o] = "live" /\ vec \in Vector
         /\ \A u \in Thread : o \notin Held(u)
         /\ \E j \in DOMAIN tab[vec].slot : Owner(vec, j, o) /\ ~Owner(vec, j, o)'
<1> USE DEF Core, Structure, Shape, MemoryInv
<1>1. PICK j : j = th[t].ix /\ Owner(vec, j, o) /\ ~Owner(vec, j, o)'
  BY DEF SlotCopies
<1>2. life' = life
  BY DEF SlotCopies, CopyValue
<1>3. vec \in Vector /\ j \in DOMAIN tab[vec].slot
  BY <1>1 DEF Types, Owner
<1> QED
  BY <1>1, <1>2, <1>3, OwnedAreLive

(* What a step puts in a slot is live.                                     *)
LEMMA SourceLive ==
  ASSUME Core, MemoryInv, NEW t \in Thread, Moves(t), NEW w, NEW i, NEW o \in Elem,
         SlotStores(t, w, i, o) \/ SlotCopies(t, w, i, o) \/ SlotBorn(t, w, i, o)
  PROVE  life'[o] = "live"
<1>1. CASE SlotStores(t, w, i, o)
  BY <1>1, StoredWas
<1>2. CASE SlotCopies(t, w, i, o)
  BY <1>2, CopiedWas
<1>3. CASE SlotBorn(t, w, i, o)
  BY <1>3 DEF SlotBorn
<1> QED
  BY <1>1, <1>2, <1>3

(* A slot that owns a thing did so before, or is given it in this step.    *)
LEMMA OwnerSources ==
  ASSUME Excluding, Core, SlotsInv, NEW t \in Thread, Moves(t),
         NEW w \in Vector, NEW i, NEW o \in Elem, Owner(w, i, o)'
  PROVE  \/ i \in DOMAIN tab[w].slot /\ Owner(w, i, o)
         \/ SlotStores(t, w, i, o) \/ SlotCopies(t, w, i, o) \/ SlotBorn(t, w, i, o)
<1> USE DEF Core, Structure, SlotsInv
<1>1. i \in DOMAIN tab'[w].slot /\ In(o, tab'[w].slot[i]) /\ Owning(tab'[w].slot[i])
  BY DEF Owner, In, Owning
<1>2. \/ /\ i \in DOMAIN tab[w].slot /\ In(o, tab[w].slot[i])
         /\ Owning(tab'[w].slot[i]) => Owning(tab[w].slot[i])
      \/ SlotStores(t, w, i, o) \/ SlotCopies(t, w, i, o) \/ SlotBorn(t, w, i, o)
  BY <1>1, SlotSources
<1> QED
  BY <1>1, <1>2 DEF Owner

(* One slot owns a thing at most.                                          *)
LEMMA OwnerIsOne ==
  ASSUME OwnersOK, NEW o \in Elem, NEW w \in Vector, NEW i, Owner(w, i, o),
         NEW v \in Vector, NEW j, Owner(v, j, o)
  PROVE  v = w /\ j = i
<1>1. i \in DOMAIN tab[w].slot /\ j \in DOMAIN tab[v].slot
  BY DEF Owner
<1> QED
  BY <1>1 DEF OwnersOK

(* What is held is live, and only one call holds it.                       *)
LEMMA HeldAreLive ==
  ASSUME HeldOK, NEW u \in Thread, NEW o \in Elem, o \in Held(u)
  PROVE  /\ life[o] = "live" /\ \A x \in Thread : o \in Held(x) => x = u
         /\ \A j \in DOMAIN tab[vec].slot : ~In(o, tab[vec].slot[j])
         /\ \A w \in Vector : \A i : ~Owner(w, i, o) \/ ~OwnersOK
<1>1. \A w \in Vector : \A i : ~Owner(w, i, o) \/ ~OwnersOK
  BY OwnedAreLive DEF Owner
<1> QED
  BY <1>1 DEF HeldOK

(* Where what a call holds comes from.                                     *)
HeldBefore(u, o) ==
  o \in Held(u) /\ (o \in Made(u)' => o \in Made(u))
HeldNew(t, u, o) ==
  u = t /\ o \in Made(t)' /\ life[o] = "free" /\ life'[o] = "live"
HeldTaken(t, u, o) ==
  /\ u = t /\ th[t].pc \in {"take", "clrput"} /\ o \notin Made(t)'
  /\ vec' = vec /\ life' = life
  /\ \E i \in DOMAIN tab[vec].slot : Loses(t, i, o)

(* A call held it before, or makes it, or takes it out of a slot that it   *)
(* leaves.                                                                 *)
LEMMA HeldSources ==
  ASSUME Core, NEW t \in Thread, Moves(t), NEW u \in Thread, NEW o \in Elem, o \in Held(u)'
  PROVE  HeldBefore(u, o) \/ HeldNew(t, u, o) \/ HeldTaken(t, u, o)
<1> USE DEF Core, Structure
<1>1. CASE u # t
  <2>1. th'[u] = th[u]
    BY <1>1, ThreadTypes
  <2>2. Made(u)' = Made(u) /\ Taken(u)' = Taken(u)
    BY <2>1 DEF Made, Taken, Puts, At
  <2> QED
    BY <2>2 DEF HeldBefore, Held
<1>2. CASE u = t
  <2>1. HeldFrom(t, o)
    BY <1>2, HeldSteps
  <2>2. CASE TakeValue(t) /\ o = th[t].word
    <3>1. th[t].pc \in {"take", "clrput"}
      BY <2>2 DEF TakeValue, At
    <3> QED
      BY <1>2, <2>2, <3>1, TakenFrom DEF HeldTaken
  <2>3. CASE ClearFreeKey(t) /\ o = th[t].kobj
    <3>1. th[t].pc \in {"take", "clrput"}
      BY <2>3 DEF ClearFreeKey, At
    <3> QED
      BY <1>2, <2>3, <3>1, TakenFrom DEF HeldTaken
  <2> QED
    BY <1>2, <2>1, <2>2, <2>3 DEF HeldFrom, HeldBefore, HeldNew
<1> QED
  BY <1>1, <1>2

(* Who starts an assign holds nothing.                                     *)
LEMMA BornNotHeld ==
  ASSUME Core, NEW t \in Thread, NEW w, NEW i, NEW o, SlotBorn(t, w, i, o)
  PROVE  Held(t)' = {}
<1> USE DEF Core, Structure
<1>1. PICK k \in Key : AssignStart(t, k)
  BY DEF SlotBorn
<1>2. th'[t].pc = "acquire" /\ th'[t].op = "assign"
  BY <1>1, AssignStartDoes
<1> QED
  BY <1>2 DEF Held, Made, Taken, Puts, At

(* What a slot owns after a step is live then.                             *)
LEMMA OwnerLive ==
  ASSUME Excluding, Core, SlotsInv, MemoryInv, NEW t \in Thread, Moves(t),
         NEW w \in Vector, NEW i, NEW o \in Elem, Owner(w, i, o)'
  PROVE  life'[o] = "live"
<1> USE DEF Core, Structure, SlotsInv, MemoryInv
<1>1. CASE i \in DOMAIN tab[w].slot /\ Owner(w, i, o)
  <2>1. life[o] = "live" /\ \A u \in Thread : o \notin Held(u)
    BY <1>1, OwnedAreLive
  <2>2. ~LifeDropped(t, o)
    BY <2>1 DEF LifeDropped, Held
  <2>3. ~LifeRetired(t, o)
    <3>1. SUFFICES ASSUME LifeRetired(t, o) PROVE FALSE
      OBVIOUS
    <3>2. Retires(t, o)
      BY <3>1, RetiredFrom
    <3>3. o \notin Taken(t)
      BY <2>1 DEF Held
    <3>4. PICK v \in Vector : \E j \in DOMAIN tab[v].slot : GivesUp(t, v, j, o)
      BY <3>2, <3>3 DEF Retires
    <3>5. PICK j : j \in DOMAIN tab[v].slot /\ GivesUp(t, v, j, o)
      BY <3>4
    <3>6. v = w /\ j = i
      BY <1>1, <3>5, OwnerIsOne DEF GivesUp
    <3> QED
      BY <3>5, <3>6 DEF GivesUp
  <2>4. LifeKept(t, o) \/ LifeMade(t, o)
    BY <2>2, <2>3, LifeSteps DEF LifeStep
  <2> QED
    BY <2>1, <2>4 DEF LifeKept, LifeMade
<1>2. CASE SlotStores(t, w, i, o) \/ SlotCopies(t, w, i, o) \/ SlotBorn(t, w, i, o)
  BY <1>2, SourceLive
<1> QED
  BY <1>1, <1>2, OwnerSources

(* A slot that owned a thing before, and the slots that are given it.      *)
LEMMA OwnerOnceOld ==
  ASSUME Excluding, Core, SlotsInv, MemoryInv, NEW t \in Thread, Moves(t), NEW o \in Elem,
         NEW w \in Vector, NEW i, Owner(w, i, o), Owner(w, i, o)',
         NEW v \in Vector, NEW j, Owner(v, j, o)'
  PROVE  v = w /\ j = i
<1> USE DEF Core, Structure, SlotsInv, MemoryInv
<1>1. life[o] = "live" /\ \A u \in Thread : o \notin Held(u)
  BY OwnedAreLive DEF Owner
<1>2. CASE j \in DOMAIN tab[v].slot /\ Owner(v, j, o)
  BY <1>2, OwnerIsOne
<1>3. CASE SlotStores(t, v, j, o)
  BY <1>1, <1>3, StoredWas
<1>4. CASE SlotCopies(t, v, j, o)
  <2>1. vec \in Vector
    BY <1>4, CopiedWas
  <2>2. PICK x \in Vector : x = vec /\ vec' = vec
    BY <1>4, <2>1 DEF SlotCopies
  <2>3. PICK n : Owner(x, n, o) /\ ~Owner(x, n, o)'
    BY <1>4, <2>2, CopiedWas
  <2>4. x = w /\ n = i
    BY <2>3, OwnerIsOne
  <2> QED
    BY <2>3, <2>4
<1>5. CASE SlotBorn(t, v, j, o)
  BY <1>1, <1>5 DEF SlotBorn
<1> QED
  BY <1>2, <1>3, <1>4, <1>5, OwnerSources

(* A thing has one owner after a step.                                     *)
LEMMA OwnerOnce ==
  ASSUME Excluding, Core, SlotsInv, MemoryInv, NEW t \in Thread, Moves(t), NEW o \in Elem,
         NEW w \in Vector, NEW i, Owner(w, i, o)',
         NEW v \in Vector, NEW j, Owner(v, j, o)'
  PROVE  v = w /\ j = i
<1> USE DEF Core, Structure, SlotsInv, MemoryInv
<1>1. CASE i \in DOMAIN tab[w].slot /\ Owner(w, i, o)
  BY <1>1, OwnerOnceOld
<1>2. CASE j \in DOMAIN tab[v].slot /\ Owner(v, j, o)
  BY <1>2, OwnerOnceOld
<1>3. CASE SlotStores(t, w, i, o)
  <2>1. o \in Held(t) /\ life[o] = "live" /\ th[t].pc \in {"swap", "dcas"}
    BY <1>3, StoredWas, HeldAreLive
  <2>2. CASE SlotStores(t, v, j, o)
    BY <1>3, <2>2 DEF SlotStores
  <2>3. CASE SlotCopies(t, v, j, o)
    BY <2>1, <2>3, CopiedWas
  <2>4. CASE SlotBorn(t, v, j, o)
    BY <2>1, <2>4 DEF SlotBorn
  <2> QED
    BY <1>2, <2>2, <2>3, <2>4, OwnerSources
<1>4. CASE SlotCopies(t, w, i, o)
  <2>1. life[o] = "live" /\ o \notin Held(t)
    BY <1>4, CopiedWas
  <2>2. CASE SlotStores(t, v, j, o)
    BY <2>1, <2>2, StoredWas
  <2>3. CASE SlotCopies(t, v, j, o)
    <3>1. Fills(t, w, i) /\ Fills(t, v, j) /\ v = w
      BY <1>4, <2>3 DEF SlotCopies, Fills
    <3> QED
      BY <3>1, FillsOne
  <2>4. CASE SlotBorn(t, v, j, o)
    BY <2>1, <2>4 DEF SlotBorn
  <2> QED
    BY <1>2, <2>2, <2>3, <2>4, OwnerSources
<1>5. CASE SlotBorn(t, w, i, o)
  <2>1. life[o] = "free"
    BY <1>5 DEF SlotBorn
  <2>2. CASE SlotStores(t, v, j, o)
    BY <2>1, <2>2, StoredWas, HeldAreLive
  <2>3. CASE SlotCopies(t, v, j, o)
    BY <2>1, <2>3, CopiedWas
  <2>4. CASE SlotBorn(t, v, j, o)
    BY <1>5, <2>4 DEF SlotBorn
  <2> QED
    BY <1>2, <2>2, <2>3, <2>4, OwnerSources
<1> QED
  BY <1>1, <1>3, <1>4, <1>5, OwnerSources

(* What a slot owns after a step no call holds then.                       *)
LEMMA OwnerNotHeld ==
  ASSUME Excluding, Core, SlotsInv, MemoryInv, NEW t \in Thread, Moves(t), NEW o \in Elem,
         NEW w \in Vector, NEW i, Owner(w, i, o)', NEW u \in Thread
  PROVE  o \notin Held(u)'
<1> USE DEF Core, Structure, SlotsInv, MemoryInv
<1>0. SUFFICES ASSUME o \in Held(u)'
               PROVE  FALSE
  OBVIOUS
<1>1. CASE i \in DOMAIN tab[w].slot /\ Owner(w, i, o)
  <2>1. life[o] = "live" /\ \A x \in Thread : o \notin Held(x)
    BY <1>1, OwnedAreLive
  <2>2. CASE HeldBefore(u, o)
    BY <2>1, <2>2 DEF HeldBefore
  <2>3. CASE HeldNew(t, u, o)
    BY <2>1, <2>3 DEF HeldNew
  <2>4. CASE HeldTaken(t, u, o)
    <3>1. PICK x \in Vector : x = vec /\ vec' = vec
      BY <2>4, VecMoves DEF HeldTaken
    <3>2. PICK n : Owner(x, n, o) /\ ~In(o, tab'[x].slot[n])
      BY <2>4, <3>1 DEF HeldTaken, Loses
    <3>3. x = w /\ n = i
      BY <1>1, <3>2, OwnerIsOne
    <3> QED
      BY <3>2, <3>3 DEF Owner, In
  <2> QED
    BY <1>0, <2>2, <2>3, <2>4, HeldSources
<1>2. CASE SlotStores(t, w, i, o)
  <2>1. /\ o \in Held(t) /\ o \notin Held(t)' /\ life[o] = "live"
        /\ th[t].pc \in {"swap", "dcas"}
    BY <1>2, StoredWas, HeldAreLive
  <2>2. u # t
    BY <1>0, <2>1
  <2>3. o \in Held(u)
    BY <1>0, <2>2, HeldSources DEF HeldBefore, HeldNew, HeldTaken
  <2> QED
    BY <2>1, <2>2, <2>3, HeldAreLive
<1>3. CASE SlotCopies(t, w, i, o)
  <2>1. /\ life[o] = "live" /\ \A x \in Thread : o \notin Held(x)
        /\ th[t].pc = "copyval"
    BY <1>3, CopiedWas DEF SlotCopies, CopyValue, At
  <2> QED
    BY <1>0, <2>1, HeldSources DEF HeldBefore, HeldNew, HeldTaken
<1>4. CASE SlotBorn(t, w, i, o)
  <2>1. life[o] = "free" /\ Held(t)' = {}
    BY <1>4, BornNotHeld DEF SlotBorn
  <2>2. u # t
    BY <1>0, <2>1
  <2>3. o \in Held(u)
    BY <1>0, <2>2, HeldSources DEF HeldBefore, HeldNew, HeldTaken
  <2> QED
    BY <2>1, <2>3, HeldAreLive
<1> QED
  BY <1>1, <1>2, <1>3, <1>4, OwnerSources

(* What the vector in use holds after a step it held before, or is given,  *)
(* or it is a new vector that owned it.                                    *)
LEMMA CurrentSources ==
  ASSUME Excluding, Core, SlotsInv, NEW t \in Thread, Moves(t), NEW o \in Elem,
         NEW v \in Vector, v = vec', NEW j \in DOMAIN tab'[v].slot, In(o, tab'[v].slot[j])
  PROVE  \/ /\ vec' # vec /\ Owner(v, j, o) /\ th[t].pc = "install" /\ v = th[t].np
            /\ v # vec
         \/ vec' = vec /\ v = vec /\ j \in DOMAIN tab[v].slot /\ In(o, tab[v].slot[j])
         \/ vec' = vec /\ v = vec /\ SlotStores(t, v, j, o)
<1> USE DEF Core, Structure, SlotsInv
<1>1. CASE vec' # vec
  <2>1. j \in DOMAIN tab'[vec'].slot /\ In(o, tab'[vec'].slot[j])
    OBVIOUS
  <2> QED
    BY <1>1, <2>1, InstalledOwns
<1>2. CASE vec' = vec
  BY <1>2, SlotSources DEF SlotCopies, SlotBorn
<1> QED
  BY <1>1, <1>2

(* What the vector in use holds, it owns, or a rehash has copied it to the *)
(* vector that owns it.                                                    *)
LEMMA OwnerCurrent ==
  ASSUME Excluding, Core, SlotsInv, MemoryInv, NEW t \in Thread, Moves(t), NEW o \in Elem,
         NEW w \in Vector, NEW i, Owner(w, i, o)',
         NEW v \in Vector, v = vec', NEW j \in DOMAIN tab'[v].slot, In(o, tab'[v].slot[j])
  PROVE  \/ w = v /\ j = i
         \/ \E u \in Thread : Copier(u)' /\ th'[u].np = w
<1> USE DEF Core, Structure, SlotsInv, MemoryInv
<1>1. CASE vec' # vec
  <2>1. Owner(v, j, o)
    BY <1>1, CurrentSources
  <2>2. Owner(w, i, o)
    BY <1>1, OwnerSources DEF SlotStores, SlotCopies, SlotBorn
  <2> QED
    BY <2>1, <2>2, OwnerIsOne
<1>2. CASE vec' = vec
  <2>1. v = vec
    BY <1>2
  <2>2. \/ j \in DOMAIN tab[v].slot /\ In(o, tab[v].slot[j])
        \/ SlotStores(t, v, j, o)
    BY <1>2, CurrentSources
  <2>3. CASE i \in DOMAIN tab[w].slot /\ Owner(w, i, o)
    <3>1. CASE j \in DOMAIN tab[v].slot /\ In(o, tab[v].slot[j])
      <4>1. \/ w = v /\ j = i
            \/ \E u \in Thread : Copier(u) /\ th[u].np = w
        BY <2>1, <2>3, <3>1 DEF OwnersOK
      <4>2. ASSUME NEW u \in Thread, Copier(u), th[u].np = w
            PROVE  Copier(u)' /\ th'[u].np = w
        BY <1>2, <4>2, CopierStays
      <4> QED
        BY <4>1, <4>2
    <3>2. CASE SlotStores(t, v, j, o)
      BY <2>3, <3>2, StoredWas, OwnedAreLive
    <3> QED
      BY <2>2, <3>1, <3>2
  <2>4. CASE SlotStores(t, w, i, o)
    <3>1. o \in Held(t)
      BY <2>4, StoredWas
    <3>2. CASE j \in DOMAIN tab[v].slot /\ In(o, tab[v].slot[j])
      BY <2>1, <3>1, <3>2, HeldAreLive
    <3>3. CASE SlotStores(t, v, j, o)
      BY <2>4, <3>3 DEF SlotStores
    <3> QED
      BY <2>2, <3>2, <3>3
  <2>5. CASE SlotCopies(t, w, i, o)
    <3>1. Copier(t) /\ th[t].np = w
      BY <2>5 DEF SlotCopies
    <3>2. Copier(t)' /\ th'[t].np = th[t].np
      BY <1>2, <3>1, CopierStays
    <3> QED
      BY <3>1, <3>2
  <2>6. CASE SlotBorn(t, w, i, o)
    <3>1. life[o] = "free"
      BY <2>6 DEF SlotBorn
    <3>2. CASE j \in DOMAIN tab[v].slot /\ In(o, tab[v].slot[j])
      BY <3>1, <3>2 DEF LivesOK
    <3>3. CASE SlotStores(t, v, j, o)
      BY <3>1, <3>3, StoredWas, HeldAreLive
    <3> QED
      BY <2>2, <3>2, <3>3
  <2> QED
    BY <2>3, <2>4, <2>5, <2>6, OwnerSources
<1> QED
  BY <1>1, <1>2

(* Every step keeps owners what they are.                                  *)
LEMMA OwnersStep ==
  ASSUME Excluding, Core, SlotsInv, MemoryInv, NEW t \in Thread, Moves(t)
  PROVE  OwnersOK'
<1> USE DEF Core, Structure
<1>1. PICK x \in Vector : x = vec'
  BY VecMoves
<1>2. ASSUME NEW o \in Elem, NEW w \in Vector, NEW i \in DOMAIN tab'[w].slot, Owner(w, i, o)'
      PROVE  /\ life'[o] = "live"
             /\ \A v \in Vector : \A j \in DOMAIN tab'[v].slot :
                  Owner(v, j, o)' => v = w /\ j = i
             /\ \A u \in Thread : o \notin Held(u)'
             /\ \A j \in DOMAIN tab'[x].slot : In(o, tab'[x].slot[j]) =>
                  \/ w = x /\ j = i
                  \/ \E u \in Thread : Copier(u)' /\ th'[u].np = w
  <2>1. life'[o] = "live"
    BY <1>2, OwnerLive
  <2>2. \A v \in Vector : \A j \in DOMAIN tab'[v].slot :
          Owner(v, j, o)' => v = w /\ j = i
    BY <1>2, OwnerOnce
  <2>3. \A u \in Thread : o \notin Held(u)'
    BY <1>2, OwnerNotHeld
  <2>4. \A j \in DOMAIN tab'[x].slot : In(o, tab'[x].slot[j]) =>
          \/ w = x /\ j = i
          \/ \E u \in Thread : Copier(u)' /\ th'[u].np = w
    BY <1>1, <1>2, OwnerCurrent
  <2> QED
    BY <2>1, <2>2, <2>3, <2>4
<1> QED
  BY <1>1, <1>2 DEF OwnersOK, In

(* What a call holds.                                                      *)

(* What a call holds after a step is live then.                            *)
LEMMA HeldLive ==
  ASSUME Excluding, Core, SlotsInv, MemoryInv, NEW t \in Thread, Moves(t), NEW o \in Elem,
         NEW u \in Thread, o \in Held(u)'
  PROVE  life'[o] = "live"
<1> USE DEF Core, Structure, SlotsInv, MemoryInv
<1>1. CASE HeldBefore(u, o)
  <2>1. /\ life[o] = "live" /\ \A x \in Thread : o \in Held(x) => x = u
        /\ \A w \in Vector : \A i : ~Owner(w, i, o)
    BY <1>1, HeldAreLive DEF HeldBefore
  <2>2. ~LifeDropped(t, o)
    BY <2>1 DEF LifeDropped, Held
  <2>3. ~LifeRetired(t, o)
    <3>1. SUFFICES ASSUME LifeRetired(t, o) PROVE FALSE
      OBVIOUS
    <3>2. Retires(t, o)
      BY <3>1, RetiredFrom
    <3>3. o \in Taken(t) /\ Held(t)' = {}
      BY <2>1, <3>2 DEF Retires, GivesUp
    <3>4. o \in Held(t)
      BY <3>3 DEF Held
    <3>5. t = u
      BY <2>1, <3>4
    <3> QED
      BY <3>3, <3>5
  <2>4. LifeKept(t, o) \/ LifeMade(t, o)
    BY <2>2, <2>3, LifeSteps DEF LifeStep
  <2> QED
    BY <2>1, <2>4 DEF LifeKept, LifeMade
<1>2. CASE HeldNew(t, u, o)
  BY <1>2 DEF HeldNew
<1>3. CASE HeldTaken(t, u, o)
  <2>1. vec \in Vector
    BY DEF Shape, Types
  <2>2. PICK n \in DOMAIN tab[vec].slot : Owner(vec, n, o)
    BY <1>3 DEF HeldTaken, Loses
  <2>3. life[o] = "live"
    BY <2>1, <2>2, OwnedAreLive
  <2> QED
    BY <1>3, <2>3 DEF HeldTaken
<1> QED
  BY <1>1, <1>2, <1>3, HeldSources

(* One call holds it at most.                                              *)
LEMMA HeldOnce ==
  ASSUME Core, MemoryInv, NEW t \in Thread, Moves(t), NEW o \in Elem,
         NEW u \in Thread, o \in Held(u)', NEW x \in Thread, o \in Held(x)'
  PROVE  x = u
<1> USE DEF MemoryInv
<1>1. ASSUME NEW y \in Thread, NEW z \in Thread, o \in Held(y),
             HeldNew(t, z, o) \/ HeldTaken(t, z, o)
      PROVE  FALSE
  <2>1. life[o] = "live"
    BY <1>1, HeldAreLive
  <2>2. CASE HeldNew(t, z, o)
    BY <2>1, <2>2 DEF HeldNew
  <2>3. CASE HeldTaken(t, z, o)
    <3>1. vec \in Vector
      BY DEF Core, Structure, Shape, Types
    <3>2. PICK n \in DOMAIN tab[vec].slot : Owner(vec, n, o)
      BY <2>3 DEF HeldTaken, Loses
    <3> QED
      BY <1>1, <3>1, <3>2, OwnedAreLive
  <2> QED
    BY <1>1, <2>2, <2>3
<1>2. CASE HeldBefore(u, o)
  <2>1. o \in Held(x)
    BY <1>1, <1>2, HeldSources DEF HeldBefore
  <2> QED
    BY <1>2, <2>1, HeldAreLive DEF HeldBefore
<1>3. CASE HeldBefore(x, o)
  <2>1. o \in Held(u)
    BY <1>1, <1>3, HeldSources DEF HeldBefore
  <2> QED
    BY <1>3, <2>1, HeldAreLive DEF HeldBefore
<1> QED
  BY <1>2, <1>3, HeldSources DEF HeldNew, HeldTaken

(* The vector in use does not have it.                                     *)
LEMMA HeldNotCurrent ==
  ASSUME Excluding, Core, SlotsInv, MemoryInv, NEW t \in Thread, Moves(t), NEW o \in Elem,
         NEW u \in Thread, o \in Held(u)',
         NEW v \in Vector, v = vec', NEW j \in DOMAIN tab'[v].slot, In(o, tab'[v].slot[j])
  PROVE  FALSE
<1> USE DEF Core, Structure, SlotsInv, MemoryInv
<1>1. CASE vec' # vec
  <2>1. Owner(v, j, o)
    BY <1>1, CurrentSources
  <2>2. life[o] = "live" /\ \A x \in Thread : o \notin Held(x)
    BY <2>1, OwnedAreLive DEF Owner
  <2> QED
    BY <1>1, <2>2, HeldSources DEF HeldBefore, HeldNew, HeldTaken
<1>2. CASE j \in DOMAIN tab[v].slot /\ In(o, tab[v].slot[j]) /\ v = vec
  <2>1. CASE HeldBefore(u, o)
    BY <1>2, <2>1, HeldAreLive DEF HeldBefore
  <2>2. CASE HeldNew(t, u, o)
    BY <1>2, <2>2 DEF LivesOK, HeldNew
  <2>3. CASE HeldTaken(t, u, o)
    <3>1. PICK n \in DOMAIN tab[v].slot : Owner(v, n, o) /\ ~In(o, tab'[v].slot[n])
      BY <1>2, <2>3 DEF HeldTaken, Loses
    <3>2. \/ j = n
          \/ \E x \in Thread : Copier(x) /\ th[x].np = v
      BY <1>2, <3>1 DEF OwnersOK
    <3>3. \A x \in Thread : th[x].np # v
      <4>1. \A x \in Thread : th[x].np # Null => th[x].np # vec
        BY DEF Shape, VectorsOK
      <4>2. v # Null
        BY Names
      <4> QED
        BY <1>2, <4>1, <4>2
    <3> QED
      BY <3>1, <3>2, <3>3
  <2> QED
    BY <2>1, <2>2, <2>3, HeldSources
<1>3. CASE SlotStores(t, v, j, o)
  <2>1. /\ o \in Held(t) /\ o \notin Held(t)' /\ life[o] = "live"
        /\ th[t].pc \in {"swap", "dcas"}
    BY <1>3, StoredWas, HeldAreLive
  <2>2. u # t
    BY <2>1
  <2>3. o \in Held(u)
    BY <2>2, HeldSources DEF HeldBefore, HeldNew, HeldTaken
  <2> QED
    BY <2>1, <2>2, <2>3, HeldAreLive
<1> QED
  BY <1>1, <1>2, <1>3, CurrentSources

(* What a call has made, nobody else knows: neither a slot                 *)
LEMMA MadeNotStored ==
  ASSUME Excluding, Core, SlotsInv, MemoryInv, NEW t \in Thread, Moves(t), NEW o \in Elem,
         NEW u \in Thread, o \in Made(u)',
         NEW w \in Vector, NEW i \in DOMAIN tab'[w].slot, In(o, tab'[w].slot[i])
  PROVE  FALSE
<1> USE DEF Core, Structure, SlotsInv, MemoryInv
<1>1. o \in Held(u)'
  BY DEF Held
<1>2. (HeldBefore(u, o) /\ o \in Made(u)) \/ HeldNew(t, u, o)
  BY <1>1, HeldSources DEF HeldBefore, HeldTaken
<1>3. CASE i \in DOMAIN tab[w].slot /\ In(o, tab[w].slot[i])
  <2>1. CASE o \in Made(u)
    <3>1. o \in Held(u)
      BY <2>1 DEF Held
    <3> QED
      BY <1>3, <2>1, <3>1 DEF HeldOK
  <2>2. CASE HeldNew(t, u, o)
    BY <1>3, <2>2 DEF LivesOK, HeldNew
  <2> QED
    BY <1>2, <2>1, <2>2
<1>4. CASE SlotStores(t, w, i, o)
  <2>1. o \in Held(t) /\ o \notin Held(t)' /\ life[o] = "live"
    BY <1>4, StoredWas, HeldAreLive
  <2>2. u # t
    BY <1>1, <2>1
  <2>3. o \in Held(u)
    BY <1>2, <2>2 DEF HeldBefore, HeldNew
  <2> QED
    BY <2>1, <2>2, <2>3, HeldAreLive
<1>5. CASE SlotCopies(t, w, i, o)
  <2>1. life[o] = "live" /\ \A x \in Thread : o \notin Held(x)
    BY <1>5, CopiedWas
  <2> QED
    BY <1>2, <2>1 DEF HeldBefore, HeldNew
<1>6. CASE SlotBorn(t, w, i, o)
  <2>1. life[o] = "free" /\ Held(t)' = {}
    BY <1>6, BornNotHeld DEF SlotBorn
  <2>2. u # t
    BY <1>1, <2>1
  <2>3. o \in Held(u)
    BY <1>2, <2>2 DEF HeldBefore, HeldNew
  <2> QED
    BY <2>1, <2>3, HeldAreLive
<1> QED
  BY <1>3, <1>4, <1>5, <1>6, SlotSources

(* What a call reads in its vector.                                        *)
Reads(u, o) ==
  /\ InCs(u) /\ InCs(u)' /\ th[u].vec \in Vector
  /\ \/ th[u].word = o
     \/ \E i \in DOMAIN tab[th[u].vec].slot : In(o, tab[th[u].vec].slot[i])

(* The word of a call is one that it had, or that is in its vector.        *)
LEMMA WordSources ==
  ASSUME Core, MemoryInv, NEW t \in Thread, Moves(t), NEW o \in Elem,
         NEW u \in Thread, th'[u].word = o
  PROVE  Reads(u, o)
<1> USE DEF Core, Structure, MemoryInv
<1>1. InCs(u) /\ InCs(u)'
          /\ (\/ th[u].word = o
              \/ \E i \in DOMAIN tab[th[u].vec].slot : In(o, tab[th[u].vec].slot[i]))
  <2>1. CASE u # t
    <3>1. th'[u] = th[u]
      BY <2>1, ThreadTypes
    <3> QED
      BY <3>1 DEF WordsOK, InCs
  <2>2. CASE u = t
    <3>1. WordFrom(t, o)
      BY <2>2, WordSteps
    <3> QED
      BY <2>2, <3>1 DEF WordFrom, WordsOK
  <2> QED
    BY <2>1, <2>2
<1>2. th[u].vec \in Vector
  <2>1. th[u] \in Local /\ CallOK(u)
    BY DEF Shape, Types, CallsOK
  <2>2. th[u].vec # Null
    BY <1>1, <2>1 DEF CallOK, InCs, Local, Op, Places, Storing, Erasing, Copying,
      Clearing
  <2> QED
    BY <2>1, <2>2 DEF Local
<1> QED
  BY <1>1, <1>2 DEF Reads

(* nor a reader.                                                           *)
LEMMA MadeNotRead ==
  ASSUME Core, MemoryInv, NEW t \in Thread, Moves(t), NEW o \in Elem,
         NEW u \in Thread, o \in Made(u)', NEW x \in Thread
  PROVE  th'[x].word # o
<1> USE DEF MemoryInv
<1>0. SUFFICES ASSUME th'[x].word = o PROVE FALSE
  OBVIOUS
<1>1. Reads(x, o)
  BY <1>0, WordSources
<1>2. o \in Held(u)'
  BY DEF Held
<1>3. o \in Made(u) \/ life[o] = "free"
  BY <1>2, HeldSources DEF HeldBefore, HeldNew, HeldTaken
<1>4. CASE o \in Made(u)
  <2>1. o \in Held(u)
    BY <1>4 DEF Held
  <2> QED
    BY <1>1, <1>4, <2>1 DEF HeldOK, Reads
<1>5. CASE life[o] = "free"
  BY <1>1, <1>5 DEF Reads, WordsOK, Keeps, LivesOK
<1> QED
  BY <1>3, <1>4, <1>5

(* Every step keeps what is held what it is.                               *)
LEMMA HeldStep ==
  ASSUME Excluding, Core, SlotsInv, MemoryInv, NEW t \in Thread, Moves(t)
  PROVE  HeldOK'
<1> USE DEF Core, Structure
<1>1. PICK x \in Vector : x = vec'
  BY VecMoves
<1>2. ASSUME NEW o \in Elem, NEW u \in Thread, o \in Held(u)'
      PROVE  /\ life'[o] = "live"
             /\ \A y \in Thread : o \in Held(y)' => y = u
             /\ \A j \in DOMAIN tab'[x].slot : ~In(o, tab'[x].slot[j])
             /\ o \in Made(u)' =>
                  /\ \A w \in Vector : \A i \in DOMAIN tab'[w].slot : ~In(o, tab'[w].slot[i])
                  /\ \A y \in Thread : th'[y].word # o
  <2>1. life'[o] = "live"
    BY <1>2, HeldLive
  <2>2. \A y \in Thread : o \in Held(y)' => y = u
    BY <1>2, HeldOnce
  <2>3. \A j \in DOMAIN tab'[x].slot : ~In(o, tab'[x].slot[j])
    BY <1>1, <1>2, HeldNotCurrent
  <2>4. o \in Made(u)' =>
          \A w \in Vector : \A i \in DOMAIN tab'[w].slot : ~In(o, tab'[w].slot[i])
    BY <1>2, MadeNotStored
  <2>5. o \in Made(u)' => \A y \in Thread : th'[y].word # o
    BY <1>2, MadeNotRead
  <2> QED
    BY <2>1, <2>2, <2>3, <2>4, <2>5
<1> QED
  BY <1>1, <1>2 DEF HeldOK, In

(* Readers.                                                                *)

(* An assign goes on until it installs its vector.                         *)
LEMMA AssignStays ==
  ASSUME Shape, NEW t \in Thread, Moves(t), th[t].op = "assign"
  PROVE  th'[t].op = "assign" \/ AssignInstall(t)
<1> USE DEF Shape
<1>1. th[t] \in Local /\ th[t].pc \in {"acquire", "mark", "install"}
  BY DEF Types, CallsOK, CallOK, Places, Storing, Erasing
<1>2. ~Start(t)
  BY <1>1 DEF Start, LookupStart, InsertStart, AssignStart, ClearStart, WalkStart, Call, At
<1>3. Proceed(t)
  BY <1>2 DEF Moves
<1>4. AssignAcquire(t) \/ Mark(t) \/ AssignLimit(t) \/ AssignInstall(t)
  BY <1>1, <1>3 DEF Proceed, At, ProbeFree, ProbeMatch, ProbeNext, FindValue, Answer, PutValue, UpdateInPlace, SwapValue, DecrLimit, PutWait, FillSlot, StoreFails, CountUp, OldKey, OldValue, TakeValue, TakeFails, CountDown, Bury, NoRehash, RehashStart, OutOfMemory, CopyKey, CopyValue, SetLimit, Install, ClearAcquire, ClearReadKey, ClearFreeKey, ClearFreeValue, ClearSetLimit, ClearDone, WalkKey, WalkValue, WalkEnd, StoreMustFail
<1>5. CASE AssignAcquire(t)
  <2>1. th'[t].op = th[t].op
    BY <1>1, <1>5, AssignAcquireDoes DEF Local
  <2> QED
    BY <2>1
<1>6. CASE Mark(t)
  <2>1. th'[t].op = th[t].op
    BY <1>1, <1>6, MarkDoes DEF Local
  <2> QED
    BY <2>1
<1>7. CASE AssignLimit(t)
  <2>1. th'[t].op = th[t].op
    BY <1>1, <1>7, AssignLimitDoes DEF Local
  <2> QED
    BY <2>1
<1> QED
  BY <1>4, <1>5, <1>6, <1>7

(* What the vector in use holds stays live while a step is not of assign.  *)
LEMMA CurrentLive ==
  ASSUME Core, SlotsInv, MemoryInv, NEW t \in Thread, Moves(t), NEW o \in Elem,
         vec' = vec, \A u \in Thread : th'[u].op # "assign",
         NEW v \in Vector, v = vec, NEW i \in DOMAIN tab[v].slot, In(o, tab[v].slot[i]),
         i \in DOMAIN tab'[v].slot, In(o, tab'[v].slot[i])
  PROVE  life'[o] = "live"
<1> USE DEF Core, Structure, SlotsInv, MemoryInv
<1>1. life[o] = "live"
  <2>1. SUFFICES ASSUME NEW u \in Thread, th[u].op = "assign"
                 PROVE  FALSE
    BY DEF CurrentOK
  <2>2. CASE u # t
    BY <2>1, <2>2, ThreadTypes
  <2>3. CASE u = t
    BY <2>1, <2>3, AssignStays, VecMoves
  <2> QED
    BY <2>2, <2>3
<1>2. ~LifeDropped(t, o)
  BY HeldAreLive DEF LifeDropped, Held
<1>3. ~LifeRetired(t, o)
  <2>1. SUFFICES ASSUME LifeRetired(t, o) PROVE FALSE
    OBVIOUS
  <2>2. Retires(t, o)
    BY <2>1, RetiredFrom
  <2>3. o \notin Taken(t)
    BY HeldAreLive DEF Held
  <2>4. PICK w \in Vector : \E j \in DOMAIN tab[w].slot : GivesUp(t, w, j, o)
    BY <2>2, <2>3 DEF Retires
  <2>5. PICK j : j \in DOMAIN tab[w].slot /\ GivesUp(t, w, j, o)
    BY <2>4
  <2>6. ~Mark(t)
    <3>1. SUFFICES ASSUME Mark(t) PROVE FALSE
      OBVIOUS
    <3>2. th[t].op = "assign"
      BY <3>1 DEF Shape, CallsOK, CallOK, Mark, At, Places, Storing, Erasing, Copying, Clearing
    <3>3. ~AssignInstall(t)
      BY <3>1 DEF Mark, AssignInstall, At
    <3> QED
      BY <3>2, <3>3, AssignStays
  <2>7. \/ w = v /\ i = j
        \/ \E u \in Thread : Copier(u) /\ th[u].np = w
    BY <2>5 DEF GivesUp, OwnersOK
  <2>8. \A u \in Thread : th[u].np # w
    <3>1. w = th[t].vec /\ w # Null
      BY <2>4, <2>5, Names DEF GivesUp
    <3> QED
      BY <3>1 DEF Shape, VectorsOK
  <2> QED
    BY <2>5, <2>6, <2>7, <2>8 DEF GivesUp
<1>4. LifeKept(t, o) \/ LifeMade(t, o)
  BY <1>2, <1>3, LifeSteps DEF LifeStep
<1> QED
  BY <1>1, <1>4 DEF LifeKept, LifeMade

(* What the vector that a step installs holds is live.                     *)
LEMMA InstalledLive ==
  ASSUME Core, SlotsInv, MemoryInv, NEW t \in Thread, Moves(t), NEW o \in Elem,
         NEW v \in Vector, NEW i, Owner(v, i, o), th[t].pc = "install"
  PROVE  life'[o] = "live"
<1> USE DEF Core, Structure, SlotsInv, MemoryInv
<1>1. life[o] = "live" /\ \A u \in Thread : o \notin Held(u)
  BY OwnedAreLive DEF Owner
<1>2. ~LifeDropped(t, o)
  BY <1>1 DEF LifeDropped, Held
<1>3. ~LifeRetired(t, o)
  BY RetiredFrom DEF Retires
<1>4. LifeKept(t, o) \/ LifeMade(t, o)
  BY <1>2, <1>3, LifeSteps DEF LifeStep
<1> QED
  BY <1>1, <1>4 DEF LifeKept, LifeMade

(* Every step keeps what is in the vector in use live.                     *)
LEMMA CurrentStep ==
  ASSUME Excluding, Core, SlotsInv, MemoryInv, NEW t \in Thread, Moves(t)
  PROVE  CurrentOK'
<1> USE DEF Core, Structure, SlotsInv
<1>1. PICK v \in Vector : v = vec'
  BY VecMoves
<1>2. ASSUME NEW o \in Elem, NEW i \in DOMAIN tab'[v].slot, In(o, tab'[v].slot[i]),
             \A u \in Thread : th'[u].op # "assign"
      PROVE  life'[o] = "live"
  <2>1. CASE vec' # vec /\ Owner(v, i, o) /\ th[t].pc = "install"
    BY <2>1, InstalledLive
  <2>2. CASE vec' = vec /\ i \in DOMAIN tab[v].slot /\ In(o, tab[v].slot[i])
    BY <1>1, <1>2, <2>2, CurrentLive
  <2>3. CASE SlotStores(t, v, i, o)
    BY <2>3, SourceLive
  <2> QED
    BY <1>1, <1>2, <2>1, <2>2, <2>3, CurrentSources
<1> QED
  BY <1>1, <1>2 DEF CurrentOK, In

(* What waits for a reader goes on waiting for it.                         *)
LEMMA KeepsOn ==
  ASSUME Core, SlotsInv, MemoryInv, NEW t \in Thread, Moves(t), NEW o \in Elem,
         NEW u \in Thread, InCs(u), InCs(u)', Keeps(u, o), o \notin Made(t)
  PROVE  Keeps(u, o)'
<1> USE DEF Core, Structure, SlotsInv, MemoryInv
<1>1. u \in waits[o] => u \in waits'[o] \/ ~LifeKept(t, o)
  BY NothingHeld DEF LifeKept
<1>2. CASE LifeKept(t, o)
  BY <1>1, <1>2 DEF LifeKept, Keeps
<1>3. CASE LifeMade(t, o)
  BY <1>3 DEF LifeMade, Keeps
<1>4. CASE LifeRetired(t, o)
  <2>1. life[o] = "live" /\ u \in waits'[o]
    BY <1>4, RetiredFrom DEF Retires, LifeRetired
  <2> QED
    BY <1>4, <2>1 DEF LifeRetired, Keeps
<1> QED
  BY <1>2, <1>3, <1>4, LifeSteps DEF LifeStep, LifeDropped

(* Every step keeps the words that calls have read.                        *)
LEMMA WordsStep ==
  ASSUME Core, SlotsInv, MemoryInv, NEW t \in Thread, Moves(t)
  PROVE  WordsOK'
<1> USE DEF Core, Structure, MemoryInv
<1>1. ASSUME NEW u \in Thread
      PROVE  th'[u].word \notin Vector
  <2>1. CASE u # t
    BY <2>1, ThreadTypes DEF WordsOK
  <2>2. CASE u = t
    BY <2>2, WordSteps
  <2> QED
    BY <2>1, <2>2
<1>2. ASSUME NEW u \in Thread, NEW o \in Elem, th'[u].word = o
      PROVE  InCs(u)' /\ Keeps(u, o)'
  <2>1. Reads(u, o)
    BY <1>2, WordSources
  <2>2. Keeps(u, o)
    BY <2>1 DEF Reads, WordsOK, ReadersOK
  <2>3. o \notin Made(t)
    <3>1. SUFFICES ASSUME o \in Made(t) PROVE FALSE
      OBVIOUS
    <3>2. o \in Held(t)
      BY <3>1 DEF Held
    <3> QED
      BY <2>1, <3>1, <3>2 DEF HeldOK, Reads
  <2> QED
    BY <2>1, <2>2, <2>3, KeepsOn DEF Reads
<1> QED
  BY <1>1, <1>2 DEF WordsOK

(* A reader is in the vector that it was in, or has come to the one in use. *)
LEMMA ReaderComes ==
  ASSUME Excluding, Core, NEW t \in Thread, Moves(t), NEW u \in Thread, InCs(u)'
  PROVE  /\ th'[u].vec \in Vector
         /\ th'[u].vec = vec' \/ (th'[u].vec = th[u].vec /\ InCs(u))
<1> USE DEF Core, Structure
<1>1. CASE u # t
  <2>1. th'[u] = th[u] /\ InCs(u)
    BY <1>1, ThreadTypes DEF InCs
  <2>2. th[u] \in Local /\ CallOK(u)
    BY DEF Shape, Types, CallsOK
  <2>3. th[u].vec # Null
    BY <2>1, <2>2 DEF CallOK, InCs, Local, Op, Places, Storing, Erasing, Copying,
      Clearing
  <2> QED
    BY <2>1, <2>2, <2>3 DEF Local
<1>2. CASE u = t
  <2>1. th'[u] \in Local /\ CallOK(u)'
    <3>1. CallsOK'
      BY CallsStep
    <3> QED
      BY <3>1, ThreadTypes DEF CallsOK
  <2>2. th'[u].vec # Null
    BY <2>1 DEF CallOK, InCs, Local, Op, Places, Storing, Erasing, Copying, Clearing
  <2>3. CASE th'[t].vec = th[t].vec /\ th[t].vec # Null
    <3>1. CallOK(t)
      BY DEF Shape, CallsOK
    <3>2. ~At(t, "idle")
      BY <2>3, <3>1 DEF CallOK, At
    <3>3. th'[t].op = th[t].op
      BY <1>2, <3>2, NothingHeld, Going DEF GoesBy
    <3> QED
      BY <1>2, <2>1, <2>2, <2>3, <3>3 DEF InCs, Local
  <2> QED
    BY <1>2, <2>1, <2>2, <2>3, ThreadVec DEF Local
<1> QED
  BY <1>1, <1>2

(* Every step keeps what readers may come to.                              *)
LEMMA ReadersStep ==
  ASSUME Excluding, Core, SlotsInv, MemoryInv, NEW t \in Thread, Moves(t)
  PROVE  ReadersOK'
<1> USE DEF Core, Structure, SlotsInv
<1>1. ASSUME NEW o \in Elem, NEW u \in Thread, InCs(u)',
             NEW w \in Vector, w = th'[u].vec, NEW i \in DOMAIN tab'[w].slot,
             In(o, tab'[w].slot[i])
      PROVE  Keeps(u, o)'
  <2>1. CASE SlotStores(t, w, i, o) \/ SlotCopies(t, w, i, o) \/ SlotBorn(t, w, i, o)
    BY <2>1, SourceLive DEF Keeps
  <2>2. CASE i \in DOMAIN tab[w].slot /\ In(o, tab[w].slot[i]) /\ w = th[u].vec /\ InCs(u)
    <3>1. Keeps(u, o)
      BY <2>2 DEF MemoryInv, ReadersOK
    <3>2. o \notin Made(t)
      BY <2>2 DEF MemoryInv, HeldOK, Held
    <3> QED
      BY <1>1, <2>2, <3>1, <3>2, KeepsOn
  <2>3. CASE w = vec'
    <3>1. CurrentOK'
      BY CurrentStep
    <3>2. CallsOK' /\ AloneOK'
      BY CallsStep, AloneStep
    <3>3. ASSUME NEW x \in Thread
          PROVE  th'[x].op # "assign"
      <4>1. CASE x = u
        BY <1>1, <4>1 DEF InCs
      <4>2. CASE x # u
        <5>1. SUFFICES ASSUME th'[x].op = "assign" PROVE FALSE
          OBVIOUS
        <5>2. th'[u].pc = "idle"
          BY <3>2, <4>2, <5>1 DEF AloneOK, Exclusive, At
        <5>3. CallOK(u)'
          BY <3>2 DEF CallsOK
        <5> QED
          BY <1>1, <5>2, <5>3 DEF CallOK, Places, Storing, Erasing, Copying, Clearing, InCs
      <4> QED
        BY <4>1, <4>2
    <3>4. life'[o] = "live"
      BY <1>1, <2>3, <3>1, <3>3 DEF CurrentOK, In
    <3> QED
      BY <3>4 DEF Keeps
  <2>4. w = vec' \/ (w = th[u].vec /\ InCs(u))
    BY <1>1, ReaderComes
  <2> QED
    BY <1>1, <2>1, <2>2, <2>3, <2>4, SlotSources
<1>2. ASSUME NEW u \in Thread, InCs(u)'
      PROVE  th'[u].vec \in Vector
  BY <1>2, ReaderComes
<1> QED
  BY <1>1, <1>2 DEF ReadersOK, In

(* Every step keeps what is in slots made, and finalizes nothing twice.    *)
LEMMA LivesStep ==
  ASSUME Excluding, Core, SlotsInv, MemoryInv, NEW t \in Thread, Moves(t)
  PROVE  LivesOK'
<1> USE DEF Core, Structure, SlotsInv, MemoryInv
<1>1. ASSUME NEW o \in Elem
      PROVE  /\ life'[o] # "twice"
             /\ life[o] # "free" => life'[o] # "free"
  <2>1. life[o] # "twice"
    BY DEF LivesOK
  <2>2. CASE LifeRetired(t, o)
    <3>1. life[o] = "live"
      BY <2>2, RetiredFrom DEF Retires
    <3> QED
      BY <2>2, <3>1 DEF LifeRetired
  <2> QED
    BY <2>1, <2>2, LifeSteps DEF LifeStep, LifeKept, LifeMade, LifeDropped
<1>2. ASSUME NEW o \in Elem, NEW w \in Vector, NEW i \in DOMAIN tab'[w].slot,
             In(o, tab'[w].slot[i])
      PROVE  life'[o] # "free"
  <2>1. CASE i \in DOMAIN tab[w].slot /\ In(o, tab[w].slot[i])
    BY <1>1, <2>1 DEF LivesOK
  <2>2. CASE SlotStores(t, w, i, o) \/ SlotCopies(t, w, i, o) \/ SlotBorn(t, w, i, o)
    BY <2>2, SourceLive
  <2> QED
    BY <1>2, <2>1, <2>2, SlotSources
<1> QED
  BY <1>1, <1>2 DEF LivesOK, In

(* An empty table owns nothing.                                            *)
LEMMA InitMemory ==
  ASSUME Init
  PROVE  MemoryInv
<1>1. \A t \in Thread : th[t] = Rest
  BY DEF Init
<1>2. ASSUME NEW w \in Vector, NEW i \in DOMAIN tab[w].slot, NEW o \in Elem
      PROVE  ~In(o, tab[w].slot[i])
  <2>1. CASE w = vec
    BY <1>2, <2>1, FirstVector, Elements DEF In, EmptySlot, Word
  <2>2. CASE w # vec
    BY <1>2, <2>2, FirstVector, TableMade, Sizes
  <2> QED
    BY <2>1, <2>2
<1>3. \A t \in Thread : Held(t) = {} /\ ~InCs(t) /\ th[t].word = Null /\ th[t].op = "none"
  BY <1>1 DEF Rest, Held, Made, Taken, Puts, At, InCs
<1>4. vec \in Vector
  BY FirstVector
<1>5. OwnersOK
  BY <1>2 DEF OwnersOK, Owner
<1>6. HeldOK
  BY <1>3 DEF HeldOK
<1>7. CurrentOK
  BY <1>2, <1>4 DEF CurrentOK
<1>8. ReadersOK
  BY <1>3 DEF ReadersOK
<1>9. WordsOK
  BY <1>3, Elements, Names DEF WordsOK
<1>10. LivesOK
  <2>1. \A o \in Elem : life[o] = "free"
    BY <1>4, Elements DEF Init
  <2> QED
    BY <1>2, <2>1 DEF LivesOK
<1>11. ErasersOK
  BY <1>3 DEF ErasersOK
<1> QED
  BY <1>5, <1>6, <1>7, <1>8, <1>9, <1>10, <1>11 DEF MemoryInv

(* Without a step nothing changes.                                         *)
LEMMA MemoryStutters ==
  ASSUME MemoryInv, UNCHANGED vars
  PROVE  MemoryInv'
<1>1. vec' = vec /\ tab' = tab /\ life' = life /\ waits' = waits /\ th' = th
  BY DEF vars
<1>2. \A t \in Thread : Held(t)' = Held(t) /\ Made(t)' = Made(t)
  BY <1>1 DEF Held, Made, Taken, Puts, At
<1>3. \A w, i, o : Owner(w, i, o)' <=> Owner(w, i, o)
  BY <1>1 DEF Owner, Owning, In
<1>4. \A t \in Thread : Copier(t)' <=> Copier(t)
  BY <1>1 DEF Copier, Exclusive
<1>5. OwnersOK'
  BY <1>1, <1>2, <1>3, <1>4 DEF MemoryInv, OwnersOK, In
<1>6. HeldOK'
  BY <1>1, <1>2 DEF MemoryInv, HeldOK, In
<1>7. CurrentOK' /\ ReadersOK' /\ WordsOK' /\ LivesOK' /\ ErasersOK'
  BY <1>1 DEF MemoryInv, CurrentOK, ReadersOK, WordsOK, LivesOK, ErasersOK, In, Keeps, InCs
<1> QED
  BY <1>5, <1>6, <1>7 DEF MemoryInv

(* Every step keeps owners, what calls hold and what readers may come to.  *)
LEMMA MemoryInvStep ==
  ASSUME Excluding, Core, SlotsInv, MemoryInv, [Next]_vars
  PROVE  MemoryInv'
<1>1. ASSUME NEW t \in Thread, Moves(t)
      PROVE  MemoryInv'
  <2>1. OwnersOK' /\ HeldOK' /\ CurrentOK'
    BY <1>1, OwnersStep, HeldStep, CurrentStep
  <2>2. ReadersOK' /\ WordsOK' /\ LivesOK'
    BY <1>1, ReadersStep, WordsStep, LivesStep
  <2>3. ErasersOK'
    BY <1>1, ErasersStep DEF Core, Structure, MemoryInv
  <2> QED
    BY <2>1, <2>2, <2>3 DEF MemoryInv
<1>2. CASE Next
  BY <1>1, <1>2 DEF Next, Moves
<1>3. CASE UNCHANGED vars
  BY <1>3, MemoryStutters
<1> QED
  BY <1>2, <1>3

(* What the invariant says of use after destruction.                       *)
LEMMA NothingGone ==
  ASSUME Core, MemoryInv
  PROVE  NoUseAfterDestroy
<1> USE DEF Core, Structure, MemoryInv
<1>1. ASSUME NEW t \in Thread, th[t].vec # Null
      PROVE  life[th[t].vec] # "gone"
  BY <1>1 DEF Shape, VectorsOK
<1>2. ASSUME NEW t \in Thread, th[t].vec # Null, InCs(t),
             NEW i \in DOMAIN tab[th[t].vec].slot,
             NEW o \in Only(tab[th[t].vec].slot[i].key)
      PROVE  life[o] # "gone"
  <2>1. PICK w \in Vector : w = th[t].vec
    BY <1>2, Locals DEF Shape, Local
  <2>2. tab[w].slot[i].key \in KeyObj \cup Word
    BY <1>2, <2>1, SlotTyped DEF Shape
  <2>3. o \in Elem /\ In(o, tab[w].slot[i])
    BY <1>2, <2>1, <2>2 DEF Only, Elem, In
  <2>4. Keeps(t, o)
    BY <1>2, <2>1, <2>3 DEF ReadersOK
  <2> QED
    BY <2>4 DEF Keeps
<1>3. ASSUME NEW t \in Thread, NEW o \in Only(th[t].word)
      PROVE  life[o] # "gone"
  <2>1. o = th[t].word /\ o \notin Word /\ o # Null
    BY <1>3 DEF Only
  <2>2. th[t].word \in Obj \cup Word \cup {Null}
    BY Locals DEF Local
  <2>3. o \in Elem
    BY <2>1, <2>2 DEF WordsOK, Obj, Elem
  <2>4. Keeps(t, o)
    BY <2>1, <2>3 DEF WordsOK
  <2> QED
    BY <2>4 DEF Keeps
<1>4. ASSUME NEW o \in Obj
      PROVE  life[o] # "twice"
  <2>1. o \in Vector \/ o \in Elem
    BY DEF Obj, Elem
  <2> QED
    BY <2>1 DEF LivesOK, Shape, VectorsOK
<1> QED
  BY <1>1, <1>2, <1>3, <1>4 DEF NoUseAfterDestroy

(* A key or a value has one owner, a call or a slot, and is finalized once *)
(* by it alone, and what a section may still read waits for it, across     *)
(* updates, erasures and rehashes (_Upsert, _Erase, _Rehash, clear, =).    *)
THEOREM OwnersAreKept ==
  ASSUME Excluding, IsFiniteSet(Thread)
  PROVE  Spec => [](Core /\ SlotsInv /\ MemoryInv)
<1>1. Init => Core /\ SlotsInv /\ MemoryInv
  BY InitCore, InitSlots, InitMemory
<1>2. Core /\ SlotsInv /\ MemoryInv /\ [Next]_vars => Core' /\ SlotsInv' /\ MemoryInv'
  BY CoreStep, SlotsInvStep, MemoryInvStep
<1> QED
  BY <1>1, <1>2, PTL DEF Spec

(* No call comes to a vector, a key or a value that was destroyed, and     *)
(* nothing is finalized twice: every thread that finalizes does so after   *)
(* its swap or its compare-and-swap has made it the only one to know.      *)
THEOREM NothingUsedAfterDestroy ==
  ASSUME Excluding, IsFiniteSet(Thread)
  PROVE  Spec => []NoUseAfterDestroy
<1>1. Core /\ MemoryInv => NoUseAfterDestroy
  BY NothingGone
<1> QED
  BY <1>1, OwnersAreKept, PTL
=============================================================================
