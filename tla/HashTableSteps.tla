-------------------------- MODULE HashTableSteps ----------------------------
(* Proofs about the hash table, for any number of threads, keys, slots and *)
(* vectors: what each step does to the thread that takes it, to the tables *)
(* and to the objects.                                                     *)
EXTENDS HashTableInv, FiniteSetTheorems, WellFoundedInduction, TLAPS

(* The words are three, and no objects, and objects are of one kind.       *)
LEMMA Names ==
  /\ FREE # DELT /\ FREE # Null /\ DELT # Null
  /\ \A o \in KeyObj : /\ o \notin Word /\ o # Null /\ o \in Obj
                       /\ o[1] \in Key /\ o \notin ValObj /\ o \notin Vector
  /\ \A o \in ValObj : /\ o \notin Word /\ o # Null /\ o \in Obj
                       /\ o \notin KeyObj /\ o \notin Vector
  /\ \A o \in Vector : /\ o \notin Word /\ o # Null /\ o \in Obj
                       /\ o \notin KeyObj /\ o \notin ValObj
  /\ \A k \in Key : k # Null /\ k \notin Word
  /\ Null \notin Thread /\ Null \notin Word /\ Null \notin Obj
  /\ FREE \notin Obj /\ DELT \notin Obj
<1>1. FREE # DELT /\ FREE # Null /\ DELT # Null
  <2>1. \A a, b : Cardinality({a, b}) <= 2
    <3> TAKE a, b
    <3>1. Cardinality({}) = 0 /\ IsFiniteSet({})
      BY FS_EmptySet
    <3>2. IsFiniteSet({a}) /\ Cardinality({a}) = 1
      BY FS_Singleton
    <3>3. Cardinality({a} \cup {b}) <= 2
      BY <3>2, FS_AddElement
    <3>4. {a} \cup {b} = {a, b}
      OBVIOUS
    <3> QED
      BY <3>3, <3>4
  <2>2. Cardinality({FREE, DELT, Null}) = 3
    BY TableAssumption
  <2>3. FREE = DELT => {FREE, DELT, Null} = {FREE, Null}
    OBVIOUS
  <2>4. FREE = Null \/ DELT = Null => {FREE, DELT, Null} = {FREE, DELT}
    OBVIOUS
  <2>5. /\ Cardinality({FREE, Null}) # 3
        /\ Cardinality({FREE, DELT}) # 3
    <3>1. Cardinality({FREE, Null}) <= 2 /\ Cardinality({FREE, DELT}) <= 2
      BY <2>1
    <3> QED
      BY <3>1
  <2>6. FREE # DELT
    BY <2>2, <2>3, <2>5
  <2>7. FREE # Null /\ DELT # Null
    BY <2>2, <2>4, <2>5
  <2> QED
    BY <2>6, <2>7
<1>2. /\ FREE \notin Obj /\ DELT \notin Obj /\ Null \notin Obj
      /\ FREE \notin Key /\ DELT \notin Key /\ Null \notin Key
      /\ Null \notin Thread
  BY NameAssumption
<1>3. \A o \in KeyObj : o[1] \in Key
  BY DEF KeyObj
<1>4. \A o \in ValObj : o[1] = "value"
  BY DEF ValObj
<1>5. \A o \in Vector : o[1] = "vector"
  BY DEF Vector
<1>6. "value" \notin Key /\ "vector" \notin Key /\ "value" # "vector"
  BY NameAssumption
<1> QED
  BY <1>1, <1>2, <1>3, <1>4, <1>5, <1>6 DEF Obj, Word

(* The sizes of tables, and the shares of them that may be filled.         *)
LEMMA Sizes ==
  /\ 1 \in DOMAIN Entries
  /\ \A p \in DOMAIN Entries :
       /\ p \in Nat \ {0} /\ Entries[p] \in Nat \ {0}
       /\ Bigger(p) \in DOMAIN Entries /\ Entries[p] <= Entries[Bigger(p)]
       /\ Fsize(Entries[p]) \in Nat \ {0} /\ Fsize(Entries[p]) < Entries[p]
<1>1. 1 \in DOMAIN Entries /\ \A p \in DOMAIN Entries : p \in Nat \ {0}
  BY TableAssumption
<1>2. \A p \in DOMAIN Entries : Entries[p] \in Nat \ {0}
  BY TableAssumption
<1>3. \A p \in DOMAIN Entries :
        Bigger(p) \in DOMAIN Entries /\ Entries[p] <= Entries[Bigger(p)]
  <2> TAKE p \in DOMAIN Entries
  <2>1. p <= p + 1 /\ p <= p
    BY <1>1
  <2>2. Bigger(p) \in DOMAIN Entries /\ p <= Bigger(p)
    BY <2>1 DEF Bigger
  <2> QED
    BY <2>2, TableAssumption
<1>4. LoadPct \in 40..90 /\ LoadPct * Entries[1] >= 100
  BY TableAssumption
<1>5. \A p \in DOMAIN Entries : Entries[1] <= Entries[p]
  BY <1>1, TableAssumption
<1>6. \A p \in DOMAIN Entries :
        Fsize(Entries[p]) \in Nat \ {0} /\ Fsize(Entries[p]) < Entries[p]
  <2> TAKE p \in DOMAIN Entries
  <2> DEFINE e == Entries[p]
             m == LoadPct * e
  <2>1. m \in Nat /\ m >= 100 /\ m <= 90 * e
    <3> HIDE DEF e
    <3>1. e \in Nat \ {0} /\ Entries[1] \in Nat \ {0} /\ Entries[1] <= e
      BY <1>1, <1>2, <1>5 DEF e
    <3> QED
      BY <1>4, <3>1
  <2>2. Fsize(e) = m \div 100
    BY DEF Fsize
  <2>3. e \in Nat \ {0}
    BY <1>2
  <2> HIDE DEF e, m
  <2>4. (m \div 100) \in Nat \ {0} /\ m \div 100 < e
    BY <2>1, <2>3
  <2> QED
    BY <2>2, <2>4 DEF e
<1> QED
  BY <1>1, <1>2, <1>3, <1>6

(* A larger number has a larger share.                                     *)
LEMMA Shares ==
  \A m, n \in Nat : /\ Fsize(m) \in Nat /\ Fsize(m) <= m
                    /\ m <= n => Fsize(m) <= Fsize(n)
<1> TAKE m, n \in Nat
<1>1. LoadPct \in Nat /\ LoadPct <= 90
  BY TableAssumption
<1>2. LoadPct * m \in Nat /\ LoadPct * n \in Nat /\ LoadPct * m <= 90 * m
  BY <1>1
<1>3. m <= n => LoadPct * m <= LoadPct * n
  BY <1>1
<1> DEFINE a == LoadPct * m
           b == LoadPct * n
<1> HIDE DEF a, b
<1>4. /\ a \div 100 \in Nat /\ a \div 100 <= m
      /\ a <= b => a \div 100 <= b \div 100
  BY <1>2 DEF a, b
<1> QED
  BY <1>2, <1>3, <1>4 DEF Fsize, a, b

(* Every probe is of a slot, and there is one that comes to each.          *)
LEMMA Positions ==
  ASSUME NEW k \in Key, NEW p \in DOMAIN Entries
  PROVE  /\ \A j \in Nat : Pos(k, j, Entries[p]) \in 0..Entries[p] - 1
         /\ \A i \in 0..Entries[p] - 1 :
              \E j \in 0..Entries[p] - 1 : i = Pos(k, j, Entries[p])
<1>1. Hash[k] \in Nat /\ Step[k] \in Nat /\ Entries[p] \in Nat \ {0}
  BY TableAssumption
<1>2. \A j \in Nat : Pos(k, j, Entries[p]) \in 0..Entries[p] - 1
  <2> TAKE j \in Nat
  <2>1. j * Step[k] \in Nat
    BY <1>1
  <2> DEFINE a == Hash[k] + j * Step[k]
  <2>2. a \in Nat
    BY <1>1, <2>1
  <2> HIDE DEF a
  <2>3. a % Entries[p] \in 0..Entries[p] - 1
    BY <1>1, <2>2
  <2> QED
    BY <2>3 DEF Pos, a
<1>3. {(Hash[k] + j * Step[k]) % Entries[p] : j \in 0..Entries[p] - 1}
        = 0..Entries[p] - 1
  BY TableAssumption
<1>4. \A i \in 0..Entries[p] - 1 :
        \E j \in 0..Entries[p] - 1 : i = Pos(k, j, Entries[p])
  BY <1>3 DEF Pos
<1> QED
  BY <1>2, <1>4

-----------------------------------------------------------------------------
(* Tables.                                                                 *)

EntriesOf(T) == Entries[T.pidx]

(* The slots of a table, if there is one.                                  *)
LEMMA TableFacts ==
  ASSUME NEW T, IsTable(T)
  PROVE  /\ T.pidx = 0 => T = NoTable /\ DOMAIN T.slot = {}
         /\ T.pidx # 0 =>
              /\ T.pidx \in DOMAIN Entries /\ EntriesOf(T) \in Nat \ {0}
              /\ T.slot \in [0..EntriesOf(T) - 1 -> SlotRec]
              /\ DOMAIN T.slot = 0..EntriesOf(T) - 1
              /\ T.n \in Int /\ T \in TableOf(T.pidx)
<1>1. CASE T = NoTable
  <2>1. T.pidx = 0 /\ T.slot = <<>>
    BY <1>1 DEF NoTable
  <2>2. DOMAIN T.slot = {}
    BY <2>1
  <2> QED
    BY <1>1, <2>1, <2>2
<1>2. CASE T # NoTable
  <2>1. PICK p \in DOMAIN Entries : T \in TableOf(p)
    BY <1>2 DEF IsTable
  <2>2. T.pidx = p /\ T.slot \in [0..Entries[p] - 1 -> SlotRec] /\ T.n \in Int
    BY <2>1 DEF TableOf
  <2>3. p # 0 /\ Entries[p] \in Nat \ {0}
    BY Sizes
  <2> QED
    BY <2>1, <2>2, <2>3 DEF EntriesOf
<1> QED
  BY <1>1, <1>2

(* A slot is written, or the count.                                        *)
LEMMA TableWritten ==
  ASSUME NEW T, IsTable(T), T.pidx # 0,
         NEW i \in 0..EntriesOf(T) - 1, NEW s \in SlotRec
  PROVE  LET U == [T EXCEPT !.slot[i] = s] IN
         /\ IsTable(U) /\ U.pidx = T.pidx /\ U.n = T.n
         /\ \A j \in 0..EntriesOf(T) - 1 :
              U.slot[j] = IF j = i THEN s ELSE T.slot[j]
<1> DEFINE p == T.pidx
<1>1. /\ p \in DOMAIN Entries /\ T \in TableOf(p)
      /\ EntriesOf(T) = Entries[p]
  BY TableFacts DEF EntriesOf
<1> HIDE DEF p
<1>2. T \in [slot : [0..Entries[p] - 1 -> SlotRec], pidx : {p}, n : Int]
  BY <1>1 DEF TableOf
<1>3. [T EXCEPT !.slot[i] = s]
        \in [slot : [0..Entries[p] - 1 -> SlotRec], pidx : {p}, n : Int]
  BY <1>1, <1>2
<1>4. /\ [T EXCEPT !.slot[i] = s].pidx = T.pidx
      /\ [T EXCEPT !.slot[i] = s].n = T.n
      /\ \A j \in 0..EntriesOf(T) - 1 :
           [T EXCEPT !.slot[i] = s].slot[j] = IF j = i THEN s ELSE T.slot[j]
  BY <1>1, <1>2
<1>5. IsTable([T EXCEPT !.slot[i] = s])
  BY <1>1, <1>3 DEF IsTable, TableOf
<1> QED
  BY <1>4, <1>5

(* A vector whose count is written keeps its slots and its size.           *)
LEMMA CountWritten ==
  ASSUME NEW T, IsTable(T), T.pidx # 0, NEW n \in Int
  PROVE  LET U == [T EXCEPT !.n = n] IN
         /\ IsTable(U) /\ U.pidx = T.pidx /\ U.n = n /\ U.slot = T.slot
<1> DEFINE p == T.pidx
<1>1. p \in DOMAIN Entries /\ T \in TableOf(p)
  BY TableFacts
<1> HIDE DEF p
<1>2. T \in [slot : [0..Entries[p] - 1 -> SlotRec], pidx : {p}, n : Int]
  BY <1>1 DEF TableOf
<1>3. [T EXCEPT !.n = n]
        \in [slot : [0..Entries[p] - 1 -> SlotRec], pidx : {p}, n : Int]
  BY <1>2
<1>4. /\ [T EXCEPT !.n = n].pidx = T.pidx /\ [T EXCEPT !.n = n].n = n
      /\ [T EXCEPT !.n = n].slot = T.slot
  BY <1>2
<1>5. IsTable([T EXCEPT !.n = n])
  BY <1>1, <1>3 DEF IsTable, TableOf
<1> QED
  BY <1>4, <1>5

(* New tables.                                                             *)
LEMMA TableMade ==
  ASSUME NEW p \in DOMAIN Entries
  PROVE  /\ IsTable(Make(p)) /\ Make(p).pidx = p /\ Make(p).n = 0
         /\ EntriesOf(Make(p)) = Entries[p]
         /\ \A i \in 0..Entries[p] - 1 : Make(p).slot[i] = EmptySlot
         /\ IsTable(NoTable) /\ NoTable.pidx = 0 /\ DOMAIN NoTable.slot = {}
<1>1. EmptySlot \in SlotRec
  BY DEF EmptySlot, SlotRec, Word
<1>2. Make(p) \in TableOf(p)
  BY <1>1 DEF Make, TableOf
<1>3. NoTable.pidx = 0 /\ NoTable.slot = <<>>
  BY DEF NoTable
<1> QED
  BY <1>2, <1>3 DEF Make, IsTable, EntriesOf

(* Sets of numbers have a least one.                                       *)
LEMMA LeastNat ==
  ASSUME NEW S \in SUBSET Nat, S # {}
  PROVE  \E m \in S : \A n \in S : m <= n
<1>1. IsWellFoundedOn({p \in Nat \X Nat : p[1] < p[2]}, Nat)
  BY NatLessThanWellFounded DEF OpToRel
<1>2. PICK m \in S : \A n \in S :
               <<n, m>> \notin {p \in Nat \X Nat : p[1] < p[2]}
  BY <1>1, WFMin
<1>3. ASSUME NEW n \in S, n < m PROVE FALSE
  BY <1>2, <1>3
<1> QED
  BY <1>3

(* Where a pair goes when there is a free slot.                            *)
LEMMA TableAdded ==
  ASSUME NEW T, IsTable(T), T.pidx # 0, NEW k \in KeyObj, NEW v \in ValObj,
         \E i \in 0..EntriesOf(T) - 1 : T.slot[i].key = FREE
  PROVE  \E j \in 0..EntriesOf(T) - 1 :
           LET i == Pos(k[1], j, EntriesOf(T)) IN
           /\ i \in 0..EntriesOf(T) - 1 /\ T.slot[i].key = FREE
           /\ \A l \in 0..j - 1 : T.slot[Pos(k[1], l, EntriesOf(T))].key # FREE
           /\ Added(T, k, v)
                = [T EXCEPT !.slot[i] = [key |-> k, val |-> v, x |-> FALSE]]
           /\ [key |-> k, val |-> v, x |-> FALSE] \in SlotRec
<1> DEFINE size == Entries[T.pidx]
           free == {i \in 0..size - 1 : T.slot[Pos(k[1], i, size)].key = FREE}
           j == CHOOSE m \in free : \A l \in free : m <= l
<1>1. T.pidx \in DOMAIN Entries /\ size \in Nat \ {0} /\ EntriesOf(T) = size
  BY TableFacts DEF EntriesOf
<1>2. k[1] \in Key
  BY Names
<1>3. free # {}
  <2>1. PICK i \in 0..size - 1 : T.slot[i].key = FREE
    BY <1>1
  <2>2. PICK m \in 0..size - 1 : i = Pos(k[1], m, size)
    BY <1>1, <1>2, Positions
  <2>3. m \in free
    BY <2>1, <2>2
  <2> QED
    BY <2>3
<1>4. \E m \in free : \A l \in free : m <= l
  <2>1. free \in SUBSET Nat
    BY <1>1
  <2> HIDE DEF free
  <2> QED
    BY <1>3, <2>1, LeastNat
<1>5. j \in free /\ \A l \in free : j <= l
  <2> HIDE DEF free
  <2> QED
    BY <1>4, Zenon
<1>6. /\ j \in 0..size - 1 /\ T.slot[Pos(k[1], j, size)].key = FREE
      /\ \A l \in 0..j - 1 : T.slot[Pos(k[1], l, size)].key # FREE
  <2> HIDE DEF j, size
  <2>1. j \in 0..size - 1 /\ T.slot[Pos(k[1], j, size)].key = FREE
    BY <1>5
  <2>2. ASSUME NEW l \in 0..j - 1
        PROVE  T.slot[Pos(k[1], l, size)].key # FREE
    <3>1. l \in 0..size - 1 /\ ~(j <= l)
      BY <1>1, <2>1
    <3> QED
      BY <1>5, <3>1
  <2> QED
    BY <2>1, <2>2
<1>7. Added(T, k, v) = [T EXCEPT !.slot[Pos(k[1], j, size)] =
                          [key |-> k, val |-> v, x |-> FALSE]]
  BY DEF Added
<1>8. [key |-> k, val |-> v, x |-> FALSE] \in SlotRec
  BY DEF SlotRec
<1> HIDE DEF size, free, j
<1>9. Pos(k[1], j, size) \in 0..size - 1
  BY <1>1, <1>2, <1>6, Positions DEF size
<1> QED
  BY <1>1, <1>6, <1>7, <1>8, <1>9

-----------------------------------------------------------------------------
(* The local variables of a thread.                                        *)

Moves(t) == Start(t) \/ Proceed(t)

(* All of them are set.                                                    *)
LEMMA RecordMade ==
  /\ Rest \in Local
  /\ \A l \in Label, p \in Op, q \in Key \cup {Null}, w \in Vector \cup {Null}, o \in ValObj \cup {Null}, k \in KeyObj \cup Word \cup {Null} :
       [Rest EXCEPT !.pc = l, !.op = p, !.key = q, !.vec = w, !.own = o, !.kobj = k] \in Local
  /\ \A p \in Op, q \in Key \cup {Null}, l \in Label, w \in Vector \cup {Null} :
       [Rest EXCEPT !.op = p, !.key = q, !.pc = l, !.vec = w] \in Local
  /\ \A p \in Op, q \in Key \cup {Null}, l \in Label, v \in Vector \cup {Null} :
       [Rest EXCEPT !.op = p, !.key = q, !.pc = l, !.np = v] \in Local
  /\ \A p \in Op, l \in Label :
       [Rest EXCEPT !.op = p, !.pc = l] \in Local
  /\ \A p \in Op, l \in Label, w \in Vector \cup {Null} :
       [Rest EXCEPT !.op = p, !.pc = l, !.vec = w] \in Local
<1>0. Rest \in Local
  BY DEF Rest, Local, Label, Op
<1>1. \A l \in Label, p \in Op, q \in Key \cup {Null}, w \in Vector \cup {Null}, o \in ValObj \cup {Null}, k \in KeyObj \cup Word \cup {Null} :
        [Rest EXCEPT !.pc = l, !.op = p, !.key = q, !.vec = w, !.own = o, !.kobj = k] \in Local
  <2> TAKE l \in Label, p \in Op, q \in Key \cup {Null}, w \in Vector \cup {Null}, o \in ValObj \cup {Null}, k \in KeyObj \cup Word \cup {Null}
  <2>1. \A r \in Local : [r EXCEPT !.pc = l, !.op = p, !.key = q, !.vec = w] \in Local
    BY DEF Local
  <2>2. \A r \in Local : [r EXCEPT !.own = o, !.kobj = k] \in Local
    BY DEF Local
  <2>3. PICK r \in Local : r = [Rest EXCEPT !.pc = l, !.op = p, !.key = q, !.vec = w]
    BY <1>0, <2>1
  <2>4. [r EXCEPT !.own = o, !.kobj = k]
          = [Rest EXCEPT !.pc = l, !.op = p, !.key = q, !.vec = w, !.own = o, !.kobj = k]
    BY <1>0, <2>3 DEF Local
  <2> QED
    BY <2>2, <2>4
<1>2. \A p \in Op, q \in Key \cup {Null}, l \in Label, w \in Vector \cup {Null} :
        [Rest EXCEPT !.op = p, !.key = q, !.pc = l, !.vec = w] \in Local
  BY <1>0 DEF Local
<1>3. \A p \in Op, q \in Key \cup {Null}, l \in Label, v \in Vector \cup {Null} :
        [Rest EXCEPT !.op = p, !.key = q, !.pc = l, !.np = v] \in Local
  BY <1>0 DEF Local
<1>4. \A p \in Op, l \in Label :
        [Rest EXCEPT !.op = p, !.pc = l] \in Local
  BY <1>0 DEF Local
<1>5. \A p \in Op, l \in Label, w \in Vector \cup {Null} :
        [Rest EXCEPT !.op = p, !.pc = l, !.vec = w] \in Local
  BY <1>0 DEF Local
<1> QED
  BY <1>0, <1>1, <1>2, <1>3, <1>4, <1>5

(* A step that gives one thread new locals leaves those of the others.     *)
LEMMA ThreadSet ==
  ASSUME th \in [Thread -> Local], NEW t \in Thread, NEW r \in Local,
         th' = [th EXCEPT ![t] = r]
  PROVE  /\ th' \in [Thread -> Local] /\ th'[t] = r
         /\ \A u \in Thread \ {t} : th'[u] = th[u]
  OBVIOUS

(* What the words in a slot are.                                           *)
LEMMA SlotTyped ==
  ASSUME Types, NEW w \in Vector, NEW i \in DOMAIN tab[w].slot
  PROVE  /\ tab[w].pidx # 0 /\ tab[w].pidx \in DOMAIN Entries
         /\ Size(w) \in Nat \ {0} /\ i \in 0..Size(w) - 1
         /\ tab[w].slot[i] \in SlotRec
         /\ tab[w].slot[i].key \in KeyObj \cup Word
         /\ tab[w].slot[i].val \in ValObj \cup Word
         /\ tab[w].slot[i].x \in BOOLEAN
<1>1. IsTable(tab[w])
  BY DEF Types
<1>2. tab[w].pidx # 0
  BY <1>1, TableFacts
<1>3. /\ tab[w].pidx \in DOMAIN Entries /\ Size(w) \in Nat \ {0}
      /\ tab[w].slot \in [0..Size(w) - 1 -> SlotRec]
      /\ DOMAIN tab[w].slot = 0..Size(w) - 1
  BY <1>1, <1>2, TableFacts DEF Size, EntriesOf
<1>4. tab[w].slot[i] \in SlotRec
  BY <1>3
<1> QED
  BY <1>2, <1>3, <1>4 DEF SlotRec

(* The slots of a vector that exists are numbered from 0.                  *)
LEMMA Indices ==
  ASSUME Types, NEW w \in Vector, tab[w].pidx # 0
  PROVE  /\ tab[w].pidx \in DOMAIN Entries
         /\ Size(w) \in Nat \ {0} /\ DOMAIN tab[w].slot = 0..Size(w) - 1
  BY TableFacts DEF Types, Size, EntriesOf

(* The slots that a thread looks at.                                       *)
LEMMA Whereabouts ==
  ASSUME Types, CallsOK, VectorsOK, IndexOK, NEW t \in Thread, th[t].vec # Null
  PROVE  /\ th[t].vec \in Vector /\ tab[th[t].vec].pidx # 0
         /\ Size(th[t].vec) \in Nat \ {0}
         /\ DOMAIN tab[th[t].vec].slot = 0..Size(th[t].vec) - 1
         /\ th[t].op \in KeyOps => Slot(t) \in 0..Size(th[t].vec) - 1
         /\ th[t].ix < Size(th[t].vec) => th[t].ix \in 0..Size(th[t].vec) - 1
<1>1. th[t].vec \in Vector /\ th[t].ix \in Nat /\ th[t] \in Local
  BY DEF Types, Local
<1>2. life[vec] = "live" /\ vec \in Vector
  BY DEF VectorsOK, Types
<1>3. tab[th[t].vec].pidx # 0
  BY <1>1, <1>2 DEF VectorsOK
<1>4. /\ tab[th[t].vec].pidx \in DOMAIN Entries /\ Size(th[t].vec) \in Nat \ {0}
      /\ DOMAIN tab[th[t].vec].slot = 0..Size(th[t].vec) - 1
  BY <1>1, <1>3, Indices
<1>5. th[t].op \in KeyOps => Slot(t) \in 0..Size(th[t].vec) - 1
  <2>1. th[t].op \in KeyOps => th[t].key \in Key
    BY DEF CallsOK, CallOK
  <2> QED
    BY <1>1, <1>4, <2>1, Positions DEF Slot, Size
<1> QED
  BY <1>1, <1>3, <1>4, <1>5

(* The labels, and the names of the calls.                                 *)
LEMMA LabelFacts ==
  /\ {"idle", "probe", "value", "oldval", "swap", "limit", "dcas",
      "count", "take", "uncount", "bury", "rehash", "copykey", "copyval",
      "setlimit", "install", "acquire", "mark", "clrkey", "clrput",
      "clrval", "clrlimit", "clrcount", "walk", "walkval", "answer", "wild"}
       \subseteq Label
  /\ {"none", "find", "insert", "update", "erase", "walk", "clear", "assign"}
       \subseteq Op
BY DEF Label, Op

(* A step of a thread sets its own local variables, to what they may be.   *)
LEMMA ThreadTypes ==
  ASSUME Shape, NEW t \in Thread, Moves(t)
  PROVE  /\ th' \in [Thread -> Local]
         /\ \A u \in Thread \ {t} : th'[u] = th[u]
<1> USE DEF Shape
<1> DEFINE Goal == /\ th' \in [Thread -> Local]
                   /\ \A u \in Thread \ {t} : th'[u] = th[u]
<1>a. /\ th \in [Thread -> Local] /\ th[t] \in Local
      /\ vec \in Vector /\ Rest \in Local
  BY RecordMade, LabelFacts DEF Types
<1>b. /\ th[t].pc \in Label /\ th[t].op \in Op /\ th[t].key \in Key \cup {Null}
      /\ th[t].vec \in Vector \cup {Null} /\ th[t].ix \in Nat
      /\ th[t].ix + 1 \in Nat
      /\ th[t].own \in ValObj \cup {Null} /\ th[t].kobj \in KeyObj \cup Word \cup {Null}
      /\ th[t].word \in Obj \cup Word \cup {Null} /\ th[t].np \in Vector \cup {Null}
      /\ th[t].met \in SUBSET Key
  BY <1>a DEF Local
<1>c. \A r \in Local : th' = [th EXCEPT ![t] = r] => Goal
  BY <1>a, ThreadSet
<1>d. \A l \in Label : Goto(t, l) => Goal
  <2> TAKE l \in Label
  <2>1. [th[t] EXCEPT !.pc = l] \in Local
    BY <1>a, <1>b DEF Local
  <2> QED
    BY <2>1, <1>c DEF Goto
<1>e. th' = [th EXCEPT ![t] = Rest] => Goal
  BY <1>a, <1>c
<1>f. \A freed, retired, ts : Done(t, freed, retired, ts) => Goal
  BY <1>e DEF Done
<1>g. \A own \in ValObj \cup {Null}, w \in Vector : Again(t, own, w) => Goal
  <2> TAKE own \in ValObj \cup {Null}, w \in Vector
  <2>1. [Rest EXCEPT !.pc = "probe", !.op = th[t].op, !.key = th[t].key,
                     !.vec = w, !.own = own, !.kobj = th[t].kobj] \in Local
    <3>1. "probe" \in Label
      BY LabelFacts
    <3> QED
      BY <1>a, <1>b, <3>1 DEF Local
  <2> QED
    BY <2>1, <1>c DEF Again
<1>h. At(t, "probe") \/ At(t, "value") \/ At(t, "oldval") \/ At(t, "copykey")
      \/ At(t, "copyval") \/ At(t, "walk") \/ At(t, "walkval") \/ At(t, "clrkey")
      \/ At(t, "clrput") \/ At(t, "clrval") \/ At(t, "mark")
      => th[t].vec # Null
  BY DEF CallsOK, CallOK, At
<1>i. \A i \in DOMAIN tab[th[t].vec].slot : th[t].vec # Null =>
        LET s == tab[th[t].vec].slot[i] IN
        /\ s.key \in KeyObj \cup Word /\ s.val \in ValObj \cup Word
        /\ s.key \in Obj \cup Word /\ s.val \in Obj \cup Word
  BY <1>b, SlotTyped, Names
<1>j. th[t].vec # Null =>
        /\ Size(th[t].vec) \in Nat \ {0}
        /\ DOMAIN tab[th[t].vec].slot = 0..Size(th[t].vec) - 1
        /\ th[t].op \in KeyOps => Slot(t) \in 0..Size(th[t].vec) - 1
        /\ th[t].ix < Size(th[t].vec) => th[t].ix \in 0..Size(th[t].vec) - 1
  BY Whereabouts
<1>k. th[t].vec # Null /\ th[t].op \in KeyOps =>
        /\ Here(t).key \in (KeyObj \cup Word) \cap (Obj \cup Word)
        /\ Here(t).val \in (ValObj \cup Word) \cap (Obj \cup Word)
  BY <1>i, <1>j DEF Here
<1>l. th[t].vec # Null /\ th[t].ix < Size(th[t].vec) =>
        /\ This(t).key \in (KeyObj \cup Word) \cap (Obj \cup Word)
        /\ This(t).val \in (ValObj \cup Word) \cap (Obj \cup Word)
  BY <1>i, <1>j DEF This
<1>m. At(t, "probe") \/ At(t, "value") \/ At(t, "oldval") \/ At(t, "limit")
       \/ At(t, "dcas") \/ At(t, "swap") \/ At(t, "take") => th[t].op \in KeyOps
  BY DEF CallsOK, CallOK, At, Places, KeyOps, Storing, Erasing, Copying, Clearing
<1>n. At(t, "copykey") \/ At(t, "copyval") \/ At(t, "walkval") \/ At(t, "clrkey")
      \/ At(t, "clrput") \/ At(t, "clrval") =>
        th[t].op \notin {"walk", "assign"} \/ At(t, "walkval")
  BY DEF CallsOK, CallOK, At, Places, Storing, Erasing, Copying, Clearing
<1>1. CASE ProbeFree(t)
  BY <1>d, LabelFacts, <1>1 DEF ProbeFree
<1>2. CASE ProbeMatch(t)
  BY <1>d, LabelFacts, <1>2 DEF ProbeMatch
<1>3. CASE PutWait(t)
  BY <1>d, LabelFacts, <1>3 DEF PutWait
<1>4. CASE FillSlot(t)
  BY <1>d, LabelFacts, <1>4 DEF FillSlot
<1>5. CASE TakeValue(t)
  BY <1>d, LabelFacts, <1>5 DEF TakeValue
<1>6. CASE CountDown(t)
  BY <1>d, LabelFacts, <1>6 DEF CountDown
<1>7. CASE SetLimit(t)
  BY <1>d, LabelFacts, <1>7 DEF SetLimit
<1>8. CASE AssignLimit(t)
  BY <1>d, LabelFacts, <1>8 DEF AssignLimit
<1>9. CASE ClearFreeKey(t)
  BY <1>d, LabelFacts, <1>9 DEF ClearFreeKey
<1>10. CASE ClearSetLimit(t)
  BY <1>d, LabelFacts, <1>10 DEF ClearSetLimit
<1>11. CASE Answer(t)
  BY <1>f, <1>11 DEF Answer
<1>12. CASE UpdateInPlace(t)
  BY <1>f, <1>12 DEF UpdateInPlace
<1>13. CASE SwapValue(t)
  BY <1>f, <1>13 DEF SwapValue
<1>14. CASE CountUp(t)
  BY <1>f, <1>14 DEF CountUp
<1>15. CASE Bury(t)
  BY <1>f, <1>15 DEF Bury
<1>16. CASE OutOfMemory(t)
  BY <1>f, <1>16 DEF OutOfMemory
<1>17. CASE AssignInstall(t)
  BY <1>f, <1>17 DEF AssignInstall
<1>18. CASE ClearDone(t)
  BY <1>f, <1>18 DEF ClearDone
<1>19. CASE WalkEnd(t)
  BY <1>f, <1>19 DEF WalkEnd
<1>20. CASE NoRehash(t)
  BY <1>a, <1>b, <1>g, <1>20 DEF NoRehash, Retry
<1>21. CASE StoreFails(t)
  <2>1. Kept(t) \in ValObj \cup {Null}
    BY <1>b DEF Kept
  <2> QED
    BY <1>a, <1>g, <2>1, <1>21 DEF StoreFails
<1>22. CASE Install(t)
  <2>1. th[t].np \in Vector
    BY <1>b, <1>22 DEF Install, CallsOK, CallOK, At, Copying
  <2> QED
    BY <1>b, <1>g, <2>1, <1>22 DEF Install
<1>23. CASE ProbeNext(t)
  <2>1. [th[t] EXCEPT !.ix = @ + 1] \in Local
    BY <1>a, <1>b DEF Local
  <2>2. CASE th[t].ix + 1 < Size(th[t].vec)
    BY <1>c, <2>1, <2>2, <1>23 DEF ProbeNext
  <2>3. CASE ~(th[t].ix + 1 < Size(th[t].vec))
    BY <1>d, <2>3, LabelFacts, <1>23 DEF ProbeNext
  <2> QED
    BY <2>2, <2>3
<1>24. CASE FindValue(t)
  <2> DEFINE w == IF Here(t).val = DELT THEN Null ELSE Here(t).val
  <2>1. w \in Obj \cup Word \cup {Null}
    BY <1>h, <1>k, <1>m, <1>24 DEF FindValue
  <2>2. th' = [th EXCEPT ![t].pc = "answer", ![t].word = w]
    BY <1>24 DEF FindValue
  <2> HIDE DEF w
  <2>3. [th[t] EXCEPT !.pc = "answer", !.word = w] \in Local
    BY <1>a, <1>b, <2>1, LabelFacts DEF Local
  <2> QED
    BY <1>c, <2>2, <2>3
<1>25. CASE PutValue(t)
  <2>0. Here(t).val \in Obj \cup Word \cup {Null}
    BY <1>h, <1>k, <1>m, <1>25 DEF PutValue
  <2>1. PICK v \in ValObj \cup {Null} :
          th' = [th EXCEPT ![t].pc = "swap", ![t].word = Here(t).val, ![t].own = v]
    BY <1>b, <1>25 DEF PutValue, Fresh
  <2>2. [th[t] EXCEPT !.pc = "swap", !.word = Here(t).val, !.own = v] \in Local
    BY <1>a, <1>b, <2>0, <2>1, LabelFacts DEF Local
  <2> QED
    BY <1>c, <2>1, <2>2
<1>26. CASE DecrLimit(t)
  <2>1. PICK k \in KeyObj \cup Word \cup {Null}, v \in ValObj \cup {Null} :
          th' = [th EXCEPT ![t].pc = "dcas", ![t].kobj = k, ![t].own = v]
    <3>1. th[t].key \in Key
      BY <1>m, <1>26 DEF DecrLimit, CallsOK, CallOK
    <3>2. Fresh({th[t].key} \X (1..Copies)) \subseteq KeyObj
      BY <3>1 DEF Fresh, KeyObj
    <3>3. PICK k \in IF th[t].kobj = Null THEN Fresh({th[t].key} \X (1..Copies))
                    ELSE {th[t].kobj},
               v \in IF th[t].op = "insert" THEN {th[t].own} ELSE Fresh(ValObj) :
            th' = [th EXCEPT ![t].pc = "dcas", ![t].kobj = k, ![t].own = v]
      BY <1>26 DEF DecrLimit
    <3>4. k \in KeyObj \cup Word \cup {Null}
      BY <1>b, <3>2
    <3>5. v \in ValObj \cup {Null}
      BY <1>b DEF Fresh
    <3> QED
      BY <3>3, <3>4, <3>5
  <2>2. [th[t] EXCEPT !.pc = "dcas", !.kobj = k, !.own = v] \in Local
    BY <1>a, <1>b, <2>1, LabelFacts DEF Local
  <2> QED
    BY <1>c, <2>1, <2>2
<1>27. CASE OldKey(t)
  <2>0. Here(t).key \in KeyObj \cup Word \cup {Null}
    BY <1>h, <1>k, <1>m, <1>27 DEF OldKey
  <2>1. [th[t] EXCEPT !.pc = "oldval", !.kobj = Here(t).key] \in Local
    BY <1>a, <1>b, <2>0, LabelFacts DEF Local
  <2> QED
    BY <1>c, <2>1, <1>27 DEF OldKey
<1>28. CASE OldValue(t)
  <2>0. Here(t).val \in Obj \cup Word \cup {Null}
    BY <1>h, <1>k, <1>m, <1>28 DEF OldValue
  <2>1. [th[t] EXCEPT !.pc = "take", !.word = Here(t).val] \in Local
    BY <1>a, <1>b, <2>0, LabelFacts DEF Local
  <2>2. [th[t] EXCEPT !.pc = "rehash", !.kobj = Null] \in Local
    BY <1>a, <1>b, LabelFacts DEF Local
  <2>3. [th[t] EXCEPT !.pc = "answer", !.kobj = Null] \in Local
    BY <1>a, <1>b, LabelFacts DEF Local
  <2>4. \/ th' = [th EXCEPT ![t].pc = "take", ![t].word = Here(t).val]
        \/ th' = [th EXCEPT ![t].pc = "rehash", ![t].kobj = Null]
        \/ th' = [th EXCEPT ![t].pc = "answer", ![t].kobj = Null]
    BY <1>28 DEF OldValue
  <2>5. CASE th' = [th EXCEPT ![t].pc = "take", ![t].word = Here(t).val]
    BY <1>c, <2>1, <2>5
  <2>6. CASE th' = [th EXCEPT ![t].pc = "rehash", ![t].kobj = Null]
    BY <1>c, <2>2, <2>6
  <2>7. CASE th' = [th EXCEPT ![t].pc = "answer", ![t].kobj = Null]
    BY <1>c, <2>3, <2>7
  <2> QED
    BY <2>4, <2>5, <2>6, <2>7
<1>29. CASE TakeFails(t)
  <2>1. [Rest EXCEPT !.op = "erase", !.key = th[t].key, !.pc = "probe", !.vec = vec]
          \in Local
    BY <1>a, <1>b, RecordMade, LabelFacts
  <2>2. [Started("erase", th[t].key) EXCEPT !.vec = vec] =
          [Rest EXCEPT !.op = "erase", !.key = th[t].key, !.pc = "probe", !.vec = vec]
    BY <1>a DEF Started, Local
  <2> QED
    BY <1>c, <2>1, <2>2, <1>29 DEF TakeFails
<1>30. CASE RehashStart(t)
  <2>1. PICK w \in Vector :
          th' = [th EXCEPT ![t].pc = "copykey", ![t].vec = vec, ![t].ix = 0,
                           ![t].word = Null, ![t].np = w]
    BY <1>30 DEF RehashStart, Fresh
  <2>2. [th[t] EXCEPT !.pc = "copykey", !.vec = vec, !.ix = 0, !.word = Null,
                      !.np = w] \in Local
    BY <1>a, <1>b, LabelFacts DEF Local
  <2> QED
    BY <1>c, <2>1, <2>2
<1>31. CASE CopyKey(t)
  <2>0. This(t).key \in Obj \cup Word \cup {Null}
    BY <1>h, <1>l, <1>n, <1>31 DEF CopyKey, IndexOK
  <2>1. [th[t] EXCEPT !.pc = "copyval", !.word = This(t).key] \in Local
    BY <1>a, <1>b, <2>0, LabelFacts DEF Local
  <2> QED
    BY <1>c, <2>1, <1>31 DEF CopyKey
<1>32. CASE CopyValue(t)
  <2>1. \A l \in Label, i \in Nat :
          [th[t] EXCEPT !.pc = l, !.ix = i, !.word = Null] \in Local
    BY <1>a, <1>b DEF Local
  <2>2. PICK l \in Label, i \in Nat :
          th' = [th EXCEPT ![t].pc = l, ![t].ix = i, ![t].word = Null]
    <3>1. CASE th[t].ix + 1 < Size(th[t].vec)
      <4>1. th' = [th EXCEPT ![t].pc = "copykey", ![t].ix = th[t].ix + 1,
                             ![t].word = Null]
        BY <1>a, <3>1, <1>32 DEF CopyValue
      <4> QED
        BY <1>b, <4>1, LabelFacts
    <3>2. CASE ~(th[t].ix + 1 < Size(th[t].vec))
      <4>1. th' = [th EXCEPT ![t].pc = "setlimit", ![t].ix = 0, ![t].word = Null]
        BY <1>a, <3>2, <1>32 DEF CopyValue
      <4> QED
        BY <4>1, LabelFacts
    <3> QED
      BY <3>1, <3>2
  <2>3. [th[t] EXCEPT !.pc = l, !.ix = i, !.word = Null] \in Local
    BY <2>1
  <2> QED
    BY <1>c, <2>2, <2>3
<1>33. CASE AssignAcquire(t)
  <2>1. [th[t] EXCEPT !.pc = "mark", !.vec = vec] \in Local
    BY <1>a, <1>b, LabelFacts DEF Local
  <2> QED
    BY <1>c, <2>1, <1>33 DEF AssignAcquire
<1>34. CASE ClearAcquire(t)
  <2>1. [th[t] EXCEPT !.pc = "clrkey", !.vec = vec] \in Local
    BY <1>a, <1>b, LabelFacts DEF Local
  <2> QED
    BY <1>c, <2>1, <1>34 DEF ClearAcquire
<1>35. CASE Mark(t)
  <2>0. This(t).val \in ValObj \cup Word
    BY <1>h, <1>l, <1>35 DEF Mark
  <2>1. PICK o \in ValObj \cup {Null} :
          th' = [th EXCEPT ![t].ix = th[t].ix + 1, ![t].own = o]
    <3>1. {Null} \cup Only(This(t).val) \subseteq ValObj \cup {Null}
      BY <2>0 DEF Only
    <3> QED
      BY <1>a, <3>1, <1>35 DEF Mark
  <2>2. [th[t] EXCEPT !.ix = th[t].ix + 1, !.own = o] \in Local
    BY <1>a, <1>b DEF Local
  <2> QED
    BY <1>c, <2>1, <2>2
<1>36. CASE ClearReadKey(t)
  <2>0. This(t).key \in KeyObj \cup Word \cup {Null}
    BY <1>h, <1>l, <1>n, <1>36 DEF ClearReadKey, IndexOK
  <2>1. [th[t] EXCEPT !.pc = "clrput", !.kobj = This(t).key] \in Local
    BY <1>a, <1>b, <2>0, LabelFacts DEF Local
  <2> QED
    BY <1>c, <2>1, <1>36 DEF ClearReadKey
<1>37. CASE ClearFreeValue(t)
  <2>0. This(t).val \in ValObj \cup Word
    BY <1>h, <1>l, <1>n, <1>37 DEF ClearFreeValue, IndexOK
  <2>1. PICK o \in ValObj \cup {Null}, l \in Label, i \in Nat :
          th' = [th EXCEPT ![t].pc = l, ![t].ix = i, ![t].kobj = Null, ![t].own = o]
    <3>1. {Null} \cup Only(This(t).val) \subseteq ValObj \cup {Null}
      BY <2>0 DEF Only
    <3>2. PICK made \in ValObj \cup {Null} :
            th' = [th EXCEPT
             ![t].pc = IF th[t].ix + 1 < Size(th[t].vec) THEN "clrkey" ELSE "clrlimit",
             ![t].ix = IF th[t].ix + 1 < Size(th[t].vec) THEN th[t].ix + 1 ELSE 0,
             ![t].kobj = Null, ![t].own = made]
      BY <3>1, <1>37 DEF ClearFreeValue
    <3> DEFINE place == IF th[t].ix + 1 < Size(th[t].vec) THEN "clrkey" ELSE "clrlimit"
               next == IF th[t].ix + 1 < Size(th[t].vec) THEN th[t].ix + 1 ELSE 0
    <3>3. place \in Label /\ next \in Nat
      BY <1>b, LabelFacts
    <3> QED
      BY <3>2, <3>3
  <2>2. \A x \in Label, n \in Nat, v \in ValObj \cup {Null} :
          [th[t] EXCEPT !.pc = x, !.ix = n, !.kobj = Null, !.own = v] \in Local
    BY <1>a, <1>b DEF Local
  <2>3. [th[t] EXCEPT !.pc = l, !.ix = i, !.kobj = Null, !.own = o] \in Local
    BY <2>2
  <2> QED
    BY <1>c, <2>1, <2>3
<1>38. CASE WalkKey(t)
  <2>1. [th[t] EXCEPT !.ix = @ + 1] \in Local
    BY <1>a, <1>b DEF Local
  <2>2. This(t).key \in Obj \cup Word \cup {Null}
    BY <1>h, <1>l, <1>38 DEF WalkKey
  <2>3. [th[t] EXCEPT !.pc = "walkval", !.word = This(t).key] \in Local
    BY <1>a, <1>b, <2>2, LabelFacts DEF Local
  <2>4. CASE This(t).key = FREE
    BY <1>c, <2>1, <2>4, <1>38 DEF WalkKey
  <2>5. CASE This(t).key # FREE
    BY <1>c, <2>3, <2>5, <1>38 DEF WalkKey
  <2> QED
    BY <2>4, <2>5
<1>39. CASE WalkValue(t)
  <2>1. th[t].vec # Null /\ th[t].vec \in Vector /\ th[t].ix \in 0..Size(th[t].vec) - 1
    BY <1>b, <1>h, <1>j, <1>39 DEF WalkValue, IndexOK
  <2>2. PICK m \in SUBSET Key :
          th' = [th EXCEPT ![t].pc = "walk", ![t].ix = th[t].ix + 1,
                           ![t].word = Null, ![t].met = m]
    <3>1. CASE This(t).val \in Word
      BY <1>a, <1>b, <3>1, <1>39 DEF WalkValue
    <3>2. CASE This(t).val \notin Word
      <4>1. This(t).key # DELT
        BY <1>h, <1>j, <2>1, <3>2, <1>39 DEF WalkValue, SlotsOK, This, Word
      <4>2. th[t].word \in KeyObj
        BY <4>1, <1>39 DEF WalkValue, WalksOK, CallsOK, CallOK
      <4>3. th[t].word[1] \in Key
        BY <4>2, Names
      <4>4. th[t].met \cup {th[t].word[1]} \in SUBSET Key
        BY <1>b, <4>3
      <4> QED
        BY <1>a, <3>2, <4>4, <1>39 DEF WalkValue
    <3> QED
      BY <3>1, <3>2
  <2>3. [th[t] EXCEPT !.pc = "walk", !.ix = th[t].ix + 1, !.word = Null, !.met = m]
          \in Local
    BY <1>a, <1>b, <2>2, LabelFacts DEF Local
  <2> QED
    BY <1>c, <2>2, <2>3
<1>40. CASE ClearStart(t)
  <2>1. [Rest EXCEPT !.op = "clear", !.pc = "acquire"] \in Local
    BY RecordMade, LabelFacts
  <2> QED
    BY <1>c, <2>1, <1>40 DEF ClearStart, Call
<1>41. CASE WalkStart(t)
  <2>1. [Rest EXCEPT !.op = "walk", !.pc = "walk", !.vec = vec] \in Local
    BY <1>a, RecordMade, LabelFacts
  <2> QED
    BY <1>c, <2>1, <1>41 DEF WalkStart, Call
<1>42. ASSUME NEW k \in Key, LookupStart(t, k) \/ InsertStart(t, k) PROVE Goal
  <2>1. \A op \in Op : Started(op, k) \in Local
    BY <1>a, RecordMade, LabelFacts DEF Started
  <2>2. CASE LookupStart(t, k)
    <3>1. PICK op \in {"find", "erase", "update"} : Call(t, Started(op, k))
      BY <2>2 DEF LookupStart
    <3> QED
      BY <1>c, <2>1, <3>1, LabelFacts DEF Call
  <2>3. CASE InsertStart(t, k)
    <3>1. PICK v \in ValObj : Call(t, [Started("insert", k) EXCEPT !.own = v])
      BY <2>3 DEF InsertStart, Fresh
    <3>2. [Started("insert", k) EXCEPT !.own = v] \in Local
      BY <2>1, LabelFacts DEF Local
    <3> QED
      BY <1>c, <3>1, <3>2 DEF Call
  <2> QED
    BY <1>42, <2>2, <2>3
<1>43. ASSUME NEW k \in Key, AssignStart(t, k) PROVE Goal
  <2>1. PICK w \in Vector :
          Call(t, [Rest EXCEPT !.op = "assign", !.key = k, !.pc = "acquire", !.np = w])
    BY <1>43 DEF AssignStart, Fresh
  <2>2. [Rest EXCEPT !.op = "assign", !.key = k, !.pc = "acquire", !.np = w] \in Local
    BY RecordMade, LabelFacts
  <2> QED
    BY <1>c, <2>1, <2>2 DEF Call
<1> QED
  BY <1>1, <1>2, <1>3, <1>4, <1>5, <1>6, <1>7, <1>8, <1>9, <1>10, <1>11, <1>12, <1>13, <1>14, <1>15, <1>16, <1>17, <1>18, <1>19, <1>20, <1>21, <1>22, <1>23, <1>24, <1>25, <1>26, <1>27, <1>28, <1>29, <1>30, <1>31, <1>32, <1>33, <1>34, <1>35, <1>36, <1>37, <1>38, <1>39, <1>40, <1>41, <1>42, <1>43
  DEF Moves, Start, Proceed

-----------------------------------------------------------------------------
(* Objects and vectors.                                                    *)

(* What becomes of an object.                                              *)
LEMMA MemoryStep ==
  ASSUME NEW new, NEW freed, NEW retired, NEW left,
         Memory(new, freed, retired, left), NEW o \in Obj
  PROVE  /\ o \in new => life'[o] = "live"
         /\ o \notin new /\ o \in freed => life'[o] = "gone"
         /\ o \in retired => waits'[o] = {u \in Thread \ left : InCs(u)}
         /\ o \notin retired => waits'[o] = waits[o] \ left
         /\ o \notin new \cup freed /\ o \in retired =>
              life'[o] = IF life[o] # "live" THEN "twice"
                         ELSE IF waits'[o] = {} THEN "gone" ELSE "retired"
         /\ o \notin new \cup freed \cup retired =>
              life'[o] = IF life[o] = "retired" /\ waits'[o] = {} THEN "gone"
                         ELSE life[o]
<1> DEFINE W == IF o \in retired THEN {u \in Thread \ left : InCs(u)}
                ELSE waits[o] \ left
<1>1. waits'[o] = W
  BY DEF Memory
<1>2. life'[o] =
        IF o \in new THEN "live"
        ELSE IF o \in freed THEN "gone"
        ELSE IF o \in retired /\ life[o] # "live" THEN "twice"
        ELSE IF o \in retired \/ life[o] = "retired"
               THEN IF W = {} THEN "gone" ELSE "retired"
        ELSE life[o]
  BY DEF Memory
<1> QED
  BY <1>1, <1>2

(* The reclamation of memory keeps the types of its variables.             *)
LEMMA MemoryTyped ==
  ASSUME Types, NEW new, NEW freed, NEW retired, NEW left,
         Memory(new, freed, retired, left)
  PROVE  /\ life' \in [Obj -> {"free", "live", "retired", "gone", "twice"}]
         /\ waits' \in [Obj -> SUBSET Thread]
<1>1. waits \in [Obj -> SUBSET Thread]
      /\ life \in [Obj -> {"free", "live", "retired", "gone", "twice"}]
  BY DEF Types
<1> QED
  BY <1>1 DEF Memory

(* Vectors are made one at a time, and replaced by Install alone.          *)
VectorKept(t, w) ==
  \/ life'[w] = life[w] /\ waits'[w] = waits[w]
  \/ /\ waits'[w] = waits[w] \ {t} /\ th'[t] = Rest
     /\ life'[w] = IF life[w] = "retired" /\ waits'[w] = {} THEN "gone"
                   ELSE life[w]

VectorMade(t, w) ==
  /\ RehashStart(t) \/ \E k \in Key : AssignStart(t, k)
  /\ life[w] = "free" /\ life'[w] = "live" /\ th'[t].np = w

VectorReplaced(t, w) ==
  /\ w = vec /\ vec' = th[t].np /\ th[t].vec = vec
  /\ \/ /\ Install(t)
        /\ waits'[w] = {u \in Thread : InCs(u)}
        /\ life[w] = "live" =>
             life'[w] = IF waits'[w] = {} THEN "gone" ELSE "retired"
     \/ /\ AssignInstall(t)
        /\ waits'[w] = {u \in Thread \ {t} : InCs(u)}
        /\ life[w] = "live" =>
             life'[w] = IF waits'[w] = {} THEN "gone" ELSE "retired"

VectorStep(t, w) ==
  \/ VectorKept(t, w)
  \/ VectorMade(t, w)
  \/ VectorReplaced(t, w)

(* A vector that a step neither makes nor gives up stays as it is.         *)
LEMMA VectorsKept ==
  ASSUME Types, VectorsOK, NEW t \in Thread, NEW w \in Vector,
         NEW new, NEW freed, NEW retired, NEW left,
         Memory(new, freed, retired, left),
         w \notin new \cup freed \cup retired,
         left = {} \/ (left = {t} /\ th'[t] = Rest)
  PROVE  VectorKept(t, w)
<1>1. w \in Obj /\ waits[w] \subseteq Thread
  BY Names DEF Types
<1>2. /\ waits'[w] = waits[w] \ left
      /\ life'[w] = IF life[w] = "retired" /\ waits'[w] = {} THEN "gone"
                    ELSE life[w]
  BY <1>1, MemoryStep
<1>3. CASE left = {}
  <2>1. waits'[w] = waits[w] /\ (life[w] = "retired" => waits[w] # {})
    BY <1>2, <1>3 DEF VectorsOK
  <2>2. life'[w] = life[w]
    BY <1>2, <2>1
  <2> QED
    BY <2>1, <2>2 DEF VectorKept
<1>4. CASE left = {t} /\ th'[t] = Rest
  BY <1>2, <1>4 DEF VectorKept
<1> QED
  BY <1>3, <1>4

-----------------------------------------------------------------------------
(* What each step does to the local variables of its thread.               *)

(* What is at the place that a thread has come to.                         *)
LEMMA Found ==
  ASSUME Types, CallsOK, VectorsOK, IndexOK, NEW t \in Thread
  PROVE  /\ th[t].pc \in {"probe", "value", "oldval", "swap", "dcas", "take", "uncount", "bury"} =>
              /\ th[t].vec \in Vector /\ tab[th[t].vec].pidx # 0
              /\ Slot(t) \in DOMAIN tab[th[t].vec].slot /\ th[t].key \in Key
              /\ Here(t) \in SlotRec
              /\ Here(t).key \in KeyObj \cup Word
              /\ Here(t).val \in ValObj \cup Word
         /\ (\/ th[t].pc \in {"copykey", "copyval", "walkval", "clrkey", "clrput", "clrval"}
             \/ th[t].pc \in {"walk", "mark"} /\ th[t].ix < Size(th[t].vec)) =>
              /\ th[t].vec \in Vector /\ tab[th[t].vec].pidx # 0
              /\ th[t].ix \in DOMAIN tab[th[t].vec].slot
              /\ This(t) \in SlotRec
              /\ This(t).key \in KeyObj \cup Word
              /\ This(t).val \in ValObj \cup Word
<1>1. th[t].pc \in {"probe", "value", "oldval", "swap", "dcas", "take", "uncount", "bury"} =>
        th[t].op \in KeyOps /\ th[t].vec # Null /\ th[t].key \in Key
  BY DEF CallsOK, CallOK, Places, KeyOps, Storing, Erasing, Copying, Clearing
<1>2. (\/ th[t].pc \in {"copykey", "copyval", "walkval", "clrkey", "clrput", "clrval"}
       \/ th[t].pc \in {"walk", "mark"} /\ th[t].ix < Size(th[t].vec)) =>
        th[t].vec # Null /\ th[t].ix < Size(th[t].vec)
  BY DEF CallsOK, CallOK, Places, Storing, Erasing, Copying, Clearing, IndexOK, At
<1>3. th[t].vec # Null =>
        /\ th[t].vec \in Vector /\ tab[th[t].vec].pidx # 0
        /\ th[t].op \in KeyOps => Slot(t) \in DOMAIN tab[th[t].vec].slot
        /\ th[t].ix < Size(th[t].vec) => th[t].ix \in DOMAIN tab[th[t].vec].slot
  BY Whereabouts
<1>4. \A i \in DOMAIN tab[th[t].vec].slot : th[t].vec \in Vector =>
        LET s == tab[th[t].vec].slot[i] IN
        s \in SlotRec /\ s.key \in KeyObj \cup Word /\ s.val \in ValObj \cup Word
  BY SlotTyped
<1> QED
  BY <1>1, <1>2, <1>3, <1>4 DEF Here, This

(* What holds of t, from which its steps are computed.                     *)
LEMMA Locals ==
  ASSUME Shape, NEW t \in Thread
  PROVE  /\ th \in [Thread -> Local] /\ th[t] \in Local
         /\ th[t].own \in ValObj \cup {Null} /\ th[t].kobj \in KeyObj \cup Word \cup {Null}
         /\ th[t].op = "insert" => th[t].own \in ValObj
         /\ th[t].ix \in Nat /\ th[t].met \in SUBSET Key
         /\ th[t].pc \in {"probe", "value", "oldval"} =>
              Here(t).key \in KeyObj \cup Word /\ Here(t).val \in ValObj \cup Word
         /\ th[t].pc \in {"walkval", "clrval"} \/ (th[t].pc = "mark" /\ th[t].ix < Size(th[t].vec)) =>
              /\ This(t).val \in ValObj \cup Word /\ th[t].vec \in Vector
              /\ th[t].ix \in DOMAIN tab[th[t].vec].slot
<1>a. /\ th \in [Thread -> Local] /\ th[t] \in Local
  BY DEF Types, Shape
<1>b. /\ th[t].own \in ValObj \cup {Null} /\ th[t].kobj \in KeyObj \cup Word \cup {Null}
      /\ th[t].op = "insert" => th[t].own \in ValObj
      /\ th[t].ix \in Nat /\ th[t].met \in SUBSET Key
  BY <1>a DEF Local, Shape, CallsOK, CallOK
<1>c. /\ th[t].pc \in {"probe", "value", "oldval"} =>
           Here(t).key \in KeyObj \cup Word /\ Here(t).val \in ValObj \cup Word
  BY Found DEF Shape
<1>d. th[t].pc \in {"walkval", "clrval"} \/ (th[t].pc = "mark" /\ th[t].ix < Size(th[t].vec)) =>
        /\ This(t).val \in ValObj \cup Word /\ th[t].vec \in Vector
        /\ th[t].ix \in DOMAIN tab[th[t].vec].slot
  BY Found DEF Shape
<1> QED
  BY <1>a, <1>b, <1>c, <1>d

-----------------------------------------------------------------------------
(* The start of a call.                                                    *)

(* What LookupStart does to the thread that takes it.                      *)
LEMMA LookupStartDoes ==
  ASSUME Shape, NEW t \in Thread, NEW k \in Key, LookupStart(t, k)
  PROVE  /\ At(t, "idle")
         /\ \E op \in {"find", "erase", "update"} :
             /\ th'[t].pc = "probe" /\ th'[t].op = op /\ th'[t].key = k /\ th'[t].vec = vec /\ th'[t].ix = 0
             /\ th'[t].own = Null /\ th'[t].kobj = Null /\ th'[t].word = Null /\ th'[t].np = Null /\ th'[t].met = {}
BY Locals DEF LookupStart, Call, Started, Local, Rest

(* What InsertStart does to the thread that takes it.                      *)
LEMMA InsertStartDoes ==
  ASSUME Shape, NEW t \in Thread, NEW k \in Key, InsertStart(t, k)
  PROVE  /\ At(t, "idle")
         /\ \E v \in ValObj :
             /\ th'[t].pc = "probe" /\ th'[t].op = "insert" /\ th'[t].key = k /\ th'[t].vec = vec /\ th'[t].ix = 0
             /\ th'[t].own = v /\ th'[t].kobj = Null /\ th'[t].word = Null /\ th'[t].np = Null /\ th'[t].met = {}
<1>1. \A v \in Fresh(ValObj) : v \in ValObj
  BY DEF Fresh
<1>2. PICK v \in Fresh(ValObj) : Call(t, [Started("insert", k) EXCEPT !.own = v])
  BY DEF InsertStart
<1>3. At(t, "idle") /\ th' = [th EXCEPT ![t] = [Started("insert", k) EXCEPT !.own = v]]
  BY <1>2 DEF Call, Rest
<1>4. th'[t] = [Started("insert", k) EXCEPT !.own = v]
  BY Locals, <1>3
<1>5. Started("insert", k) \in Local
  BY Locals, RecordMade, LabelFacts DEF Started, Shape, Types
<1>6. LET r == Started("insert", k) IN
      /\ r.pc = "probe" /\ r.op = "insert" /\ r.key = k /\ r.vec = vec /\ r.ix = 0
      /\ r.kobj = Null /\ r.word = Null /\ r.np = Null /\ r.met = {}
  BY DEF Started, Rest
<1> QED
  BY <1>1, <1>3, <1>4, <1>5, <1>6 DEF Local

(* What AssignStart does to the thread that takes it.                      *)
LEMMA AssignStartDoes ==
  ASSUME Shape, NEW t \in Thread, NEW k \in Key, AssignStart(t, k)
  PROVE  /\ At(t, "idle")
         /\ \E w \in Vector :
             /\ life[w] = "free"
             /\ th'[t].pc = "acquire" /\ th'[t].op = "assign" /\ th'[t].key = k /\ th'[t].vec = Null /\ th'[t].ix = 0
             /\ th'[t].own = Null /\ th'[t].kobj = Null /\ th'[t].word = Null /\ th'[t].np = w /\ th'[t].met = {}
<1>1. \A w \in Fresh(Vector) : w \in Vector /\ life[w] = "free"
  BY DEF Fresh
<1>2. PICK w \in Fresh(Vector) :
        Call(t, [Rest EXCEPT !.op = "assign", !.key = k, !.pc = "acquire", !.np = w])
  BY DEF AssignStart
<1> QED
  BY Locals, <1>1, <1>2 DEF Call, Rest

(* What ClearStart does to the thread that takes it.                       *)
LEMMA ClearStartDoes ==
  ASSUME Shape, NEW t \in Thread, ClearStart(t)
  PROVE  /\ At(t, "idle")
         /\ th'[t].pc = "acquire" /\ th'[t].op = "clear" /\ th'[t].key = Null /\ th'[t].vec = Null /\ th'[t].ix = 0
         /\ th'[t].own = Null /\ th'[t].kobj = Null /\ th'[t].word = Null /\ th'[t].np = Null /\ th'[t].met = {}
BY Locals DEF ClearStart, Call, Local, Rest

(* What WalkStart does to the thread that takes it.                        *)
LEMMA WalkStartDoes ==
  ASSUME Shape, NEW t \in Thread, WalkStart(t)
  PROVE  /\ At(t, "idle")
         /\ th'[t].pc = "walk" /\ th'[t].op = "walk" /\ th'[t].key = Null /\ th'[t].vec = vec /\ th'[t].ix = 0
         /\ th'[t].own = Null /\ th'[t].kobj = Null /\ th'[t].word = Null /\ th'[t].np = Null /\ th'[t].met = {}
BY Locals DEF WalkStart, Call, Local, Rest

-----------------------------------------------------------------------------
(* Probes and answers.                                                     *)

(* What ProbeFree does to the thread that takes it.                        *)
LEMMA ProbeFreeDoes ==
  ASSUME Shape, NEW t \in Thread, ProbeFree(t)
  PROVE  /\ At(t, "probe") /\ Here(t).key = FREE
         /\ th'[t] = [th[t] EXCEPT !.pc = IF Puts(t) THEN "limit" ELSE "answer"]
BY Locals DEF ProbeFree, Goto, Local

(* What ProbeMatch does to the thread that takes it.                       *)
LEMMA ProbeMatchDoes ==
  ASSUME Shape, NEW t \in Thread, ProbeMatch(t)
  PROVE  /\ At(t, "probe") /\ Here(t).key \notin Word /\ Here(t).key[1] = th[t].key
         /\ th'[t] = [th[t] EXCEPT !.pc = "value"]
BY Locals DEF ProbeMatch, Goto, Local

(* What ProbeNext does to the thread that takes it.                        *)
LEMMA ProbeNextDoes ==
  ASSUME Shape, NEW t \in Thread, ProbeNext(t)
  PROVE  /\ At(t, "probe") /\ Passed(t, th[t].ix)
         /\ \/ /\ th[t].ix + 1 < Size(th[t].vec)
              /\ th'[t] = [th[t] EXCEPT !.ix = th[t].ix + 1]
            \/ /\ ~(th[t].ix + 1 < Size(th[t].vec)) /\ Puts(t)
              /\ th'[t] = [th[t] EXCEPT !.pc = "wild"]
            \/ ~Puts(t) /\ th'[t] = [th[t] EXCEPT !.pc = "answer"]
BY Locals DEF ProbeNext, Goto, Passed, Here, Slot, Local

(* What FindValue does to the thread that takes it.                        *)
LEMMA FindValueDoes ==
  ASSUME Shape, NEW t \in Thread, FindValue(t)
  PROVE  /\ At(t, "value") /\ th[t].op = "find"
         /\ \E d \in ValObj \cup Word \cup {Null} :
             th'[t] = [th[t] EXCEPT !.pc = "answer", !.word = d]
<1> DEFINE d == IF Here(t).val = DELT THEN Null ELSE Here(t).val
<1>1. d \in ValObj \cup Word \cup {Null}
  BY Locals DEF FindValue, At
<1>2. th' = [th EXCEPT ![t].pc = "answer", ![t].word = d]
  BY DEF FindValue
<1> HIDE DEF d
<1> QED
  BY Locals, <1>1, <1>2 DEF FindValue, Local

(* What Answer does to the thread that takes it.                           *)
LEMMA AnswerDoes ==
  ASSUME Shape, NEW t \in Thread, Answer(t)
  PROVE  /\ At(t, "answer")
         /\ th'[t] = Rest
BY Locals DEF Answer, Done, Local

(* What PutWait does to the thread that takes it.                          *)
LEMMA PutWaitDoes ==
  ASSUME Shape, NEW t \in Thread, PutWait(t)
  PROVE  /\ At(t, "limit") \/ (At(t, "value") /\ Puts(t))
         /\ th'[t] = [th[t] EXCEPT !.pc = "rehash"]
BY Locals DEF PutWait, Goto, Local

-----------------------------------------------------------------------------
(* _Upsert.                                                                *)

(* What PutValue does to the thread that takes it.                         *)
LEMMA PutValueDoes ==
  ASSUME Shape, NEW t \in Thread, PutValue(t)
  PROVE  /\ At(t, "value") /\ Puts(t) /\ Usable(Here(t))
         /\ \E v \in ValObj :
             /\ th[t].op = "insert" => v = th[t].own
             /\ th'[t] = [th[t] EXCEPT !.pc = "swap", !.word = Here(t).val, !.own = v]
<1>1. At(t, "value") /\ Puts(t) /\ Usable(Here(t))
  BY DEF PutValue
<1>2. \A v \in Fresh(ValObj) : v \in ValObj
  BY DEF Fresh
<1>3. PICK v \in IF th[t].op = "insert" THEN {th[t].own} ELSE Fresh(ValObj) :
        th' = [th EXCEPT ![t].pc = "swap", ![t].word = Here(t).val, ![t].own = v]
  BY DEF PutValue
<1>4. v \in ValObj /\ (th[t].op = "insert" => v = th[t].own)
  BY Locals, <1>2, <1>3
<1>5. th'[t] = [th[t] EXCEPT !.pc = "swap", !.word = Here(t).val, !.own = v]
  BY Locals, <1>3 DEF Local
<1> QED
  BY <1>1, <1>4, <1>5

(* What UpdateInPlace does to the thread that takes it.                    *)
LEMMA UpdateInPlaceDoes ==
  ASSUME Shape, NEW t \in Thread, UpdateInPlace(t)
  PROVE  /\ At(t, "value") /\ th[t].op = "update"
         /\ th'[t] = Rest
BY Locals DEF UpdateInPlace, Done, Local

(* What SwapValue does to the thread that takes it.                        *)
LEMMA SwapValueDoes ==
  ASSUME Shape, NEW t \in Thread, SwapValue(t)
  PROVE  /\ At(t, "swap") /\ Here(t).val = th[t].word /\ ~Here(t).x
         /\ th'[t] = Rest
BY Locals DEF SwapValue, Done, Local

(* What DecrLimit does to the thread that takes it.                        *)
LEMMA DecrLimitDoes ==
  ASSUME Shape, NEW t \in Thread, DecrLimit(t)
  PROVE  /\ At(t, "limit") /\ limit > 0
         /\ \E k \in KeyObj, v \in ValObj :
             /\ th[t].kobj # Null => k = th[t].kobj
             /\ k[1] = th[t].key
             /\ th'[t] = [th[t] EXCEPT !.pc = "dcas", !.kobj = k, !.own = v]
<1>1. At(t, "limit") /\ limit > 0 /\ th[t].key \in Key /\ th[t].op \in {"insert", "update"}
  BY DEF Shape, DecrLimit, At, CallsOK, CallOK, Places, KeyOps, Storing, Erasing, Copying, Clearing
<1>2. \A k \in Fresh({th[t].key} \X (1..Copies)) : k \in KeyObj /\ k[1] = th[t].key
  BY <1>1 DEF Fresh, KeyObj
<1>3. th[t].kobj # Null => th[t].kobj \in KeyObj /\ th[t].kobj[1] = th[t].key
  BY <1>1 DEF Shape, CallsOK, CallOK, Puts
<1>4. \A v \in Fresh(ValObj) : v \in ValObj
  BY DEF Fresh
<1>5. PICK k \in IF th[t].kobj = Null THEN Fresh({th[t].key} \X (1..Copies))
                ELSE {th[t].kobj},
           v \in IF th[t].op = "insert" THEN {th[t].own} ELSE Fresh(ValObj) :
        th' = [th EXCEPT ![t].pc = "dcas", ![t].kobj = k, ![t].own = v]
  BY DEF DecrLimit
<1>6. k \in KeyObj /\ v \in ValObj /\ k[1] = th[t].key /\ (th[t].kobj # Null => k = th[t].kobj)
  BY Locals, <1>2, <1>3, <1>4, <1>5
<1>7. th'[t] = [th[t] EXCEPT !.pc = "dcas", !.kobj = k, !.own = v]
  BY Locals, <1>5 DEF Local
<1> QED
  BY <1>1, <1>6, <1>7

(* What FillSlot does to the thread that takes it.                         *)
LEMMA FillSlotDoes ==
  ASSUME Shape, NEW t \in Thread, FillSlot(t)
  PROVE  /\ At(t, "dcas") /\ Here(t) = EmptySlot
         /\ th'[t] = [th[t] EXCEPT !.pc = "count"]
BY Locals DEF FillSlot, Goto, Filling, Local

(* What StoreFails does to the thread that takes it.                       *)
LEMMA StoreFailsDoes ==
  ASSUME Shape, NEW t \in Thread, StoreFails(t)
  PROVE  /\ At(t, "swap") \/ At(t, "dcas")
         /\ th'[t].pc = "probe" /\ th'[t].op = th[t].op /\ th'[t].key = th[t].key /\ th'[t].vec = vec /\ th'[t].ix = 0
         /\ th'[t].own = Kept(t) /\ th'[t].kobj = th[t].kobj /\ th'[t].word = Null /\ th'[t].np = Null /\ th'[t].met = {}
BY Locals DEF StoreFails, StoreMustFail, Again, Local, Rest

(* What CountUp does to the thread that takes it.                          *)
LEMMA CountUpDoes ==
  ASSUME Shape, NEW t \in Thread, CountUp(t)
  PROVE  /\ At(t, "count")
         /\ th'[t] = Rest
BY Locals DEF CountUp, Done, Local

(* What OutOfMemory does to the thread that takes it.                      *)
LEMMA OutOfMemoryDoes ==
  ASSUME Shape, NEW t \in Thread, OutOfMemory(t)
  PROVE  /\ At(t, "limit") \/ At(t, "rehash")
         /\ th'[t] = Rest
BY Locals DEF OutOfMemory, Done, Local

-----------------------------------------------------------------------------
(* _Erase.                                                                 *)

(* What OldKey does to the thread that takes it.                           *)
LEMMA OldKeyDoes ==
  ASSUME Shape, NEW t \in Thread, OldKey(t)
  PROVE  /\ At(t, "value") /\ th[t].op = "erase"
         /\ th'[t] = [th[t] EXCEPT !.pc = "oldval", !.kobj = Here(t).key]
BY Locals DEF OldKey, Local

(* What OldValue does to the thread that takes it.                         *)
LEMMA OldValueDoes ==
  ASSUME Shape, NEW t \in Thread, OldValue(t)
  PROVE  /\ At(t, "oldval")
         /\ \E l \in {"take", "rehash", "answer"}, o \in KeyObj \cup {Null}, d \in ValObj \cup {Null} :
             /\ l = "take" => /\ o = th[t].kobj /\ o # Null /\ d # Null
                            /\ ~Here(t).x /\ d = Here(t).val
             /\ l # "take" => o = Null /\ d = th[t].word
             /\ th'[t] = [th[t] EXCEPT !.pc = l, !.word = d, !.kobj = o]
<1>0. At(t, "oldval") /\ th[t].kobj \in KeyObj \cup Word /\ th[t].word = Null
  BY DEF OldValue, Shape, CallsOK, CallOK, At
<1>1. Here(t).val \in ValObj \cup Word /\ Here(t).val # FREE
  <2>1. Here(t).key # FREE
    BY <1>0 DEF Shape, TakenOK, Ended, At
  <2>2. /\ th[t].vec \in Vector /\ Slot(t) \in DOMAIN tab[th[t].vec].slot
        /\ Here(t).val \in ValObj \cup Word
    BY <1>0, Found DEF Shape, At
  <2> QED
    BY <2>1, <2>2 DEF Shape, SlotsOK, Here
<1>2. CASE ~Here(t).x /\ th[t].kobj \notin Word /\ Here(t).val # DELT
  <2>1. th'[t] = [th[t] EXCEPT !.pc = "take", !.word = Here(t).val, !.kobj = th[t].kobj]
    BY Locals, <1>2 DEF OldValue, Local
  <2>2. th[t].kobj \in KeyObj /\ Here(t).val \in ValObj
    BY <1>0, <1>1, <1>2 DEF Word
  <2> QED
    BY <1>0, <1>2, <2>1, <2>2, Names
<1>3. CASE ~(~Here(t).x /\ th[t].kobj \notin Word /\ Here(t).val # DELT)
  <2>1. PICK l \in {"rehash", "answer"} :
          th'[t] = [th[t] EXCEPT !.pc = l, !.word = Null, !.kobj = Null]
    BY Locals, <1>0, <1>3 DEF OldValue, Local
  <2> QED
    BY <1>0, <2>1
<1> QED
  BY <1>2, <1>3

(* What TakeValue does to the thread that takes it.                        *)
LEMMA TakeValueDoes ==
  ASSUME Shape, NEW t \in Thread, TakeValue(t)
  PROVE  /\ At(t, "take") /\ Here(t).val = th[t].word /\ ~Here(t).x
         /\ th'[t] = [th[t] EXCEPT !.pc = "uncount"]
BY Locals DEF TakeValue, Goto, Local

(* What TakeFails does to the thread that takes it.                        *)
LEMMA TakeFailsDoes ==
  ASSUME Shape, NEW t \in Thread, TakeFails(t)
  PROVE  /\ At(t, "take")
         /\ th'[t].pc = "probe" /\ th'[t].op = "erase" /\ th'[t].key = th[t].key /\ th'[t].vec = vec /\ th'[t].ix = 0
         /\ th'[t].own = Null /\ th'[t].kobj = Null /\ th'[t].word = Null /\ th'[t].np = Null /\ th'[t].met = {}
BY Locals DEF TakeFails, Started, Local, Rest

(* What CountDown does to the thread that takes it.                        *)
LEMMA CountDownDoes ==
  ASSUME Shape, NEW t \in Thread, CountDown(t)
  PROVE  /\ At(t, "uncount")
         /\ th'[t] = [th[t] EXCEPT !.pc = "bury"]
BY Locals DEF CountDown, Goto, Local

(* What Bury does to the thread that takes it.                             *)
LEMMA BuryDoes ==
  ASSUME Shape, NEW t \in Thread, Bury(t)
  PROVE  /\ At(t, "bury")
         /\ th'[t] = Rest
BY Locals DEF Bury, Done, Local

-----------------------------------------------------------------------------
(* _Rehash.                                                                *)

(* What NoRehash does to the thread that takes it.                         *)
LEMMA NoRehashDoes ==
  ASSUME Shape, NEW t \in Thread, NoRehash(t)
  PROVE  /\ At(t, "rehash") /\ lock = Null
         /\ th'[t].pc = "probe" /\ th'[t].op = th[t].op /\ th'[t].key = th[t].key /\ th'[t].vec = vec /\ th'[t].ix = 0
         /\ th'[t].own = th[t].own /\ th'[t].kobj = th[t].kobj /\ th'[t].word = Null /\ th'[t].np = Null /\ th'[t].met = {}
BY Locals DEF NoRehash, Retry, Again, Local, Rest

(* What RehashStart does to the thread that takes it.                      *)
LEMMA RehashStartDoes ==
  ASSUME Shape, NEW t \in Thread, RehashStart(t)
  PROVE  /\ At(t, "rehash") /\ lock = Null /\ limit <= 0
         /\ \E w \in Vector : life[w] = "free" /\
             th'[t] = [th[t] EXCEPT !.pc = "copykey", !.vec = vec, !.ix = 0, !.word = Null, !.np = w]
<1>1. \A w \in Fresh(Vector) : w \in Vector /\ life[w] = "free"
  BY DEF Fresh
<1>2. PICK w \in Fresh(Vector) :
        th' = [th EXCEPT ![t].pc = "copykey", ![t].vec = vec, ![t].ix = 0,
                         ![t].word = Null, ![t].np = w]
  BY DEF RehashStart
<1>3. th'[t] = [th[t] EXCEPT !.pc = "copykey", !.vec = vec, !.ix = 0,
                             !.word = Null, !.np = w]
  BY Locals, <1>2 DEF Local
<1> QED
  BY <1>1, <1>2, <1>3 DEF RehashStart

(* What CopyKey does to the thread that takes it.                          *)
LEMMA CopyKeyDoes ==
  ASSUME Shape, NEW t \in Thread, CopyKey(t)
  PROVE  /\ At(t, "copykey")
         /\ th'[t] = [th[t] EXCEPT !.pc = "copyval", !.word = This(t).key]
BY Locals DEF CopyKey, Local

(* What CopyValue does to the thread that takes it.                        *)
LEMMA CopyValueDoes ==
  ASSUME Shape, NEW t \in Thread, CopyValue(t)
  PROVE  /\ At(t, "copyval")
         /\ \/ /\ th[t].ix + 1 < Size(th[t].vec)
              /\ th'[t] = [th[t] EXCEPT !.pc = "copykey", !.ix = th[t].ix + 1, !.word = Null]
            \/ /\ ~(th[t].ix + 1 < Size(th[t].vec))
              /\ th'[t] = [th[t] EXCEPT !.pc = "setlimit", !.ix = 0, !.word = Null]
BY Locals DEF CopyValue, Local

(* What SetLimit does to the thread that takes it.                         *)
LEMMA SetLimitDoes ==
  ASSUME Shape, NEW t \in Thread, SetLimit(t)
  PROVE  /\ At(t, "setlimit")
         /\ th'[t] = [th[t] EXCEPT !.pc = "install"]
BY Locals DEF SetLimit, Goto, Local

(* What Install does to the thread that takes it.                          *)
LEMMA InstallDoes ==
  ASSUME Shape, NEW t \in Thread, Install(t)
  PROVE  /\ At(t, "install") /\ th[t].op # "assign"
         /\ th'[t].pc = "probe" /\ th'[t].op = th[t].op /\ th'[t].key = th[t].key /\ th'[t].vec = th[t].np /\ th'[t].ix = 0
         /\ th'[t].own = th[t].own /\ th'[t].kobj = th[t].kobj /\ th'[t].word = Null /\ th'[t].np = Null /\ th'[t].met = {}
BY Locals DEF Install, Again, Local, Rest

-----------------------------------------------------------------------------
(* assign.                                                                 *)

(* What AssignAcquire does to the thread that takes it.                    *)
LEMMA AssignAcquireDoes ==
  ASSUME Shape, NEW t \in Thread, AssignAcquire(t)
  PROVE  /\ At(t, "acquire") /\ th[t].op = "assign" /\ lock = Null
         /\ th'[t] = [th[t] EXCEPT !.pc = "mark", !.vec = vec]
BY Locals DEF AssignAcquire, Local

(* What Mark does to the thread that takes it.                             *)
LEMMA MarkDoes ==
  ASSUME Shape, NEW t \in Thread, Mark(t)
  PROVE  /\ At(t, "mark") /\ th[t].ix < Size(th[t].vec)
         /\ \E o \in ValObj \cup {Null} :
             th'[t] = [th[t] EXCEPT !.ix = th[t].ix + 1, !.own = o]
<1>1. {Null} \cup Only(This(t).val) \subseteq ValObj \cup {Null}
  BY Locals DEF Mark, At, Only
<1>2. PICK o \in ValObj \cup {Null} :
        th' = [th EXCEPT ![t].ix = @ + 1, ![t].own = o]
  BY <1>1 DEF Mark
<1>3. th'[t] = [th[t] EXCEPT !.ix = th[t].ix + 1, !.own = o]
  BY Locals, <1>2 DEF Local
<1> QED
  BY <1>3 DEF Mark

(* What AssignLimit does to the thread that takes it.                      *)
LEMMA AssignLimitDoes ==
  ASSUME Shape, NEW t \in Thread, AssignLimit(t)
  PROVE  /\ At(t, "mark") /\ th[t].ix = Size(th[t].vec)
         /\ th'[t] = [th[t] EXCEPT !.pc = "install"]
BY Locals DEF AssignLimit, Goto, Local

(* What AssignInstall does to the thread that takes it.                    *)
LEMMA AssignInstallDoes ==
  ASSUME Shape, NEW t \in Thread, AssignInstall(t)
  PROVE  /\ At(t, "install") /\ th[t].op = "assign"
         /\ th'[t] = Rest
BY Locals DEF AssignInstall, Done, Local

-----------------------------------------------------------------------------
(* clear.                                                                  *)

(* What ClearAcquire does to the thread that takes it.                     *)
LEMMA ClearAcquireDoes ==
  ASSUME Shape, NEW t \in Thread, ClearAcquire(t)
  PROVE  /\ At(t, "acquire") /\ th[t].op = "clear" /\ lock = Null
         /\ th'[t] = [th[t] EXCEPT !.pc = "clrkey", !.vec = vec]
BY Locals DEF ClearAcquire, Local

(* What ClearReadKey does to the thread that takes it.                     *)
LEMMA ClearReadKeyDoes ==
  ASSUME Shape, NEW t \in Thread, ClearReadKey(t)
  PROVE  /\ At(t, "clrkey")
         /\ th'[t] = [th[t] EXCEPT !.pc = "clrput", !.kobj = This(t).key]
BY Locals DEF ClearReadKey, Local

(* What ClearFreeKey does to the thread that takes it.                     *)
LEMMA ClearFreeKeyDoes ==
  ASSUME Shape, NEW t \in Thread, ClearFreeKey(t)
  PROVE  /\ At(t, "clrput")
         /\ th'[t] = [th[t] EXCEPT !.pc = "clrval"]
BY Locals DEF ClearFreeKey, Goto, Local

(* What ClearFreeValue does to the thread that takes it.                   *)
LEMMA ClearFreeValueDoes ==
  ASSUME Shape, NEW t \in Thread, ClearFreeValue(t)
  PROVE  /\ At(t, "clrval")
         /\ \/ /\ th[t].ix + 1 < Size(th[t].vec)
              /\ \E o \in ValObj \cup {Null} :
                   th'[t] = [th[t] EXCEPT !.pc = "clrkey", !.ix = th[t].ix + 1, !.kobj = Null, !.own = o]
            \/ /\ ~(th[t].ix + 1 < Size(th[t].vec))
              /\ \E o \in ValObj \cup {Null} :
                   th'[t] = [th[t] EXCEPT !.pc = "clrlimit", !.ix = 0, !.kobj = Null, !.own = o]
<1>1. {Null} \cup Only(This(t).val) \subseteq ValObj \cup {Null}
  BY Locals DEF ClearFreeValue, At, Only
<1>2. PICK o \in ValObj \cup {Null} :
        th' = [th EXCEPT
           ![t].pc = IF th[t].ix + 1 < Size(th[t].vec) THEN "clrkey" ELSE "clrlimit",
           ![t].ix = IF th[t].ix + 1 < Size(th[t].vec) THEN th[t].ix + 1 ELSE 0,
           ![t].kobj = Null, ![t].own = o]
  BY <1>1 DEF ClearFreeValue
<1>3. CASE th[t].ix + 1 < Size(th[t].vec)
  <2>1. th'[t] = [th[t] EXCEPT !.pc = "clrkey", !.ix = th[t].ix + 1, !.kobj = Null, !.own = o]
    BY Locals, <1>2, <1>3 DEF Local
  <2> QED
    BY <1>3, <2>1 DEF ClearFreeValue
<1>4. CASE ~(th[t].ix + 1 < Size(th[t].vec))
  <2>1. th'[t] = [th[t] EXCEPT !.pc = "clrlimit", !.ix = 0, !.kobj = Null, !.own = o]
    BY Locals, <1>2, <1>4 DEF Local
  <2> QED
    BY <1>4, <2>1 DEF ClearFreeValue
<1> QED
  BY <1>3, <1>4

(* What ClearSetLimit does to the thread that takes it.                    *)
LEMMA ClearSetLimitDoes ==
  ASSUME Shape, NEW t \in Thread, ClearSetLimit(t)
  PROVE  /\ At(t, "clrlimit")
         /\ th'[t] = [th[t] EXCEPT !.pc = "clrcount"]
BY Locals DEF ClearSetLimit, Goto, Local

(* What ClearDone does to the thread that takes it.                        *)
LEMMA ClearDoneDoes ==
  ASSUME Shape, NEW t \in Thread, ClearDone(t)
  PROVE  /\ At(t, "clrcount")
         /\ th'[t] = Rest
BY Locals DEF ClearDone, Done, Local

-----------------------------------------------------------------------------
(* Iterators.                                                              *)

(* What WalkKey does to the thread that takes it.                          *)
LEMMA WalkKeyDoes ==
  ASSUME Shape, NEW t \in Thread, WalkKey(t)
  PROVE  /\ At(t, "walk") /\ th[t].ix < Size(th[t].vec)
         /\ \/ th'[t] = [th[t] EXCEPT !.ix = th[t].ix + 1]
            \/ This(t).key # FREE /\ th'[t] = [th[t] EXCEPT !.pc = "walkval", !.word = This(t).key]
BY Locals DEF WalkKey, Local

(* What WalkValue does to the thread that takes it.                        *)
LEMMA WalkValueDoes ==
  ASSUME Shape, NEW t \in Thread, WalkValue(t)
  PROVE  /\ At(t, "walkval")
         /\ \E m \in SUBSET Key :
             th'[t] = [th[t] EXCEPT !.pc = "walk", !.ix = th[t].ix + 1, !.word = Null, !.met = m]
<1>1. At(t, "walkval")
  BY DEF WalkValue
<1>2. CASE This(t).val \in Word
  <2>1. th'[t] = [th[t] EXCEPT !.pc = "walk", !.ix = th[t].ix + 1, !.word = Null, !.met = th[t].met]
    BY Locals, <1>2 DEF WalkValue, Local
  <2> QED
    BY Locals, <1>1, <2>1
<1>3. CASE This(t).val \notin Word
  <2>1. This(t).key # DELT
    BY Locals, <1>1, <1>3 DEF Shape, At, SlotsOK, This, Word
  <2>2. th[t].word \in KeyObj
    BY <1>1, <2>1 DEF Shape, WalksOK, CallsOK, CallOK
  <2>3. th[t].met \cup {th[t].word[1]} \in SUBSET Key
    BY Locals, <2>2, Names
  <2>4. th'[t] = [th[t] EXCEPT !.pc = "walk", !.ix = th[t].ix + 1, !.word = Null,
                               !.met = th[t].met \cup {th[t].word[1]}]
    BY Locals, <1>3 DEF WalkValue, Local
  <2> QED
    BY <1>1, <2>3, <2>4
<1> QED
  BY <1>2, <1>3

(* What WalkEnd does to the thread that takes it.                          *)
LEMMA WalkEndDoes ==
  ASSUME Shape, NEW t \in Thread, WalkEnd(t)
  PROVE  /\ At(t, "walk")
         /\ th'[t] = Rest
BY Locals DEF WalkEnd, Done, Local

(* What one step may make of a vector.                                     *)
LEMMA VectorsStep ==
  ASSUME Shape, NEW t \in Thread, Moves(t), NEW w \in Vector
  PROVE  VectorStep(t, w)
<1> USE DEF Shape
<1>a. /\ th[t].own \in ValObj \cup {Null} /\ th[t].kobj \in KeyObj \cup Word \cup {Null}
  BY DEF Types, Local
<1>b. /\ w \notin Only(th[t].own) /\ w \notin Only(th[t].kobj) /\ w # Null /\ w \in Obj
      /\ w \notin ValObj /\ w \notin KeyObj /\ w \notin Word
  BY <1>a, Names DEF Only
<1>c. \A freed, retired, ts :
        Done(t, freed, retired, ts) /\ w \notin freed \cup retired => VectorStep(t, w)
  <2> TAKE freed, retired, ts
  <2> HAVE Done(t, freed, retired, ts) /\ w \notin freed \cup retired
  <2>1. Memory({}, freed, retired, {t}) /\ th'[t] = Rest
    BY DEF Done, Types
  <2>2. VectorKept(t, w)
    BY <2>1, VectorsKept
  <2> QED
    BY <2>2 DEF VectorStep
<1>d. \A new, freed, retired :
        Memory(new, freed, retired, {}) /\ w \notin new \cup freed \cup retired
          => VectorStep(t, w)
  <2> TAKE new, freed, retired
  <2> HAVE Memory(new, freed, retired, {}) /\ w \notin new \cup freed \cup retired
  <2>1. VectorKept(t, w)
    BY VectorsKept
  <2> QED
    BY <2>1 DEF VectorStep
<1>e. UNCHANGED <<life, waits>> => VectorStep(t, w)
  BY DEF VectorStep, VectorKept
<1>1. CASE ProbeFree(t)
  BY <1>e, <1>1 DEF ProbeFree
<1>2. CASE ProbeMatch(t)
  BY <1>e, <1>2 DEF ProbeMatch
<1>3. CASE ProbeNext(t)
  BY <1>e, <1>3 DEF ProbeNext
<1>4. CASE FindValue(t)
  BY <1>e, <1>4 DEF FindValue
<1>5. CASE PutWait(t)
  BY <1>e, <1>5 DEF PutWait
<1>6. CASE FillSlot(t)
  BY <1>e, <1>6 DEF FillSlot
<1>7. CASE OldKey(t)
  BY <1>e, <1>7 DEF OldKey
<1>8. CASE OldValue(t)
  BY <1>e, <1>8 DEF OldValue
<1>9. CASE TakeValue(t)
  BY <1>e, <1>9 DEF TakeValue
<1>10. CASE TakeFails(t)
  BY <1>e, <1>10 DEF TakeFails
<1>11. CASE CountDown(t)
  BY <1>e, <1>11 DEF CountDown
<1>12. CASE NoRehash(t)
  BY <1>e, <1>12 DEF NoRehash
<1>13. CASE CopyKey(t)
  BY <1>e, <1>13 DEF CopyKey
<1>14. CASE CopyValue(t)
  BY <1>e, <1>14 DEF CopyValue
<1>15. CASE SetLimit(t)
  BY <1>e, <1>15 DEF SetLimit
<1>16. CASE AssignAcquire(t)
  BY <1>e, <1>16 DEF AssignAcquire
<1>17. CASE AssignLimit(t)
  BY <1>e, <1>17 DEF AssignLimit
<1>18. CASE ClearStart(t)
  BY <1>e, <1>18 DEF ClearStart
<1>19. CASE ClearAcquire(t)
  BY <1>e, <1>19 DEF ClearAcquire
<1>20. CASE ClearReadKey(t)
  BY <1>e, <1>20 DEF ClearReadKey
<1>21. CASE ClearFreeKey(t)
  BY <1>e, <1>21 DEF ClearFreeKey
<1>22. CASE ClearSetLimit(t)
  BY <1>e, <1>22 DEF ClearSetLimit
<1>23. CASE WalkStart(t)
  BY <1>e, <1>23 DEF WalkStart
<1>24. CASE WalkKey(t)
  BY <1>e, <1>24 DEF WalkKey
<1>25. CASE WalkValue(t)
  BY <1>e, <1>25 DEF WalkValue
<1>26. CASE Answer(t)
  BY <1>c, <1>26 DEF Answer
<1>27. CASE CountUp(t)
  BY <1>c, <1>27 DEF CountUp
<1>28. CASE ClearDone(t)
  BY <1>c, <1>28 DEF ClearDone
<1>29. CASE WalkEnd(t)
  BY <1>c, <1>29 DEF WalkEnd
<1>30. CASE UpdateInPlace(t)
  BY <1>b, <1>c, <1>30 DEF UpdateInPlace
<1>31. CASE OutOfMemory(t)
  BY <1>b, <1>c, <1>31 DEF OutOfMemory
<1>32. CASE SwapValue(t)
  <2>1. th[t].word \in ValObj
    BY <1>32 DEF SwapValue, CallsOK, CallOK
  <2>2. w \notin Only(th[t].kobj) \cup {th[t].word}
    BY <1>b, <2>1
  <2> QED
    BY <1>c, <2>2, <1>32 DEF SwapValue
<1>33. CASE Bury(t)
  <2>1. th[t].word \in ValObj
    BY <1>33 DEF Bury, CallsOK, CallOK, At
  <2>2. w \notin Only(th[t].kobj) \cup Only(th[t].word)
    BY <1>b, <2>1 DEF Only
  <2> QED
    BY <1>c, <2>2, <1>33 DEF Bury
<1>34. CASE PutValue(t)
  <2>1. PICK v \in ValObj \cup {Null} : Memory({v}, {}, {}, {})
    BY <1>a, <1>34 DEF PutValue, Fresh
  <2>2. w \notin {v}
    BY <1>b, <2>1
  <2> QED
    BY <1>d, <2>1, <2>2
<1>35. CASE DecrLimit(t)
  <2>0. \A k \in Fresh({th[t].key} \X (1..Copies)) : k \in KeyObj
    <3>1. th[t].key \in Key
      BY <1>35 DEF DecrLimit, At, CallsOK, CallOK, Places, KeyOps, Storing, Erasing, Copying, Clearing
    <3> QED
      BY <3>1 DEF Fresh, KeyObj
  <2>1. PICK k \in KeyObj \cup Word \cup {Null}, v \in ValObj \cup {Null} :
          Memory({k, v}, {}, {}, {})
    <3>1. \A v \in Fresh(ValObj) : v \in ValObj
      BY DEF Fresh
    <3>2. PICK k \in IF th[t].kobj = Null THEN Fresh({th[t].key} \X (1..Copies))
                    ELSE {th[t].kobj},
               v \in IF th[t].op = "insert" THEN {th[t].own} ELSE Fresh(ValObj) :
            Memory({k, v}, {}, {}, {})
      BY <1>35 DEF DecrLimit
    <3>3. k \in KeyObj \cup Word \cup {Null} /\ v \in ValObj \cup {Null}
      BY <1>a, <2>0, <3>1, <3>2
    <3> QED
      BY <3>2, <3>3
  <2>2. w \notin {k, v}
    BY <1>b, <2>1
  <2> QED
    BY <1>d, <2>1, <2>2
<1>36. CASE StoreFails(t)
  <2>1. w \notin Only(th[t].own) \ Only(Kept(t))
    BY <1>b
  <2> QED
    BY <1>d, <2>1, <1>36 DEF StoreFails
<1>37. CASE Mark(t)
  <2> DEFINE s == This(t)
             gone == IF s.val \in Word THEN {} ELSE {s.key, s.val}
  <2>1. Memory({}, {}, gone, {}) /\ th[t].pc = "mark" /\ th[t].ix < Size(th[t].vec)
    BY <1>37 DEF Mark, At
  <2>2. s.key \in KeyObj \cup Word /\ s.val \in ValObj \cup Word
    BY <2>1, Found
  <2>3. w \notin gone
    BY <1>b, <2>2
  <2> HIDE DEF gone
  <2> QED
    BY <1>d, <2>1, <2>3
<1>38. CASE ClearFreeValue(t)
  <2> DEFINE gone == Only(th[t].kobj) \cup Only(This(t).val)
  <2>1. Memory({}, {}, gone, {}) /\ th[t].pc = "clrval"
    BY <1>38 DEF ClearFreeValue, At
  <2>2. This(t).val \in ValObj \cup Word
    BY <2>1, Found
  <2>3. w \notin gone
    BY <1>b, <2>2 DEF Only
  <2> HIDE DEF gone
  <2> QED
    BY <1>d, <2>1, <2>3
<1>39. CASE RehashStart(t)
  <2>1. PICK v \in Vector :
          /\ life[v] = "free" /\ Memory({v}, {}, {}, {}) /\ th'[t].np = v
    <3>1. \A v \in Fresh(Vector) : v \in Vector /\ life[v] = "free"
      BY DEF Fresh
    <3>2. PICK v \in Fresh(Vector) :
            /\ Memory({v}, {}, {}, {})
            /\ th' = [th EXCEPT ![t].pc = "copykey", ![t].vec = vec, ![t].ix = 0,
                               ![t].word = Null, ![t].np = v]
      BY <1>39 DEF RehashStart
    <3>3. th'[t].np = v
      BY <3>2 DEF Types, Local
    <3> QED
      BY <3>1, <3>2, <3>3
  <2>2. CASE w = v
    <3>1. life'[w] = "live"
      BY <1>b, <2>1, <2>2, MemoryStep
    <3> QED
      BY <2>1, <2>2, <3>1, <1>39 DEF VectorStep, VectorMade
  <2>3. CASE w # v
    BY <1>d, <2>1, <2>3
  <2> QED
    BY <2>2, <2>3
<1>40. CASE Install(t)
  <2>1. /\ vec' = th[t].np /\ th[t].vec \in Vector /\ Memory({}, {}, {th[t].vec}, {})
    <3>1. th[t].vec \in Vector \cup {Null} /\ th[t].vec # Null
      BY <1>40 DEF Install, At, Types, Local, CallsOK, CallOK
    <3> QED
      BY <3>1, <1>40 DEF Install
  <2>2. CASE w = th[t].vec
    <3>1. waits'[w] = {u \in Thread : InCs(u)}
      BY <1>b, <2>1, <2>2, MemoryStep
    <3>2. life[w] = "live" =>
            life'[w] = IF waits'[w] = {} THEN "gone" ELSE "retired"
      BY <1>b, <2>1, <2>2, MemoryStep
    <3>3. vec = th[t].vec
      BY <1>40 DEF Install, At, LockOK, Copying
    <3> QED
      BY <2>1, <2>2, <3>1, <3>2, <3>3, <1>40 DEF VectorStep, VectorReplaced
  <2>3. CASE w # th[t].vec
    BY <1>d, <2>1, <2>3
  <2> QED
    BY <2>2, <2>3
<1>41. CASE AssignInstall(t)
  <2>1. /\ vec' = th[t].np /\ th[t].vec \in Vector
        /\ Done(t, {}, {th[t].vec}, tab) /\ Memory({}, {}, {th[t].vec}, {t})
    <3>1. th[t].vec \in Vector \cup {Null} /\ th[t].vec # Null
      BY <1>41 DEF AssignInstall, At, Types, Local, CallsOK, CallOK
    <3> QED
      BY <3>1, <1>41 DEF AssignInstall, Done
  <2>2. CASE w = th[t].vec
    <3>1. waits'[w] = {u \in Thread \ {t} : InCs(u)}
      BY <1>b, <2>1, <2>2, MemoryStep
    <3>2. life[w] = "live" =>
            life'[w] = IF waits'[w] = {} THEN "gone" ELSE "retired"
      BY <1>b, <2>1, <2>2, MemoryStep
    <3>3. vec = th[t].vec
      BY <1>41 DEF AssignInstall, At, LockOK, Copying
    <3> QED
      BY <2>1, <2>2, <3>1, <3>2, <3>3, <1>41 DEF VectorStep, VectorReplaced
  <2>3. CASE w # th[t].vec
    BY <1>c, <2>1, <2>3
  <2> QED
    BY <2>2, <2>3
<1>42. ASSUME NEW k \in Key, LookupStart(t, k) \/ InsertStart(t, k) \/ AssignStart(t, k)
      PROVE  VectorStep(t, w)
  <2>1. CASE LookupStart(t, k)
    BY <1>e, <2>1 DEF LookupStart
  <2>2. CASE InsertStart(t, k)
    <3>1. PICK v \in ValObj : Memory({v}, {}, {}, {})
      BY <2>2 DEF InsertStart, Fresh
    <3>2. w \notin {v}
      BY <1>b
    <3> QED
      BY <1>d, <3>1, <3>2
  <2>3. CASE AssignStart(t, k)
    <3>1. \A v \in Fresh(Vector) : v \in Vector /\ life[v] = "free"
      BY DEF Fresh
    <3>2. (\A o \in Fresh({k} \X (1..Copies)) : o \in KeyObj) /\ \A v \in Fresh(ValObj) : v \in ValObj
      BY DEF Fresh, KeyObj
    <3>3. PICK v \in Fresh(Vector), o \in Fresh({k} \X (1..Copies)), d \in Fresh(ValObj) :
            /\ Call(t, [Rest EXCEPT !.op = "assign", !.key = k, !.pc = "acquire", !.np = v])
            /\ Memory({v, o, d}, {}, {}, {})
      BY <2>3 DEF AssignStart
    <3>4. th'[t].np = v
      BY <3>3 DEF Types, Call, Rest
    <3>5. v \in Vector /\ life[v] = "free" /\ o \in KeyObj /\ d \in ValObj
      BY <3>1, <3>2, <3>3
    <3>6. CASE w = v
      <4>1. life'[w] = "live"
        BY <1>b, <3>3, <3>6, MemoryStep
      <4> QED
        BY <2>3, <3>4, <3>5, <3>6, <4>1 DEF VectorStep, VectorMade
    <3>7. CASE w # v
      <4>1. w \notin {v, o, d}
        BY <1>b, <3>5, <3>7
      <4> QED
        BY <1>d, <3>3, <4>1
    <3> QED
      BY <3>6, <3>7
  <2> QED
    BY <1>42, <2>1, <2>2, <2>3
<1> QED
  BY <1>1, <1>2, <1>3, <1>4, <1>5, <1>6, <1>7, <1>8, <1>9, <1>10, <1>11, <1>12, <1>13, <1>14, <1>15, <1>16, <1>17, <1>18, <1>19, <1>20, <1>21, <1>22, <1>23, <1>24, <1>25, <1>26, <1>27, <1>28, <1>29, <1>30, <1>31, <1>32, <1>33, <1>34, <1>35, <1>36, <1>37, <1>38, <1>39, <1>40, <1>41, <1>42
  DEF Moves, Start, Proceed

-----------------------------------------------------------------------------
(* What a step does to the tables.                                         *)

(* A vector is destroyed at the end of a call only.                        *)
LEMMA VectorsGone ==
  ASSUME Shape, NEW t \in Thread, Moves(t), NEW w \in Vector,
         life'[w] = "gone", life[w] # "gone"
  PROVE  th'[t] = Rest
<1> USE DEF Shape
<1>1. VectorStep(t, w)
  BY VectorsStep
<1>2. CASE VectorKept(t, w)
  BY <1>2 DEF VectorKept
<1>3. CASE VectorMade(t, w)
  BY <1>3 DEF VectorMade
<1>4. CASE VectorReplaced(t, w)
  <2>1. life[w] = "live"
    BY <1>4 DEF VectorReplaced, VectorsOK
  <2>2. CASE Install(t)
    <3>1. InCs(t)
      BY <2>2 DEF Install, At, InCs, CallsOK, CallOK, Places, Copying, Clearing, Storing, Erasing
    <3>2. InCs(t) /\ ~AssignInstall(t)
      BY <3>1 DEF AssignInstall, InCs
    <3> QED
      BY <1>4, <2>1, <3>2 DEF VectorReplaced
  <2>3. CASE AssignInstall(t)
    BY <2>3, AssignInstallDoes
  <2> QED
    BY <1>4, <2>2, <2>3 DEF VectorReplaced
<1> QED
  BY <1>1, <1>2, <1>3, <1>4 DEF VectorStep

(* The tables are ts, but of the vectors that are destroyed.               *)
After(ts) ==
  /\ tab' = [v \in Vector |-> tab'[v]]
  /\ \A v \in Vector : tab'[v] = IF life'[v] = "gone" THEN NoTable ELSE ts[v]

SameTables == \A v \in Vector : tab'[v].pidx # 0 => tab'[v] = tab[v]

Put(w, i, s) ==
  \A v \in Vector : tab'[v].pidx # 0 =>
    /\ tab'[v].n = tab[v].n
    /\ \A j \in DOMAIN tab[v].slot :
         tab'[v].slot[j] = IF v = w /\ j = i THEN s ELSE tab[v].slot[j]

PutBoth(w, i, s, x, k, r) ==
  \A v \in Vector : tab'[v].pidx # 0 =>
    /\ tab'[v].n = tab[v].n
    /\ \A j \in DOMAIN tab[v].slot :
         tab'[v].slot[j] = IF v = w /\ j = i THEN s
                           ELSE IF v = x /\ j = k THEN r ELSE tab[v].slot[j]

Counted(w, n) ==
  \A v \in Vector : tab'[v].pidx # 0 =>
    tab'[v].slot = tab[v].slot /\ tab'[v].n = IF v = w THEN n ELSE tab[v].n

(* w is made, with a table T.                                              *)
MadeTable(w, T) ==
  /\ w \in Vector /\ life[w] = "free" /\ life'[w] = "live" /\ tab'[w] = T
  /\ \A v \in Vector \ {w} : tab'[v] = tab[v] /\ life'[v] = life[v]

TableStays(v) ==
  /\ IsTable(tab'[v])
  /\ tab'[v].pidx = 0 <=> life'[v] \in {"free", "gone"}
  /\ tab'[v].pidx # 0 => tab[v].pidx = tab'[v].pidx

TablesStay == tab' = [v \in Vector |-> tab'[v]] /\ \A v \in Vector : TableStays(v)

(* Tables that are not changed,                                            *)
LEMMA AfterSame ==
  ASSUME Types, VectorsOK, \A v \in Vector : life'[v] = "free" <=> life[v] = "free",
         \A v \in Vector : life[v] = "gone" => life'[v] = "gone",
         NEW ts, After(ts), \A v \in Vector : ts[v] = tab[v]
  PROVE  TablesStay /\ SameTables
<1>1. \A v \in Vector : IsTable(tab[v]) /\ IsTable(NoTable) /\ NoTable.pidx = 0
  BY TableMade, Sizes DEF Types
<1>2. ASSUME NEW v \in Vector
      PROVE  /\ TableStays(v)
             /\ tab'[v].pidx # 0 => tab'[v] = tab[v]
  <2>1. tab[v].pidx = 0 <=> life[v] \in {"free", "gone"}
    BY DEF VectorsOK
  <2>2. tab'[v] = IF life'[v] = "gone" THEN NoTable ELSE tab[v]
    BY DEF After
  <2> QED
    BY <1>1, <2>1, <2>2 DEF TableStays
<1> QED
  BY <1>2 DEF SameTables, TablesStay, After

(* of which one slot is written,                                           *)
LEMMA AfterPut ==
  ASSUME Types, VectorsOK, \A v \in Vector : life'[v] = "free" <=> life[v] = "free",
         \A v \in Vector : life[v] = "gone" => life'[v] = "gone",
         NEW w \in Vector, NEW i \in DOMAIN tab[w].slot, NEW s \in SlotRec,
         After([tab EXCEPT ![w].slot[i] = s])
  PROVE  TablesStay /\ Put(w, i, s)
<1> DEFINE U == [tab[w] EXCEPT !.slot[i] = s]
           ts == [tab EXCEPT ![w] = U]
<1>1. \A v \in Vector : IsTable(tab[v]) /\ IsTable(NoTable) /\ NoTable.pidx = 0
  BY TableMade, Sizes DEF Types
<1>2. tab[w].pidx # 0 /\ EntriesOf(tab[w]) = Size(w) /\ DOMAIN tab[w].slot = 0..Size(w) - 1
  <2>1. tab[w].pidx # 0
    BY SlotTyped
  <2> QED
    BY <2>1, Indices DEF EntriesOf, Size
<1>3. /\ IsTable(U) /\ U.pidx = tab[w].pidx /\ U.n = tab[w].n
      /\ \A j \in DOMAIN tab[w].slot : U.slot[j] = IF j = i THEN s ELSE tab[w].slot[j]
  BY <1>1, <1>2, TableWritten
<1>4. /\ ts = [tab EXCEPT ![w].slot[i] = s]
      /\ \A v \in Vector : ts[v] = IF v = w THEN U ELSE tab[v]
  BY DEF Types
<1> HIDE DEF U, ts
<1>5. ASSUME NEW v \in Vector
      PROVE  /\ TableStays(v)
             /\ tab'[v].pidx # 0 =>
                  /\ tab'[v].n = tab[v].n
                  /\ \A j \in DOMAIN tab[v].slot :
                       tab'[v].slot[j] = IF v = w /\ j = i THEN s ELSE tab[v].slot[j]
  <2>1. tab[v].pidx = 0 <=> life[v] \in {"free", "gone"}
    BY DEF VectorsOK
  <2>2. tab'[v] = IF life'[v] = "gone" THEN NoTable ELSE ts[v]
    BY <1>4 DEF After
  <2> QED
    BY <1>1, <1>2, <1>3, <1>4, <2>1, <2>2 DEF TableStays
<1> QED
  BY <1>5 DEF Put, TablesStay, After

(* or two, in different vectors,                                           *)
LEMMA AfterPutBoth ==
  ASSUME Types, VectorsOK, \A v \in Vector : life'[v] = "free" <=> life[v] = "free",
         \A v \in Vector : life[v] = "gone" => life'[v] = "gone",
         NEW w \in Vector, NEW i \in DOMAIN tab[w].slot, NEW s \in SlotRec,
         NEW x \in Vector, NEW k \in DOMAIN tab[x].slot, NEW r \in SlotRec,
         w # x,
         After([tab EXCEPT ![w] = [tab[w] EXCEPT !.slot[i] = s],
                           ![x] = [tab[x] EXCEPT !.slot[k] = r]])
  PROVE  TablesStay /\ PutBoth(w, i, s, x, k, r)
<1> DEFINE U == [tab[w] EXCEPT !.slot[i] = s]
           V == [tab[x] EXCEPT !.slot[k] = r]
           ts == [tab EXCEPT ![w] = U, ![x] = V]
<1>1. \A v \in Vector : IsTable(tab[v]) /\ IsTable(NoTable) /\ NoTable.pidx = 0
  BY TableMade, Sizes DEF Types
<1>2. /\ tab[w].pidx # 0 /\ EntriesOf(tab[w]) = Size(w) /\ DOMAIN tab[w].slot = 0..Size(w) - 1
      /\ tab[x].pidx # 0 /\ EntriesOf(tab[x]) = Size(x) /\ DOMAIN tab[x].slot = 0..Size(x) - 1
  <2>1. tab[w].pidx # 0 /\ tab[x].pidx # 0
    BY SlotTyped
  <2> QED
    BY <2>1, Indices DEF EntriesOf, Size
<1>3. /\ IsTable(U) /\ U.pidx = tab[w].pidx /\ U.n = tab[w].n
      /\ \A j \in DOMAIN tab[w].slot : U.slot[j] = IF j = i THEN s ELSE tab[w].slot[j]
  BY <1>1, <1>2, TableWritten
<1>4. /\ IsTable(V) /\ V.pidx = tab[x].pidx /\ V.n = tab[x].n
      /\ \A j \in DOMAIN tab[x].slot : V.slot[j] = IF j = k THEN r ELSE tab[x].slot[j]
  BY <1>1, <1>2, TableWritten
<1>5. \A v \in Vector : ts[v] = IF v = w THEN U ELSE IF v = x THEN V ELSE tab[v]
  BY DEF Types
<1>6. After(ts)
  OBVIOUS
<1> HIDE DEF U, V, ts
<1>7. ASSUME NEW v \in Vector
      PROVE  /\ TableStays(v)
             /\ tab'[v].pidx # 0 =>
                  /\ tab'[v].n = tab[v].n
                  /\ \A j \in DOMAIN tab[v].slot :
                       tab'[v].slot[j] = IF v = w /\ j = i THEN s
                                         ELSE IF v = x /\ j = k THEN r ELSE tab[v].slot[j]
  <2>1. tab[v].pidx = 0 <=> life[v] \in {"free", "gone"}
    BY DEF VectorsOK
  <2>2. tab'[v] = IF life'[v] = "gone" THEN NoTable ELSE ts[v]
    BY <1>6 DEF After
  <2>3. CASE v = w
    <3>1. ts[v] = U
      BY <1>5, <2>3
    <3>2. CASE life'[v] = "gone"
      BY <1>1, <2>2, <3>2 DEF TableStays
    <3>3. CASE life'[v] # "gone"
      <4>1. tab'[v] = U
        BY <2>2, <3>1, <3>3
      <4> QED
        BY <1>2, <1>3, <2>1, <2>3, <3>3, <4>1 DEF TableStays
    <3> QED
      BY <3>2, <3>3
  <2>4. CASE v = x
    <3>1. ts[v] = V
      BY <1>5, <2>4
    <3>2. CASE life'[v] = "gone"
      BY <1>1, <2>2, <3>2 DEF TableStays
    <3>3. CASE life'[v] # "gone"
      <4>1. tab'[v] = V
        BY <2>2, <3>1, <3>3
      <4> QED
        BY <1>2, <1>4, <2>1, <2>4, <3>3, <4>1 DEF TableStays
    <3> QED
      BY <3>2, <3>3
  <2>5. CASE v # w /\ v # x
    BY <1>1, <1>5, <2>1, <2>2, <2>5 DEF TableStays
  <2> QED
    BY <2>3, <2>4, <2>5
<1> QED
  BY <1>7 DEF PutBoth, TablesStay, After

(* or the count.                                                           *)
LEMMA AfterCounted ==
  ASSUME Types, VectorsOK, \A v \in Vector : life'[v] = "free" <=> life[v] = "free",
         \A v \in Vector : life[v] = "gone" => life'[v] = "gone",
         NEW w \in Vector, tab[w].pidx # 0, NEW n \in Int, After([tab EXCEPT ![w].n = n])
  PROVE  TablesStay /\ Counted(w, n)
<1> DEFINE U == [tab[w] EXCEPT !.n = n]
           ts == [tab EXCEPT ![w] = U]
<1>1. \A v \in Vector : IsTable(tab[v]) /\ IsTable(NoTable) /\ NoTable.pidx = 0
  BY TableMade, Sizes DEF Types
<1>3. IsTable(U) /\ U.pidx = tab[w].pidx /\ U.n = n /\ U.slot = tab[w].slot
  BY <1>1, CountWritten
<1>4. /\ ts = [tab EXCEPT ![w].n = n]
      /\ \A v \in Vector : ts[v] = IF v = w THEN U ELSE tab[v]
  BY DEF Types
<1> HIDE DEF U, ts
<1>5. ASSUME NEW v \in Vector
      PROVE  /\ TableStays(v)
             /\ tab'[v].pidx # 0 =>
                  tab'[v].slot = tab[v].slot /\ tab'[v].n = IF v = w THEN n ELSE tab[v].n
  <2>1. tab[v].pidx = 0 <=> life[v] \in {"free", "gone"}
    BY DEF VectorsOK
  <2>2. tab'[v] = IF life'[v] = "gone" THEN NoTable ELSE ts[v]
    BY <1>4 DEF After
  <2> QED
    BY <1>1, <1>3, <1>4, <2>1, <2>2 DEF TableStays
<1> QED
  BY <1>5 DEF Counted, TablesStay, After

(* Vectors are free, or gone, as they were.                                *)
LEMMA LivesGoOn ==
  ASSUME Shape, NEW t \in Thread, Moves(t), th'[t].np \in {Null, th[t].np}
  PROVE  /\ \A v \in Vector : life'[v] = "free" <=> life[v] = "free"
         /\ \A v \in Vector : life[v] = "gone" => life'[v] = "gone"
<1> USE DEF Shape
<1> SUFFICES ASSUME NEW v \in Vector
             PROVE  /\ life'[v] = "free" <=> life[v] = "free"
                    /\ life[v] = "gone" => life'[v] = "gone"
  OBVIOUS
<1>1. VectorStep(t, v)
  BY VectorsStep
<1>2. ~VectorMade(t, v)
  <2>1. v # Null /\ (th[t].np = v => life[v] = "live")
    BY Names DEF VectorsOK
  <2> QED
    BY <2>1 DEF VectorMade
<1>3. CASE VectorKept(t, v)
  BY <1>3 DEF VectorKept
<1>4. CASE VectorReplaced(t, v)
  <2>1. life[v] = "live"
    BY <1>4 DEF VectorReplaced, VectorsOK
  <2> QED
    BY <1>4, <2>1 DEF VectorReplaced
<1> QED
  BY <1>1, <1>2, <1>3, <1>4 DEF VectorStep

(* A call goes on: the tables are what the step makes them,                *)
LEMMA GoesOn ==
  ASSUME Shape, NEW t \in Thread, Moves(t), th'[t].np \in {Null, th[t].np},
         th'[t].pc # "idle", NEW ts, tab' = ts, ts = [v \in Vector |-> ts[v]],
         \A v \in Vector : tab[v].pidx = 0 => ts[v] = tab[v]
  PROVE  After(ts)
<1> USE DEF Shape
<1>1. Rest.pc = "idle"
  BY DEF Rest
<1>2. ASSUME NEW v \in Vector, life'[v] = "gone" PROVE ts[v] = NoTable
  <2>1. life[v] = "gone"
    BY <1>1, <1>2, VectorsGone
  <2>2. tab[v].pidx = 0 /\ IsTable(tab[v])
    BY <2>1 DEF VectorsOK, Types
  <2> QED
    BY <2>2, TableFacts
<1> QED
  BY <1>2 DEF After

(* and when it ends, or frees what others may use, what is left of them.   *)
LEMMA Scrubbed ==
  ASSUME NEW ts, Scrub(ts)
  PROVE  After(ts)
BY DEF Scrub, After

(* Steps that write to no table.                                           *)
LEMMA SameStep ==
  ASSUME Shape, NEW t \in Thread, Moves(t),
         ~(\E k \in Key : AssignStart(t, k)), ~FillSlot(t), ~SwapValue(t),
         ~CountUp(t), ~TakeValue(t), ~CountDown(t), ~Bury(t), ~RehashStart(t),
         ~CopyValue(t), ~SetLimit(t), ~Mark(t), ~ClearFreeKey(t),
         ~ClearFreeValue(t), ~ClearDone(t)
  PROVE  TablesStay /\ SameTables
<1> USE DEF Shape
<1>a. tab = [v \in Vector |-> tab[v]] /\ th \in [Thread -> Local] /\ th[t] \in Local
  BY DEF Types
<1>b. tab' = tab /\ th'[t].pc # "idle" /\ th'[t].np \in {Null, th[t].np}
        => TablesStay /\ SameTables
  <2> HAVE tab' = tab /\ th'[t].pc # "idle" /\ th'[t].np \in {Null, th[t].np}
  <2>1. After(tab)
    BY <1>a, GoesOn
  <2> QED
    BY <2>1, AfterSame, LivesGoOn
<1>c. \A freed, retired : Done(t, freed, retired, tab) => TablesStay /\ SameTables
  <2> TAKE freed, retired
  <2> HAVE Done(t, freed, retired, tab)
  <2>1. th'[t] = Rest /\ After(tab)
    BY <1>a, Scrubbed DEF Done
  <2>2. th'[t].np \in {Null, th[t].np}
    BY <2>1 DEF Rest
  <2> QED
    BY <2>1, <2>2, AfterSame, LivesGoOn
<1>1. CASE ProbeFree(t)
  <2>1. th'[t].pc # "idle" /\ th'[t].np \in {Null, th[t].np}
    BY <1>a, <1>1, ProbeFreeDoes DEF At, Rest, Local
  <2> QED
    BY <1>b, <2>1, <1>1 DEF ProbeFree
<1>2. CASE ProbeMatch(t)
  <2>1. th'[t].pc # "idle" /\ th'[t].np \in {Null, th[t].np}
    BY <1>a, <1>2, ProbeMatchDoes DEF At, Rest, Local
  <2> QED
    BY <1>b, <2>1, <1>2 DEF ProbeMatch
<1>3. CASE ProbeNext(t)
  <2>1. th'[t].pc # "idle" /\ th'[t].np \in {Null, th[t].np}
    BY <1>a, <1>3, ProbeNextDoes DEF At, Rest, Local
  <2> QED
    BY <1>b, <2>1, <1>3 DEF ProbeNext
<1>4. CASE FindValue(t)
  <2>1. th'[t].pc # "idle" /\ th'[t].np \in {Null, th[t].np}
    BY <1>a, <1>4, FindValueDoes DEF At, Rest, Local
  <2> QED
    BY <1>b, <2>1, <1>4 DEF FindValue
<1>5. CASE PutWait(t)
  <2>1. th'[t].pc # "idle" /\ th'[t].np \in {Null, th[t].np}
    BY <1>a, <1>5, PutWaitDoes DEF At, Rest, Local
  <2> QED
    BY <1>b, <2>1, <1>5 DEF PutWait
<1>6. CASE PutValue(t)
  <2>1. th'[t].pc # "idle" /\ th'[t].np \in {Null, th[t].np}
    <3>1. At(t, "value") /\ \E v \in ValObj :
            th'[t] = [th[t] EXCEPT !.pc = "swap", !.word = Here(t).val, !.own = v]
      BY <1>6, <1>a, PutValueDoes
    <3>2. PICK v \in ValObj :
            th'[t] = [th[t] EXCEPT !.pc = "swap", !.word = Here(t).val, !.own = v]
      BY <3>1
    <3> QED
      BY <1>a, <3>1, <3>2 DEF Local
  <2> QED
    BY <1>b, <2>1, <1>6 DEF PutValue
<1>7. CASE DecrLimit(t)
  <2>1. th'[t].pc # "idle" /\ th'[t].np \in {Null, th[t].np}
    BY <1>a, <1>7, DecrLimitDoes DEF At, Rest, Local
  <2> QED
    BY <1>b, <2>1, <1>7 DEF DecrLimit
<1>8. CASE StoreFails(t)
  <2>1. th'[t].pc # "idle" /\ th'[t].np \in {Null, th[t].np}
    BY <1>a, <1>8, StoreFailsDoes DEF At, Rest, Local
  <2> QED
    BY <1>b, <2>1, <1>8 DEF StoreFails
<1>9. CASE OldKey(t)
  <2>1. th'[t].pc # "idle" /\ th'[t].np \in {Null, th[t].np}
    BY <1>a, <1>9, OldKeyDoes DEF At, Rest, Local
  <2> QED
    BY <1>b, <2>1, <1>9 DEF OldKey
<1>10. CASE OldValue(t)
  <2>1. th'[t].pc # "idle" /\ th'[t].np \in {Null, th[t].np}
    <3>1. PICK l \in {"take", "rehash", "answer"}, p \in KeyObj \cup {Null}, d \in ValObj \cup {Null} :
            /\ l = "take" => /\ p = th[t].kobj /\ p # Null /\ d # Null
                              /\ ~Here(t).x /\ d = Here(t).val
            /\ l # "take" => p = Null /\ d = th[t].word
            /\ th'[t] = [th[t] EXCEPT !.pc = l, !.word = d, !.kobj = p]
      BY <1>a, <1>10, OldValueDoes
    <3> QED
      BY <1>a, <3>1 DEF Local
  <2> QED
    BY <1>b, <2>1, <1>10 DEF OldValue
<1>11. CASE TakeFails(t)
  <2>1. th'[t].pc # "idle" /\ th'[t].np \in {Null, th[t].np}
    BY <1>a, <1>11, TakeFailsDoes DEF At, Rest, Local
  <2> QED
    BY <1>b, <2>1, <1>11 DEF TakeFails
<1>12. CASE NoRehash(t)
  <2>1. th'[t].pc # "idle" /\ th'[t].np \in {Null, th[t].np}
    BY <1>a, <1>12, NoRehashDoes DEF At, Rest, Local
  <2> QED
    BY <1>b, <2>1, <1>12 DEF NoRehash
<1>13. CASE CopyKey(t)
  <2>1. th'[t].pc # "idle" /\ th'[t].np \in {Null, th[t].np}
    BY <1>a, <1>13, CopyKeyDoes DEF At, Rest, Local
  <2> QED
    BY <1>b, <2>1, <1>13 DEF CopyKey
<1>14. CASE Install(t)
  <2>1. th'[t].pc # "idle" /\ th'[t].np \in {Null, th[t].np}
    BY <1>a, <1>14, InstallDoes DEF At, Rest, Local
  <2> QED
    BY <1>b, <2>1, <1>14 DEF Install
<1>15. CASE AssignAcquire(t)
  <2>1. th'[t].pc # "idle" /\ th'[t].np \in {Null, th[t].np}
    BY <1>a, <1>15, AssignAcquireDoes DEF At, Rest, Local
  <2> QED
    BY <1>b, <2>1, <1>15 DEF AssignAcquire
<1>16. CASE AssignLimit(t)
  <2>1. th'[t].pc # "idle" /\ th'[t].np \in {Null, th[t].np}
    BY <1>a, <1>16, AssignLimitDoes DEF At, Rest, Local
  <2> QED
    BY <1>b, <2>1, <1>16 DEF AssignLimit
<1>17. CASE ClearStart(t)
  <2>1. th'[t].pc # "idle" /\ th'[t].np \in {Null, th[t].np}
    BY <1>a, <1>17, ClearStartDoes DEF At, Rest, Local
  <2> QED
    BY <1>b, <2>1, <1>17 DEF ClearStart
<1>18. CASE ClearAcquire(t)
  <2>1. th'[t].pc # "idle" /\ th'[t].np \in {Null, th[t].np}
    BY <1>a, <1>18, ClearAcquireDoes DEF At, Rest, Local
  <2> QED
    BY <1>b, <2>1, <1>18 DEF ClearAcquire
<1>19. CASE ClearReadKey(t)
  <2>1. th'[t].pc # "idle" /\ th'[t].np \in {Null, th[t].np}
    BY <1>a, <1>19, ClearReadKeyDoes DEF At, Rest, Local
  <2> QED
    BY <1>b, <2>1, <1>19 DEF ClearReadKey
<1>20. CASE ClearSetLimit(t)
  <2>1. th'[t].pc # "idle" /\ th'[t].np \in {Null, th[t].np}
    BY <1>a, <1>20, ClearSetLimitDoes DEF At, Rest, Local
  <2> QED
    BY <1>b, <2>1, <1>20 DEF ClearSetLimit
<1>21. CASE WalkStart(t)
  <2>1. th'[t].pc # "idle" /\ th'[t].np \in {Null, th[t].np}
    BY <1>a, <1>21, WalkStartDoes DEF At, Rest, Local
  <2> QED
    BY <1>b, <2>1, <1>21 DEF WalkStart
<1>22. CASE WalkKey(t)
  <2>1. th'[t].pc # "idle" /\ th'[t].np \in {Null, th[t].np}
    BY <1>a, <1>22, WalkKeyDoes DEF At, Rest, Local
  <2> QED
    BY <1>b, <2>1, <1>22 DEF WalkKey
<1>23. CASE WalkValue(t)
  <2>1. th'[t].pc # "idle" /\ th'[t].np \in {Null, th[t].np}
    BY <1>a, <1>23, WalkValueDoes DEF At, Rest, Local
  <2> QED
    BY <1>b, <2>1, <1>23 DEF WalkValue
<1>24. CASE Answer(t)
  BY <1>c, <1>24 DEF Answer
<1>25. CASE UpdateInPlace(t)
  BY <1>c, <1>25 DEF UpdateInPlace
<1>26. CASE OutOfMemory(t)
  BY <1>c, <1>26 DEF OutOfMemory
<1>27. CASE AssignInstall(t)
  BY <1>c, <1>27 DEF AssignInstall
<1>28. CASE WalkEnd(t)
  BY <1>c, <1>28 DEF WalkEnd
<1>29. ASSUME NEW k \in Key, LookupStart(t, k) \/ InsertStart(t, k)
      PROVE  TablesStay /\ SameTables
  <2>1. th'[t].pc # "idle" /\ th'[t].np \in {Null, th[t].np}
    BY <1>a, <1>29, LookupStartDoes, InsertStartDoes DEF At
  <2> QED
    BY <1>b, <2>1, <1>29 DEF LookupStart, InsertStart
<1> QED
  BY <1>1, <1>2, <1>3, <1>4, <1>5, <1>6, <1>7, <1>8, <1>9, <1>10, <1>11, <1>12, <1>13, <1>14, <1>15, <1>16, <1>17, <1>18, <1>19, <1>20, <1>21, <1>22, <1>23, <1>24, <1>25, <1>26, <1>27, <1>28, <1>29
  DEF Moves, Start, Proceed

(* A slot is written,                                                      *)
LEMMA SlotPut ==
  ASSUME Shape, NEW t \in Thread, Moves(t), th'[t].np \in {Null, th[t].np},
         NEW w \in Vector, NEW i \in DOMAIN tab[w].slot, NEW s \in SlotRec,
         \/ th'[t].pc # "idle" /\ tab' = [tab EXCEPT ![w].slot[i] = s]
         \/ Scrub([tab EXCEPT ![w].slot[i] = s])
  PROVE  TablesStay /\ Put(w, i, s)
<1> USE DEF Shape
<1> DEFINE ts == [tab EXCEPT ![w].slot[i] = s]
<1>1. tab[w].pidx # 0
  BY SlotTyped
<1>2. ts = [v \in Vector |-> ts[v]] /\ \A v \in Vector : tab[v].pidx = 0 => ts[v] = tab[v]
  BY <1>1 DEF Types
<1>3. After(ts)
  <2>1. CASE th'[t].pc # "idle" /\ tab' = ts
    <3> HIDE DEF ts
    <3> QED
      BY <1>2, <2>1, GoesOn
  <2>2. CASE Scrub(ts)
    BY <2>2, Scrubbed
  <2> QED
    BY <2>1, <2>2
<1> QED
  BY <1>3, LivesGoOn, AfterPut

(* or a count.                                                             *)
LEMMA CountPut ==
  ASSUME Shape, NEW t \in Thread, Moves(t), th'[t].np \in {Null, th[t].np},
         NEW w \in Vector, tab[w].pidx # 0, NEW n \in Int,
         \/ th'[t].pc # "idle" /\ tab' = [tab EXCEPT ![w].n = n]
         \/ Scrub([tab EXCEPT ![w].n = n])
  PROVE  TablesStay /\ Counted(w, n)
<1> USE DEF Shape
<1> DEFINE ts == [tab EXCEPT ![w].n = n]
<1>2. ts = [v \in Vector |-> ts[v]] /\ \A v \in Vector : tab[v].pidx = 0 => ts[v] = tab[v]
  BY DEF Types
<1>3. After(ts)
  <2>1. CASE th'[t].pc # "idle" /\ tab' = ts
    <3> HIDE DEF ts
    <3> QED
      BY <1>2, <2>1, GoesOn
  <2>2. CASE Scrub(ts)
    BY <2>2, Scrubbed
  <2> QED
    BY <2>1, <2>2
<1> QED
  BY <1>3, LivesGoOn, AfterCounted

(* What FillSlot writes in the tables.                                     *)
LEMMA FillSlotPuts ==
  ASSUME Shape, NEW t \in Thread, FillSlot(t)
  PROVE  /\ TablesStay /\ th[t].kobj \in KeyObj /\ th[t].own \in ValObj
         /\ Put(th[t].vec, Slot(t), [key |-> th[t].kobj, val |-> th[t].own, x |-> FALSE])
<1> DEFINE s == [key |-> th[t].kobj, val |-> th[t].own, x |-> FALSE]
<1>1. th'[t].pc # "idle" /\ th'[t].np = th[t].np /\ th[t].pc = "dcas" /\ Moves(t)
  BY Locals, FillSlotDoes DEF Local, At, Moves, Proceed
<1>2. th[t].kobj \in KeyObj /\ th[t].own \in ValObj
  BY <1>1, Locals DEF Shape, CallsOK, CallOK, At, Puts, Places, Storing, Erasing, Copying, Clearing
<1>3. s \in SlotRec
  BY <1>2 DEF SlotRec
<1>4. th[t].vec \in Vector /\ Slot(t) \in DOMAIN tab[th[t].vec].slot
  BY <1>1, Found DEF Shape
<1>5. tab' = [tab EXCEPT ![th[t].vec].slot[Slot(t)] = s]
  BY DEF FillSlot, Write
<1> HIDE DEF s
<1>6. TablesStay /\ Put(th[t].vec, Slot(t), s)
  BY <1>1, <1>3, <1>4, <1>5, SlotPut
<1> QED
  BY <1>2, <1>6 DEF s

(* What SwapValue writes in the tables.                                    *)
LEMMA SwapValuePuts ==
  ASSUME Shape, NEW t \in Thread, SwapValue(t)
  PROVE  /\ TablesStay /\ th[t].own \in ValObj /\ th[t].word \in ValObj
         /\ Put(th[t].vec, Slot(t), [Here(t) EXCEPT !.val = th[t].own])
<1> DEFINE s == [Here(t) EXCEPT !.val = th[t].own]
<1>1. th'[t] = Rest /\ th'[t].np = Null /\ th[t].pc = "swap" /\ Moves(t)
  <2>1. th'[t] = Rest /\ th[t].pc = "swap"
    BY SwapValueDoes DEF At
  <2>2. Rest.np = Null
    BY DEF Rest
  <2>3. Moves(t)
    BY DEF Moves, Proceed
  <2> QED
    BY <2>1, <2>2, <2>3
<1>2. th[t].own \in ValObj /\ th[t].word \in ValObj
  BY <1>1, Locals DEF Shape, CallsOK, CallOK, At
<1>4. th[t].vec \in Vector /\ Slot(t) \in DOMAIN tab[th[t].vec].slot /\ Here(t) \in SlotRec
  BY <1>1, Found DEF Shape
<1>3. s \in SlotRec
  BY <1>2, <1>4 DEF SlotRec
<1>5. [tab EXCEPT ![th[t].vec].slot[Slot(t)].val = th[t].own]
        = [tab EXCEPT ![th[t].vec].slot[Slot(t)] = s]
  BY DEF Here
<1>6. Scrub([tab EXCEPT ![th[t].vec].slot[Slot(t)] = s])
  BY <1>5 DEF SwapValue, Done
<1> HIDE DEF s
<1>7. TablesStay /\ Put(th[t].vec, Slot(t), s)
  BY <1>1, <1>3, <1>4, <1>6, SlotPut
<1> QED
  BY <1>2, <1>7 DEF s

(* What TakeValue writes in the tables.                                    *)
LEMMA TakeValuePuts ==
  ASSUME Shape, NEW t \in Thread, TakeValue(t)
  PROVE  TablesStay /\ Put(th[t].vec, Slot(t), [Here(t) EXCEPT !.val = DELT])
<1> DEFINE s == [Here(t) EXCEPT !.val = DELT]
<1>1. th'[t].pc # "idle" /\ th'[t].np = th[t].np /\ th[t].pc = "take" /\ Moves(t)
  BY Locals, TakeValueDoes DEF Local, At, Moves, Proceed
<1>4. th[t].vec \in Vector /\ Slot(t) \in DOMAIN tab[th[t].vec].slot /\ Here(t) \in SlotRec
  BY <1>1, Found DEF Shape
<1>3. s \in SlotRec
  BY <1>4 DEF SlotRec, Word
<1>5. tab' = [tab EXCEPT ![th[t].vec].slot[Slot(t)] = s]
  BY DEF TakeValue, Write
<1> HIDE DEF s
<1>6. TablesStay /\ Put(th[t].vec, Slot(t), s)
  BY <1>1, <1>3, <1>4, <1>5, SlotPut
<1> QED
  BY <1>6 DEF s

(* What Bury writes in the tables.                                         *)
LEMMA BuryPuts ==
  ASSUME Shape, NEW t \in Thread, Bury(t)
  PROVE  TablesStay /\ Put(th[t].vec, Slot(t), [Here(t) EXCEPT !.key = DELT])
<1> DEFINE s == [Here(t) EXCEPT !.key = DELT]
<1>1. th'[t] = Rest /\ th'[t].np = Null /\ th[t].pc = "bury" /\ Moves(t)
  <2>1. th'[t] = Rest /\ th[t].pc = "bury"
    BY BuryDoes DEF At
  <2>2. Rest.np = Null
    BY DEF Rest
  <2>3. Moves(t)
    BY DEF Moves, Proceed
  <2> QED
    BY <2>1, <2>2, <2>3
<1>4. th[t].vec \in Vector /\ Slot(t) \in DOMAIN tab[th[t].vec].slot /\ Here(t) \in SlotRec
  BY <1>1, Found DEF Shape
<1>3. s \in SlotRec
  BY <1>4 DEF SlotRec, Word
<1>5. [tab EXCEPT ![th[t].vec].slot[Slot(t)].key = DELT]
        = [tab EXCEPT ![th[t].vec].slot[Slot(t)] = s]
  BY DEF Here
<1>6. Scrub([tab EXCEPT ![th[t].vec].slot[Slot(t)] = s])
  BY <1>5 DEF Bury, Done
<1> HIDE DEF s
<1>7. TablesStay /\ Put(th[t].vec, Slot(t), s)
  BY <1>1, <1>3, <1>4, <1>6, SlotPut
<1> QED
  BY <1>7 DEF s

(* What Mark writes in the tables.                                         *)
LEMMA MarkPuts ==
  ASSUME Shape, NEW t \in Thread, Mark(t)
  PROVE  TablesStay /\ Put(th[t].vec, th[t].ix, [This(t) EXCEPT !.x = TRUE])
<1> DEFINE s == [This(t) EXCEPT !.x = TRUE]
<1>1. th'[t].np = th[t].np /\ th[t].pc = "mark" /\ th[t].ix < Size(th[t].vec) /\ Moves(t)
  BY Locals, MarkDoes DEF Local, At, Moves, Proceed
<1>4. th[t].vec \in Vector /\ th[t].ix \in DOMAIN tab[th[t].vec].slot /\ This(t) \in SlotRec
  BY <1>1, Found DEF Shape
<1>3. s \in SlotRec
  BY <1>4 DEF SlotRec
<1>5. [tab EXCEPT ![th[t].vec].slot[th[t].ix].x = TRUE]
        = [tab EXCEPT ![th[t].vec].slot[th[t].ix] = s]
  BY DEF This
<1>6. Scrub([tab EXCEPT ![th[t].vec].slot[th[t].ix] = s])
  BY <1>5 DEF Mark
<1> HIDE DEF s
<1>7. TablesStay /\ Put(th[t].vec, th[t].ix, s)
  BY <1>1, <1>3, <1>4, <1>6, SlotPut
<1> QED
  BY <1>7 DEF s

(* What ClearFreeKey writes in the tables.                                 *)
LEMMA ClearFreeKeyPuts ==
  ASSUME Shape, NEW t \in Thread, ClearFreeKey(t)
  PROVE  TablesStay /\ Put(th[t].vec, th[t].ix, [This(t) EXCEPT !.key = FREE])
<1> DEFINE s == [This(t) EXCEPT !.key = FREE]
<1>1. th'[t].pc # "idle" /\ th'[t].np = th[t].np /\ th[t].pc = "clrput" /\ Moves(t)
  BY Locals, ClearFreeKeyDoes DEF Local, At, Moves, Proceed
<1>4. th[t].vec \in Vector /\ th[t].ix \in DOMAIN tab[th[t].vec].slot /\ This(t) \in SlotRec
  BY <1>1, Found DEF Shape
<1>3. s \in SlotRec
  BY <1>4 DEF SlotRec, Word
<1>5. tab' = [tab EXCEPT ![th[t].vec].slot[th[t].ix] = s]
  BY DEF ClearFreeKey, Write
<1> HIDE DEF s
<1>6. TablesStay /\ Put(th[t].vec, th[t].ix, s)
  BY <1>1, <1>3, <1>4, <1>5, SlotPut
<1> QED
  BY <1>6 DEF s

(* What ClearFreeValue writes in the tables.                               *)
LEMMA ClearFreeValuePuts ==
  ASSUME Shape, NEW t \in Thread, ClearFreeValue(t)
  PROVE  /\ TablesStay
         /\ Put(th[t].vec, th[t].ix, [This(t) EXCEPT !.val = FREE, !.x = FALSE])
<1> DEFINE s == [This(t) EXCEPT !.val = FREE, !.x = FALSE]
<1>1. th'[t].np = th[t].np /\ th[t].pc = "clrval" /\ Moves(t)
  BY Locals, ClearFreeValueDoes DEF Local, At, Moves, Proceed
<1>4. th[t].vec \in Vector /\ th[t].ix \in DOMAIN tab[th[t].vec].slot /\ This(t) \in SlotRec
  BY <1>1, Found DEF Shape
<1>3. s \in SlotRec
  BY <1>4 DEF SlotRec, Word
<1>6. Scrub([tab EXCEPT ![th[t].vec].slot[th[t].ix] = s])
  BY DEF ClearFreeValue
<1> HIDE DEF s
<1>7. TablesStay /\ Put(th[t].vec, th[t].ix, s)
  BY <1>1, <1>3, <1>4, <1>6, SlotPut
<1> QED
  BY <1>7 DEF s

(* What CountUp writes in the tables.                                      *)
LEMMA CountUpPuts ==
  ASSUME Shape, NEW t \in Thread, CountUp(t)
  PROVE  TablesStay /\ Counted(th[t].vec, tab[th[t].vec].n + 1) /\ tab[th[t].vec].n \in Int
<1>1. th'[t] = Rest /\ th'[t].np = Null /\ th[t].pc = "count" /\ Moves(t)
  <2>1. th'[t] = Rest /\ th[t].pc = "count"
    BY CountUpDoes DEF At
  <2>2. Rest.np = Null
    BY DEF Rest
  <2>3. Moves(t)
    BY DEF Moves, Proceed
  <2> QED
    BY <2>1, <2>2, <2>3
<1>2. th[t].vec \in Vector /\ tab[th[t].vec].pidx # 0
  <2>1. th[t].vec # Null
    BY <1>1 DEF Shape, CallsOK, CallOK
  <2> QED
    BY <2>1, Whereabouts DEF Shape
<1>3. tab[th[t].vec].n \in Int /\ tab[th[t].vec].n + 1 \in Int
  BY <1>2, TableFacts DEF Shape, Types
<1>4. [tab EXCEPT ![th[t].vec].n = @ + 1] = [tab EXCEPT ![th[t].vec].n = tab[th[t].vec].n + 1]
  BY <1>2 DEF Shape, Types
<1>5. Scrub([tab EXCEPT ![th[t].vec].n = tab[th[t].vec].n + 1])
  BY <1>4 DEF CountUp, Done
<1> QED
  BY <1>1, <1>2, <1>3, <1>5, CountPut

(* What CountDown writes in the tables.                                    *)
LEMMA CountDownPuts ==
  ASSUME Shape, NEW t \in Thread, CountDown(t)
  PROVE  TablesStay /\ Counted(th[t].vec, tab[th[t].vec].n - 1) /\ tab[th[t].vec].n \in Int
<1>1. th'[t].pc # "idle" /\ th'[t].np = th[t].np /\ th[t].pc = "uncount" /\ Moves(t)
  BY Locals, CountDownDoes DEF Local, At, Moves, Proceed
<1>2. th[t].vec \in Vector /\ tab[th[t].vec].pidx # 0
  BY <1>1, Found DEF Shape
<1>3. tab[th[t].vec].n \in Int /\ tab[th[t].vec].n - 1 \in Int
  BY <1>2, TableFacts DEF Shape, Types
<1>5. tab' = [tab EXCEPT ![th[t].vec].n = tab[th[t].vec].n - 1]
  BY <1>2 DEF CountDown, Shape, Types
<1> QED
  BY <1>1, <1>2, <1>3, <1>5, CountPut

(* What ClearDone writes in the tables.                                    *)
LEMMA ClearDonePuts ==
  ASSUME Shape, NEW t \in Thread, ClearDone(t)
  PROVE  TablesStay /\ Counted(vec, 0)
<1>1. th'[t] = Rest /\ th'[t].np = Null /\ Moves(t)
  <2>1. th'[t] = Rest
    BY ClearDoneDoes DEF At
  <2>2. Rest.np = Null
    BY DEF Rest
  <2>3. Moves(t)
    BY DEF Moves, Proceed
  <2> QED
    BY <2>1, <2>2, <2>3
<1>2. vec \in Vector /\ tab[vec].pidx # 0
  BY DEF Shape, Types, VectorsOK
<1>5. Scrub([tab EXCEPT ![vec].n = 0])
  BY DEF ClearDone, Done
<1> QED
  BY <1>1, <1>2, <1>5, CountPut

(* The live pairs of the vector that was made are counted.                 *)
LEMMA LiveFinite ==
  ASSUME Types, NEW w \in Vector
  PROVE  /\ IsFiniteSet(DOMAIN tab[w].slot) /\ IsFiniteSet(LiveSlots(w)) /\ IsFiniteSet(Used(w))
         /\ Cardinality(LiveSlots(w)) \in Nat /\ Cardinality(Used(w)) \in Nat
<1>1. IsFiniteSet(DOMAIN tab[w].slot)
  <2>1. CASE tab[w].pidx = 0
    <3>1. DOMAIN tab[w].slot = {}
      BY <2>1, TableFacts DEF Types
    <3> QED
      BY <3>1, FS_EmptySet
  <2>2. CASE tab[w].pidx # 0
    <3>1. Size(w) \in Nat \ {0} /\ DOMAIN tab[w].slot = 0..Size(w) - 1
      BY <2>2, Indices
    <3> QED
      BY <3>1, FS_Interval
  <2> QED
    BY <2>1, <2>2
<1>2. LiveSlots(w) \subseteq DOMAIN tab[w].slot /\ Used(w) \subseteq DOMAIN tab[w].slot
  BY DEF LiveSlots, Used
<1>3. IsFiniteSet(LiveSlots(w)) /\ IsFiniteSet(Used(w))
  BY <1>1, <1>2, FS_Subset
<1> QED
  BY <1>1, <1>3, FS_CardinalityType

(* What SetLimit writes in the tables.                                     *)
LEMMA SetLimitPuts ==
  ASSUME Shape, NEW t \in Thread, SetLimit(t)
  PROVE  /\ th[t].np \in Vector
         /\ TablesStay /\ Counted(th[t].np, Cardinality(LiveSlots(th[t].np)))
<1>1. th'[t].pc # "idle" /\ th'[t].np = th[t].np /\ th[t].pc = "setlimit" /\ Moves(t)
  BY Locals, SetLimitDoes DEF Local, At, Moves, Proceed
<1>2. th[t].np \in Vector /\ tab[th[t].np].pidx # 0
  <2>1. th[t].np # Null /\ th[t].np \in Vector \cup {Null}
    BY <1>1, Locals DEF Shape, CallsOK, CallOK, Copying, Local
  <2> QED
    BY <2>1 DEF Shape, VectorsOK
<1>3. Cardinality(LiveSlots(th[t].np)) \in Int
  BY <1>2, LiveFinite DEF Shape
<1>5. tab' = [tab EXCEPT ![th[t].np].n = Cardinality(LiveSlots(th[t].np))]
  BY DEF SetLimit
<1> QED
  BY <1>1, <1>2, <1>3, <1>5, CountPut

(* A pair that is put in a slot.                                           *)
Pair(k, v) == [key |-> k, val |-> v, x |-> FALSE]

(* The parts of a slot that holds a key and a value, and nothing else.     *)
LEMMA Pairs ==
  ASSUME NEW k \in KeyObj, NEW v \in ValObj
  PROVE  /\ Pair(k, v) \in SlotRec /\ Pair(k, v).key = k /\ Pair(k, v).val = v
         /\ Pair(k, v).x = FALSE /\ IsLive(Pair(k, v)) /\ Pair(k, v) # EmptySlot
<1>1. /\ Pair(k, v) \in SlotRec /\ Pair(k, v).key = k /\ Pair(k, v).val = v
      /\ Pair(k, v).x = FALSE
  BY DEF Pair, SlotRec
<1>2. EmptySlot.key = FREE /\ k # FREE /\ IsLive(Pair(k, v))
  BY <1>1, Names DEF EmptySlot, IsLive, Word
<1> QED
  BY <1>1, <1>2

(* There is room for what is copied.                                       *)
LEMMA CopyFits ==
  ASSUME Shape, RoomOK, NEW t \in Thread, th[t].pc \in {"copykey", "copyval"}
  PROVE  /\ th[t].vec = vec /\ vec \in Vector /\ tab[vec].pidx # 0
         /\ th[t].np \in Vector /\ th[t].np # vec /\ tab[th[t].np].pidx # 0
         /\ EntriesOf(tab[th[t].np]) = Size(th[t].np)
         /\ \E i \in 0..EntriesOf(tab[th[t].np]) - 1 :
              tab[th[t].np].slot[i].key = FREE
<1> USE DEF Shape
<1> DEFINE w == th[t].np
<1>1. th[t].vec = vec /\ vec \in Vector
  BY DEF LockOK, Copying, Types
<1>2. w \in Vector /\ w # vec /\ tab[w].pidx # 0 /\ tab[vec].pidx # 0
  <2>1. w # Null /\ w \in Vector \cup {Null}
    BY Locals DEF CallsOK, CallOK, Copying, Local
  <2> QED
    BY <1>1, <2>1 DEF VectorsOK
<1>3. Copier(t)
  BY DEF Copier, Exclusive, CallsOK, CallOK, Places, Copying, Clearing
<1>4. /\ Size(vec) <= Size(w)
      /\ Cardinality(Used(w)) <= Cardinality(UsedBefore(vec, th[t].ix))
      /\ Cardinality(Used(vec)) < Size(vec)
  BY <1>1, <1>3 DEF RoomOK
<1>5. Cardinality(UsedBefore(vec, th[t].ix)) <= Cardinality(Used(vec))
  <2>1. UsedBefore(vec, th[t].ix) \subseteq Used(vec)
    BY DEF UsedBefore
  <2> QED
    BY <1>1, <2>1, LiveFinite, FS_Subset
<1>6. /\ Size(w) \in Nat \ {0} /\ Size(vec) \in Nat \ {0}
      /\ DOMAIN tab[w].slot = 0..Size(w) - 1
  BY <1>1, <1>2, Indices
<1>7. /\ Cardinality(Used(w)) \in Nat /\ Cardinality(Used(vec)) \in Nat
      /\ Cardinality(UsedBefore(vec, th[t].ix)) \in Nat
  <2>1. UsedBefore(vec, th[t].ix) \subseteq Used(vec)
    BY DEF UsedBefore
  <2>2. IsFiniteSet(UsedBefore(vec, th[t].ix))
    BY <1>1, <2>1, LiveFinite, FS_Subset
  <2> QED
    BY <1>1, <1>2, <2>2, LiveFinite, FS_CardinalityType
<1>8. Cardinality(Used(w)) < Size(w)
  BY <1>4, <1>5, <1>6, <1>7
<1>9. \E i \in 0..Size(w) - 1 : tab[w].slot[i].key = FREE
  <2> SUFFICES ASSUME \A i \in 0..Size(w) - 1 : tab[w].slot[i].key # FREE
               PROVE  FALSE
    OBVIOUS
  <2>1. Used(w) = 0..Size(w) - 1
    BY <1>6 DEF Used
  <2>2. Cardinality(0..Size(w) - 1) = Size(w)
    <3>1. 0 \in Int /\ Size(w) - 1 \in Int /\ 0 <= Size(w) - 1
      BY <1>6
    <3>2. Cardinality(0..Size(w) - 1) = (Size(w) - 1) - 0 + 1
      BY <3>1, FS_Interval
    <3> QED
      BY <1>6, <3>2
  <2> QED
    BY <1>6, <1>8, <2>1, <2>2
<1>10. EntriesOf(tab[w]) = Size(w)
  BY DEF EntriesOf, Size
<1> QED
  BY <1>1, <1>2, <1>9, <1>10

Copied(t) == IsLive([This(t) EXCEPT !.key = th[t].word])

(* What CopyValue writes in the tables.                                    *)
LEMMA CopyValuePuts ==
  ASSUME Shape, RoomOK, NEW t \in Thread, CopyValue(t)
  PROVE  /\ TablesStay
         /\ ~Copied(t) => Put(vec, th[t].ix, [This(t) EXCEPT !.x = TRUE])
         /\ Copied(t) => th[t].word \in KeyObj /\ This(t).val \in ValObj
         /\ Copied(t) =>
              \E j \in 0..Size(th[t].np) - 1 :
                /\ Pos(th[t].word[1], j, Size(th[t].np)) \in DOMAIN tab[th[t].np].slot
                /\ tab[th[t].np].slot[Pos(th[t].word[1], j, Size(th[t].np))].key = FREE
                /\ \A l \in 0..j - 1 :
                     tab[th[t].np].slot[Pos(th[t].word[1], l, Size(th[t].np))].key # FREE
                /\ PutBoth(vec, th[t].ix, [This(t) EXCEPT !.x = TRUE],
                           th[t].np, Pos(th[t].word[1], j, Size(th[t].np)),
                           Pair(th[t].word, This(t).val))
<1> USE DEF Shape
<1> DEFINE s == [This(t) EXCEPT !.x = TRUE]
           w == th[t].np
<1>1. th'[t].pc # "idle" /\ th'[t].np = w /\ th[t].pc = "copyval" /\ Moves(t)
  BY Locals, CopyValueDoes DEF Local, At, Moves, Proceed
<1>2. /\ th[t].vec = vec /\ vec \in Vector /\ w \in Vector /\ w # vec /\ tab[w].pidx # 0
      /\ EntriesOf(tab[w]) = Size(w) /\ IsTable(tab[w]) /\ tab[vec].pidx # 0
      /\ \E i \in 0..EntriesOf(tab[w]) - 1 : tab[w].slot[i].key = FREE
  <2>1. IsTable(tab[w]) \/ w \notin Vector
    BY DEF Types
  <2> QED
    BY <1>1, <2>1, CopyFits
<1>3. /\ th[t].ix \in DOMAIN tab[vec].slot /\ This(t) \in SlotRec
      /\ This(t).key \in KeyObj \cup Word /\ This(t).val \in ValObj \cup Word
  BY <1>1, <1>2, Found
<1>4. s \in SlotRec
  BY <1>3 DEF SlotRec
<1>5. th[t].word \in KeyObj \cup Word
  BY <1>1 DEF CallsOK, CallOK, At
<1>6. /\ [This(t) EXCEPT !.key = th[t].word].key = th[t].word
      /\ [This(t) EXCEPT !.key = th[t].word].val = This(t).val
      /\ tab[vec].slot[th[t].ix] = This(t)
  BY <1>2, <1>3 DEF SlotRec, This
<1>7. CASE ~Copied(t)
  <2>1. tab' = [tab EXCEPT ![vec].slot[th[t].ix].x = TRUE, ![w] = @]
    BY <1>2, <1>7 DEF CopyValue, Copied
  <2>2. [tab EXCEPT ![vec].slot[th[t].ix].x = TRUE, ![w] = @]
          = [tab EXCEPT ![vec].slot[th[t].ix] = s]
    BY <1>2, <1>6 DEF Types
  <2>a. tab' = [tab EXCEPT ![vec].slot[th[t].ix] = s]
    BY <2>1, <2>2
  <2> HIDE DEF s, w
  <2>3. TablesStay /\ Put(vec, th[t].ix, s)
    BY <1>1, <1>2, <1>3, <1>4, <2>a, SlotPut DEF w
  <2> QED
    BY <1>7, <2>3 DEF s
<1>8. CASE Copied(t)
  <2>1. th[t].word \in KeyObj /\ This(t).val \in ValObj
    BY <1>3, <1>5, <1>6, <1>8 DEF Copied, IsLive
  <2>2. PICK j \in 0..Size(w) - 1 :
           /\ Pos(th[t].word[1], j, Size(w)) \in 0..Size(w) - 1
           /\ tab[w].slot[Pos(th[t].word[1], j, Size(w))].key = FREE
           /\ \A l \in 0..j - 1 : tab[w].slot[Pos(th[t].word[1], l, Size(w))].key # FREE
           /\ Added(tab[w], th[t].word, This(t).val)
                = [tab[w] EXCEPT !.slot[Pos(th[t].word[1], j, Size(w))] =
                     [key |-> th[t].word, val |-> This(t).val, x |-> FALSE]]
    <3> HIDE DEF w
    <3> QED
      BY <1>2, <2>1, TableAdded
  <2> DEFINE i == Pos(th[t].word[1], j, Size(w))
             r == Pair(th[t].word, This(t).val)
  <2>3. i \in DOMAIN tab[w].slot /\ r \in SlotRec
    BY <1>2, <2>1, <2>2, Indices, Pairs
  <2>4. Added(tab[w], th[t].word, This(t).val) = [tab[w] EXCEPT !.slot[i] = r]
    BY <2>2 DEF Pair
  <2>5. tab' = [tab EXCEPT ![vec].slot[th[t].ix].x = TRUE,
                           ![w] = Added(@, th[t].word, This(t).val)]
    BY <1>2, <1>6, <1>8 DEF CopyValue, Copied
  <2>6. tab' = [tab EXCEPT ![vec] = [tab[vec] EXCEPT !.slot[th[t].ix] = s],
                           ![w] = [tab[w] EXCEPT !.slot[i] = r]]
    <3> HIDE DEF i, r, w
    <3>1. [tab EXCEPT ![vec].slot[th[t].ix].x = TRUE,
                      ![w] = Added(@, th[t].word, This(t).val)]
            = [tab EXCEPT ![vec] = [tab[vec] EXCEPT !.slot[th[t].ix] = s],
                          ![w] = Added(tab[w], th[t].word, This(t).val)]
      BY <1>2, <1>6 DEF Types
    <3> QED
      BY <2>4, <2>5, <3>1
  <2> DEFINE ts == [tab EXCEPT ![vec] = [tab[vec] EXCEPT !.slot[th[t].ix] = s],
                           ![w] = [tab[w] EXCEPT !.slot[i] = r]]
  <2>7. ts = [v \in Vector |-> ts[v]] /\ \A v \in Vector : tab[v].pidx = 0 => ts[v] = tab[v]
    <3> HIDE DEF i, r, s, w
    <3> QED
      BY <1>2 DEF Types
  <2>8. After(ts)
    <3> HIDE DEF ts
    <3>1. tab' = ts
      BY <2>6 DEF ts
    <3> QED
      BY <1>1, <2>7, <3>1, GoesOn
  <2> HIDE DEF s, r, i
  <2>9. TablesStay /\ PutBoth(vec, th[t].ix, s, w, i, r)
    BY <1>1, <1>2, <1>3, <1>4, <2>3, <2>8, LivesGoOn, AfterPutBoth
  <2> QED
    BY <1>8, <2>1, <2>2, <2>3, <2>9 DEF s, r, i
<1> QED
  BY <1>7, <1>8

(* The vectors that are made.                                              *)
LEMMA RehashStartMakes ==
  ASSUME Shape, NEW t \in Thread, RehashStart(t)
  PROVE  /\ th'[t].np # Null
         /\ MadeTable(th'[t].np, Make(Bigger(tab[vec].pidx)))
         /\ tab' = [v \in Vector |-> tab'[v]]
<1> USE DEF Shape
<1>1. \A v \in Fresh(Vector) : v \in Vector /\ life[v] = "free"
  BY DEF Fresh
<1>2. PICK w \in Fresh(Vector) :
        /\ tab' = [tab EXCEPT ![w] = Make(Bigger(tab[vec].pidx))]
        /\ th' = [th EXCEPT ![t].pc = "copykey", ![t].vec = vec, ![t].ix = 0,
                            ![t].word = Null, ![t].np = w]
        /\ Memory({w}, {}, {}, {})
  BY DEF RehashStart
<1>3. th'[t].np = w /\ th'[t].pc = "copykey" /\ Moves(t)
  BY Locals, <1>2 DEF Local, Moves, Proceed
<1>4. w \in Vector /\ w # Null /\ w \in Obj /\ life[w] = "free"
  BY <1>1, Names
<1>5. life'[w] = "live"
  BY <1>2, <1>4, MemoryStep
<1>6. ASSUME NEW v \in Vector \ {w} PROVE life'[v] = life[v]
  <2>1. VectorKept(t, v)
    <3>1. v \notin {w} \cup {} \cup {} /\ v \in Vector
      OBVIOUS
    <3> QED
      BY <1>2, <3>1, VectorsKept
  <2>2. th'[t] # Rest
    BY <1>3 DEF Rest
  <2> QED
    BY <2>1, <2>2 DEF VectorKept
<1>7. tab' = [v \in Vector |-> tab'[v]] /\ tab'[w] = Make(Bigger(tab[vec].pidx))
      /\ \A v \in Vector \ {w} : tab'[v] = tab[v]
  BY <1>2, <1>4 DEF Types
<1> QED
  BY <1>3, <1>4, <1>5, <1>6, <1>7 DEF MadeTable

(* What assign makes has one pair.                                         *)
LEMMA AssignStartMakes ==
  ASSUME Shape, NEW t \in Thread, NEW k \in Key, AssignStart(t, k)
  PROVE  /\ th'[t].np # Null
         /\ tab' = [v \in Vector |-> tab'[v]]
         /\ \E o \in KeyObj, v \in ValObj :
              /\ life[o] = "free" /\ life[v] = "free"
              /\ Memory({th'[t].np, o, v}, {}, {}, {})
              /\ \E i \in 0..Entries[1] - 1 :
                   /\ i = Pos(k, 0, Entries[1]) /\ o[1] = k
                   /\ MadeTable(th'[t].np,
                        [[Make(1) EXCEPT !.slot[i] = Pair(o, v)] EXCEPT !.n = 1])
<1> USE DEF Shape
<1>1. \A v \in Fresh(Vector) : v \in Vector /\ life[v] = "free"
  BY DEF Fresh
<1>2. PICK w \in Fresh(Vector), o \in Fresh({k} \X (1..Copies)), v \in Fresh(ValObj) :
        /\ Call(t, [Rest EXCEPT !.op = "assign", !.key = k, !.pc = "acquire", !.np = w])
        /\ Memory({w, o, v}, {}, {}, {})
        /\ tab' = [tab EXCEPT ![w] = [Added(Make(1), o, v) EXCEPT !.n = 1]]
  BY DEF AssignStart
<1>3. th'[t].np = w /\ th'[t].pc = "acquire"
  BY Locals, <1>2 DEF Call, Rest
<1>4. w \in Vector /\ w # Null /\ w \in Obj /\ life[w] = "free"
  BY <1>1, Names
<1>5. o \in KeyObj /\ life[o] = "free" /\ o[1] = k /\ v \in ValObj /\ life[v] = "free"
  BY DEF Fresh, KeyObj
<1>6. life'[w] = "live"
  BY <1>2, <1>4, MemoryStep
<1>7. ASSUME NEW x \in Vector \ {w} PROVE life'[x] = life[x]
  <2>1. VectorKept(t, x)
    <3>1. x \notin {w, o, v} \cup {} \cup {} /\ x \in Vector
      BY <1>5, Names
    <3> QED
      BY <1>2, <3>1, VectorsKept
  <2>2. th'[t] # Rest
    BY <1>3 DEF Rest
  <2> QED
    BY <2>1, <2>2 DEF VectorKept
<1>8. tab' = [x \in Vector |-> tab'[x]] /\ tab'[w] = [Added(Make(1), o, v) EXCEPT !.n = 1]
      /\ \A x \in Vector \ {w} : tab'[x] = tab[x]
  BY <1>2, <1>4 DEF Types
<1>9. /\ 1 \in DOMAIN Entries /\ Entries[1] \in Nat \ {0} /\ IsTable(Make(1))
      /\ Make(1).pidx = 1 /\ EntriesOf(Make(1)) = Entries[1]
      /\ \A i \in 0..Entries[1] - 1 : Make(1).slot[i].key = FREE
  BY Sizes, TableMade DEF EmptySlot
<1>10. 0 \in 0..Entries[1] - 1 /\ EntriesOf(Make(1)) - 1 \in Nat
  BY <1>9
<1>11. PICK j \in 0..EntriesOf(Make(1)) - 1 :
         /\ Pos(o[1], j, EntriesOf(Make(1))) \in 0..EntriesOf(Make(1)) - 1
         /\ \A l \in 0..j - 1 : Make(1).slot[Pos(o[1], l, EntriesOf(Make(1)))].key # FREE
         /\ Added(Make(1), o, v)
              = [Make(1) EXCEPT !.slot[Pos(o[1], j, EntriesOf(Make(1)))] =
                   [key |-> o, val |-> v, x |-> FALSE]]
  <2>1. \E i \in 0..EntriesOf(Make(1)) - 1 : Make(1).slot[i].key = FREE
    BY <1>9, <1>10
  <2>2. Make(1).pidx # 0
    BY <1>9
  <2> DEFINE T == Make(1)
  <2>3. IsTable(T) /\ T.pidx # 0 /\ o \in KeyObj /\ v \in ValObj
        /\ \E i \in 0..EntriesOf(T) - 1 : T.slot[i].key = FREE
    BY <1>5, <1>9, <2>1, <2>2
  <2> HIDE DEF T
  <2>4. PICK j \in 0..EntriesOf(T) - 1 :
           LET i == Pos(o[1], j, EntriesOf(T)) IN
           /\ i \in 0..EntriesOf(T) - 1 /\ T.slot[i].key = FREE
           /\ \A l \in 0..j - 1 : T.slot[Pos(o[1], l, EntriesOf(T))].key # FREE
           /\ Added(T, o, v)
                = [T EXCEPT !.slot[i] = [key |-> o, val |-> v, x |-> FALSE]]
    BY <2>3, TableAdded
  <2> QED
    BY <2>4 DEF T
<1>12. j = 0
  <2>1. Pos(k, 0, Entries[1]) \in 0..Entries[1] - 1
    BY <1>9, Positions
  <2>2. j # 0 => 0 \in 0..j - 1
    BY <1>9, <1>11
  <2> QED
    BY <1>5, <1>9, <1>11, <2>1, <2>2
<1> DEFINE i == Pos(k, 0, Entries[1])
<1>13. i \in 0..Entries[1] - 1 /\ Added(Make(1), o, v) = [Make(1) EXCEPT !.slot[i] = Pair(o, v)]
  BY <1>5, <1>9, <1>11, <1>12 DEF Pair
<1> HIDE DEF i
<1>14. tab'[w] = [[Make(1) EXCEPT !.slot[i] = Pair(o, v)] EXCEPT !.n = 1]
  BY <1>8, <1>13
<1>15. MadeTable(w, [[Make(1) EXCEPT !.slot[i] = Pair(o, v)] EXCEPT !.n = 1])
  BY <1>4, <1>6, <1>7, <1>8, <1>14 DEF MadeTable
<1> QED
  BY <1>2, <1>3, <1>4, <1>5, <1>8, <1>13, <1>15 DEF i
-----------------------------------------------------------------------------
(* The vectors there are keep their sizes.                                 *)
LEMMA TablesStep ==
  ASSUME Shape, RoomOK, NEW t \in Thread, Moves(t)
  PROVE  /\ tab' = [v \in Vector |-> tab'[v]]
         /\ \A v \in Vector :
              /\ IsTable(tab'[v]) /\ (tab'[v].pidx = 0 <=> life'[v] \in {"free", "gone"})
              /\ tab'[v].pidx # 0 /\ tab[v].pidx # 0 => tab'[v].pidx = tab[v].pidx
              /\ tab'[v].pidx # 0 /\ tab[v].pidx = 0 => th'[t].np = v
<1> USE DEF Shape
<1> DEFINE Goal == /\ tab' = [v \in Vector |-> tab'[v]]
                   /\ \A v \in Vector :
                        /\ IsTable(tab'[v]) /\ (tab'[v].pidx = 0 <=> life'[v] \in {"free", "gone"})
                        /\ tab'[v].pidx # 0 /\ tab[v].pidx # 0 => tab'[v].pidx = tab[v].pidx
                        /\ tab'[v].pidx # 0 /\ tab[v].pidx = 0 => th'[t].np = v
<1>1. TablesStay => Goal
  BY DEF TablesStay, TableStays
<1>2. ASSUME NEW w \in Vector, NEW T, IsTable(T), T.pidx # 0, MadeTable(w, T),
             tab' = [v \in Vector |-> tab'[v]], th'[t].np = w
      PROVE  Goal
  <2>1. tab'[w] = T /\ life'[w] = "live" /\ tab[w].pidx = 0 /\ IsTable(tab'[w])
    BY <1>2 DEF MadeTable, VectorsOK
  <2>2. ASSUME NEW v \in Vector \ {w}
        PROVE  /\ tab'[v] = tab[v] /\ life'[v] = life[v] /\ IsTable(tab'[v])
               /\ tab'[v].pidx = 0 <=> life'[v] \in {"free", "gone"}
    <3>1. tab'[v] = tab[v] /\ life'[v] = life[v]
      BY <1>2 DEF MadeTable
    <3> QED
      BY <3>1 DEF VectorsOK, Types
  <2> QED
    BY <1>2, <2>1, <2>2
<1>3. CASE RehashStart(t)
  <2> DEFINE T == Make(Bigger(tab[vec].pidx))
             w == th'[t].np
  <2>1. MadeTable(w, T) /\ tab' = [v \in Vector |-> tab'[v]] /\ w \in Vector
    BY <1>3, RehashStartMakes DEF MadeTable
  <2>2. tab[vec].pidx \in DOMAIN Entries
    <3>1. vec \in Vector /\ tab[vec].pidx # 0
      BY DEF VectorsOK, Types
    <3> QED
      BY <3>1, Indices
  <2>3. IsTable(T) /\ T.pidx # 0
    BY <2>2, Sizes, TableMade
  <2> HIDE DEF T
  <2> QED
    BY <1>2, <2>1, <2>3
<1>4. ASSUME NEW k \in Key, AssignStart(t, k) PROVE Goal
  <2>1. PICK o \in KeyObj, v \in ValObj : \E i \in 0..Entries[1] - 1 :
               MadeTable(th'[t].np, [[Make(1) EXCEPT !.slot[i] = Pair(o, v)] EXCEPT !.n = 1])
    BY <1>4, AssignStartMakes
  <2>2. PICK i \in 0..Entries[1] - 1 :
               MadeTable(th'[t].np, [[Make(1) EXCEPT !.slot[i] = Pair(o, v)] EXCEPT !.n = 1])
    BY <2>1
  <2> DEFINE M == Make(1)
             S == [M EXCEPT !.slot[i] = Pair(o, v)]
             T == [S EXCEPT !.n = 1]
  <2>3. IsTable(M) /\ M.pidx = 1 /\ EntriesOf(M) = Entries[1]
    BY Sizes, TableMade
  <2>4. IsTable(S) /\ S.pidx = 1
    <3>0. M.pidx # 0 /\ Pair(o, v) \in SlotRec
      <4> HIDE DEF M
      <4>1. M.pidx # 0
        BY <2>3
      <4>2. Pair(o, v) \in SlotRec
        BY Pairs
      <4> QED
        BY <4>1, <4>2
    <3> HIDE DEF M
    <3>1. Pair(o, v) \in SlotRec /\ M.pidx # 0
      BY <3>0
    <3> QED
      BY <2>3, <3>1, TableWritten
  <2>5. IsTable(T) /\ T.pidx = 1
    <3> HIDE DEF S
    <3>1. 1 \in Int /\ S.pidx # 0
      BY <2>4
    <3> QED
      BY <2>4, <3>1, CountWritten
  <2>6. MadeTable(th'[t].np, T) /\ th'[t].np \in Vector
    BY <2>2 DEF MadeTable
  <2>7. tab' = [x \in Vector |-> tab'[x]]
    BY <1>4, AssignStartMakes
  <2> HIDE DEF T
  <2> QED
    BY <1>2, <2>5, <2>6, <2>7
<1> QED
  BY <1>1, <1>3, <1>4, SameStep, FillSlotPuts, SwapValuePuts, CountUpPuts,
     TakeValuePuts, CountDownPuts, BuryPuts, CopyValuePuts, SetLimitPuts,
     MarkPuts, ClearFreeKeyPuts, ClearFreeValuePuts, ClearDonePuts

(* What a call has at each place.                                          *)
LEMMA CallsStep ==
  ASSUME Shape, NEW t \in Thread, Moves(t)
  PROVE  CallsOK'
<1> USE DEF Shape
<1>a. \A u \in Thread \ {t} : th'[u] = th[u] /\ CallOK(u)
  BY ThreadTypes DEF CallsOK
<1>b. ASSUME NEW u \in Thread \ {t} PROVE CallOK(u)'
  BY <1>a DEF CallOK, At, Puts, Exclusive
<1>c. CallOK(t) /\ th[t] \in Local /\ vec \in Vector /\ vec # Null
  BY Names DEF CallsOK, Types
<1>f. /\ th[t].pc \in {"probe", "value", "oldval"} =>
           Here(t).key \in KeyObj \cup Word /\ Here(t).val \in ValObj \cup Word
      /\ (\/ th[t].pc \in {"copykey", "clrkey"}
          \/ th[t].pc = "walk" /\ th[t].ix < Size(th[t].vec)) =>
           This(t).key \in KeyObj \cup Word
  BY Found
<1>d. th'[t] = Rest => CallOK(t)'
  BY Names DEF CallOK, Places, Label, Rest, At, Puts, Exclusive, KeyOps, Copying
<1>e. SUFFICES CallOK(t)'
  BY <1>b DEF CallsOK
<1>1. CASE ProbeFree(t)
  <2>1. /\ At(t, "probe") /\ Here(t).key = FREE
        /\ th'[t] = [th[t] EXCEPT !.pc = IF Puts(t) THEN "limit" ELSE "answer"]
    BY <1>1, ProbeFreeDoes
  <2> QED
    BY <2>1, <1>c, <1>f, Names DEF CallOK, Places, Label, Op, Copying, Clearing, Storing, Erasing, KeyOps, Exclusive, Puts, At, Local
<1>2. CASE ProbeMatch(t)
  <2>1. /\ At(t, "probe") /\ Here(t).key \notin Word /\ Here(t).key[1] = th[t].key
        /\ th'[t] = [th[t] EXCEPT !.pc = "value"]
    BY <1>2, ProbeMatchDoes
  <2> QED
    BY <2>1, <1>c, <1>f, Names DEF CallOK, Places, Label, Op, Copying, Clearing, Storing, Erasing, KeyOps, Exclusive, Puts, At, Local
<1>3. CASE ProbeNext(t)
  <2>1. /\ At(t, "probe") /\ Passed(t, th[t].ix)
        /\ \/ /\ th[t].ix + 1 < Size(th[t].vec)
             /\ th'[t] = [th[t] EXCEPT !.ix = th[t].ix + 1]
           \/ /\ ~(th[t].ix + 1 < Size(th[t].vec)) /\ Puts(t)
             /\ th'[t] = [th[t] EXCEPT !.pc = "wild"]
           \/ ~Puts(t) /\ th'[t] = [th[t] EXCEPT !.pc = "answer"]
    BY <1>3, ProbeNextDoes
  <2> QED
    BY <2>1, <1>c, <1>f, Names DEF CallOK, Places, Label, Op, Copying, Clearing, Storing, Erasing, KeyOps, Exclusive, Puts, At, Local
<1>4. CASE FindValue(t)
  <2>1. /\ At(t, "value") /\ th[t].op = "find"
        /\ \E d \in ValObj \cup Word \cup {Null} :
            th'[t] = [th[t] EXCEPT !.pc = "answer", !.word = d]
    BY <1>4, FindValueDoes
  <2> QED
    BY <2>1, <1>c, <1>f, Names DEF CallOK, Places, Label, Op, Copying, Clearing, Storing, Erasing, KeyOps, Exclusive, Puts, At, Local
<1>5. CASE Answer(t)
  BY <1>5, <1>d, AnswerDoes
<1>6. CASE PutValue(t)
  <2>1. /\ At(t, "value") /\ Puts(t) /\ Usable(Here(t))
        /\ \E v \in ValObj :
            /\ th[t].op = "insert" => v = th[t].own
            /\ th'[t] = [th[t] EXCEPT !.pc = "swap", !.word = Here(t).val, !.own = v]
    BY <1>6, PutValueDoes
  <2> QED
    BY <2>1, <1>c, <1>f, Names DEF CallOK, Places, Label, Op, Copying, Clearing, Storing, Erasing, KeyOps, Exclusive, Puts, At, Local, Usable
<1>7. CASE UpdateInPlace(t)
  BY <1>7, <1>d, UpdateInPlaceDoes
<1>8. CASE SwapValue(t)
  BY <1>8, <1>d, SwapValueDoes
<1>9. CASE DecrLimit(t)
  <2>1. /\ At(t, "limit") /\ limit > 0
        /\ \E k \in KeyObj, v \in ValObj :
            /\ th[t].kobj # Null => k = th[t].kobj
            /\ k[1] = th[t].key
            /\ th'[t] = [th[t] EXCEPT !.pc = "dcas", !.kobj = k, !.own = v]
    BY <1>9, DecrLimitDoes
  <2> QED
    BY <2>1, <1>c, <1>f, Names DEF CallOK, Places, Label, Op, Copying, Clearing, Storing, Erasing, KeyOps, Exclusive, Puts, At, Local
<1>10. CASE PutWait(t)
  <2>1. /\ At(t, "limit") \/ (At(t, "value") /\ Puts(t))
        /\ th'[t] = [th[t] EXCEPT !.pc = "rehash"]
    BY <1>10, PutWaitDoes
  <2> QED
    BY <2>1, <1>c, <1>f, Names DEF CallOK, Places, Label, Op, Copying, Clearing, Storing, Erasing, KeyOps, Exclusive, Puts, At, Local
<1>11. CASE FillSlot(t)
  <2>1. /\ At(t, "dcas") /\ Here(t) = EmptySlot
        /\ th'[t] = [th[t] EXCEPT !.pc = "count"]
    BY <1>11, FillSlotDoes
  <2> QED
    BY <2>1, <1>c, <1>f, Names DEF CallOK, Places, Label, Op, Copying, Clearing, Storing, Erasing, KeyOps, Exclusive, Puts, At, Local
<1>12. CASE StoreFails(t)
  <2>1. /\ At(t, "swap") \/ At(t, "dcas")
        /\ th'[t].pc = "probe" /\ th'[t].op = th[t].op /\ th'[t].key = th[t].key /\ th'[t].vec = vec /\ th'[t].ix = 0
        /\ th'[t].own = Kept(t) /\ th'[t].kobj = th[t].kobj /\ th'[t].word = Null /\ th'[t].np = Null /\ th'[t].met = {}
    BY <1>12, StoreFailsDoes
  <2> QED
    BY <2>1, <1>c, <1>f, Names DEF CallOK, Places, Label, Op, Copying, Clearing, Storing, Erasing, KeyOps, Exclusive, Puts, At, Local, Kept
<1>13. CASE CountUp(t)
  BY <1>13, <1>d, CountUpDoes
<1>14. CASE OldKey(t)
  <2>1. /\ At(t, "value") /\ th[t].op = "erase"
        /\ th'[t] = [th[t] EXCEPT !.pc = "oldval", !.kobj = Here(t).key]
    BY <1>14, OldKeyDoes
  <2> QED
    BY <2>1, <1>c, <1>f, Names DEF CallOK, Places, Label, Op, Copying, Clearing, Storing, Erasing, KeyOps, Exclusive, Puts, At, Local
<1>15. CASE OldValue(t)
  <2>1. /\ At(t, "oldval")
        /\ \E l \in {"take", "rehash", "answer"}, o \in KeyObj \cup {Null}, d \in ValObj \cup {Null} :
            /\ l = "take" => /\ o = th[t].kobj /\ o # Null /\ d # Null
                           /\ ~Here(t).x /\ d = Here(t).val
            /\ l # "take" => o = Null /\ d = th[t].word
            /\ th'[t] = [th[t] EXCEPT !.pc = l, !.word = d, !.kobj = o]
    BY <1>15, OldValueDoes
  <2> QED
    BY <2>1, <1>c, <1>f, Names DEF CallOK, Places, Label, Op, Copying, Clearing, Storing, Erasing, KeyOps, Exclusive, Puts, At, Local
<1>16. CASE TakeValue(t)
  <2>1. /\ At(t, "take") /\ Here(t).val = th[t].word /\ ~Here(t).x
        /\ th'[t] = [th[t] EXCEPT !.pc = "uncount"]
    BY <1>16, TakeValueDoes
  <2> QED
    BY <2>1, <1>c, <1>f, Names DEF CallOK, Places, Label, Op, Copying, Clearing, Storing, Erasing, KeyOps, Exclusive, Puts, At, Local
<1>17. CASE TakeFails(t)
  <2>1. /\ At(t, "take")
        /\ th'[t].pc = "probe" /\ th'[t].op = "erase" /\ th'[t].key = th[t].key /\ th'[t].vec = vec /\ th'[t].ix = 0
        /\ th'[t].own = Null /\ th'[t].kobj = Null /\ th'[t].word = Null /\ th'[t].np = Null /\ th'[t].met = {}
    BY <1>17, TakeFailsDoes
  <2> QED
    BY <2>1, <1>c, <1>f, Names DEF CallOK, Places, Label, Op, Copying, Clearing, Storing, Erasing, KeyOps, Exclusive, Puts, At, Local
<1>18. CASE CountDown(t)
  <2>1. /\ At(t, "uncount")
        /\ th'[t] = [th[t] EXCEPT !.pc = "bury"]
    BY <1>18, CountDownDoes
  <2> QED
    BY <2>1, <1>c, <1>f, Names DEF CallOK, Places, Label, Op, Copying, Clearing, Storing, Erasing, KeyOps, Exclusive, Puts, At, Local
<1>19. CASE Bury(t)
  BY <1>19, <1>d, BuryDoes
<1>20. CASE NoRehash(t)
  <2>1. /\ At(t, "rehash") /\ lock = Null
        /\ th'[t].pc = "probe" /\ th'[t].op = th[t].op /\ th'[t].key = th[t].key /\ th'[t].vec = vec /\ th'[t].ix = 0
        /\ th'[t].own = th[t].own /\ th'[t].kobj = th[t].kobj /\ th'[t].word = Null /\ th'[t].np = Null /\ th'[t].met = {}
    BY <1>20, NoRehashDoes
  <2> QED
    BY <2>1, <1>c, <1>f, Names DEF CallOK, Places, Label, Op, Copying, Clearing, Storing, Erasing, KeyOps, Exclusive, Puts, At, Local
<1>21. CASE RehashStart(t)
  <2>1. /\ At(t, "rehash") /\ lock = Null /\ limit <= 0
        /\ \E w \in Vector : life[w] = "free" /\
            th'[t] = [th[t] EXCEPT !.pc = "copykey", !.vec = vec, !.ix = 0, !.word = Null, !.np = w]
    BY <1>21, RehashStartDoes
  <2> QED
    BY <2>1, <1>c, <1>f, Names DEF CallOK, Places, Label, Op, Copying, Clearing, Storing, Erasing, KeyOps, Exclusive, Puts, At, Local
<1>22. CASE OutOfMemory(t)
  BY <1>22, <1>d, OutOfMemoryDoes
<1>23. CASE CopyKey(t)
  <2>1. /\ At(t, "copykey")
        /\ th'[t] = [th[t] EXCEPT !.pc = "copyval", !.word = This(t).key]
    BY <1>23, CopyKeyDoes
  <2> QED
    BY <2>1, <1>c, <1>f, Names DEF CallOK, Places, Label, Op, Copying, Clearing, Storing, Erasing, KeyOps, Exclusive, Puts, At, Local
<1>24. CASE CopyValue(t)
  <2>1. /\ At(t, "copyval")
        /\ \/ /\ th[t].ix + 1 < Size(th[t].vec)
             /\ th'[t] = [th[t] EXCEPT !.pc = "copykey", !.ix = th[t].ix + 1, !.word = Null]
           \/ /\ ~(th[t].ix + 1 < Size(th[t].vec))
             /\ th'[t] = [th[t] EXCEPT !.pc = "setlimit", !.ix = 0, !.word = Null]
    BY <1>24, CopyValueDoes
  <2>2. ASSUME NEW l \in {"copykey", "setlimit"}, NEW i \in Nat,
               th'[t] = [th[t] EXCEPT !.pc = l, !.ix = i, !.word = Null]
        PROVE  CallOK(t)'
    BY <2>1, <2>2, <1>c, <1>f, Names DEF CallOK, Places, Label, Op, Copying, Clearing, Storing, Erasing, KeyOps, Exclusive, Puts, At, Local
  <2>3. th[t].ix + 1 \in Nat
    BY <1>c DEF Local
  <2> QED
    BY <2>1, <2>2, <2>3
<1>25. CASE SetLimit(t)
  <2>1. /\ At(t, "setlimit")
        /\ th'[t] = [th[t] EXCEPT !.pc = "install"]
    BY <1>25, SetLimitDoes
  <2> QED
    BY <2>1, <1>c, <1>f, Names DEF CallOK, Places, Label, Op, Copying, Clearing, Storing, Erasing, KeyOps, Exclusive, Puts, At, Local
<1>26. CASE Install(t)
  <2>1. /\ At(t, "install") /\ th[t].op # "assign"
        /\ th'[t].pc = "probe" /\ th'[t].op = th[t].op /\ th'[t].key = th[t].key /\ th'[t].vec = th[t].np /\ th'[t].ix = 0
        /\ th'[t].own = th[t].own /\ th'[t].kobj = th[t].kobj /\ th'[t].word = Null /\ th'[t].np = Null /\ th'[t].met = {}
    BY <1>26, InstallDoes
  <2> QED
    BY <2>1, <1>c, <1>f, Names DEF CallOK, Places, Label, Op, Copying, Clearing, Storing, Erasing, KeyOps, Exclusive, Puts, At, Local
<1>27. CASE AssignAcquire(t)
  <2>1. /\ At(t, "acquire") /\ th[t].op = "assign" /\ lock = Null
        /\ th'[t] = [th[t] EXCEPT !.pc = "mark", !.vec = vec]
    BY <1>27, AssignAcquireDoes
  <2> QED
    BY <2>1, <1>c, <1>f, Names DEF CallOK, Places, Label, Op, Copying, Clearing, Storing, Erasing, KeyOps, Exclusive, Puts, At, Local
<1>28. CASE Mark(t)
  <2>1. /\ At(t, "mark") /\ th[t].ix < Size(th[t].vec)
        /\ \E o \in ValObj \cup {Null} :
            th'[t] = [th[t] EXCEPT !.ix = th[t].ix + 1, !.own = o]
    BY <1>28, MarkDoes
  <2> QED
    BY <2>1, <1>c, <1>f, Names DEF CallOK, Places, Label, Op, Copying, Clearing, Storing, Erasing, KeyOps, Exclusive, Puts, At, Local
<1>29. CASE AssignLimit(t)
  <2>1. /\ At(t, "mark") /\ th[t].ix = Size(th[t].vec)
        /\ th'[t] = [th[t] EXCEPT !.pc = "install"]
    BY <1>29, AssignLimitDoes
  <2> QED
    BY <2>1, <1>c, <1>f, Names DEF CallOK, Places, Label, Op, Copying, Clearing, Storing, Erasing, KeyOps, Exclusive, Puts, At, Local
<1>30. CASE AssignInstall(t)
  BY <1>30, <1>d, AssignInstallDoes
<1>31. CASE ClearAcquire(t)
  <2>1. /\ At(t, "acquire") /\ th[t].op = "clear" /\ lock = Null
        /\ th'[t] = [th[t] EXCEPT !.pc = "clrkey", !.vec = vec]
    BY <1>31, ClearAcquireDoes
  <2> QED
    BY <2>1, <1>c, <1>f, Names DEF CallOK, Places, Label, Op, Copying, Clearing, Storing, Erasing, KeyOps, Exclusive, Puts, At, Local
<1>32. CASE ClearReadKey(t)
  <2>1. /\ At(t, "clrkey")
        /\ th'[t] = [th[t] EXCEPT !.pc = "clrput", !.kobj = This(t).key]
    BY <1>32, ClearReadKeyDoes
  <2> QED
    BY <2>1, <1>c, <1>f, Names DEF CallOK, Places, Label, Op, Copying, Clearing, Storing, Erasing, KeyOps, Exclusive, Puts, At, Local
<1>33. CASE ClearFreeKey(t)
  <2>1. /\ At(t, "clrput")
        /\ th'[t] = [th[t] EXCEPT !.pc = "clrval"]
    BY <1>33, ClearFreeKeyDoes
  <2> QED
    BY <2>1, <1>c, <1>f, Names DEF CallOK, Places, Label, Op, Copying, Clearing, Storing, Erasing, KeyOps, Exclusive, Puts, At, Local
<1>34. CASE ClearFreeValue(t)
  <2>1. /\ At(t, "clrval")
        /\ \/ /\ th[t].ix + 1 < Size(th[t].vec)
             /\ \E o \in ValObj \cup {Null} :
                  th'[t] = [th[t] EXCEPT !.pc = "clrkey", !.ix = th[t].ix + 1, !.kobj = Null, !.own = o]
           \/ /\ ~(th[t].ix + 1 < Size(th[t].vec))
             /\ \E o \in ValObj \cup {Null} :
                  th'[t] = [th[t] EXCEPT !.pc = "clrlimit", !.ix = 0, !.kobj = Null, !.own = o]
    BY <1>34, ClearFreeValueDoes
  <2>2. ASSUME NEW l \in {"clrkey", "clrlimit"}, NEW i \in Nat, NEW o \in ValObj \cup {Null},
               th'[t] = [th[t] EXCEPT !.pc = l, !.ix = i, !.kobj = Null, !.own = o]
        PROVE  CallOK(t)'
    BY <2>1, <2>2, <1>c, <1>f, Names DEF CallOK, Places, Label, Op, Copying, Clearing, Storing, Erasing, KeyOps, Exclusive, Puts, At, Local
  <2>3. th[t].ix + 1 \in Nat
    BY <1>c DEF Local
  <2> QED
    BY <2>1, <2>2, <2>3
<1>35. CASE ClearSetLimit(t)
  <2>1. /\ At(t, "clrlimit")
        /\ th'[t] = [th[t] EXCEPT !.pc = "clrcount"]
    BY <1>35, ClearSetLimitDoes
  <2> QED
    BY <2>1, <1>c, <1>f, Names DEF CallOK, Places, Label, Op, Copying, Clearing, Storing, Erasing, KeyOps, Exclusive, Puts, At, Local
<1>36. CASE ClearDone(t)
  BY <1>36, <1>d, ClearDoneDoes
<1>37. CASE WalkKey(t)
  <2>1. /\ At(t, "walk") /\ th[t].ix < Size(th[t].vec)
        /\ \/ th'[t] = [th[t] EXCEPT !.ix = th[t].ix + 1]
           \/ This(t).key # FREE /\ th'[t] = [th[t] EXCEPT !.pc = "walkval", !.word = This(t).key]
    BY <1>37, WalkKeyDoes
  <2>2. This(t).key # FREE => This(t).key \in KeyObj \cup {DELT}
    BY <2>1, <1>f DEF At, Word
  <2>3. ASSUME th'[t] = [th[t] EXCEPT !.pc = "walkval", !.word = This(t).key],
               This(t).key \in KeyObj \cup {DELT}
        PROVE  CallOK(t)'
    BY <2>1, <2>3, <1>c, <1>f, Names DEF CallOK, Places, Label, Op, Copying, Clearing, Storing, Erasing, KeyOps, Exclusive, Puts, At, Local
  <2>4. ASSUME th'[t] = [th[t] EXCEPT !.ix = th[t].ix + 1]
        PROVE  CallOK(t)'
    BY <2>1, <2>4, <1>c, <1>f, Names DEF CallOK, Places, Label, Op, Copying, Clearing, Storing, Erasing, KeyOps, Exclusive, Puts, At, Local
  <2> QED
    BY <2>1, <2>2, <2>3, <2>4
<1>38. CASE WalkValue(t)
  <2>1. /\ At(t, "walkval")
        /\ \E m \in SUBSET Key :
            th'[t] = [th[t] EXCEPT !.pc = "walk", !.ix = th[t].ix + 1, !.word = Null, !.met = m]
    BY <1>38, WalkValueDoes
  <2> QED
    BY <2>1, <1>c, <1>f, Names DEF CallOK, Places, Label, Op, Copying, Clearing, Storing, Erasing, KeyOps, Exclusive, Puts, At, Local
<1>39. CASE WalkEnd(t)
  BY <1>39, <1>d, WalkEndDoes
<1>40. CASE ClearStart(t)
  <2>1. /\ At(t, "idle")
        /\ th'[t].pc = "acquire" /\ th'[t].op = "clear" /\ th'[t].key = Null /\ th'[t].vec = Null /\ th'[t].ix = 0
        /\ th'[t].own = Null /\ th'[t].kobj = Null /\ th'[t].word = Null /\ th'[t].np = Null /\ th'[t].met = {}
    BY <1>40, ClearStartDoes
  <2> QED
    BY <2>1, <1>c, <1>f, Names DEF CallOK, Places, Label, Op, Copying, Clearing, Storing, Erasing, KeyOps, Exclusive, Puts, At, Local
<1>41. CASE WalkStart(t)
  <2>1. /\ At(t, "idle")
        /\ th'[t].pc = "walk" /\ th'[t].op = "walk" /\ th'[t].key = Null /\ th'[t].vec = vec /\ th'[t].ix = 0
        /\ th'[t].own = Null /\ th'[t].kobj = Null /\ th'[t].word = Null /\ th'[t].np = Null /\ th'[t].met = {}
    BY <1>41, WalkStartDoes
  <2> QED
    BY <2>1, <1>c, <1>f, Names DEF CallOK, Places, Label, Op, Copying, Clearing, Storing, Erasing, KeyOps, Exclusive, Puts, At, Local
<1>42. ASSUME NEW k \in Key, LookupStart(t, k) PROVE CallOK(t)'
  BY <1>42, <1>c, LookupStartDoes, Names DEF CallOK, Places, Label, Op, Copying, Clearing, Storing, Erasing, KeyOps, Exclusive, Puts, At
<1>43. ASSUME NEW k \in Key, InsertStart(t, k) PROVE CallOK(t)'
  BY <1>43, <1>c, InsertStartDoes, Names DEF CallOK, Places, Label, Op, Copying, Clearing, Storing, Erasing, KeyOps, Exclusive, Puts, At
<1>44. ASSUME NEW k \in Key, AssignStart(t, k) PROVE CallOK(t)'
  BY <1>44, <1>c, AssignStartDoes, Names DEF CallOK, Places, Label, Op, Copying, Clearing, Storing, Erasing, KeyOps, Exclusive, Puts, At
<1> QED
  BY <1>1, <1>2, <1>3, <1>4, <1>5, <1>6, <1>7, <1>8, <1>9, <1>10, <1>11, <1>12, <1>13, <1>14, <1>15, <1>16, <1>17, <1>18, <1>19, <1>20, <1>21, <1>22, <1>23, <1>24, <1>25, <1>26, <1>27, <1>28, <1>29, <1>30, <1>31, <1>32, <1>33, <1>34, <1>35, <1>36, <1>37, <1>38, <1>39, <1>40, <1>41, <1>42, <1>43, <1>44 DEF Moves, Start, Proceed

=============================================================================
