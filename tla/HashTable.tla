----------------------------- MODULE HashTable ------------------------------
(* The hash table of src/hash_table.cpp and xrcu/hash_table.hpp: a vector  *)
(* of slots, each a key and a value, probed from where the key hashes to.  *)
(* Slots are filled once: an erased slot is not used again, and when the   *)
(* limit on the slots to fill has run out the live pairs are copied to     *)
(* another vector, under a lock, after a bit, XBIT, was set in each value  *)
(* to keep others from changing it.                                        *)
(*                                                                         *)
(* One step is one access to the pointer to the vector, to the limit, the  *)
(* lock, a count of elements, or to the key or the value of a slot, or the *)
(* one double-width compare-and-swap on both.  Keys and values are objects *)
(* that are finalized.  RCU is what GracePeriod says it is.                *)
EXTENDS Integers, Sequences, FiniteSets

CONSTANTS
  Thread, Key,
  FREE, DELT,   \* the words of slots not used yet, and not any more
  Null,
  Hash, Step,   \* for each key, where its probes start and how far they go
  Entries,      \* the sizes of vectors, each used when the last is too small
  LoadPct,      \* the load factor, in hundredths
  Copies,       \* bound on the objects made of one key
  Values,       \* bound on the values made
  Vectors,      \* bound on the vectors made
  Roles,        \* who calls what: functions from threads to sets of calls
  Alone,        \* the calls that clients make while there is no other
  TornCopy      \* may a slot be filled while _Rehash is reading it?

ASSUME TableAssumption ==
  /\ Hash \in [Key -> Nat] /\ Step \in [Key -> Nat \ {0}]
  /\ Entries \in Seq(Nat \ {0}) /\ Len(Entries) > 0
  /\ \A i, j \in DOMAIN Entries : i <= j => Entries[i] <= Entries[j]
  /\ LoadPct * Entries[1] >= 100             \* the first has room for a pair
  /\ LoadPct \in 40..90 /\ {Copies, Values, Vectors} \subseteq Nat \ {0}
  /\ TornCopy \in BOOLEAN
  /\ \A k \in Key, i \in DOMAIN Entries :  \* probes visit every slot
       {(Hash[k] + j * Step[k]) % Entries[i] : j \in 0..Entries[i] - 1}
         = 0..Entries[i] - 1
  /\ Cardinality({FREE, DELT, Null}) = 3

(* The objects, numbered in the order in which they are made.  Their       *)
(* memory is not used again, so that a use of one that is gone shows.      *)
KeyObj == Key \X (1..Copies)
ValObj == {"value"} \X (1..Values)
Vector == {"vector"} \X (1..Vectors)
Obj == KeyObj \cup ValObj \cup Vector

ASSUME NameAssumption ==
  /\ {FREE, DELT, Null} \cap (Obj \cup Key \cup Thread) = {}
  /\ {"value", "vector"} \cap Key = {}

VARIABLES
  role,   \* who calls what
  vec,    \* hash_table::vec
  limit,  \* hash_table::grow_limit
  lock,   \* hash_table::lock, the thread that holds it
  tab,    \* the contents of each vector
  life,   \* where each object is between its allocation and its destruction
  waits,  \* the sections that hold up the destruction of a retired object
  th,     \* the local variables of each thread
  seen    \* history: what a thread's call may still answer, see Observe

vars == <<role, vec, limit, lock, tab, life, waits, th, seen>>

Word == {FREE, DELT}
EmptySlot == [key |-> FREE, val |-> FREE, x |-> FALSE]
NoTable == [slot |-> <<>>, pidx |-> 0, n |-> 0]

Label == {"idle", "probe", "value", "oldval", "swap", "limit", "dcas",
          "count", "take", "uncount", "bury", "rehash", "copykey", "copyval",
          "setlimit", "install", "acquire", "mark", "clrkey", "clrput",
          "clrval", "clrlimit", "clrcount", "walk", "walkval", "answer", "wild"}
Op == {"none", "find", "insert", "update", "erase", "walk", "clear", "assign"}

(* op is the call and key its key, vec the vector it has loaded, ix how    *)
(* many slots of it are behind, own the value it brings, or waits to be    *)
(* destroyed, kobj the key it brings or takes away, word a key or a value  *)
(* it has read, np the vector it is making, met the keys a walk has met.   *)
Rest == [pc |-> "idle", op |-> "none", key |-> Null, vec |-> Null, ix |-> 0,
         own |-> Null, kobj |-> Null, word |-> Null, np |-> Null, met |-> {}]

TypeOK ==
  /\ role \in Roles
  /\ vec \in Vector /\ limit \in Int /\ lock \in Thread \cup {Null}
  /\ \A w \in Vector :
       /\ tab[w].n \in Int /\ tab[w].pidx \in {0} \cup DOMAIN Entries
       /\ \A i \in DOMAIN tab[w].slot :
            tab[w].slot[i] \in
              [key : KeyObj \cup Word, val : ValObj \cup Word, x : BOOLEAN]
  /\ life \in [Obj -> {"free", "live", "retired", "gone", "twice"}]
  /\ waits \in [Obj -> SUBSET Thread]
  /\ th \in [Thread ->
       [pc : Label, op : Op, key : Key \cup {Null}, vec : Vector \cup {Null},
        ix : Nat, own : ValObj \cup {Null}, kobj : KeyObj \cup Word \cup {Null},
        word : Obj \cup Word \cup {Null}, np : Vector \cup {Null},
        met : SUBSET Key]]
  /\ seen \in [Thread -> SUBSET (ValObj \cup Key \cup {Null})]

-----------------------------------------------------------------------------
(* Vectors.                                                                *)

(* compute_fsize.                                                          *)
Fsize(n) == (LoadPct * n) \div 100

(* ht_vector::make: the sizes grow, here until the last of them.           *)
Bigger(p) == IF p + 1 \in DOMAIN Entries THEN p + 1 ELSE p
Make(p) == [slot |-> [i \in 0..Entries[p] - 1 |-> EmptySlot],
            pidx |-> p, n |-> 0]

Size(w) == Entries[tab[w].pidx]

(* The slot that the probes for k come to after i others.                  *)
Pos(k, i, size) == (Hash[k] + i * Step[k]) % size

IsLive(s) == s.key \notin Word /\ s.val \notin Word
LiveSlots(w) == {i \in DOMAIN tab[w].slot : IsLive(tab[w].slot[i])}

(* The map that a vector holds.                                            *)
Contents(w) ==
  LET slot == tab[w].slot
      Where(k) == {i \in DOMAIN slot : IsLive(slot[i]) /\ slot[i].key[1] = k}
  IN  [k \in Key |->
         IF Where(k) = {} THEN Null ELSE slot[CHOOSE i \in Where(k) : TRUE].val]

(* _Gprobe: a pair goes to the first free slot.                            *)
Added(table, key, val) ==
  LET size == Entries[table.pidx]
      free == {i \in 0..size - 1 :
                 table.slot[Pos(key[1], i, size)].key = FREE}
      i == CHOOSE j \in free : \A l \in free : j <= l
  IN  [table EXCEPT !.slot[Pos(key[1], i, size)] =
         [key |-> key, val |-> val, x |-> FALSE]]

Init ==
  /\ role \in Roles
  /\ vec = <<"vector", 1>>
  /\ limit = Fsize(Entries[1])
  /\ lock = Null
  /\ tab = [w \in Vector |-> IF w = vec THEN Make(1) ELSE NoTable]
  /\ life = [o \in Obj |-> IF o = vec THEN "live" ELSE "free"]
  /\ waits = [o \in Obj |-> {}]
  /\ th = [t \in Thread |-> Rest]
  /\ seen = [t \in Thread |-> {}]

-----------------------------------------------------------------------------
(* Helpers.                                                                *)

At(t, l) == th[t].pc = l
Goto(t, l) == th' = [th EXCEPT ![t].pc = l]
Slot(t) == Pos(th[t].key, th[t].ix, Size(th[t].vec))
Here(t) == tab[th[t].vec].slot[Slot(t)]
This(t) == tab[th[t].vec].slot[th[t].ix]
Write(t, i, s) == tab' = [tab EXCEPT ![th[t].vec].slot[i] = s]

(* clear and assign open no section.                                       *)
InCs(t) == th[t].op \notin {"none", "clear", "assign"}

(* Objects are allocated, freed at once, or finalized; t may be leaving    *)
(* its section.  A retired object is destroyed once no section is left of  *)
(* those that were open when it was finalized.                             *)
Memory(new, freed, retired, left) ==
  LET open == {u \in Thread \ left : InCs(u)}
      W(o) == IF o \in retired THEN open ELSE waits[o] \ left
  IN  /\ life' = [o \in Obj |->
           IF o \in new THEN "live"
           ELSE IF o \in freed THEN "gone"
           ELSE IF o \in retired /\ life[o] # "live" THEN "twice"
           ELSE IF o \in retired \/ life[o] = "retired"
                  THEN IF W(o) = {} THEN "gone" ELSE "retired"
           ELSE life[o]]
      /\ waits' = [o \in Obj |-> W(o)]

(* What is left of the contents of vectors once they are destroyed.        *)
Scrub(ts) ==
  tab' = [w \in Vector |-> IF life'[w] = "gone" THEN NoTable ELSE ts[w]]

Fresh(S) == LET free == {o \in S : life[o] = "free"} IN
            IF free = {} THEN {} ELSE {CHOOSE o \in free : TRUE}

Only(o) == {o} \ (Word \cup {Null})

(* The end of a call, of its section, and of what it had made for nothing. *)
Done(t, freed, retired, ts) ==
  /\ th' = [th EXCEPT ![t] = Rest]
  /\ Memory({}, freed, retired, {t})
  /\ Scrub(ts)

(* The call starts over, with the vector there is now.                     *)
Again(t, own, w) ==
  th' = [th EXCEPT ![t] = [Rest EXCEPT
    !.pc = "probe", !.op = th[t].op, !.key = th[t].key, !.vec = w,
    !.own = own, !.kobj = th[t].kobj]]

Retry(t) == Again(t, th[t].own, vec)

(* What ht_updater made is freed when it could not be stored, what insert  *)
(* made is kept.                                                           *)
Kept(t) == IF th[t].op = "update" THEN Null ELSE th[t].own

Call(t, rec) ==
  /\ At(t, "idle") /\ <<rec.op, rec.key>> \in role[t]
  /\ \A u \in Thread : th[u].op \notin Alone
  /\ rec.op \in Alone => \A u \in Thread : At(u, "idle")
  /\ th' = [th EXCEPT ![t] = rec]
  /\ UNCHANGED <<vec, limit, lock>>

Started(op, k) ==
  [Rest EXCEPT !.op = op, !.key = k, !.pc = "probe", !.vec = vec]

-----------------------------------------------------------------------------
(* Calls that begin with a probe.                                          *)

LookupStart(t, k) ==
  \E op \in {"find", "erase", "update"} :
    Call(t, Started(op, k)) /\ UNCHANGED <<tab, life, waits>>

(* insert makes its value first.                                           *)
InsertStart(t, k) ==
  \E v \in Fresh(ValObj) :
    /\ Call(t, [Started("insert", k) EXCEPT !.own = v])
    /\ Memory({v}, {}, {}, {})
    /\ UNCHANGED tab

Puts(t) == th[t].op \in {"insert", "update"}

(* _Probe comes to a free slot.                                            *)
ProbeFree(t) ==
  /\ At(t, "probe") /\ Here(t).key = FREE
  /\ Goto(t, IF Puts(t) THEN "limit" ELSE "answer")
  /\ UNCHANGED <<vec, limit, lock, tab, life, waits>>

ProbeMatch(t) ==
  /\ At(t, "probe") /\ Here(t).key \notin Word
  /\ Here(t).key[1] = th[t].key
  /\ Goto(t, "value")
  /\ UNCHANGED <<vec, limit, lock, tab, life, waits>>

(* _Probe goes on.  When every slot was in use, the callers that look for  *)
(* a key find none, and _Upsert takes the key of the first slot for a      *)
(* value.                                                                  *)
ProbeNext(t) ==
  /\ At(t, "probe") /\ Here(t).key # FREE
  /\ Here(t).key # DELT => Here(t).key[1] # th[t].key
  /\ IF th[t].ix + 1 < Size(th[t].vec)
       THEN th' = [th EXCEPT ![t].ix = @ + 1]
       ELSE Goto(t, IF Puts(t) THEN "wild" ELSE "answer")
  /\ UNCHANGED <<vec, limit, lock, tab, life, waits>>

(* Mutant: a value with the bit set is taken for an absent one.            *)
FindBarred(t) ==
  /\ At(t, "value") /\ th[t].op = "find"
  /\ th' = [th EXCEPT ![t].pc = "answer",
       ![t].word = IF Here(t).val = DELT \/ Here(t).x THEN Null ELSE Here(t).val]
  /\ UNCHANGED <<vec, limit, lock, tab, life, waits>>

(* _Find reads the value.                                                  *)
FindValue(t) ==
  /\ At(t, "value") /\ th[t].op = "find"
  /\ th' = [th EXCEPT ![t].pc = "answer",
              ![t].word = IF Here(t).val = DELT THEN Null ELSE Here(t).val]
  /\ UNCHANGED <<vec, limit, lock, tab, life, waits>>

(* find, and an erase that finds nothing, answer.                          *)
Answer(t) ==
  /\ At(t, "answer")
  /\ Done(t, {}, {}, tab)
  /\ UNCHANGED <<vec, limit, lock>>

-----------------------------------------------------------------------------
(* _Upsert.                                                                *)

Usable(s) == s.val \notin Word /\ ~s.x

(* The key is there: ht_inserter takes the value it has, and ht_updater    *)
(* makes another out of the present one.                                   *)
PutValue(t) ==
  /\ At(t, "value") /\ Puts(t) /\ Usable(Here(t))
  /\ \E v \in IF th[t].op = "insert" THEN {th[t].own} ELSE Fresh(ValObj) :
       /\ th' = [th EXCEPT ![t].pc = "swap", ![t].word = Here(t).val,
                           ![t].own = v]
       /\ Memory({v}, {}, {}, {})
  /\ UNCHANGED <<vec, limit, lock, tab>>

(* The function changed the value in place.                                *)
UpdateInPlace(t) ==
  /\ At(t, "value") /\ th[t].op = "update" /\ Usable(Here(t))
  /\ Done(t, Only(th[t].kobj), {}, tab)
  /\ UNCHANGED <<vec, limit, lock>>

(* Mutant: the old value is freed at once.                                 *)
SwapAndFree(t) ==
  /\ At(t, "swap")
  /\ Here(t).val = th[t].word /\ ~Here(t).x
  /\ Done(t, Only(th[t].kobj) \cup {th[t].word}, {},
          [tab EXCEPT ![th[t].vec].slot[Slot(t)].val = th[t].own])
  /\ UNCHANGED <<vec, limit, lock>>

SwapValue(t) ==
  /\ At(t, "swap")
  /\ Here(t).val = th[t].word /\ ~Here(t).x
  /\ Done(t, Only(th[t].kobj), {th[t].word},
          [tab EXCEPT ![th[t].vec].slot[Slot(t)].val = th[t].own])
  /\ UNCHANGED <<vec, limit, lock>>

(* _Decr_limit, after which the key, once in a call, and the value of an   *)
(* update are made.                                                        *)
DecrLimit(t) ==
  /\ At(t, "limit") /\ limit > 0
  /\ limit' = limit - 1
  /\ \E k \in IF th[t].kobj = Null THEN Fresh({th[t].key} \X (1..Copies))
              ELSE {th[t].kobj},
        v \in IF th[t].op = "insert" THEN {th[t].own} ELSE Fresh(ValObj) :
       /\ th' = [th EXCEPT ![t].pc = "dcas", ![t].kobj = k, ![t].own = v]
       /\ Memory({k, v}, {}, {}, {})
  /\ UNCHANGED <<vec, lock, tab>>

(* No slot may be filled, or the value may not be changed: the table is    *)
(* being rehashed, or the key is being erased.                             *)
PutWait(t) ==
  /\ \/ At(t, "limit") /\ limit <= 0
     \/ At(t, "value") /\ Puts(t) /\ ~Usable(Here(t))
  /\ Goto(t, "rehash")
  /\ UNCHANGED <<vec, limit, lock, tab, life, waits>>

Filling(t) == Here(t) = EmptySlot

(* Mutant: the two words are swapped.                                      *)
FillSwapped(t) ==
  /\ At(t, "dcas") /\ Filling(t)
  /\ Write(t, Slot(t), [key |-> th[t].own, val |-> th[t].kobj, x |-> FALSE])
  /\ Goto(t, "count")
  /\ UNCHANGED <<vec, limit, lock, life, waits>>

(* The pair goes into the free slot.  Unless TornCopy, the slot is not the *)
(* one whose key _Rehash has just read.                                    *)
FillSlot(t) ==
  /\ At(t, "dcas") /\ Filling(t)
  /\ TornCopy \/ \A u \in Thread :
       ~(At(u, "copyval") /\ th[u].vec = th[t].vec /\ th[u].ix = Slot(t))
  /\ Write(t, Slot(t), [key |-> th[t].kobj, val |-> th[t].own, x |-> FALSE])
  /\ Goto(t, "count")
  /\ UNCHANGED <<vec, limit, lock, life, waits>>

StoreMustFail(t) ==
  \/ At(t, "swap") /\ (Here(t).val # th[t].word \/ Here(t).x)
  \/ At(t, "dcas") /\ ~Filling(t)

(* Mutant: the limit is given back.                                        *)
StoreFailsGivesBack(t) ==
  /\ StoreMustFail(t)
  /\ limit' = IF At(t, "dcas") THEN limit + 1 ELSE limit
  /\ Again(t, Kept(t), vec)
  /\ Memory({}, Only(th[t].own) \ Only(Kept(t)), {}, {})
  /\ UNCHANGED <<vec, lock, tab>>

(* Mutant: the call goes on with the slot that follows.                    *)
StoreFailsGoesOn(t) ==
  /\ StoreMustFail(t)
  /\ th' = [th EXCEPT ![t].pc = "probe",
                      ![t].ix = (@ + 1) % Size(th[t].vec)]
  /\ UNCHANGED <<vec, limit, lock, tab, life, waits>>

(* Either compare-and-swap fails: the call starts over.  The limit stays   *)
(* one too small.                                                          *)
StoreFails(t) ==
  /\ StoreMustFail(t)
  /\ Again(t, Kept(t), vec)
  /\ Memory({}, Only(th[t].own) \ Only(Kept(t)), {}, {})
  /\ UNCHANGED <<vec, limit, lock, tab>>

(* Mutant: the count is that of the vector in use.                         *)
CountUpCurrent(t) ==
  /\ At(t, "count")
  /\ Done(t, {}, {}, [tab EXCEPT ![vec].n = @ + 1])
  /\ UNCHANGED <<vec, limit, lock>>

CountUp(t) ==
  /\ At(t, "count")
  /\ Done(t, {}, {}, [tab EXCEPT ![th[t].vec].n = @ + 1])
  /\ UNCHANGED <<vec, limit, lock>>

-----------------------------------------------------------------------------
(* _Erase.                                                                 *)

OldKey(t) ==
  /\ At(t, "value") /\ th[t].op = "erase"
  /\ th' = [th EXCEPT ![t].pc = "oldval", ![t].kobj = Here(t).key]
  /\ UNCHANGED <<vec, limit, lock, tab, life, waits>>

OldValue(t) ==
  LET s == Here(t)
      nothing == th[t].kobj \in Word \/ s.val = DELT
  IN  /\ At(t, "oldval")
      /\ th' = IF ~s.x /\ ~nothing
                 THEN [th EXCEPT ![t].pc = "take", ![t].word = s.val]
               ELSE [th EXCEPT ![t].pc = IF s.x THEN "rehash" ELSE "answer",
                               ![t].kobj = Null]
      /\ UNCHANGED <<vec, limit, lock, tab, life, waits>>

TakeValue(t) ==
  /\ At(t, "take")
  /\ Here(t).val = th[t].word /\ ~Here(t).x
  /\ Write(t, Slot(t), [Here(t) EXCEPT !.val = DELT])
  /\ Goto(t, "uncount")
  /\ UNCHANGED <<vec, limit, lock, life, waits>>

TakeFails(t) ==
  /\ At(t, "take")
  /\ Here(t).val # th[t].word \/ Here(t).x
  /\ th' = [th EXCEPT ![t] = [Started("erase", th[t].key) EXCEPT !.vec = vec]]
  /\ UNCHANGED <<vec, limit, lock, tab, life, waits>>

CountDown(t) ==
  /\ At(t, "uncount")
  /\ tab' = [tab EXCEPT ![th[t].vec].n = @ - 1]
  /\ Goto(t, "bury")
  /\ UNCHANGED <<vec, limit, lock, life, waits>>

(* A plain store to the key; then both objects are finalized.              *)
Bury(t) ==
  /\ At(t, "bury")
  /\ Done(t, {}, Only(th[t].kobj) \cup Only(th[t].word),
          [tab EXCEPT ![th[t].vec].slot[Slot(t)].key = DELT])
  /\ UNCHANGED <<vec, limit, lock>>

-----------------------------------------------------------------------------
(* _Rehash.                                                                *)

(* There is room by the time the lock is had: another thread was faster,   *)
(* or the call only waited for one that was erasing.                       *)
NoRehash(t) ==
  /\ At(t, "rehash") /\ lock = Null /\ limit > 0
  /\ Retry(t)
  /\ UNCHANGED <<vec, limit, lock, tab, life, waits>>

RehashStart(t) ==
  /\ At(t, "rehash") /\ lock = Null /\ limit <= 0
  /\ lock' = t
  /\ \E w \in Fresh(Vector) :
       /\ Memory({w}, {}, {}, {})
       /\ tab' = [tab EXCEPT ![w] = Make(Bigger(tab[vec].pidx))]
       /\ th' = [th EXCEPT ![t].pc = "copykey", ![t].vec = vec, ![t].ix = 0,
                           ![t].word = Null, ![t].np = w]
  /\ UNCHANGED <<vec, limit>>

(* An allocation fails: what the call has made is freed, and the lock      *)
(* released.                                                               *)
OutOfMemory(t) ==
  /\ \/ At(t, "limit") /\ limit > 0 /\ limit' = limit - 1
     \/ At(t, "rehash") /\ lock = Null /\ limit <= 0 /\ UNCHANGED limit
  /\ Done(t, Only(th[t].own) \cup Only(th[t].kobj), {}, tab)
  /\ UNCHANGED <<vec, lock>>

CopyKey(t) ==
  /\ At(t, "copykey")
  /\ th' = [th EXCEPT ![t].pc = "copyval", ![t].word = This(t).key]
  /\ UNCHANGED <<vec, limit, lock, tab, life, waits>>

(* Mutant: the values are read without setting the bit in them.            *)
CopyUnmarked(t) ==
  LET copied == [This(t) EXCEPT !.key = th[t].word]
      more == th[t].ix + 1 < Size(th[t].vec)
  IN  /\ At(t, "copyval")
      /\ tab' = [tab EXCEPT ![th[t].np] =
                   IF IsLive(copied) THEN Added(@, copied.key, copied.val) ELSE @]
      /\ th' = [th EXCEPT ![t].pc = IF more THEN "copykey" ELSE "setlimit",
                          ![t].ix = IF more THEN @ + 1 ELSE 0, ![t].word = Null]
      /\ UNCHANGED <<vec, limit, lock, life, waits>>

CopyValue(t) ==
  LET copied == [This(t) EXCEPT !.key = th[t].word]
      more == th[t].ix + 1 < Size(th[t].vec)
  IN  /\ At(t, "copyval")
      /\ tab' = [tab EXCEPT
           ![th[t].vec].slot[th[t].ix].x = TRUE,
           ![th[t].np] =
             IF IsLive(copied) THEN Added(@, copied.key, copied.val) ELSE @]
      /\ th' = [th EXCEPT ![t].pc = IF more THEN "copykey" ELSE "setlimit",
                          ![t].ix = IF more THEN @ + 1 ELSE 0, ![t].word = Null]
      /\ UNCHANGED <<vec, limit, lock, life, waits>>

SetLimit(t) ==
  LET w == th[t].np
      nelem == Cardinality(LiveSlots(w))
  IN  /\ At(t, "setlimit")
      /\ tab' = [tab EXCEPT ![w].n = nelem]
      /\ limit' = Fsize(Size(w)) - nelem
      /\ Goto(t, "install")
      /\ UNCHANGED <<vec, lock, life, waits>>

(* vec is replaced, the old one finalized, and the lock released.          *)
Install(t) ==
  /\ At(t, "install") /\ th[t].op # "assign"
  /\ vec' = th[t].np
  /\ lock' = Null
  /\ Memory({}, {}, {th[t].vec}, {})
  /\ Again(t, th[t].own, th[t].np)
  /\ UNCHANGED <<limit, tab>>

-----------------------------------------------------------------------------
(* _Assign_vector.                                                         *)

(* Outside of sections a finalize may find that it is time to flush, and   *)
(* waits until what it was called with may be destroyed.                   *)
Flushed(t) == th[t].own # Null => life[th[t].own] = "gone"

(* assign first makes a table of what it was given: here of one pair.      *)
AssignStart(t, k) ==
  \E w \in Fresh(Vector), o \in Fresh({k} \X (1..Copies)), v \in Fresh(ValObj) :
    /\ Call(t, [Rest EXCEPT !.op = "assign", !.key = k, !.pc = "acquire",
                           !.np = w])
    /\ Memory({w, o, v}, {}, {}, {})
    /\ tab' = [tab EXCEPT ![w] = [Added(Make(1), o, v) EXCEPT !.n = 1]]

AssignAcquire(t) ==
  /\ At(t, "acquire") /\ th[t].op = "assign" /\ lock = Null
  /\ lock' = t
  /\ th' = [th EXCEPT ![t].pc = "mark", ![t].vec = vec]
  /\ UNCHANGED <<vec, limit, tab, life, waits>>

(* The bit is set in a value; if the slot is live, both objects are        *)
(* finalized, while the vector is still the one in use.                    *)
Mark(t) ==
  LET s == This(t) IN
  /\ At(t, "mark") /\ th[t].ix < Size(th[t].vec) /\ Flushed(t)
  /\ Memory({}, {}, IF s.val \in Word THEN {} ELSE {s.key, s.val}, {})
  /\ Scrub([tab EXCEPT ![th[t].vec].slot[th[t].ix].x = TRUE])
  /\ \E o \in {Null} \cup Only(s.val) :
       th' = [th EXCEPT ![t].ix = @ + 1, ![t].own = o]
  /\ UNCHANGED <<vec, limit, lock>>

AssignLimit(t) ==
  /\ At(t, "mark") /\ th[t].ix = Size(th[t].vec) /\ Flushed(t)
  /\ limit' = Fsize(Size(th[t].np)) - tab[th[t].np].n
  /\ Goto(t, "install")
  /\ UNCHANGED <<vec, lock, tab, life, waits>>

AssignInstall(t) ==
  /\ At(t, "install") /\ th[t].op = "assign"
  /\ vec' = th[t].np
  /\ lock' = Null
  /\ Done(t, {}, {th[t].vec}, tab)
  /\ UNCHANGED limit

-----------------------------------------------------------------------------
(* clear.                                                                  *)

ClearStart(t) ==
  /\ Call(t, [Rest EXCEPT !.op = "clear", !.pc = "acquire"])
  /\ UNCHANGED <<tab, life, waits>>

ClearAcquire(t) ==
  /\ At(t, "acquire") /\ th[t].op = "clear" /\ lock = Null
  /\ lock' = t
  /\ limit' = 0
  /\ th' = [th EXCEPT ![t].pc = "clrkey", ![t].vec = vec]
  /\ UNCHANGED <<vec, tab, life, waits>>

ClearReadKey(t) ==
  /\ At(t, "clrkey") /\ Flushed(t)
  /\ th' = [th EXCEPT ![t].pc = "clrput", ![t].kobj = This(t).key]
  /\ UNCHANGED <<vec, limit, lock, tab, life, waits>>

ClearFreeKey(t) ==
  /\ At(t, "clrput")
  /\ Write(t, th[t].ix, [This(t) EXCEPT !.key = FREE])
  /\ Goto(t, "clrval")
  /\ UNCHANGED <<vec, limit, lock, life, waits>>

ClearFreeValue(t) ==
  LET s == This(t)
      next == th[t].ix + 1
  IN  /\ At(t, "clrval")
      /\ Memory({}, {}, Only(th[t].kobj) \cup Only(s.val), {})
      /\ Scrub([tab EXCEPT ![th[t].vec].slot[th[t].ix] =
                  [s EXCEPT !.val = FREE, !.x = FALSE]])
      /\ \E o \in {Null} \cup Only(s.val) :
           th' = [th EXCEPT
             ![t].pc = IF next < Size(th[t].vec) THEN "clrkey" ELSE "clrlimit",
             ![t].ix = IF next < Size(th[t].vec) THEN next ELSE 0,
             ![t].kobj = Null, ![t].own = o]
      /\ UNCHANGED <<vec, limit, lock>>

(* The limit is computed from the number of elements there were.           *)
ClearSetLimit(t) ==
  /\ At(t, "clrlimit") /\ Flushed(t)
  /\ limit' = Fsize(tab[vec].n)
  /\ Goto(t, "clrcount")
  /\ UNCHANGED <<vec, lock, tab, life, waits>>

ClearDone(t) ==
  /\ At(t, "clrcount")
  /\ lock' = Null
  /\ Done(t, {}, {}, [tab EXCEPT ![vec].n = 0])
  /\ UNCHANGED <<vec, limit>>

-----------------------------------------------------------------------------
(* Iterators.                                                              *)

WalkStart(t) ==
  /\ Call(t, [Rest EXCEPT !.op = "walk", !.pc = "walk", !.vec = vec])
  /\ UNCHANGED <<tab, life, waits>>

WalkKey(t) ==
  /\ At(t, "walk") /\ th[t].ix < Size(th[t].vec)
  /\ th' = IF This(t).key = FREE THEN [th EXCEPT ![t].ix = @ + 1]
           ELSE [th EXCEPT ![t].pc = "walkval", ![t].word = This(t).key]
  /\ UNCHANGED <<vec, limit, lock, tab, life, waits>>

(* Mutant: the bit is left in the values, which are then skipped.          *)
WalkBarred(t) ==
  LET s == This(t) IN
  /\ At(t, "walkval")
  /\ th' = [th EXCEPT
       ![t].pc = "walk", ![t].ix = @ + 1, ![t].word = Null,
       ![t].met = IF s.val \in Word \/ s.x THEN @ ELSE @ \cup {th[t].word[1]}]
  /\ UNCHANGED <<vec, limit, lock, tab, life, waits>>

WalkValue(t) ==
  /\ At(t, "walkval")
  /\ th' = [th EXCEPT
       ![t].pc = "walk", ![t].ix = @ + 1, ![t].word = Null,
       ![t].met = IF This(t).val \in Word THEN @ ELSE @ \cup {th[t].word[1]}]
  /\ UNCHANGED <<vec, limit, lock, tab, life, waits>>

WalkEnd(t) ==
  /\ At(t, "walk") /\ th[t].ix = Size(th[t].vec)
  /\ Done(t, {}, {}, tab)
  /\ UNCHANGED <<vec, limit, lock>>

-----------------------------------------------------------------------------
(* What a find or an erase was for may have had several values meanwhile,  *)
(* each of which is a right answer; a walk must meet the keys that were    *)
(* there all the time.                                                     *)
Earlier(t) == IF At(t, "idle") THEN {} ELSE seen[t]

Observe ==
  LET map == Contents(vec)' IN
  seen' = [t \in Thread |->
    CASE th'[t].op = "find" -> Earlier(t) \cup {map[th'[t].key]}
      [] th'[t].op = "erase" -> Earlier(t) \cup ({map[th'[t].key]} \cap {Null})
      [] th'[t].op = "walk" ->
           {k \in IF At(t, "idle") THEN Key ELSE seen[t] : map[k] # Null}
      [] OTHER -> {}]

Start(t) ==
  \/ \E k \in Key : LookupStart(t, k) \/ InsertStart(t, k) \/ AssignStart(t, k)
  \/ ClearStart(t) \/ WalkStart(t)

Proceed(t) ==
  \/ ProbeFree(t) \/ ProbeMatch(t) \/ ProbeNext(t) \/ FindValue(t) \/ Answer(t)
  \/ PutValue(t) \/ UpdateInPlace(t) \/ SwapValue(t)
  \/ DecrLimit(t) \/ PutWait(t) \/ FillSlot(t) \/ StoreFails(t) \/ CountUp(t)
  \/ OldKey(t) \/ OldValue(t) \/ TakeValue(t) \/ TakeFails(t) \/ CountDown(t)
  \/ Bury(t)
  \/ NoRehash(t) \/ RehashStart(t) \/ OutOfMemory(t) \/ CopyKey(t) \/ CopyValue(t)
  \/ SetLimit(t) \/ Install(t)
  \/ AssignAcquire(t) \/ Mark(t) \/ AssignLimit(t) \/ AssignInstall(t)
  \/ ClearAcquire(t) \/ ClearReadKey(t) \/ ClearFreeKey(t) \/ ClearFreeValue(t)
  \/ ClearSetLimit(t) \/ ClearDone(t)
  \/ WalkKey(t) \/ WalkValue(t) \/ WalkEnd(t)

Next ==
  /\ \E t \in Thread : Start(t) \/ Proceed(t)
  /\ Observe
  /\ UNCHANGED role

Spec == Init /\ [][Next]_vars

-----------------------------------------------------------------------------
(* Properties.                                                             *)

(* Two objects with the same key are never in one vector, whoever inserts, *)
(* erases and copies: what find meets first is the value of the key, and   *)
(* erase leaves none behind (_Upsert, _Erase, _Rehash).                    *)
OneSlotPerKey ==
  \A w \in Vector : \A i, j \in DOMAIN tab[w].slot :
    LET a == tab[w].slot[i].key
        b == tab[w].slot[j].key
    IN  i # j /\ a \notin Word /\ b \notin Word => a[1] # b[1]

Used(w) == {i \in DOMAIN tab[w].slot : tab[w].slot[i].key # FREE}
Using(l) == {t \in Thread : At(t, l) /\ th[t].vec = vec}

(* grow_limit is never too big: the slots in use, those about to be filled *)
(* by who has decremented it, and those it still allows leave the share of *)
(* free slots that ends every probe.  What the comment in _Upsert fears of *)
(* giving back a decrement.                                                *)
RoomLeft ==
  (\A t \in Thread : ~At(t, "install")) =>
    Cardinality(Used(vec)) + Cardinality(Using("dcas"))
      + (IF limit > 0 THEN limit ELSE 0) <= Fsize(Size(vec))

(* nelems of the vector in use is the number of its live pairs but for the *)
(* calls that are about to count: through rehashes, where additions to the *)
(* old vector may come after the pairs were counted again.                 *)
NelemsExact ==
  (\A t \in Thread : th[t].op # "clear") =>
    tab[vec].n + Cardinality(Using("count")) - Cardinality(Using("uncount"))
      = Cardinality(LiveSlots(vec))

(* No call meets a vector, a key or a value that was destroyed, however    *)
(* old the vector that it has loaded; and nothing is finalized twice,      *)
(* whether it was erased, replaced or dropped with its vector: that would  *)
(* link it twice in a list of finalizers.                                  *)
NoUseAfterDestroy ==
  /\ \A t \in Thread : th[t].vec # Null =>
       /\ life[th[t].vec] # "gone"
       /\ InCs(t) => \A i \in DOMAIN tab[th[t].vec].slot :
            \A o \in Only(tab[th[t].vec].slot[i].key) : life[o] # "gone"
       /\ \A o \in Only(th[t].word) : life[o] # "gone"
  /\ \A o \in Obj : life[o] # "twice"

(* find answers a value that its key had at some moment of the call, or    *)
(* that it is absent if it was so at some moment, and so does an erase     *)
(* that finds nothing, be it in a vector that was replaced meanwhile.      *)
AnswersAreCurrent == \A t \in Thread : At(t, "answer") => th[t].word \in seen[t]

(* An iterator meets every key that is there from its creation to its end, *)
(* though the vector it walks may have been replaced (test_iter).          *)
WalkMeetsAll ==
  \A t \in Thread :
    At(t, "walk") /\ th[t].ix = Size(th[t].vec) => seen[t] \subseteq th[t].met

(* The table is a map: each call changes the value of its own key, once    *)
(* and at one instant, and says rightly if the key was there; no rehash,   *)
(* and nothing else, changes any.                                          *)
Outcome(t) ==
  CASE At(t, "count") -> "new"
    [] th[t].pc \in {"uncount", "bury"} -> "erased"
    [] OTHER -> "pending"

Map ==
  INSTANCE AbstractMap WITH
    Value <- ValObj, None <- Null,
    map <- Contents(vec),
    call <- [t \in Thread |->
      IF th[t].op \in {"insert", "update", "erase", "clear", "assign"}
        THEN [op |-> th[t].op, key |-> th[t].key, res |-> Outcome(t)]
        ELSE [op |-> "none", key |-> Null, res |-> "none"]]

ImplementsMap == Map!Spec
=============================================================================
