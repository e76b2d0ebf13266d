---------------------------- MODULE HashTableInv ----------------------------
(* The inductive invariant of the hash table, in parts named for what they *)
(* say.  clear and assign wipe a vector that is in use, and have the table *)
(* for themselves.                                                         *)
EXTENDS HashTable

SlotRec == [key : KeyObj \cup Word, val : ValObj \cup Word, x : BOOLEAN]
TableOf(p) == [slot : [0..Entries[p] - 1 -> SlotRec], pidx : {p}, n : Int]
IsTable(T) == T = NoTable \/ \E p \in DOMAIN Entries : T \in TableOf(p)

Local ==
  [pc : Label, op : Op, key : Key \cup {Null}, vec : Vector \cup {Null},
   ix : Nat, own : ValObj \cup {Null}, kobj : KeyObj \cup Word \cup {Null},
   word : Obj \cup Word \cup {Null}, np : Vector \cup {Null},
   met : SUBSET Key]

(* TypeOK but for the history, where a table is one of a known size.       *)
Types ==
  /\ role \in Roles
  /\ vec \in Vector /\ limit \in Int /\ lock \in Thread \cup {Null}
  /\ tab = [w \in Vector |-> tab[w]] /\ \A w \in Vector : IsTable(tab[w])
  /\ life \in [Obj -> {"free", "live", "retired", "gone", "twice"}]
  /\ waits \in [Obj -> SUBSET Thread]
  /\ th \in [Thread -> Local]

(* What a call may be doing at each place, and what it has then.           *)
Copying == {"copykey", "copyval", "setlimit", "install"}
Clearing == {"clrkey", "clrput", "clrval", "clrlimit", "clrcount"}
Storing == {"probe", "value", "swap", "limit", "dcas", "count", "rehash",
            "wild"} \cup Copying
Erasing == {"probe", "value", "oldval", "take", "uncount", "bury", "answer",
            "rehash"} \cup Copying

Places(op) ==
  {l \in Label :
    \/ op = "none" /\ l = "idle"
    \/ op = "find" /\ l \in {"probe", "value", "answer"}
    \/ op \in {"insert", "update"} /\ l \in Storing
    \/ op = "erase" /\ l \in Erasing
    \/ op = "walk" /\ l \in {"walk", "walkval"}
    \/ op = "clear" /\ l \in Clearing \cup {"acquire"}
    \/ op = "assign" /\ l \in {"acquire", "mark", "install"}}

KeyOps == {"find", "insert", "update", "erase"}
Exclusive(t) == th[t].op \in {"clear", "assign"}
Copier(t) == th[t].pc \in Copying /\ ~Exclusive(t)

CallOK(t) ==
  /\ th[t].pc \in Places(th[t].op)
  /\ th[t].op \in KeyOps => th[t].key \in Key
  /\ th[t].vec = Null <=> th[t].pc \in {"idle", "acquire"}
  /\ th[t].np # Null <=> th[t].op = "assign" \/ th[t].pc \in Copying
  /\ th[t].op = "insert" => th[t].own # Null
  /\ At(t, "dcas") => th[t].own # Null /\ th[t].kobj # Null
  /\ At(t, "swap") => th[t].own # Null /\ th[t].word \in ValObj
  /\ Puts(t) /\ th[t].kobj # Null =>
       th[t].kobj \in KeyObj /\ th[t].kobj[1] = th[t].key
  /\ th[t].op = "update" /\ th[t].pc \notin {"swap", "dcas", "count"} =>
       th[t].own = Null
  /\ th[t].op \notin {"insert", "update", "assign", "clear"} =>
       th[t].own = Null
  /\ th[t].op \in {"find", "walk", "assign"} => th[t].kobj = Null
  /\ th[t].pc \in {"take", "uncount", "bury"} =>
       th[t].word \in ValObj /\ th[t].kobj \in KeyObj
  /\ th[t].pc \in {"oldval", "clrput", "clrval"} => th[t].kobj \in KeyObj \cup Word
  /\ th[t].pc \in {"acquire", "clrkey"} => th[t].kobj = Null
  /\ At(t, "acquire") => th[t].ix = 0
  /\ At(t, "copyval") => th[t].word \in KeyObj \cup Word
  /\ At(t, "walkval") => th[t].word \in KeyObj \cup {DELT}
  /\ th[t].pc \in {"probe", "rehash", "setlimit", "install", "walk", "value",
                   "oldval", "copykey", "limit"}
       \/ Exclusive(t) => th[t].word = Null

CallsOK == \A t \in Thread : CallOK(t)

(* Who clears or assigns is alone.                                         *)
AloneOK ==
  \A t, u \in Thread : Exclusive(t) /\ u # t => At(u, "idle")

(* Who has the lock, and on which vector it works.                         *)
LockOK ==
  /\ \A t \in Thread :
       lock = t <=> th[t].pc \in Copying \cup Clearing \cup {"mark"}
  /\ \A t \in Thread : lock = t => th[t].vec = vec

(* A vector has a table from its making to its destruction.  The one in    *)
(* use is live, those it has replaced wait for the sections that have      *)
(* them, and the one that will replace it is known to its maker alone.     *)
VectorsOK ==
  /\ life[vec] = "live"
  /\ \A w \in Vector :
       /\ life[w] # "twice" /\ (life[w] = "retired" => waits[w] # {})
       /\ tab[w].pidx = 0 <=> life[w] \in {"free", "gone"}
  /\ \A t \in Thread :
       /\ th[t].vec \notin {Null, vec} =>
            life[th[t].vec] = "retired" /\ t \in waits[th[t].vec]
       /\ th[t].np # Null =>
            /\ life[th[t].np] = "live" /\ th[t].np # vec
            /\ \A u \in Thread :
                 /\ th[u].vec # th[t].np
                 /\ u # t => th[u].np # th[t].np

(* The place in a vector that a loop has come to.                          *)
IndexOK ==
  \A t \in Thread : th[t].vec # Null =>
    /\ th[t].ix <= Size(th[t].vec)
    /\ th[t].op \notin {"walk", "assign"} \/ At(t, "walkval") =>
         th[t].ix < Size(th[t].vec)

(* A slot is free of a key and of a value at once, and a value goes before *)
(* its key.                                                                *)
SlotsOK ==
  \A w \in Vector : \A i \in DOMAIN tab[w].slot :
    LET s == tab[w].slot[i] IN
    /\ s.val = FREE => s.key = FREE
    /\ s.key = FREE =>
         \/ s.val = FREE
         \/ \E t \in Thread : At(t, "clrval") /\ w = vec /\ th[t].ix = i
    /\ s.key = DELT => s.val = DELT

(* A probe that has ended at a key ended in a slot in use; who erases has  *)
(* taken the value.                                                        *)
Ended == {"value", "swap", "oldval", "take", "uncount", "bury"}
TakenOK ==
  \A t \in Thread :
    /\ th[t].pc \in Ended => Here(t).key # FREE
    /\ th[t].pc \in {"uncount", "bury"} => Here(t).val = DELT

(* The bit is in the values that the holder of the lock has gone over, and *)
(* in all values of the vectors that were replaced.                        *)
BitsOK ==
  /\ \A i \in DOMAIN tab[vec].slot :
       tab[vec].slot[i].x =
         \E t \in Thread :
           \/ th[t].pc \in {"copykey", "copyval", "mark"} /\ i < th[t].ix
           \/ th[t].pc \in {"setlimit", "install"}
  /\ \A w \in Vector : life[w] = "retired" =>
       \A i \in DOMAIN tab[w].slot : tab[w].slot[i].x
  /\ \A t \in Thread : th[t].np # Null =>
       \A i \in DOMAIN tab[th[t].np].slot :
         LET s == tab[th[t].np].slot[i] IN s = EmptySlot \/ (IsLive(s) /\ ~s.x)

(* The key that a walk has read is there, or was erased.                   *)
WalksOK ==
  \A t \in Thread :
    At(t, "walkval") => This(t).key \in {th[t].word, DELT}

(* What clear has gone over is free.                                       *)
WipedOK ==
  \A t \in Thread : th[t].pc \in Clearing =>
    /\ \A i \in DOMAIN tab[vec].slot :
         i < th[t].ix \/ th[t].pc \in {"clrlimit", "clrcount"} =>
           tab[vec].slot[i] = EmptySlot
    /\ At(t, "clrput") => This(t).key = th[t].kobj
    /\ At(t, "clrval") => This(t).key = FREE

Shape ==
  /\ Types /\ CallsOK /\ LockOK /\ VectorsOK /\ IndexOK /\ SlotsOK
  /\ TakenOK /\ WalksOK
Structure == Shape /\ AloneOK /\ BitsOK /\ WipedOK

-----------------------------------------------------------------------------
(* Probes.                                                                 *)

Probing ==
  {"probe", "value", "swap", "limit", "dcas", "oldval", "take", "uncount", "bury"}

(* A key comes after slots that are in use.                                *)
Chained(w) ==
  \A k \in Key, j \in 0..Size(w) - 1 :
    LET s == tab[w].slot[Pos(k, j, Size(w))] IN
    s.key \notin Word /\ s.key[1] = k =>
      \A l \in 0..j - 1 : tab[w].slot[Pos(k, l, Size(w))].key # FREE

ChainsOK ==
  \A w \in Vector :
    \/ tab[w].pidx = 0 \/ Chained(w)
    \/ \E t \in Thread : th[t].pc \in Clearing /\ w = vec

(* What a probe has passed is in use, and not of its key.                  *)
Passed(t, j) ==
  LET s == tab[th[t].vec].slot[Pos(th[t].key, j, Size(th[t].vec))] IN
  s.key # FREE /\ (s.key # DELT => s.key[1] # th[t].key)

ProbesOK ==
  \A t \in Thread :
    /\ th[t].pc \in Probing => \A j \in 0..th[t].ix - 1 : Passed(t, j)
    /\ th[t].pc \in Ended /\ Here(t).key # DELT => Here(t).key[1] = th[t].key
    /\ th[t].pc \in {"oldval", "take"} => Here(t).key \in {th[t].kobj, DELT}
    /\ th[t].pc \in {"uncount", "bury"} =>
         /\ Here(t).key = th[t].kobj /\ Here(t).val = DELT
         /\ \A u \in Thread \ {t} :
              th[u].pc \in {"uncount", "bury"} /\ th[u].vec = th[t].vec
                => Slot(u) # Slot(t)

(* What the vector that is being made holds was copied.                    *)
CopiesOK ==
  \A t \in Thread : Copier(t) =>
    /\ \A i \in DOMAIN tab[th[t].np].slot :
         LET s == tab[th[t].np].slot[i] IN
         \/ s = EmptySlot
         \/ /\ IsLive(s)
            /\ \E j \in DOMAIN tab[vec].slot :
                 /\ tab[vec].slot[j] = [s EXCEPT !.x = TRUE]
                 /\ th[t].pc \in {"copykey", "copyval"} => j < th[t].ix
    /\ At(t, "copyval") =>
         th[t].word = FREE \/ This(t).key \in {th[t].word, DELT}

SlotsInv == ChainsOK /\ ProbesOK /\ CopiesOK /\ OneSlotPerKey

-----------------------------------------------------------------------------
(* Counts.                                                                 *)

UsedBefore(w, n) == {i \in Used(w) : i < n}
Room(w) == Cardinality(Used(w)) + (IF limit > 0 THEN limit ELSE 0)

(* The vector that is being made has room for what will be copied.         *)
RoomOK ==
  /\ \A w \in Vector : w = vec /\ (\A t \in Thread : ~At(t, "install")) =>
       Room(w) + Cardinality(Using("dcas")) <= Fsize(Size(w))
  /\ \A t \in Thread : Copier(t) =>
       /\ Size(vec) <= Size(th[t].np)
       /\ th[t].pc \in {"copykey", "copyval"} =>
            Cardinality(Used(th[t].np)) <= Cardinality(UsedBefore(vec, th[t].ix))
       /\ At(t, "setlimit") => Cardinality(Used(th[t].np)) <= Cardinality(Used(vec))
       /\ At(t, "install") => Room(th[t].np) <= Fsize(Size(th[t].np))
  /\ \A t \in Thread : th[t].op = "assign" =>
       /\ Cardinality(Used(th[t].np)) = 1
       /\ Cardinality(LiveSlots(th[t].np)) = 1 /\ tab[th[t].np].n = 1
       /\ At(t, "install") => Room(th[t].np) <= Fsize(Size(th[t].np))
  /\ \A w \in Vector : w = vec \/ life[w] = "retired" =>
       Cardinality(Used(w)) < Size(w)

CountOK ==
  /\ NelemsExact
  /\ \A t \in Thread : Copier(t) /\ At(t, "install") =>
       tab[th[t].np].n = Cardinality(LiveSlots(th[t].np))
  /\ \A t \in Thread : th[t].op = "clear" =>
       tab[vec].n \in 0..Size(vec)

Core == Structure /\ RoomOK /\ CountOK

-----------------------------------------------------------------------------
(* Objects.                                                                *)

Elem == KeyObj \cup ValObj
In(o, s) == o \in {s.key, s.val}

(* A slot whose value another vector has is not the owner of its pair.     *)
Owning(s) == ~s.x \/ s.val = DELT
Owner(w, i, o) ==
  /\ i \in DOMAIN tab[w].slot
  /\ Owning(tab[w].slot[i]) /\ In(o, tab[w].slot[i])

(* What a call has made and not stored yet.                                *)
Made(t) == IF Puts(t) /\ ~At(t, "count") THEN {th[t].own, th[t].kobj} ELSE {}
(* What it has taken from a slot and not finalized yet.                    *)
Taken(t) == IF th[t].pc \in {"uncount", "bury"} THEN {th[t].word}
            ELSE IF At(t, "clrval") THEN {th[t].kobj} ELSE {}
Held(t) == Made(t) \cup Taken(t)

(* An object is owned once, and live until then.                           *)
OwnersOK ==
  \A o \in Elem, w \in Vector : \A i \in DOMAIN tab[w].slot :
    Owner(w, i, o) =>
      /\ life[o] = "live"
      /\ \A v \in Vector : \A j \in DOMAIN tab[v].slot :
           Owner(v, j, o) => v = w /\ j = i
      /\ \A t \in Thread : o \notin Held(t)
      /\ \A j \in DOMAIN tab[vec].slot : In(o, tab[vec].slot[j]) =>
           \/ w = vec /\ j = i
           \/ \E t \in Thread : Copier(t) /\ th[t].np = w

HeldOK ==
  \A o \in Elem, t \in Thread : o \in Held(t) =>
    /\ life[o] = "live"
    /\ \A u \in Thread : o \in Held(u) => u = t
    /\ \A j \in DOMAIN tab[vec].slot : ~In(o, tab[vec].slot[j])
    /\ o \in Made(t) =>
         /\ \A w \in Vector : \A i \in DOMAIN tab[w].slot : ~In(o, tab[w].slot[i])
         /\ \A u \in Thread : th[u].word # o

(* What is in the vector in use is live, but for what assign finalizes.    *)
CurrentOK ==
  \A o \in Elem : \A i \in DOMAIN tab[vec].slot :
    In(o, tab[vec].slot[i]) =>
      life[o] = "live" \/ \E t \in Thread : th[t].op = "assign"

(* What a reader may come to waits for it, and so does what it has read.   *)
Keeps(t, o) == life[o] = "live" \/ (life[o] = "retired" /\ t \in waits[o])
ReadersOK ==
  \A o \in Elem, t \in Thread : InCs(t) =>
    \A i \in DOMAIN tab[th[t].vec].slot :
      In(o, tab[th[t].vec].slot[i]) => Keeps(t, o)
WordsOK ==
  \A t \in Thread :
    /\ th[t].word \notin Vector
    /\ \A o \in Elem : th[t].word = o => InCs(t) /\ Keeps(t, o)

(* What is in a slot was made, and nothing is finalized twice.             *)
LivesOK ==
  \A o \in Elem :
    /\ life[o] # "twice"
    /\ \A w \in Vector : \A i \in DOMAIN tab[w].slot :
         In(o, tab[w].slot[i]) => life[o] # "free"

(* An erase that has no key yet has none to free.                          *)
ErasersOK ==
  \A t \in Thread : th[t].op = "erase" =>
    th[t].pc \in {"oldval", "take", "uncount", "bury"} \/ th[t].kobj = Null

MemoryInv ==
  /\ OwnersOK /\ HeldOK /\ CurrentOK /\ ReadersOK /\ WordsOK /\ LivesOK
  /\ ErasersOK
=============================================================================
