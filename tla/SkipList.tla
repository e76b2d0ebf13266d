------------------------------ MODULE SkipList ------------------------------
(* The skip list of xrcu/skip_list.hpp: nodes sorted by key and linked at  *)
(* one or more levels, where the low bit of a next pointer says that the   *)
(* node it is in was erased at that level, and keeps others from changing  *)
(* the pointer until the node is unlinked.                                 *)
(*                                                                         *)
(* One step is one access to a next pointer, to the head or to the length. *)
(* The head is loaded together with hi_water: while it changes nobody      *)
(* inserts.  Keys are positive numbers.  RCU is what GracePeriod says.     *)
EXTENDS Integers, Sequences, FiniteSets, FiniteSetsExt

CONSTANTS
  Thread, Key,
  Null,
  MaxLevel,  \* SL_MAX_DEPTH
  Copies,    \* bound on the nodes made with one key
  Roots,     \* bound on the roots made
  Roles      \* what there is at first, and who then calls what

(* No thread inserts a key that another erases.                            *)
Apart(calls) ==
  LET Keys(t, op) == {calls[t][i][2] : i \in {j \in DOMAIN calls[t] : calls[t][j][1] = op}}
  IN  \A t, u \in Thread : t # u => Keys(t, "insert") \cap Keys(u, "erase") = {}

ASSUME ListAssumption ==
  /\ Key \subseteq Nat \ {0} /\ IsFiniteSet(Key)
  /\ {MaxLevel, Copies, Roots} \subseteq Nat \ {0}
  /\ \A r \in Roles :
       /\ r.start \in [Key -> 0..MaxLevel]  \* how high each key is linked
       /\ r.top \in 1..MaxLevel             \* bound on the levels drawn
       /\ DOMAIN r.calls = Thread           \* the calls that are to be made
       /\ r.apart = Apart(r.calls)

(* Nodes, by key, and roots, numbered in the order in which they are made. *)
(* Their memory is not used again, so that a use of one that is gone shows.*)
Node == Key \X (1..Copies)
Root == {0} \X (1..Roots)
Obj == Node \cup Root
Level == 0..MaxLevel - 1

VARIABLES
  role,   \* what each thread is still to call
  head,   \* skip_list::head
  hi,     \* skip_list::hi_water
  next,   \* sl_node_impl::next, a pointer and a mark for each level
  len,    \* the length word of each root
  life,   \* where each object is between its allocation and its destruction
  waits,  \* the sections that hold up the destruction of a retired object
  th,     \* the local variables of each thread
  seen    \* history: what a thread's call may still answer, see Observe

vars == <<role, head, hi, next, len, life, waits, th, seen>>

Ptr == Node \cup {Null}
To(n) == [ptr |-> n, x |-> FALSE]
KeyOf(o) == o[1]
NoLinks == [l \in Level |-> To(Null)]

Label == {"idle", "descend", "scan", "unlink", "answer", "insert", "linkup",
          "relink", "recas", "check", "count", "bail", "erase", "load", "mark",
          "uncount", "retire", "exchange", "fini", "walk", "walkover"}
Op == {"none", "find", "insert", "erase", "clear", "assign", "move", "walk"}

(* op is the call and key its key; n, mode, pr, it, got and lvl are those  *)
(* of _Find_preds, and then is where the call goes on; preds and succs are *)
(* what it returned.  root is xroot, node the node inserted or erased, up  *)
(* the level to link next, ix the one whose link to set before, word a     *)
(* next pointer that was read, met and over the keys that a walk has met   *)
(* and those it went over.                                                 *)
Rest == [pc |-> "idle", op |-> "none", key |-> Null, n |-> 0, mode |-> "none",
         pr |-> Null, it |-> Null, got |-> FALSE, lvl |-> 0, then |-> "idle",
         preds |-> [l \in Level |-> Null], succs |-> [l \in Level |-> Null],
         root |-> Null, node |-> Null, up |-> 0, ix |-> 0,
         word |-> To(Null), met |-> {}, over |-> {}]

TypeOK ==
  /\ head \in Root /\ hi \in 1..MaxLevel
  /\ \A o \in Obj : \E n \in 1..MaxLevel :
       next[o] \in [0..n - 1 -> [ptr : Ptr, x : BOOLEAN]]
  /\ len \in [Root -> Int]
  /\ life \in [Obj -> {"free", "live", "retired", "gone", "twice"}]
  /\ waits \in [Obj -> SUBSET Thread]
  /\ th \in [Thread ->
       [pc : Label, op : Op, key : Key \cup {Null}, n : 0..MaxLevel,
        mode : {"none", "assist", "force"}, pr : Obj \cup {Null},
        it : Obj \cup {Null}, got : BOOLEAN, lvl : Level, then : Label,
        preds : [Level -> Obj \cup {Null}], succs : [Level -> Ptr],
        root : Root \cup {Null}, node : Ptr, up : 0..MaxLevel,
        ix : 0..MaxLevel, word : [ptr : Ptr, x : BOOLEAN],
        met : SUBSET Node, over : SUBSET Node]]
  /\ seen \in [Thread -> SUBSET Ptr]

-----------------------------------------------------------------------------
(* Lists.                                                                  *)

(* The links of a list that holds the nodes of nodes, each with the height *)
(* that height gives its key.                                              *)
Links(root, nodes, height) ==
  LET After(o, l) ==
        {n \in nodes : KeyOf(n) > KeyOf(o) /\ height[KeyOf(n)] > l}
      Nearest(S) == IF S = {} THEN Null
                    ELSE CHOOSE n \in S : \A m \in S : KeyOf(n) <= KeyOf(m)
      Size(o) == IF o = root THEN MaxLevel ELSE height[KeyOf(o)]
  IN  [o \in nodes \cup {root} |->
         [l \in 0..Size(o) - 1 |-> To(Nearest(After(o, l)))]]

(* The nodes linked at a level, from the first on.                         *)
Path(l) ==
  LET made == Cardinality({n \in Node : life[n] # "free"})
      at[i \in 0..made] ==
        LET o == IF i = 0 THEN head ELSE at[i - 1]
        IN  IF o = Null THEN Null ELSE next[o][l].ptr
  IN  {at[i] : i \in 0..made} \ {Null}

Erased(n) == next[n][0].x
Elements == {n \in Path(0) : ~Erased(n)}

(* The map of the keys to the nodes that hold them.                        *)
Contents ==
  [k \in Key |-> LET S == {n \in Elements : KeyOf(n) = k}
                 IN  IF S = {} THEN Null ELSE CHOOSE n \in S : TRUE]

Init ==
  /\ role \in Roles
  /\ head = <<0, 1>>
  /\ hi = Max({1} \cup {role.start[k] : k \in Key})
  /\ LET nodes == {n \in Node : n[2] = 1 /\ role.start[KeyOf(n)] > 0}
         links == Links(head, nodes, role.start)
     IN  /\ next = [o \in Obj |-> IF o \in DOMAIN links THEN links[o] ELSE NoLinks]
         /\ len = [r \in Root |-> IF r = head THEN Cardinality(nodes) ELSE 0]
         /\ life = [o \in Obj |-> IF o \in DOMAIN links THEN "live" ELSE "free"]
  /\ waits = [o \in Obj |-> {}]
  /\ th = [t \in Thread |-> Rest]
  /\ seen = [t \in Thread |-> {}]

-----------------------------------------------------------------------------
(* Helpers.                                                                *)

At(t, l) == th[t].pc = l
Set(t, rec) == th' = [th EXCEPT ![t] = rec]
Link(p, l, w) == next' = [next EXCEPT ![p][l] = w]

(* The calls that replace the list open no section.                        *)
InCs(t) == th[t].op \in {"find", "insert", "erase", "walk"}

(* Objects are allocated with their links, freed at once, or finalized; t  *)
(* may be leaving its section.  A retired object is destroyed once no      *)
(* section is left of those that were open when it was finalized.          *)
Memory(links, freed, retired, left) ==
  LET open == {u \in Thread \ left : InCs(u)}
      W(o) == IF o \in retired THEN open ELSE waits[o] \ left
  IN  /\ life' = [o \in Obj |->
           CASE o \in DOMAIN links -> "live"
             [] o \in freed -> "gone"
             [] o \in retired /\ life[o] # "live" -> "twice"
             [] o \in retired \/ life[o] = "retired" ->
                  IF W(o) = {} THEN "gone" ELSE "retired"
             [] OTHER -> life[o]]
      /\ waits' = [o \in Obj |-> W(o)]
      /\ next' = [o \in Obj |->
           IF o \in DOMAIN links THEN links[o]
           ELSE IF life'[o] = "gone" THEN NoLinks ELSE next[o]]

NoObj == [o \in {} |-> NoLinks]

Fresh(S) == LET free == {o \in S : life[o] = "free"} IN
            IF free = {} THEN {} ELSE {CHOOSE o \in free : TRUE}

Call(t, op) ==
  /\ At(t, "idle") /\ role.calls[t] # <<>> /\ Head(role.calls[t])[1] = op
  /\ role' = [role EXCEPT !.calls[t] = Tail(@)]

Arg(t) == Head(role.calls[t])[2]

Started(t, op) == [Rest EXCEPT !.op = op, !.key = Arg(t)]

Done(t, retired) ==
  /\ Set(t, Rest)
  /\ Memory(NoObj, {}, retired, {t})
  /\ UNCHANGED <<role, head, hi>>

-----------------------------------------------------------------------------
(* _Find_preds.                                                            *)

(* It begins at the highest level used; outp is an argument of the first   *)
(* search of a call only.                                                  *)
SearchFrom(rec, high, n, mode, then) ==
  [rec EXCEPT !.pc = "descend", !.n = n, !.mode = mode, !.then = then,
              !.pr = head, !.it = Null, !.got = FALSE, !.lvl = high - 1,
              !.word = To(Null),
              !.root = IF then \in {"insert", "erase"} THEN head ELSE @]

Search(rec, n, mode, then) == SearchFrom(rec, hi, n, mode, then)

Restart(t) == Search(th[t], th[t].n, th[t].mode, th[t].then)

(* The end of a level; after the last one the call goes on, with the node  *)
(* that was found in it.                                                   *)
NextLevel(rec) ==
  IF rec.lvl > 0 THEN [rec EXCEPT !.pc = "descend", !.lvl = @ - 1]
  ELSE [rec EXCEPT !.pc = rec.then, !.pr = Null, !.got = FALSE,
                   !.it = IF rec.got THEN @ ELSE Null]

LevelDone(rec) ==
  NextLevel(IF rec.mode # "assist" THEN rec
            ELSE [rec EXCEPT !.preds[rec.lvl] = rec.pr, !.succs[rec.lvl] = rec.it])

(* The search is at it, whose pointer is to be looked at, or at the end.   *)
Reach(rec, it) ==
  LET r == [rec EXCEPT !.it = it, !.word = To(Null)]
  IN  IF it = Null THEN LevelDone(r) ELSE [r EXCEPT !.pc = "scan"]

Unshared == UNCHANGED <<role, head, hi, next, len, life, waits>>

Descend(t) ==
  LET w == next[th[t].pr][th[t].lvl] IN
  /\ At(t, "descend")
  /\ \/ /\ w = To(Null) /\ th[t].lvl >= th[t].n
        /\ Set(t, NextLevel(th[t]))
     \/ /\ w.x
        /\ Set(t, Restart(t))
     \/ /\ ~w.x /\ (w.ptr # Null \/ th[t].lvl < th[t].n)
        /\ Set(t, Reach(th[t], w.ptr))
  /\ Unshared

(* The node is in the list: the search stops, or goes on behind it.  got   *)
(* keeps its value when the key is smaller.                                *)
Scan(t) ==
  LET rec == th[t]
      w == next[rec.it][rec.lvl]
      found == rec.mode # "force" /\ KeyOf(rec.it) = rec.key
  IN  /\ At(t, "scan") /\ ~w.x
      /\ \/ /\ KeyOf(rec.it) > rec.key
            /\ Set(t, LevelDone(rec))
         \/ /\ found
            /\ Set(t, LevelDone([rec EXCEPT !.got = TRUE]))
         \/ /\ KeyOf(rec.it) <= rec.key /\ ~found
            /\ Set(t, Reach([rec EXCEPT !.pr = rec.it, !.got = FALSE], w.ptr))
      /\ Unshared

(* Mutant: the mark at the key is not heeded.                              *)
ScanErasedFinds(t) ==
  LET w == next[th[t].it][th[t].lvl] IN
  /\ At(t, "scan") /\ w.x
  /\ \/ /\ th[t].mode = "none" \/ KeyOf(th[t].it) = th[t].key
        /\ Set(t, IF KeyOf(th[t].it) = th[t].key
                    THEN LevelDone([th[t] EXCEPT !.got = TRUE])
                  ELSE Reach(th[t], w.ptr))
     \/ /\ th[t].mode # "none" /\ KeyOf(th[t].it) # th[t].key
        /\ Set(t, [th[t] EXCEPT !.pc = "unlink", !.word = To(w.ptr)])
  /\ Unshared

(* It was erased: who only looks skips it, who changes links unlinks it.   *)
ScanErased(t) ==
  LET w == next[th[t].it][th[t].lvl] IN
  /\ At(t, "scan") /\ w.x
  /\ \/ /\ th[t].mode = "none"
        /\ Set(t, Reach(th[t], w.ptr))
     \/ /\ th[t].mode # "none"
        /\ Set(t, [th[t] EXCEPT !.pc = "unlink", !.word = To(w.ptr)])
  /\ Unshared

Unlink(t) ==
  LET rec == th[t]
      w == next[rec.pr][rec.lvl]
  IN  /\ At(t, "unlink")
      /\ \/ /\ w = To(rec.it)
            /\ Link(rec.pr, rec.lvl, rec.word)
            /\ Set(t, Reach(rec, rec.word.ptr))
         \/ /\ w # To(rec.it) /\ w.x
            /\ Set(t, Restart(t))
            /\ UNCHANGED next
         \/ /\ w # To(rec.it) /\ ~w.x
            /\ Set(t, Reach(rec, w.ptr))
            /\ UNCHANGED next
      /\ UNCHANGED <<role, head, hi, len, life, waits>>

-----------------------------------------------------------------------------
(* find and contains.                                                      *)

FindStart(t) ==
  /\ Call(t, "find")
  /\ Set(t, Search(Started(t, "find"), 0, "none", "answer"))
  /\ UNCHANGED <<head, hi, next, len, life, waits>>

Answer(t) ==
  /\ At(t, "answer")
  /\ Done(t, {})
  /\ UNCHANGED len

-----------------------------------------------------------------------------
(* _Insert.                                                                *)

(* Mutant: hi_water is raised to one more than the level drawn.            *)
DrawTooHigh(t, rec) ==
  \E lvl \in 1..role.top :
    /\ hi' = IF lvl >= hi THEN hi + 1 ELSE hi
    /\ LET n == IF lvl >= hi THEN hi ELSE lvl
       IN  Set(t, SearchFrom(rec, hi', n, "assist", "insert"))

(* rand_lvl draws a level, which raises hi_water and is cut to what that   *)
(* was; then the list is searched.                                         *)
Draw(t, rec) ==
  \E lvl \in 1..role.top :
    /\ hi' = IF lvl > hi THEN hi + 1 ELSE hi
    /\ LET n == IF lvl > hi THEN hi ELSE lvl
       IN  Set(t, SearchFrom(rec, hi', n, "assist", "insert"))

InsertStart(t) ==
  /\ Call(t, "insert")
  /\ Draw(t, Started(t, "insert"))
  /\ UNCHANGED <<head, next, len, life, waits>>

InsertFinds(t) ==
  /\ At(t, "insert") /\ th[t].it # Null
  /\ Done(t, {})
  /\ UNCHANGED len

Upwards(rec, lvl) ==
  [rec EXCEPT !.up = lvl, !.it = Null, !.pc = IF lvl < rec.n THEN "linkup" ELSE "check"]

(* Mutant: the node is linked whatever the predecessor has come to lead to.*)
LinkBottomBlindly(t) ==
  LET rec == th[t] IN
  /\ At(t, "insert") /\ rec.it = Null
  /\ ~next[rec.preds[0]][0].x
  /\ \E n \in Fresh({rec.key} \X (1..Copies)) :
       /\ Set(t, Upwards([rec EXCEPT !.node = n], 1))
       /\ life' = [life EXCEPT ![n] = "live"]
       /\ next' = [next EXCEPT ![n] = [l \in 0..rec.n - 1 |-> To(rec.succs[l])],
                               ![rec.preds[0]][0] = To(n)]
  /\ UNCHANGED <<role, head, hi, len, waits>>

(* The node is made, with its links, and linked at the bottom.             *)
LinkBottom(t) ==
  LET rec == th[t] IN
  /\ At(t, "insert") /\ rec.it = Null
  /\ next[rec.preds[0]][0] = To(rec.succs[0])
  /\ \E n \in Fresh({rec.key} \X (1..Copies)) :
       /\ Set(t, Upwards([rec EXCEPT !.node = n], 1))
       /\ life' = [life EXCEPT ![n] = "live"]
       /\ next' = [next EXCEPT ![n] = [l \in 0..rec.n - 1 |-> To(rec.succs[l])],
                               ![rec.preds[0]][0] = To(n)]
  /\ UNCHANGED <<role, head, hi, len, waits>>

(* The node is freed again, unseen, and the call starts over.              *)
LinkBottomFails(t) ==
  LET rec == th[t] IN
  /\ At(t, "insert") /\ rec.it = Null
  /\ next[rec.preds[0]][0] # To(rec.succs[0])
  /\ Draw(t, [Rest EXCEPT !.op = "insert", !.key = rec.key])
  /\ UNCHANGED <<role, head, next, len, life, waits>>

LinkUpper(t) ==
  LET rec == th[t] IN
  /\ At(t, "linkup")
  /\ next[rec.preds[rec.up]][rec.up] = To(rec.succs[rec.up])
  /\ Link(rec.preds[rec.up], rec.up, To(rec.node))
  /\ Set(t, Upwards(rec, rec.up + 1))
  /\ UNCHANGED <<role, head, hi, len, life, waits>>

LinkUpperFails(t) ==
  LET rec == th[t] IN
  /\ At(t, "linkup")
  /\ next[rec.preds[rec.up]][rec.up] # To(rec.succs[rec.up])
  /\ Set(t, Search([rec EXCEPT !.ix = rec.up], rec.n, "assist", "relink"))
  /\ Unshared

(* The links of the node that is not linked yet follow what the new search *)
(* has found.                                                              *)
RelinkNext(rec) ==
  IF rec.ix + 1 < rec.n
    THEN [rec EXCEPT !.pc = "relink", !.ix = @ + 1, !.word = To(Null)]
    ELSE [rec EXCEPT !.pc = "linkup", !.ix = 0, !.word = To(Null), !.it = Null]

Relink(t) ==
  LET rec == th[t]
      w == next[rec.node][rec.ix]
  IN  /\ At(t, "relink")
      /\ Set(t, IF w = To(rec.succs[rec.ix]) THEN RelinkNext(rec)
                ELSE [rec EXCEPT !.pc = "recas", !.word = w])
      /\ Unshared

(* Another thread erases the node: it is unlinked, and insert gives up.    *)
BailOut(rec) == Search(rec, 0, "force", "bail")

Recas(t) ==
  LET rec == th[t]
      w == next[rec.node][rec.ix]
  IN  /\ At(t, "recas")
      /\ IF w = rec.word THEN Link(rec.node, rec.ix, To(rec.succs[rec.ix]))
         ELSE UNCHANGED next
      /\ Set(t, IF w.x THEN BailOut(rec) ELSE RelinkNext(rec))
      /\ UNCHANGED <<role, head, hi, len, life, waits>>

Check(t) ==
  LET rec == th[t] IN
  /\ At(t, "check")
  /\ Set(t, IF next[rec.node][rec.n - 1].x THEN BailOut(rec)
            ELSE [rec EXCEPT !.pc = "count"])
  /\ Unshared

InsertBails(t) ==
  /\ At(t, "bail")
  /\ Done(t, {})
  /\ UNCHANGED len

CountUp(t) ==
  /\ At(t, "count")
  /\ len' = [len EXCEPT ![th[t].root] = @ + 1]
  /\ Done(t, {})

-----------------------------------------------------------------------------
(* _Erase.                                                                 *)

EraseStart(t) ==
  /\ Call(t, "erase")
  /\ Set(t, Search(Started(t, "erase"), hi, "none", "erase"))
  /\ UNCHANGED <<head, hi, next, len, life, waits>>

EraseNothing(t) ==
  /\ At(t, "erase") /\ th[t].it = Null
  /\ Done(t, {})
  /\ UNCHANGED len

(* Mutant: only the link at the bottom is marked.                          *)
LoadBottom(t) ==
  LET rec == th[t] IN
  /\ At(t, "erase") /\ rec.it # Null
  /\ Set(t, [rec EXCEPT !.pc = "mark", !.node = rec.it, !.it = Null, !.lvl = 0,
                        !.word = next[rec.it][0]])
  /\ Unshared

(* The links of the node are marked from the top to the bottom.            *)
Load(t) ==
  LET rec == th[t]
      n == IF At(t, "erase") THEN rec.it ELSE rec.node
      lvl == IF At(t, "erase") THEN Cardinality(DOMAIN next[n]) - 1 ELSE rec.lvl
  IN  /\ At(t, "load") \/ (At(t, "erase") /\ rec.it # Null)
      /\ Set(t, [rec EXCEPT !.pc = "mark", !.node = n, !.it = Null, !.lvl = lvl,
                            !.word = next[n][lvl]])
      /\ Unshared

(* Mutant: the node is left for others to unlink.                          *)
MarkedOnly(rec) ==
  IF rec.lvl > 0
    THEN [rec EXCEPT !.pc = "load", !.lvl = @ - 1, !.word = To(Null)]
    ELSE [rec EXCEPT !.pc = "uncount", !.then = "uncount"]

(* Who marks the bottom has erased the key, and makes sure that the node   *)
(* is unlinked.                                                            *)
Marked(rec) ==
  IF rec.lvl > 0
    THEN [rec EXCEPT !.pc = "load", !.lvl = @ - 1, !.word = To(Null)]
    ELSE Search(rec, 0, "force", "uncount")

(* Mutant: the pointer is not read again after a failure.                  *)
MarkStale(t) ==
  LET rec == th[t]
      w == next[rec.node][rec.lvl]
  IN  /\ At(t, "mark") /\ ~w.x
      /\ IF w = rec.word
           THEN /\ Link(rec.node, rec.lvl, [w EXCEPT !.x = TRUE])
                /\ Set(t, Marked(rec))
           ELSE UNCHANGED <<next, th>>
      /\ UNCHANGED <<role, head, hi, len, life, waits>>

Mark(t) ==
  LET rec == th[t]
      w == next[rec.node][rec.lvl]
  IN  /\ At(t, "mark") /\ ~w.x
      /\ \/ /\ w = rec.word
            /\ Link(rec.node, rec.lvl, [w EXCEPT !.x = TRUE])
            /\ Set(t, Marked(rec))
         \/ /\ w # rec.word
            /\ Set(t, [rec EXCEPT !.word = w])
            /\ UNCHANGED next
      /\ UNCHANGED <<role, head, hi, len, life, waits>>

(* Mutant: both have erased the key.                                       *)
MarkedByBoth(t) ==
  /\ At(t, "mark") /\ next[th[t].node][th[t].lvl].x
  /\ Set(t, Marked(th[t])) /\ Unshared

(* Another thread has marked the level: at the bottom it was faster.       *)
MarkedByOther(t) ==
  /\ At(t, "mark") /\ next[th[t].node][th[t].lvl].x
  /\ IF th[t].lvl > 0 THEN Set(t, Marked(th[t])) /\ Unshared
     ELSE Done(t, {}) /\ UNCHANGED len

CountDown(t) ==
  /\ At(t, "uncount")
  /\ len' = [len EXCEPT ![th[t].root] = @ - 1]
  /\ Set(t, [th[t] EXCEPT !.pc = "retire"])
  /\ UNCHANGED <<role, head, hi, next, life, waits>>

Retire(t) ==
  /\ At(t, "retire")
  /\ Done(t, {th[t].node})
  /\ UNCHANGED len

-----------------------------------------------------------------------------
(* clear, assign and move assignment: the head is exchanged.               *)

ClearStart(t) ==
  /\ Call(t, "clear")
  /\ \E r \in Fresh(Root) :
       /\ Memory([o \in {r} |-> NoLinks], {}, {}, {})
       /\ Set(t, [Rest EXCEPT !.op = "clear", !.pc = "exchange", !.root = r])
  /\ UNCHANGED <<head, hi, len>>

(* The other list was filled by its own inserts, the first of which has    *)
(* linked its node at one level.                                           *)
AssignStart(t) ==
  \E op \in {"assign", "move"} :
    /\ Call(t, op)
    /\ \E r \in Fresh(Root), height \in [Arg(t) -> 1..role.top] :
         LET nodes == UNION {Fresh({k} \X (1..Copies)) : k \in Arg(t)}
         IN  /\ Cardinality(nodes) = Cardinality(Arg(t))
             /\ \E k \in Arg(t) : height[k] = 1
             /\ len' = [len EXCEPT ![r] = Cardinality(nodes)]
             /\ Memory(Links(r, nodes, height), {}, {}, {})
             /\ Set(t, [Rest EXCEPT !.op = op, !.pc = "exchange", !.root = r])
    /\ UNCHANGED <<head, hi>>

(* hi_water stays what it was.                                             *)
Exchange(t) ==
  /\ At(t, "exchange")
  /\ head' = th[t].root
  /\ Set(t, [th[t] EXCEPT !.pc = "fini", !.it = head, !.root = Null])
  /\ UNCHANGED <<role, hi, next, len, life, waits>>

(* _Fini_root: what there was, the root included, is finalized; assign     *)
(* destroys it at once.  A null pointer with a mark does not end it.       *)
Fini(t) ==
  LET o == th[t].it
      w == next[o][0]
  IN  /\ At(t, "fini") /\ o # Null
      /\ IF th[t].op = "assign" THEN Memory(NoObj, {o}, {}, {})
         ELSE Memory(NoObj, {}, {o}, {})
      /\ Set(t, IF w = To(Null) THEN Rest ELSE [th[t] EXCEPT !.it = w.ptr])
      /\ UNCHANGED <<role, head, hi, len>>

-----------------------------------------------------------------------------
(* Iterators, made in a section of the client's.                           *)

(* The iterator comes to a node, or to the end.                            *)
Visit(rec, w) ==
  [rec EXCEPT !.pc = "walk", !.it = w.ptr,
              !.met = IF w.ptr = Null THEN @ ELSE @ \cup {w.ptr}]

WalkStart(t) ==
  /\ Call(t, "walk")
  /\ Set(t, Visit([Rest EXCEPT !.op = "walk"], next[head][0]))
  /\ UNCHANGED <<head, hi, next, len, life, waits>>

(* When the node was erased the iterator goes one further, over the node   *)
(* that follows.  If none does, it follows the null pointer.               *)
WalkNext(t) ==
  LET w == next[th[t].it][0] IN
  /\ At(t, "walk") \/ At(t, "walkover")
  /\ th[t].it # Null
  /\ Set(t, IF ~w.x THEN Visit(th[t], w)
            ELSE [th[t] EXCEPT !.pc = "walkover", !.it = w.ptr,
                    !.over = IF w.ptr = Null THEN @ ELSE @ \cup {w.ptr}])
  /\ Unshared

WalkEnd(t) ==
  /\ At(t, "walk") /\ th[t].it = Null
  /\ Done(t, {})
  /\ UNCHANGED len

-----------------------------------------------------------------------------
(* What a search was for may have been in the list and not in it           *)
(* meanwhile, each of which is a right answer; a walk must meet the keys   *)
(* that were there all the time.                                           *)
Earlier(t) == IF At(t, "idle") THEN {} ELSE seen[t]

Observe ==
  LET map == Contents'
      elements == Elements'
  IN  seen' = [t \in Thread |->
        CASE th'[t].then \in {"answer", "insert", "erase"} /\ th'[t].node = Null ->
               Earlier(t) \cup {map[th'[t].key]}
          [] th'[t].op = "walk" ->
               IF At(t, "idle") THEN elements ELSE seen[t] \cap elements
          [] OTHER -> {}]

Step(t) ==
  \/ FindStart(t) \/ InsertStart(t) \/ EraseStart(t)
  \/ ClearStart(t) \/ AssignStart(t) \/ WalkStart(t)
  \/ Descend(t) \/ Scan(t) \/ ScanErased(t) \/ Unlink(t) \/ Answer(t)
  \/ InsertFinds(t) \/ LinkBottom(t) \/ LinkBottomFails(t) \/ LinkUpper(t)
  \/ LinkUpperFails(t) \/ Relink(t) \/ Recas(t) \/ Check(t) \/ InsertBails(t)
  \/ CountUp(t)
  \/ EraseNothing(t) \/ Load(t) \/ Mark(t) \/ MarkedByOther(t) \/ CountDown(t)
  \/ Retire(t)
  \/ Exchange(t) \/ Fini(t) \/ WalkNext(t) \/ WalkEnd(t)

(* Every call has been made, and has returned.                             *)
Finished == \A t \in Thread : At(t, "idle") /\ role.calls[t] = <<>>

Next ==
  \/ (\E t \in Thread : Step(t)) /\ Observe
  \/ Finished /\ UNCHANGED vars

Spec == Init /\ [][Next]_vars

(* Some thread or other is scheduled.                                      *)
FairSpec == Spec /\ WF_vars((\E t \in Thread : Step(t)) /\ Observe)

-----------------------------------------------------------------------------
(* Properties.                                                             *)

(* At each level the links lead to greater keys, so that every search and  *)
(* every walk ends, and only to nodes of that height; and whoever is       *)
(* linked high, and not being erased, is linked at the level below.        *)
Sorted ==
  /\ \A o \in Obj : \A l \in DOMAIN next[o] :
       LET n == next[o][l].ptr IN
       n # Null => KeyOf(n) > KeyOf(o) /\ l \in DOMAIN next[n]
  /\ \A l \in Level \ {0} :
       \A n \in Path(l) : next[n][l].x \/ n \in Path(l - 1)

(* No call meets a node or a root that was destroyed, and none is          *)
(* finalized twice, whoever marks and unlinks it.                          *)
NoUseAfterDestroy ==
  /\ \A t \in Thread :
       LET met == {th[t].pr, th[t].it, th[t].node, th[t].root}
       IN  \A o \in met \ {Null} : life[o] # "gone" \/ ~InCs(t)
  /\ \A o \in Obj : life[o] # "twice"

(* The calls that have linked a node, or erased one, and are still to count.*)
Adding == {t \in Thread : th[t].op = "insert" /\ th[t].node # Null}
Removing == {t \in Thread : th[t].op = "erase" /\ th[t].node # Null
                            /\ (th[t].then = "uncount" /\ ~At(t, "retire"))}
Counted == len[head] + Cardinality(Adding) - Cardinality(Removing)

(* The length is that of the list: size answers with the number of the     *)
(* keys as soon as those that are about to count have counted, whoever     *)
(* marks, unlinks and relinks nodes meanwhile.  Where one thread inserts a *)
(* key that another erases this does not hold: see the README.  There the  *)
(* length may fall short for good, and is never too great.                 *)
LengthExact ==
  /\ role.apart => Counted = Cardinality(Elements)
  /\ Counted <= Cardinality(Elements)

(* A search finds the node that was in the list at some moment of the      *)
(* call, and nothing if there was none at some moment; and a walk meets    *)
(* every key that is there from its beginning to its end, other than those *)
(* it went over because what lay before them was erased.                   *)
AnswersAreCurrent ==
  \A t \in Thread :
    /\ At(t, "answer") \/ At(t, "erase") \/ (At(t, "insert") /\ th[t].it # Null) =>
         th[t].it \in seen[t]
    /\ At(t, "walk") /\ th[t].it = Null => seen[t] \subseteq th[t].met \cup th[t].over

(* The list is lock-free: whichever threads are held up, the steps of the  *)
(* others lead to the end of a call, and so in the end of all.             *)
ProgramsEnd == <>Finished

(* The list is a set of keys: each call adds or takes away its own key, at *)
(* one instant, once, and nothing else changes it.                         *)
Outcome(t) ==
  CASE th[t].op = "insert" /\ th[t].node # Null -> "new"
    [] th[t].op = "erase" /\ th[t].then = "uncount" -> "erased"
    [] OTHER -> "pending"

Map ==
  INSTANCE AbstractMap WITH
    Value <- Node, None <- Null,
    map <- Contents,
    call <- [t \in Thread |->
      CASE th[t].op \in {"insert", "erase", "clear"} ->
             [op |-> th[t].op, key |-> th[t].key, res |-> Outcome(t)]
        [] At(t, "exchange") ->
             [op |-> "assign", key |-> Null, res |-> "pending"]
        [] OTHER -> [op |-> "none", key |-> Null, res |-> "none"]]

ImplementsMap == Map!Spec
=============================================================================
