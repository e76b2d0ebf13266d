------------------------------- MODULE Queue --------------------------------
(* The queue of src/queue.cpp and xrcu/queue.hpp: an array whose cells are *)
(* filled and emptied by compare-and-swap between two indices that follow, *)
(* and that is replaced, once full, by one twice as long.  A bit, XBIT, is *)
(* set in every cell of an array that is being replaced, and keeps others  *)
(* out of it.                                                              *)
(*                                                                         *)
(* One step is one access to the pointer to the array, to an index or to a *)
(* cell.  RCU is what GracePeriod says it is.  Values are numbered in the  *)
(* order in which clients make them, after which come those that were in   *)
(* the queue to begin with.                                                *)
EXTENDS Integers, Sequences, FiniteSets, Functions

CONSTANTS
  Thread,
  Cap,          \* the capacity of a first array: 8 in the code
  Initial,      \* how many values may have been pushed to begin with
  MaxValues,    \* bound on the values that clients make
  MaxPops,      \* bound on the calls of pop
  Ranges,       \* the lengths of the ranges that are assigned
  Pushers, Poppers, Replacers, Readers,  \* who calls what
  AllocFails,   \* may the allocation of an array fail?
  ClearAlone    \* do clients keep others out while they clear?

ASSUME QueueAssumption ==
  /\ Cap \in Nat \ {0} /\ MaxPops \in Nat
  /\ MaxValues \in Nat /\ Initial \subseteq 0..Cap
  /\ Ranges \subseteq 1..MaxValues
  /\ AllocFails \in BOOLEAN /\ ClearAlone \in BOOLEAN

VARIABLES
  arrays,  \* the arrays made so far, in the order they were installed
  impl,    \* queue::impl: the last one
  th,      \* the local variables of each thread
  made,    \* the number of values made
  pops,    \* the number of calls of pop
  seen     \* history: what a thread's call may still answer, see Observe

vars == <<arrays, impl, th, made, pops, seen>>

(* Cells hold a value or one of two other words, and the bit.              *)
FREE == 0
DELT == -1
Value == 1..MaxValues + Cap
Word(v) == [v |-> v, x |-> FALSE]

(* q_data::make, with the values q in the first cells.  The cell after the *)
(* last is never written.                                                  *)
Make(cap, q, wr) ==
  [cell |-> [i \in 0..cap |-> IF i < Len(q) THEN q[i + 1] ELSE Word(FREE)],
   cap |-> cap, wr |-> wr, rd |-> 0,
   life |-> "live", by |-> {}, waits |-> {}]

(* What the constructor makes of a range: the array that is full is copied *)
(* at once into one twice as long, where wr_idx is yet to be set.          *)
FromRange(q) ==
  LET cap == CHOOSE c \in {Cap * 2^i : i \in 0..MaxValues} :
               c > Len(q) /\ (c = Cap \/ c <= 2 * Len(q))
  IN  Make(cap, q, IF 2 * Len(q) = cap /\ cap > Cap THEN 0 ELSE Len(q))

Label == {"idle", "impl", "pushidx", "pushcell", "pushcas", "pushbump",
          "poprd", "popwr", "popcell", "popcas", "popbump", "popwait",
          "rdix", "mark", "wait", "alloc", "unmark", "sweep", "finalize",
          "install", "wrcap", "rdcap", "wipe", "rdzero", "wrzero",
          "end", "endcell", "answer", "walkrd", "walk"}
Op == {"none", "push", "pop", "assign", "clear", "front", "back", "walk"}

(* op is the call, val what it pushes, arr the array it has loaded, ix an  *)
(* index in it, got a word read from it, out the cells of an array that is *)
(* being made, and met what a walk has met.                                *)
Rest == [pc |-> "idle", op |-> "none", val |-> FREE, arr |-> 0, ix |-> 0,
         got |-> FREE, out |-> <<>>, met |-> {}]

AnyWord == Value \cup {FREE, DELT}
Cell == [v : AnyWord, x : BOOLEAN]

TypeOK ==
  /\ impl \in DOMAIN arrays
  /\ \A a \in DOMAIN arrays :
       /\ arrays[a].cap \in Nat
       /\ arrays[a].cell \in [0..arrays[a].cap -> Cell]
       /\ arrays[a].wr \in 0..arrays[a].cap
       /\ arrays[a].rd \in 0..arrays[a].cap
       /\ arrays[a].life \in {"live", "pending", "retired", "free"}
       /\ arrays[a].by \in SUBSET Thread
       /\ arrays[a].waits \in SUBSET Thread
  /\ th \in [Thread ->
       [pc : Label, op : Op, val : Value \cup {FREE}, arr : 0..Len(arrays),
        ix : Nat, got : AnyWord, out : Seq(Cell), met : SUBSET Value]]
  /\ made \in 0..MaxValues /\ pops \in 0..MaxPops
  /\ seen \in [Thread -> SUBSET (Value \cup {FREE})]

Words(n, k) == [i \in 1..k |-> Word(n + i)]

Init ==
  /\ \E n \in Initial : arrays = <<Make(Cap, Words(MaxValues, n), n)>>
  /\ impl = 1
  /\ th = [t \in Thread |-> Rest]
  /\ made = 0 /\ pops = 0
  /\ seen = [t \in Thread |-> {}]

-----------------------------------------------------------------------------
(* Helpers.                                                                *)

At(t, l) == th[t].pc = l
Goto(t, l) == th' = [th EXCEPT ![t].pc = l]
Retry(t, l) == th' = [th EXCEPT ![t].pc = l, ![t].ix = 0, ![t].got = FREE]
Mine(t) == arrays[th[t].arr]
Here(t) == Mine(t).cell[th[t].ix]

(* The queue at one instant: the cells from rd_idx to the one before n     *)
(* whose value was not popped.                                             *)
Upto(n) ==
  LET a == arrays[impl] IN
  SelectSeq([i \in 1..(n - a.rd) |-> a.cell[a.rd + i - 1].v],
            LAMBDA v : v \in Value)

Items == Upto(arrays[impl].wr)

Call(t, rec) ==
  /\ At(t, "idle")
  /\ ClearAlone => \A u \in Thread :
                     th[u].op # "clear" /\ (rec.op = "clear" => At(u, "idle"))
  /\ th' = [th EXCEPT ![t] = rec]
  /\ UNCHANGED <<arrays, impl>>

(* Where a call goes on once it has loaded impl.                           *)
Entry(op) ==
  CASE op = "push" -> "pushidx"
    [] op = "pop" -> "poprd"
    [] op \in {"assign", "clear"} -> "rdix"
    [] op \in {"front", "back"} -> "end"
    [] op = "walk" -> "walkrd"

(* A call opens its section and loads impl.                                *)
Started(op) == [Rest EXCEPT !.op = op, !.pc = Entry(op), !.arr = impl]

(* Every call, an iterator's life included, is one critical section.       *)
InCs(t) == ~At(t, "idle")

(* The section ends.  Arrays that t has finalized in it can be destroyed   *)
(* when the sections that are open then have ended, as can others by t.    *)
Left(t, as) ==
  [a \in DOMAIN as |->
     IF as[a].life = "pending" /\ t \in as[a].by
       THEN [as[a] EXCEPT !.life = "retired", !.by = {},
                          !.waits = {u \in Thread \ {t} : InCs(u)}]
       ELSE [as[a] EXCEPT !.waits = @ \ {t}]]

Done(t, as) == th' = [th EXCEPT ![t] = Rest] /\ arrays' = Left(t, as)

SetCell(t, w) == [arrays EXCEPT ![th[t].arr].cell[th[t].ix] = w]

(* impl is loaded again by those that have waited or read a popped value.  *)
LoadImpl(t) ==
  /\ At(t, "impl")
  /\ th' = [th EXCEPT ![t].arr = impl, ![t].pc = Entry(th[t].op)]
  /\ UNCHANGED <<arrays, impl, made, pops>>

-----------------------------------------------------------------------------
(* push and emplace.                                                       *)

Push(t) ==
  /\ t \in Pushers /\ made < MaxValues
  /\ Call(t, [Started("push") EXCEPT !.val = made + 1])
  /\ made' = made + 1
  /\ UNCHANGED pops

(* Mutant: the limit is off by one.                                        *)
PushIdxLate(t) ==
  /\ At(t, "pushidx")
  /\ IF Mine(t).wr > Mine(t).cap
       THEN Goto(t, "rdix")
       ELSE th' = [th EXCEPT ![t].ix = Mine(t).wr, ![t].pc = "pushcell"]
  /\ UNCHANGED <<arrays, impl, made, pops>>

PushIdx(t) ==
  /\ At(t, "pushidx")
  /\ IF Mine(t).wr >= Mine(t).cap
       THEN Goto(t, "rdix")
       ELSE th' = [th EXCEPT ![t].ix = Mine(t).wr, ![t].pc = "pushcell"]
  /\ UNCHANGED <<arrays, impl, made, pops>>

PushCell(t) ==
  /\ At(t, "pushcell")
  /\ IF Word(FREE) = Here(t)
       THEN Goto(t, "pushcas")
       ELSE Retry(t, IF Here(t).x THEN "rdix" ELSE "pushidx")
  /\ UNCHANGED <<arrays, impl, made, pops>>

PushCas(t) ==
  /\ At(t, "pushcas")
  /\ IF Here(t) = Word(FREE)
       THEN arrays' = SetCell(t, Word(th[t].val)) /\ Goto(t, "pushbump")
       ELSE UNCHANGED arrays /\ Retry(t, "pushidx")
  /\ UNCHANGED <<impl, made, pops>>

PushBump(t) ==
  /\ At(t, "pushbump")
  /\ Done(t, [arrays EXCEPT ![th[t].arr].wr = @ + 1])
  /\ UNCHANGED <<impl, made, pops>>

-----------------------------------------------------------------------------
(* pop.                                                                    *)

Pop(t) ==
  /\ t \in Poppers /\ pops < MaxPops
  /\ Call(t, Started("pop"))
  /\ pops' = pops + 1
  /\ UNCHANGED made

PopRd(t) ==
  /\ At(t, "poprd")
  /\ th' = [th EXCEPT ![t].ix = Mine(t).rd, ![t].pc = "popwr"]
  /\ UNCHANGED <<arrays, impl, made, pops>>

PopWr(t) ==
  /\ At(t, "popwr")
  /\ IF th[t].ix >= Mine(t).wr THEN Retry(t, "answer") ELSE Goto(t, "popcell")
  /\ UNCHANGED <<arrays, impl, made, pops>>

PopCell(t) ==
  /\ At(t, "popcell")
  /\ IF Here(t).x
       THEN Retry(t, "popwait")
       ELSE IF Here(t).v = DELT
         THEN Retry(t, "poprd")
         ELSE th' = [th EXCEPT ![t].got = Here(t).v, ![t].pc = "popcas"]
  /\ UNCHANGED <<arrays, impl, made, pops>>

(* Mutant: the cell is overwritten without comparing.                      *)
PopStore(t) ==
  /\ At(t, "popcas")
  /\ arrays' = SetCell(t, Word(DELT)) /\ Goto(t, "popbump")
  /\ UNCHANGED <<impl, made, pops>>

PopCas(t) ==
  /\ At(t, "popcas")
  /\ IF Here(t) = Word(th[t].got)
       THEN arrays' = SetCell(t, Word(DELT)) /\ Goto(t, "popbump")
       ELSE UNCHANGED arrays /\ Retry(t, "poprd")
  /\ UNCHANGED <<impl, made, pops>>

PopBump(t) ==
  /\ At(t, "popbump")
  /\ Done(t, [arrays EXCEPT ![th[t].arr].rd = @ + 1])
  /\ UNCHANGED <<impl, made, pops>>

(* An array that is being replaced is waited for.                          *)
PopWait(t) ==
  /\ At(t, "popwait") /\ impl # th[t].arr
  /\ Goto(t, "impl")
  /\ UNCHANGED <<arrays, impl, made, pops>>

-----------------------------------------------------------------------------
(* Replacing the array: _Rearm, for a push that found it full, and         *)
(* _Call_cb, for assign and clear.  The thread that sets the bit of the    *)
(* first cell goes on alone.                                               *)

(* assign makes its array first, in a queue nobody else can see.           *)
Assign(t) ==
  /\ t \in Replacers
  /\ \E k \in Ranges :
       /\ made + k <= MaxValues
       /\ Call(t, [Started("assign") EXCEPT !.out = Words(made, k)])
       /\ made' = made + k
  /\ UNCHANGED pops

Clear(t) ==
  /\ t \in Replacers
  /\ Call(t, Started("clear"))
  /\ UNCHANGED <<made, pops>>

RdIdx(t) ==
  /\ At(t, "rdix")
  /\ th' = [th EXCEPT ![t].ix = Mine(t).rd, ![t].pc = "mark"]
  /\ UNCHANGED <<arrays, impl, made, pops>>

(* Set the bit of a cell and read what it was, in one step.                *)
Bit(t, i) == [arrays EXCEPT ![th[t].arr].cell[i].x = TRUE]

(* What the thread whose bit came first goes on with, and where the others *)
(* start again when they have to: _Rearm stays with its array.             *)
Lead(t) ==
  IF th[t].op = "push"
    THEN th' = [th EXCEPT ![t].pc = "alloc", ![t].got = Here(t).v]
    ELSE Goto(t, "sweep")
Again(t) == IF th[t].op = "push" THEN "rdix" ELSE "impl"

(* Mutant: the cell of a value that is being popped is taken for a lock.   *)
MarkAny(t) ==
  /\ At(t, "mark")
  /\ arrays' = Bit(t, th[t].ix)
  /\ IF Here(t).x THEN Goto(t, "wait") ELSE Lead(t)
  /\ UNCHANGED <<impl, made, pops>>

Mark(t) ==
  /\ At(t, "mark")
  /\ arrays' = Bit(t, th[t].ix)
  /\ IF Here(t).x THEN Goto(t, "wait")
     ELSE IF Here(t).v = DELT THEN Retry(t, Again(t))
     ELSE Lead(t)
  /\ UNCHANGED <<impl, made, pops>>

(* The others wait for the new array, or for the bit to be taken back.     *)
MarkWait(t) ==
  /\ At(t, "wait")
  /\ \/ impl # th[t].arr /\ Retry(t, "impl")
     \/ ~Here(t).x /\ Retry(t, Again(t))
  /\ UNCHANGED <<arrays, impl, made, pops>>

(* _Rearm makes an array twice as long...                                  *)
Alloc(t) ==
  /\ At(t, "alloc")
  /\ \/ th' = [th EXCEPT ![t].pc = "sweep", ![t].out = <<Word(th[t].got)>>]
     \/ AllocFails /\ Goto(t, "unmark")
  /\ UNCHANGED <<arrays, impl, made, pops>>

(* ... or takes its bit back, frees the value and throws.                  *)
Unmark(t) ==
  /\ At(t, "unmark")
  /\ Done(t, SetCell(t, [Here(t) EXCEPT !.x = FALSE]))
  /\ UNCHANGED <<impl, made, pops>>

AfterSweep(t) == IF th[t].op = "clear" THEN "wrcap" ELSE "finalize"

(* Mutant: _Rearm reads the other cells without setting their bits.        *)
SweepRead(t) ==
  LET i == th[t].ix + 1 IN
  /\ At(t, "sweep")
  /\ IF i >= Mine(t).cap
       THEN Goto(t, AfterSweep(t)) /\ UNCHANGED arrays
       ELSE /\ th' = [th EXCEPT ![t].ix = i,
                        ![t].out = IF th[t].op = "push"
                                     THEN Append(@, Mine(t).cell[i]) ELSE @]
            /\ UNCHANGED arrays
  /\ UNCHANGED <<impl, made, pops>>

(* The bits of the other cells are set.  _Rearm copies what they held; the *)
(* others finalize it.                                                     *)
Sweep(t) ==
  LET i == th[t].ix + 1 IN
  /\ At(t, "sweep")
  /\ IF i >= Mine(t).cap
       THEN Goto(t, AfterSweep(t)) /\ UNCHANGED arrays
       ELSE /\ th' = [th EXCEPT ![t].ix = i,
                        ![t].out = IF th[t].op = "push"
                                     THEN Append(@, Mine(t).cell[i]) ELSE @]
            /\ arrays' = Bit(t, i)
  /\ UNCHANGED <<impl, made, pops>>

(* Mutant: as if the finalizer's own section did not count.                *)
FinalizeAtOnce(t) ==
  /\ At(t, "finalize")
  /\ arrays' = [arrays EXCEPT ![th[t].arr].life = "retired",
                  ![th[t].arr].waits = {u \in Thread \ {t} : InCs(u)}]
  /\ Goto(t, "install")
  /\ UNCHANGED <<impl, made, pops>>

(* The old array is finalized while it can still be loaded from impl...    *)
Finalize(t) ==
  /\ At(t, "finalize")
  /\ arrays' = [arrays EXCEPT ![th[t].arr].life = "pending",
                              ![th[t].arr].by = @ \cup {t}]
  /\ Goto(t, "install")
  /\ UNCHANGED <<impl, made, pops>>

(* ... and the new one goes in, with the value that was to be pushed.      *)
Install(t) ==
  LET q == th[t].out
      new == IF th[t].op = "push"
               THEN Make(2 * Mine(t).cap, Append(q, Word(th[t].val)), Len(q) + 1)
               ELSE FromRange(q)
  IN  /\ At(t, "install")
      /\ impl' = Len(arrays) + 1
      /\ Done(t, Append(arrays, new))
      /\ UNCHANGED <<made, pops>>

(* q_base::clear, on an array whose cells all have the bit.                *)
ClearStore(t) ==
  LET Wr(n) == [arrays EXCEPT ![th[t].arr].wr = n]
      Rd(n) == [arrays EXCEPT ![th[t].arr].rd = n]
      i == th[t].ix
  IN  /\ \/ /\ At(t, "wrcap")
            /\ arrays' = Wr(Mine(t).cap) /\ Goto(t, "rdcap")
         \/ /\ At(t, "rdcap")
            /\ arrays' = Rd(Mine(t).cap)
            /\ th' = [th EXCEPT ![t].pc = "wipe", ![t].ix = 0]
         \/ /\ At(t, "wipe") /\ i < Mine(t).cap
            /\ arrays' = SetCell(t, Word(FREE))
            /\ th' = [th EXCEPT ![t].ix = i + 1]
         \/ /\ At(t, "wipe") /\ i = Mine(t).cap
            /\ arrays' = Rd(0) /\ Goto(t, "wrzero")
         \/ /\ At(t, "wrzero")
            /\ Done(t, Wr(0))
      /\ UNCHANGED <<impl, made, pops>>

-----------------------------------------------------------------------------
(* front, back and the iterators.                                          *)

Read(t, op) ==
  /\ t \in Readers
  /\ Call(t, Started(op))
  /\ UNCHANGED <<made, pops>>

(* Mutant: back looks at the cell that is to be written next.              *)
EndIdxNext(t) ==
  /\ At(t, "end")
  /\ th' = [th EXCEPT ![t].pc = "endcell",
              ![t].ix = IF th[t].op = "front" THEN Mine(t).rd ELSE Mine(t).wr]
  /\ UNCHANGED <<arrays, impl, made, pops>>

EndIdx(t) ==
  /\ At(t, "end")
  /\ th' = [th EXCEPT ![t].pc = "endcell",
              ![t].ix = IF th[t].op = "front" THEN Mine(t).rd
                        ELSE IF Mine(t).wr = 0 THEN Mine(t).cap
                        ELSE Mine(t).wr - 1]
  /\ UNCHANGED <<arrays, impl, made, pops>>

EndCell(t) ==
  /\ At(t, "endcell")
  /\ IF Here(t).v = DELT
       THEN Retry(t, "impl")
       ELSE th' = [th EXCEPT ![t].got = Here(t).v, ![t].pc = "answer"]
  /\ UNCHANGED <<arrays, impl, made, pops>>

(* front and back return what they found, pop that it found nothing.       *)
Answer(t) ==
  /\ At(t, "answer")
  /\ Done(t, arrays)
  /\ UNCHANGED <<impl, made, pops>>

WalkRd(t) ==
  /\ At(t, "walkrd")
  /\ th' = [th EXCEPT ![t].ix = Mine(t).rd, ![t].pc = "walk"]
  /\ UNCHANGED <<arrays, impl, made, pops>>

(* Mutant: the bit is not taken off before the comparison.                 *)
WalkMarked(t) ==
  /\ At(t, "walk") /\ th[t].ix < Mine(t).cap
  /\ th' = [th EXCEPT ![t].ix = @ + 1,
              ![t].met = @ \cup (IF Here(t).x THEN {} ELSE {Here(t).v} \cap Value)]
  /\ UNCHANGED <<arrays, impl, made, pops>>

Walk(t) ==
  /\ At(t, "walk") /\ th[t].ix < Mine(t).cap
  /\ th' = [th EXCEPT ![t].ix = @ + 1, ![t].met = @ \cup ({Here(t).v} \cap Value)]
  /\ UNCHANGED <<arrays, impl, made, pops>>

(* The walk has come to the end of its array.                              *)
WalkEnd(t) ==
  /\ At(t, "walk") /\ th[t].ix = Mine(t).cap
  /\ Done(t, arrays)
  /\ UNCHANGED <<impl, made, pops>>

(* safe_destroy of an array.                                               *)
SafeDestroy(a) ==
  /\ arrays[a].life = "retired" /\ arrays[a].waits = {}
  /\ arrays' = [arrays EXCEPT ![a] = [Make(0, <<>>, 0) EXCEPT !.life = "free"]]
  /\ UNCHANGED <<impl, th, made, pops>>

-----------------------------------------------------------------------------

Front(q) == IF q = <<>> THEN FREE ELSE Head(q)
Back(q) == IF q = <<>> THEN FREE ELSE q[Len(q)]

(* The queue for front and back, which do not compare the indices: they    *)
(* see a value when its cell is filled, before its push has made it count. *)
Filled == Upto(arrays[impl].cap)

(* History only: the values that were at the front or at the back at some  *)
(* instant of a call of pop, front or back, FREE if there was none; and    *)
(* the values that have been in the queue since a walk began.              *)
Observe ==
  seen' = [t \in Thread |->
    CASE th'[t].op = "pop" -> seen[t] \cup {Front(Items')}
      [] th'[t].op = "front" -> seen[t] \cup {Front(Items'), Front(Filled')}
      [] th'[t].op = "back" -> seen[t] \cup {Back(Items'), Back(Filled')}
      [] th'[t].op = "walk" /\ At(t, "idle") -> Range(Items')
      [] th'[t].op = "walk" /\ ~At(t, "idle") -> seen[t] \cap Range(Items')
      [] OTHER -> {}]

Step(t) ==
  \/ LoadImpl(t)
  \/ Push(t) \/ PushIdx(t) \/ PushCell(t) \/ PushCas(t) \/ PushBump(t)
  \/ Pop(t) \/ PopRd(t) \/ PopWr(t) \/ PopCell(t) \/ PopCas(t) \/ PopBump(t)
  \/ PopWait(t)
  \/ Assign(t) \/ Clear(t) \/ RdIdx(t) \/ Mark(t) \/ MarkWait(t)
  \/ Alloc(t) \/ Unmark(t) \/ Sweep(t) \/ Finalize(t) \/ Install(t)
  \/ ClearStore(t)
  \/ Read(t, "front") \/ Read(t, "back") \/ Read(t, "walk")
  \/ EndIdx(t) \/ EndCell(t) \/ Answer(t) \/ WalkRd(t) \/ Walk(t) \/ WalkEnd(t)

Next ==
  /\ \/ \E t \in Thread : Step(t)
     \/ \E a \in DOMAIN arrays : SafeDestroy(a)
  /\ Observe

Spec == Init /\ [][Next]_vars

-----------------------------------------------------------------------------
(* Safety.                                                                 *)

(* One thread at a time gets past the first bit of an array, and only in   *)
(* the array that impl leads to: nothing is copied or finalized twice.     *)
Moving(t) ==
  th[t].pc \in {"alloc", "unmark", "sweep", "finalize", "install", "wrcap",
                "rdcap", "wipe", "wrzero"}

OneMover ==
  \A t \in Thread :
    Moving(t) =>
      /\ th[t].arr = impl
      /\ \A u \in Thread \ {t} : ~Moving(u)

(* No thread uses an array that was destroyed, though old arrays are       *)
(* finalized before they are out of reach.                                 *)
NoUseAfterDestroy ==
  \A t \in Thread : th[t].arr # 0 => arrays[th[t].arr].life # "free"

(* What front and back answer, and that there is nothing to pop, was true  *)
(* at some instant of the call.                                            *)
AnswersAreCurrent ==
  \A t \in Thread : At(t, "answer") => th[t].got \in seen[t]

(* A walk meets every value that is in the queue as long as it lasts, even *)
(* when the array is replaced under it.                                    *)
WalkMeetsAll ==
  \A t \in Thread :
    At(t, "walk") /\ th[t].ix = Mine(t).cap => seen[t] \subseteq th[t].met

(* The calls that change the queue, for AbstractQueue.  A push whose cell  *)
(* was filled in an array that has been replaced since went with it.       *)
Outcome(t) ==
  CASE At(t, "unmark") -> "refused"
    [] At(t, "pushbump") /\ th[t].arr # impl -> "swept"
    [] At(t, "popbump") -> "popped"
    [] At(t, "answer") -> "empty"
    [] th[t].op = "clear" /\ th[t].pc \in {"wipe", "wrzero"} -> "done"
    [] OTHER -> "pending"

Argument(t) ==
  IF th[t].op = "push" THEN <<th[t].val>>
  ELSE IF At(t, "popbump") THEN <<th[t].got>>
  ELSE IF th[t].op = "assign" THEN [i \in DOMAIN th[t].out |-> th[t].out[i].v]
  ELSE <<>>

Promise == INSTANCE AbstractQueue WITH
  items <- Items,
  call <- [t \in Thread |->
             IF th[t].op \in {"push", "pop", "assign", "clear"}
               THEN [op |-> th[t].op, arg |-> Argument(t), res |-> Outcome(t)]
               ELSE [op |-> "none", arg |-> <<>>, res |-> "none"]]

ImplementsQueue == Promise!Spec
=============================================================================
