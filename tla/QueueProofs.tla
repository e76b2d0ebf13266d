---------------------------- MODULE QueueProofs -----------------------------
(* Proofs about Queue, where clients keep others out while they clear: that*)
(* one thread at a time replaces the array, and that no array is destroyed *)
(* while a call holds it.  The lemmas come in the order of the argument:   *)
(* what each step does to the local variables of its thread, what it does  *)
(* to the arrays, and then one lemma for each part of the invariant of     *)
(* QueueInv.                                                               *)
EXTENDS QueueInv, FiniteSetTheorems, NaturalsInduction, SequenceTheorems,
  WellFoundedInduction, TLAPS

(* The first label of each call.                                           *)
LEMMA EntryFacts ==
  /\ Entry("push") = "pushidx" /\ Entry("pop") = "poprd"
  /\ Entry("assign") = "rdix" /\ Entry("clear") = "rdix"
  /\ Entry("front") = "end" /\ Entry("back") = "end" /\ Entry("walk") = "walkrd"
  BY Zenon DEF Entry

(* What Label lists.                                                       *)
LEMMA LabelFacts ==
  {"idle", "impl", "pushidx", "pushcell", "pushcas", "pushbump", "poprd",
   "popwr", "popcell", "popcas", "popbump", "popwait", "rdix", "mark", "wait",
   "alloc", "unmark", "sweep", "finalize", "install", "wrcap", "rdcap",
   "wipe", "wrzero", "end", "endcell", "answer", "walkrd", "walk"}
    \subseteq Label
  BY DEF Label

(* A thread between two calls.                                             *)
LEMMA RestFacts == Rest.pc = "idle" /\ Rest.op = "none" /\ Rest.arr = 0
  BY DEF Rest

(* The same, as a type.                                                    *)
LEMMA RestLocal == Rest \in Local
  BY DEF Rest, Local, Label, Op, AnyWord

(* A thread that is in a call has an array, and its indices are in range.  *)
LEMMA MineFacts ==
  ASSUME Types, CallsOK, NEW t \in Thread, ~At(t, "idle")
  PROVE  /\ th[t].arr \in 1..impl
         /\ Mine(t) \in Array
         /\ Mine(t).cap \in Nat /\ Mine(t).wr \in 0..Mine(t).cap
         /\ Mine(t).rd \in 0..Mine(t).cap
         /\ Mine(t).cell \in [0..Mine(t).cap -> Cell]
<1>1. th[t].arr \in 0..impl /\ th[t].arr # 0
  BY DEF Types, CallsOK
<1>2. th[t].arr \in 1..impl
  BY <1>1 DEF Types
<1> QED
  <2>1. /\ Mine(t).cap \in Nat /\ Mine(t) \in Array
    BY <1>2 DEF Types, Mine, Array
  <2> QED
    BY <1>2, <2>1 DEF Types, Mine

(* The two parts of a cell.                                                *)
LEMMA CellFacts ==
  ASSUME NEW c \in Cell
  PROVE  c.v \in AnyWord /\ c.x \in BOOLEAN
  BY DEF Cell

(* A call that has just loaded impl.                                       *)
LEMMA StartedLocal ==
  ASSUME impl \in Nat, NEW op \in Op \ {"none"}
  PROVE  Started(op) \in Local /\ Started(op).arr = impl
<1>1. Entry(op) \in Label
  BY EntryFacts, LabelFacts DEF Op
<1> QED
  BY <1>1, RestLocal DEF Started, Local

(* What the end of a section of t makes of an array r.                     *)
LeftArray(t, r, s) ==
  /\ s.cell = r.cell /\ s.cap = r.cap /\ s.wr = r.wr /\ s.rd = r.rd
  /\ r.life = "pending" /\ t \in r.by =>
       /\ s.life = "retired" /\ s.by = {}
       /\ s.waits = {u \in Thread \ {t} : InCs(u)}
  /\ ~(r.life = "pending" /\ t \in r.by) =>
       s.life = r.life /\ s.by = r.by /\ s.waits = r.waits \ {t}

(* An array whose wr_idx was set is one.                                   *)
LEMMA ArrayWr ==
  ASSUME NEW r \in Array, NEW n \in Nat
  PROVE  [r EXCEPT !.wr = n] \in Array
  BY DEF Array

(* So is one whose rd_idx was set,                                         *)
LEMMA ArrayRd ==
  ASSUME NEW r \in Array, NEW n \in Nat
  PROVE  [r EXCEPT !.rd = n] \in Array
  BY DEF Array

(* one that was finalized,                                                 *)
LEMMA ArrayLife ==
  ASSUME NEW r \in Array, NEW l \in Life, NEW b \in SUBSET Thread,
         NEW w \in SUBSET Thread
  PROVE  [r EXCEPT !.life = l, !.by = b, !.waits = w] \in Array
  BY DEF Array

(* and one that waits for fewer threads.                                   *)
LEMMA ArrayWaits ==
  ASSUME NEW r \in Array, NEW w \in SUBSET Thread
  PROVE  [r EXCEPT !.waits = w] \in Array
  BY DEF Array

(* What the end of a section does to the arrays.                           *)
LEMMA LeftFacts ==
  ASSUME NEW t \in Thread, NEW n \in Nat, NEW as \in [1..n -> Array]
  PROVE  /\ Left(t, as) \in [1..n -> Array]
         /\ \A a \in 1..n : LeftArray(t, as[a], Left(t, as)[a])
<1>1. Left(t, as) = [a \in 1..n |->
        IF as[a].life = "pending" /\ t \in as[a].by
          THEN [as[a] EXCEPT !.life = "retired", !.by = {},
                             !.waits = {u \in Thread \ {t} : InCs(u)}]
          ELSE [as[a] EXCEPT !.waits = as[a].waits \ {t}]]
  BY DEF Left
<1>2. \A a \in 1..n : as[a] \in Array /\ as[a].waits \in SUBSET Thread
  BY DEF Array
<1>3. ASSUME NEW a \in 1..n PROVE Left(t, as)[a] \in Array
  <2>1. CASE as[a].life = "pending" /\ t \in as[a].by
    <3>1. /\ "retired" \in Life /\ {} \in SUBSET Thread
          /\ {u \in Thread \ {t} : InCs(u)} \in SUBSET Thread
      BY DEF Life
    <3>2. [as[a] EXCEPT !.life = "retired", !.by = {},
             !.waits = {u \in Thread \ {t} : InCs(u)}] \in Array
      BY <1>2, <3>1, ArrayLife
    <3> QED
      BY <1>1, <2>1, <3>2
  <2>2. CASE ~(as[a].life = "pending" /\ t \in as[a].by)
    <3>1. as[a].waits \ {t} \in SUBSET Thread
      BY <1>2
    <3>2. [as[a] EXCEPT !.waits = as[a].waits \ {t}] \in Array
      BY <1>2, <3>1, ArrayWaits
    <3> QED
      BY <1>1, <2>2, <3>2
  <2> QED
    BY <2>1, <2>2
<1>4. Left(t, as) \in [1..n -> Array]
  BY <1>1, <1>3
<1>5. ASSUME NEW a \in 1..n PROVE LeftArray(t, as[a], Left(t, as)[a])
  BY ZenonT(60), <1>1, <1>2 DEF Array, LeftArray
<1> QED
  BY <1>4, <1>5

(* A step of a thread leaves the local variables of the others alone.      *)
LEMMA OthersSame ==
  ASSUME Types, NEW t \in Thread, Step(t)
  PROVE  \A u \in Thread \ {t} : th'[u] = th[u]
<1>1. CASE LoadImpl(t)
  BY <1>1 DEF Types, LoadImpl
<1>2. CASE Push(t)
  BY <1>2 DEF Types, Push, Call
<1>3. CASE PushIdx(t)
  BY <1>3 DEF Types, PushIdx, Goto
<1>4. CASE PushCell(t)
  BY <1>4 DEF Types, PushCell, Goto, Retry
<1>5. CASE PushCas(t)
  BY <1>5 DEF Types, PushCas, Goto, Retry
<1>6. CASE PushBump(t)
  BY <1>6 DEF Types, PushBump, Done
<1>7. CASE Pop(t)
  BY <1>7 DEF Types, Pop, Call
<1>8. CASE PopRd(t)
  BY <1>8 DEF Types, PopRd
<1>9. CASE PopWr(t)
  BY <1>9 DEF Types, PopWr, Goto, Retry
<1>10. CASE PopCell(t)
  BY <1>10 DEF Types, PopCell, Retry
<1>11. CASE PopCas(t)
  BY <1>11 DEF Types, PopCas, Goto, Retry
<1>12. CASE PopBump(t)
  BY <1>12 DEF Types, PopBump, Done
<1>13. CASE PopWait(t)
  BY <1>13 DEF Types, PopWait, Goto
<1>14. CASE Assign(t)
  BY <1>14 DEF Types, Assign, Call
<1>15. CASE Clear(t)
  BY <1>15 DEF Types, Clear, Call
<1>16. CASE RdIdx(t)
  BY <1>16 DEF Types, RdIdx
<1>17. CASE Mark(t)
  BY <1>17 DEF Types, Mark, Goto, Retry, Again, Lead
<1>18. CASE MarkWait(t)
  BY <1>18 DEF Types, MarkWait, Retry, Again
<1>19. CASE Alloc(t)
  BY <1>19 DEF Types, Alloc, Goto
<1>20. CASE Unmark(t)
  BY <1>20 DEF Types, Unmark, Done
<1>21. CASE Sweep(t)
  BY <1>21 DEF Types, Sweep, Goto
<1>22. CASE Finalize(t)
  BY <1>22 DEF Types, Finalize, Goto
<1>23. CASE Install(t)
  BY <1>23 DEF Types, Install, Done
<1>24. CASE ClearStore(t)
  BY <1>24 DEF Types, ClearStore, Goto, Done
<1>25. CASE \E op \in {"front", "back", "walk"} : Read(t, op)
  BY <1>25 DEF Types, Read, Call
<1>26. CASE EndIdx(t)
  BY <1>26 DEF Types, EndIdx
<1>27. CASE EndCell(t)
  BY <1>27 DEF Types, EndCell, Retry
<1>28. CASE Answer(t)
  BY <1>28 DEF Types, Answer, Done
<1>29. CASE WalkRd(t)
  BY <1>29 DEF Types, WalkRd
<1>30. CASE Walk(t)
  BY <1>30 DEF Types, Walk
<1>31. CASE WalkEnd(t)
  BY <1>31 DEF Types, WalkEnd, Done
<1> QED
  BY <1>1, <1>2, <1>3, <1>4, <1>5, <1>6, <1>7, <1>8, <1>9, <1>10, <1>11,
     <1>12, <1>13, <1>14, <1>15, <1>16, <1>17, <1>18, <1>19, <1>20, <1>21,
     <1>22, <1>23, <1>24, <1>25, <1>26, <1>27, <1>28, <1>29, <1>30, <1>31
  DEF Step

(* The action that leads to each place.                                    *)
LEMMA Enters ==
  ASSUME Types, CallsOK, NEW t \in Thread, Step(t)
  PROVE  LET pc == th'[t].pc IN
         /\ pc = "pushcell" => PushIdx(t)
         /\ pc = "pushcas" => PushCell(t)
         /\ pc = "pushbump" => PushCas(t)
         /\ pc = "popwr" => PopRd(t)
         /\ pc = "popcell" => PopWr(t)
         /\ pc = "popcas" => PopCell(t)
         /\ pc = "popbump" => PopCas(t)
         /\ pc = "mark" => RdIdx(t)
         /\ pc = "alloc" => Mark(t)
         /\ pc = "unmark" => Alloc(t)
         /\ pc = "sweep" => Mark(t) \/ Alloc(t) \/ Sweep(t)
         /\ pc \in {"finalize", "wrcap"} => Sweep(t)
         /\ pc = "install" => Finalize(t)
         /\ pc \in {"rdcap", "wipe", "wrzero"} => ClearStore(t)
         /\ pc = "endcell" => EndIdx(t)
         /\ pc = "answer" => PopWr(t) \/ EndCell(t)
<1>1. LoadImpl(t) => th'[t].pc \in {"pushidx", "poprd", "rdix", "end", "walkrd"}
  BY EntryFacts DEF At, LoadImpl, Types, Local, CallsOK, Op
<1>2. Push(t) => th'[t].pc = "pushidx"
  BY EntryFacts DEF At, Push, Call, Started, Rest, Types, Local
<1>3. PushIdx(t) => th'[t].pc \in {"rdix", "pushcell"}
  BY DEF At, PushIdx, Goto, Types, Local
<1>4. PushCell(t) => th'[t].pc \in {"pushcas", "rdix", "pushidx"}
  BY DEF At, PushCell, Goto, Retry, Types, Local
<1>5. PushCas(t) => th'[t].pc \in {"pushbump", "pushidx"}
  BY DEF At, PushCas, Goto, Retry, Types, Local
<1>6. PushBump(t) => th'[t].pc = "idle"
  BY DEF At, PushBump, Done, Rest, Types, Local
<1>7. Pop(t) => th'[t].pc = "poprd"
  BY EntryFacts DEF At, Pop, Call, Started, Rest, Types, Local
<1>8. PopRd(t) => th'[t].pc = "popwr"
  BY DEF At, PopRd, Types, Local
<1>9. PopWr(t) => th'[t].pc \in {"answer", "popcell"}
  BY DEF At, PopWr, Goto, Retry, Types, Local
<1>10. PopCell(t) => th'[t].pc \in {"popwait", "poprd", "popcas"}
  BY DEF At, PopCell, Retry, Types, Local
<1>11. PopCas(t) => th'[t].pc \in {"popbump", "poprd"}
  BY DEF At, PopCas, Goto, Retry, Types, Local
<1>12. PopBump(t) => th'[t].pc = "idle"
  BY DEF At, PopBump, Done, Rest, Types, Local
<1>13. PopWait(t) => th'[t].pc = "impl"
  BY DEF At, PopWait, Goto, Types, Local
<1>14. Assign(t) => th'[t].pc = "rdix"
  BY EntryFacts DEF At, Assign, Call, Started, Rest, Types, Local
<1>15. Clear(t) => th'[t].pc = "rdix"
  BY EntryFacts DEF At, Clear, Call, Started, Rest, Types, Local
<1>16. RdIdx(t) => th'[t].pc = "mark"
  BY DEF At, RdIdx, Types, Local
<1>17. Mark(t) => th'[t].pc \in {"wait", "rdix", "impl", "alloc", "sweep"}
  BY DEF At, Mark, Goto, Retry, Again, Lead, Types, Local
<1>18. MarkWait(t) => th'[t].pc \in {"impl", "rdix"}
  BY DEF At, MarkWait, Retry, Again, Types, Local
<1>19. Alloc(t) => th'[t].pc \in {"sweep", "unmark"}
  BY DEF At, Alloc, Goto, Types, Local
<1>20. Unmark(t) => th'[t].pc = "idle"
  BY DEF At, Unmark, Done, Rest, Types, Local
<1>21. Sweep(t) => th'[t].pc \in {"sweep", "wrcap", "finalize"}
  BY DEF At, Sweep, Goto, AfterSweep, Types, Local
<1>22. Finalize(t) => th'[t].pc = "install"
  BY DEF At, Finalize, Goto, Types, Local
<1>23. Install(t) => th'[t].pc = "idle"
  BY DEF At, Install, Done, Rest, Types, Local
<1>24. ClearStore(t) => th'[t].pc \in {"rdcap", "wipe", "wrzero", "idle"}
  BY DEF At, ClearStore, Goto, Done, Rest, Types, Local
<1>25. (\E op \in {"front", "back", "walk"} : Read(t, op)) => th'[t].pc \in {"end", "walkrd"}
  BY EntryFacts DEF At, Read, Call, Started, Rest, Types, Local
<1>26. EndIdx(t) => th'[t].pc = "endcell"
  BY DEF At, EndIdx, Types, Local
<1>27. EndCell(t) => th'[t].pc \in {"impl", "answer"}
  BY DEF At, EndCell, Retry, Types, Local
<1>28. Answer(t) => th'[t].pc = "idle"
  BY DEF At, Answer, Done, Rest, Types, Local
<1>29. WalkRd(t) => th'[t].pc = "walk"
  BY DEF At, WalkRd, Types, Local
<1>30. Walk(t) => th'[t].pc = "walk"
  BY DEF At, Walk, Types, Local
<1>31. WalkEnd(t) => th'[t].pc = "idle"
  BY DEF At, WalkEnd, Done, Rest, Types, Local
<1> QED
  BY <1>1, <1>2, <1>3, <1>4, <1>5, <1>6, <1>7, <1>8, <1>9, <1>10, <1>11,
     <1>12, <1>13, <1>14, <1>15, <1>16, <1>17, <1>18, <1>19, <1>20, <1>21,
     <1>22, <1>23, <1>24, <1>25, <1>26, <1>27, <1>28, <1>29, <1>30, <1>31
  DEF Step


(* What a step makes of the local variables of its thread has their types: *)
(* Goto,                                                                   *)
LEMMA GotoTyped ==
  ASSUME th \in [Thread -> Local], NEW t \in Thread, NEW l \in Label, Goto(t, l)
  PROVE  th' \in [Thread -> Local]
  BY DEF Goto, Local

(* Retry, which forgets the index and the word,                            *)
LEMMA RetryTyped ==
  ASSUME th \in [Thread -> Local], NEW t \in Thread, NEW l \in Label, Retry(t, l)
  PROVE  th' \in [Thread -> Local]
<1>0. th[t] \in Local
  OBVIOUS
<1>1. FREE \in AnyWord
  BY DEF AnyWord
<1>2. th' = [th EXCEPT ![t] = [th[t] EXCEPT !.pc = l, !.ix = 0, !.got = FREE]]
  BY DEF Retry
<1>3. [th[t] EXCEPT !.pc = l, !.ix = 0, !.got = FREE] \in Local
  BY <1>0, <1>1 DEF Local
<1> QED
  BY <1>2, <1>3

(* a call that begins,                                                     *)
LEMMA CallTyped ==
  ASSUME th \in [Thread -> Local], NEW t \in Thread, NEW r \in Local,
         th' = [th EXCEPT ![t] = r]
  PROVE  th' \in [Thread -> Local]
  OBVIOUS

(* a word that was read,                                                   *)
LEMMA GotTyped ==
  ASSUME th \in [Thread -> Local], NEW t \in Thread, NEW l \in Label,
         NEW g \in AnyWord, th' = [th EXCEPT ![t].got = g, ![t].pc = l]
  PROVE  th' \in [Thread -> Local]
  BY ZenonT(60) DEF Local

(* an index that was read,                                                 *)
LEMMA IxTyped ==
  ASSUME th \in [Thread -> Local], NEW t \in Thread, NEW l \in Label,
         NEW i \in Nat, th' = [th EXCEPT ![t].ix = i, ![t].pc = l]
  PROVE  th' \in [Thread -> Local]
  BY ZenonT(60) DEF Local

(* a cell that was copied,                                                 *)
LEMMA OutTyped ==
  ASSUME th \in [Thread -> Local], NEW t \in Thread, NEW i \in Nat,
         NEW o \in Seq(Cell), th' = [th EXCEPT ![t].ix = i, ![t].out = o]
  PROVE  th' \in [Thread -> Local]
  BY ZenonT(60) DEF Local

(* and a cell that a walk has passed.                                      *)
LEMMA MetTyped ==
  ASSUME th \in [Thread -> Local], NEW t \in Thread, NEW i \in Nat,
         NEW m \in SUBSET Value,
         \/ th' = [th EXCEPT ![t].ix = i]
         \/ th' = [th EXCEPT ![t].ix = i, ![t].met = m]
  PROVE  th' \in [Thread -> Local]
<1>1. CASE th' = [th EXCEPT ![t].ix = i]
  BY ZenonT(60), <1>1 DEF Local
<1>2. CASE th' = [th EXCEPT ![t].ix = i, ![t].met = m]
  BY ZenonT(60), <1>2 DEF Local
<1> QED
  BY <1>1, <1>2


(* The local variables keep their types.                                   *)
LEMMA ThreadTypes ==
  ASSUME Types, CallsOK, EndsOK, PoppersOK, BarredOK, QueueAssumption,
         NEW t \in Thread, Step(t)
  PROVE  th' \in [Thread -> Local]
<1> DEFINE Typed == th' \in [Thread -> Local]
<1>0. /\ th \in [Thread -> Local] /\ impl \in Nat /\ th[t] \in Local
      /\ th[t].arr \in 0..impl /\ th[t].ix \in Nat /\ th[t].pc \in Label
      /\ th[t].out \in Seq(Cell)
  BY DEF Types, Local
<1>a. ASSUME ~At(t, "idle")
      PROVE  /\ Mine(t).cap \in Nat /\ Mine(t).wr \in 0..Mine(t).cap
             /\ Mine(t).rd \in 0..Mine(t).cap
             /\ Mine(t).cell \in [0..Mine(t).cap -> Cell]
  BY <1>a, MineFacts
<1>b. ASSUME ~At(t, "idle"), th[t].ix <= Mine(t).cap
      PROVE  Here(t) \in Cell /\ Here(t).v \in AnyWord
  BY <1>a, <1>b, <1>0, CellFacts DEF Here
<1>1. CASE LoadImpl(t)
  <2>1. Entry(th[t].op) \in Label
    BY <1>1, <1>0, EntryFacts, LabelFacts DEF LoadImpl, CallsOK, At, Local, Op
  <2> QED
    BY <1>1, <1>0, <2>1 DEF LoadImpl, Local
<1>2. CASE \/ \E op \in Op \ {"none"} : Call(t, Started(op))
           \/ Push(t) \/ Assign(t)
  <2>1. CASE \E op \in Op \ {"none"} : Call(t, Started(op))
    BY <1>0, <2>1, StartedLocal, CallTyped DEF Call
  <2>2. CASE Push(t)
    <3>1. [Started("push") EXCEPT !.val = made + 1] \in Local
      <4>1. made + 1 \in Value \cup {FREE}
        BY <2>2 DEF Push, Value, Types, QueueAssumption
      <4> QED
        BY <1>0, <4>1, StartedLocal DEF Local, Op
    <3> QED
      BY <2>2, <3>1, <1>0, CallTyped DEF Push, Call
  <2>3. CASE Assign(t)
    <3>1. PICK k \in Ranges :
            /\ made + k <= MaxValues
            /\ Call(t, [Started("assign") EXCEPT !.out = Words(made, k)])
      BY <2>3 DEF Assign
    <3>2. Words(made, k) \in Seq(Cell)
      <4>1. k \in Nat /\ made \in Nat
        BY <3>1 DEF Types, QueueAssumption
      <4>2. \A i \in 1..k : Word(made + i) \in Cell
        BY <3>1, <4>1 DEF Word, Cell, AnyWord, Value, QueueAssumption
      <4> QED
        BY <4>1, <4>2 DEF Words
    <3>3. [Started("assign") EXCEPT !.out = Words(made, k)] \in Local
      BY <1>0, <3>2, StartedLocal DEF Local, Op
    <3> QED
      BY <1>0, <3>1, <3>3, CallTyped DEF Call
  <2> QED
    BY <1>2, <2>1, <2>2, <2>3
<1>3. CASE PushIdx(t) \/ PopRd(t) \/ RdIdx(t) \/ WalkRd(t) \/ EndIdx(t)
  <2>1. ~At(t, "idle")
    BY <1>3 DEF PushIdx, PopRd, RdIdx, WalkRd, EndIdx, At
  <2>2. CASE PushIdx(t)
    BY SMTT(40), <2>1, <2>2, <1>0, <1>a, LabelFacts, GotoTyped, IxTyped DEF PushIdx
  <2>3. CASE PopRd(t) \/ RdIdx(t) \/ WalkRd(t)
    BY SMTT(40), <2>1, <2>3, <1>0, <1>a, LabelFacts, IxTyped DEF PopRd, RdIdx, WalkRd
  <2>4. CASE EndIdx(t)
    <3> DEFINE i == IF th[t].op = "front" THEN Mine(t).rd
                    ELSE IF Mine(t).wr = 0 THEN Mine(t).cap
                    ELSE Mine(t).wr - 1
    <3>1. i \in Nat
      BY <2>1, <1>a
    <3>2. th' = [th EXCEPT ![t].pc = "endcell", ![t].ix = i]
      BY <2>4 DEF EndIdx
    <3> QED
      BY <3>1, <3>2, <1>0, LabelFacts DEF Local
  <2> QED
    BY <1>3, <2>2, <2>3, <2>4
<1>4. CASE \E l \in Label : Goto(t, l) \/ Retry(t, l)
  BY <1>0, <1>4, GotoTyped, RetryTyped
<1>5. CASE PushCell(t) \/ PushCas(t) \/ PopWr(t) \/ PopCas(t) \/ PopWait(t)
           \/ MarkWait(t) \/ Finalize(t)
  <2>1. /\ Again(t) \in Label
        /\ (IF Here(t).x THEN "rdix" ELSE "pushidx") \in Label
    BY LabelFacts DEF Again
  <2> QED
    BY <1>4, <1>5, <2>1, LabelFacts
    DEF PushCell, PushCas, PopWr, PopCas, PopWait, MarkWait, Finalize
<1>6. CASE th' = [th EXCEPT ![t] = Rest]
  BY <1>0, <1>6, RestLocal, CallTyped
<1>7. CASE PopCell(t) \/ EndCell(t)
  <2>1. Here(t).v \in AnyWord
    BY <1>7, <1>0, <1>a, <1>b DEF PopCell, EndCell, PoppersOK, EndsOK, At
  <2> QED
    BY <1>7, <2>1, <1>0, <1>4, GotTyped, LabelFacts DEF PopCell, EndCell
<1>8. CASE Mark(t)
  <2>1. Here(t).v \in AnyWord /\ Again(t) \in Label
    BY <1>8, <1>0, <1>a, <1>b, LabelFacts DEF Mark, PoppersOK, At, Again
  <2>2. CASE th' = [th EXCEPT ![t].pc = "alloc", ![t].got = Here(t).v]
    BY <1>0, <2>1, <2>2, LabelFacts DEF Local
  <2> QED
    BY <1>8, <2>1, <2>2, <1>4, LabelFacts DEF Mark, Lead
<1>9. CASE Alloc(t)
  <2>1. CASE th' = [th EXCEPT ![t].pc = "sweep", ![t].out = <<Word(th[t].got)>>]
    <3>1. <<Word(th[t].got)>> \in Seq(Cell)
      BY <1>0 DEF Local, Word, Cell
    <3> QED
      BY <1>0, <2>1, <3>1, LabelFacts DEF Local
  <2> QED
    BY <1>9, <2>1, <1>4, LabelFacts DEF Alloc
<1>10. CASE Sweep(t)
  <2>1. CASE th[t].ix + 1 >= Mine(t).cap
    <3>1. AfterSweep(t) \in Label
      BY LabelFacts DEF AfterSweep
    <3> QED
      BY <1>4, <1>10, <2>1, <3>1 DEF Sweep
  <2>2. CASE ~(th[t].ix + 1 >= Mine(t).cap)
    <3>1. Mine(t).cell[th[t].ix + 1] \in Cell
      <4>1. ~At(t, "idle")
        BY <1>10 DEF Sweep, At
      <4> QED
        BY SMTT(40), <4>1, <1>0, <1>a, <2>2
    <3>2. (IF th[t].op = "push"
             THEN Append(th[t].out, Mine(t).cell[th[t].ix + 1])
             ELSE th[t].out) \in Seq(Cell)
      BY <1>0, <3>1
    <3>3. th' = [th EXCEPT ![t].ix = th[t].ix + 1,
                   ![t].out = IF th[t].op = "push"
                     THEN Append(th[t].out, Mine(t).cell[th[t].ix + 1])
                     ELSE th[t].out]
      BY <1>10, <2>2, <1>0 DEF Sweep, Local
    <3>4. th[t].ix + 1 \in Nat
      BY <1>0
    <3> QED
      BY <1>0, <3>2, <3>3, <3>4, OutTyped
  <2> QED
    BY <2>1, <2>2
<1>11. CASE ClearStore(t)
  <2>1. CASE th' = [th EXCEPT ![t].pc = "wipe", ![t].ix = 0]
    BY <1>0, <2>1, LabelFacts DEF Local
  <2>2. CASE th' = [th EXCEPT ![t].ix = th[t].ix + 1]
    <3>1. th[t].ix + 1 \in Nat
      BY <1>0
    <3> QED
      BY <1>0, <2>2, <3>1, MetTyped
  <2> QED
    BY <1>11, <2>1, <2>2, <1>4, <1>6, LabelFacts DEF ClearStore, Done
<1>12. CASE Walk(t)
  <2>1. th' = [th EXCEPT ![t].ix = th[t].ix + 1,
                 ![t].met = th[t].met \cup ({Here(t).v} \cap Value)]
    BY <1>12 DEF Walk
  <2>2. th[t].met \cup ({Here(t).v} \cap Value) \in SUBSET Value
    BY <1>0 DEF Local
  <2>3. th[t].ix + 1 \in Nat
    BY <1>0
  <2> QED
    BY <1>0, <2>1, <2>2, <2>3, MetTyped
<1> QED
  BY <1>1, <1>2, <1>3, <1>5, <1>6, <1>7, <1>8, <1>9, <1>10, <1>11, <1>12
  DEF Step, PushBump, PopBump, Unmark, Install, Answer, WalkEnd, Done, Pop,
      Clear, Read, Op

WithCell(b, i, w) == [arrays EXCEPT ![b].cell[i] = w]
WithWr(b, n) == [arrays EXCEPT ![b].wr = n]
WithRd(b, n) == [arrays EXCEPT ![b].rd = n]

(* One cell is written.                                                    *)
LEMMA CellWritten ==
  ASSUME Types, NEW b \in 1..impl, NEW i \in 0..arrays[b].cap, NEW w \in Cell,
         NEW as, as = WithCell(b, i, w)
  PROVE  /\ as \in [1..impl -> Array]
         /\ \A a \in 1..impl :
              /\ as[a].cap = arrays[a].cap /\ as[a].wr = arrays[a].wr
              /\ as[a].rd = arrays[a].rd /\ as[a].life = arrays[a].life
              /\ as[a].by = arrays[a].by /\ as[a].waits = arrays[a].waits
              /\ as[a].cell \in [0..as[a].cap -> Cell]
              /\ a # b => as[a].cell = arrays[a].cell
         /\ as[b].cell[i] = w
         /\ \A j \in 0..arrays[b].cap : j # i => as[b].cell[j] = arrays[b].cell[j]
<1>1. arrays[b] \in Array /\ arrays[b].cell \in [0..arrays[b].cap -> Cell]
      /\ arrays[b].cap \in Nat
  BY DEF Types, Array
<1>2. [arrays[b].cell EXCEPT ![i] = w] \in [0..arrays[b].cap -> Cell]
  BY <1>1
<1>3. as = [arrays EXCEPT ![b] = [arrays[b] EXCEPT
              !.cell = [arrays[b].cell EXCEPT ![i] = w]]]
  BY <1>1 DEF Types, WithCell
<1>4. as[b] = [arrays[b] EXCEPT !.cell = [arrays[b].cell EXCEPT ![i] = w]]
  BY <1>3 DEF Types
<1>5. as[b] \in Array
  <2>1. [arrays[b].cell EXCEPT ![i] = w] \in Cells
    BY <1>1, <1>2 DEF Cells
  <2> QED
    BY <1>1, <2>1, <1>4 DEF Array
<1>6. /\ as[b].cap = arrays[b].cap /\ as[b].wr = arrays[b].wr
      /\ as[b].rd = arrays[b].rd /\ as[b].life = arrays[b].life
      /\ as[b].by = arrays[b].by /\ as[b].waits = arrays[b].waits
      /\ as[b].cell = [arrays[b].cell EXCEPT ![i] = w]
  BY <1>1, <1>4 DEF Array
<1>7. \A a \in 1..impl : a # b => as[a] = arrays[a]
  BY <1>3 DEF Types
<1> QED
  BY <1>1, <1>2, <1>3, <1>5, <1>6, <1>7 DEF Types

(* An index is written.                                                    *)
LEMMA WrWritten ==
  ASSUME Types, NEW b \in 1..impl, NEW n \in 0..arrays[b].cap, NEW as,
         as = WithWr(b, n)
  PROVE  /\ as \in [1..impl -> Array]
         /\ \A a \in 1..impl :
              /\ as[a].cap = arrays[a].cap /\ as[a].cell = arrays[a].cell
              /\ as[a].life = arrays[a].life
              /\ as[a].by = arrays[a].by /\ as[a].waits = arrays[a].waits
              /\ a # b => as[a] = arrays[a]
         /\ as[b].wr = n /\ as[b].rd = arrays[b].rd
<1>1. arrays[b] \in Array /\ arrays[b].cap \in Nat
  BY DEF Types, Array
<1>2. as[b] = [arrays[b] EXCEPT !.wr = n]
  BY DEF Types, WithWr
<1>3. \A a \in 1..impl : a # b => as[a] = arrays[a]
  BY DEF Types, WithWr
<1>5. n \in Nat
  BY <1>1
<1>6. as[b] \in Array
  BY <1>1, <1>2, <1>5, ArrayWr
<1>4. /\ as[b].cap = arrays[b].cap /\ as[b].cell = arrays[b].cell
      /\ as[b].life = arrays[b].life /\ as[b].by = arrays[b].by
      /\ as[b].waits = arrays[b].waits
      /\ as[b].wr = n /\ as[b].rd = arrays[b].rd
  BY <1>1, <1>2 DEF Array
<1> QED
  BY <1>3, <1>4, <1>6 DEF Types, WithWr

(* rd_idx is written.                                                      *)
LEMMA RdWritten ==
  ASSUME Types, NEW b \in 1..impl, NEW n \in 0..arrays[b].cap, NEW as,
         as = WithRd(b, n)
  PROVE  /\ as \in [1..impl -> Array]
         /\ \A a \in 1..impl :
              /\ as[a].cap = arrays[a].cap /\ as[a].cell = arrays[a].cell
              /\ as[a].life = arrays[a].life
              /\ as[a].by = arrays[a].by /\ as[a].waits = arrays[a].waits
              /\ a # b => as[a] = arrays[a]
         /\ as[b].rd = n /\ as[b].wr = arrays[b].wr
<1>1. arrays[b] \in Array /\ arrays[b].cap \in Nat
  BY DEF Types, Array
<1>2. as[b] = [arrays[b] EXCEPT !.rd = n]
  BY DEF Types, WithRd
<1>3. \A a \in 1..impl : a # b => as[a] = arrays[a]
  BY DEF Types, WithRd
<1>5. n \in Nat
  BY <1>1
<1>6. as[b] \in Array
  BY <1>1, <1>2, <1>5, ArrayRd
<1>4. /\ as[b].cap = arrays[b].cap /\ as[b].cell = arrays[b].cell
      /\ as[b].life = arrays[b].life /\ as[b].by = arrays[b].by
      /\ as[b].waits = arrays[b].waits
      /\ as[b].rd = n /\ as[b].wr = arrays[b].wr
  BY <1>1, <1>2 DEF Array
<1> QED
  BY <1>3, <1>4, <1>6 DEF Types, WithRd

(* What a step of t may do to a cell of its array.                         *)
CellStep(t, i, c, d) ==
  \/ /\ At(t, "pushcas") /\ th'[t].pc = "pushbump" /\ i = th[t].ix
     /\ c = Word(FREE) /\ d = Word(th[t].val)
  \/ /\ At(t, "popcas") /\ th'[t].pc = "popbump" /\ i = th[t].ix
     /\ c = Word(th[t].got) /\ d = Word(DELT)
  \/ th[t].pc \in {"mark", "sweep"} /\ d.v = c.v /\ d.x
  \/ At(t, "unmark") /\ i = th[t].ix /\ d.v = c.v
  \/ At(t, "wipe")

(* What a step of t may do to an array r, which is s after it.             *)
ArrayStep(t, mine, r, s) ==
  /\ s.cap = r.cap /\ s.cell \in [0..r.cap -> Cell]
  /\ \A i \in 0..r.cap :
       \/ s.cell[i] = r.cell[i]
       \/ mine /\ CellStep(t, i, r.cell[i], s.cell[i])
  /\ \/ s.wr = r.wr
     \/ mine /\ At(t, "pushbump") /\ s.wr = r.wr + 1 /\ th'[t].pc = "idle"
     \/ mine /\ At(t, "wrcap") /\ s.wr = r.cap
     \/ mine /\ At(t, "wrzero") /\ s.wr = 0
  /\ \/ s.rd = r.rd
     \/ mine /\ At(t, "popbump") /\ s.rd = r.rd + 1 /\ th'[t].pc = "idle"
     \/ mine /\ At(t, "rdcap") /\ s.rd = r.cap /\ th'[t].pc = "wipe"
     \/ mine /\ At(t, "wipe") /\ th'[t].pc = "wrzero" /\ s.rd = 0
  /\ \/ s.life = r.life /\ s.by = r.by
     \/ /\ mine /\ At(t, "finalize") /\ th'[t].pc = "install"
        /\ s.life = "pending" /\ s.by = r.by \cup {t}
  /\ \/ s.waits = r.waits
     \/ s.waits = r.waits \ {t} /\ th'[t].pc = "idle"

(* A cell of one array is written, as CellStep says.                       *)
LEMMA CellStepped ==
  ASSUME Types, NEW t \in Thread, NEW b \in 1..impl,
         NEW i \in 0..arrays[b].cap, NEW w \in Cell, NEW as,
         as = WithCell(b, i, w), CellStep(t, i, arrays[b].cell[i], w),
         NEW a \in 1..impl
  PROVE  ArrayStep(t, a = b, arrays[a], as[a])
<1>1. arrays[a].cap \in Nat /\ arrays[a].cell \in [0..arrays[a].cap -> Cell]
  BY DEF Types, Array
<1>2. /\ as[a].cap = arrays[a].cap /\ as[a].wr = arrays[a].wr
      /\ as[a].rd = arrays[a].rd /\ as[a].life = arrays[a].life
      /\ as[a].by = arrays[a].by /\ as[a].waits = arrays[a].waits
      /\ as[a].cell \in [0..as[a].cap -> Cell]
      /\ a # b => as[a].cell = arrays[a].cell
      /\ as[b].cell[i] = w
      /\ \A j \in 0..arrays[b].cap : j # i => as[b].cell[j] = arrays[b].cell[j]
  BY CellWritten
<1>3. ASSUME NEW j \in 0..arrays[a].cap
      PROVE  \/ as[a].cell[j] = arrays[a].cell[j]
             \/ a = b /\ CellStep(t, j, arrays[a].cell[j], as[a].cell[j])
  BY <1>2
<1> QED
  BY <1>1, <1>2, <1>3 DEF ArrayStep

(* An index of one array is written, as ArrayStep says.                    *)
LEMMA WrStepped ==
  ASSUME Types, NEW t \in Thread, NEW b \in 1..impl,
         NEW n \in 0..arrays[b].cap, NEW as, as = WithWr(b, n),
         \/ At(t, "pushbump") /\ n = arrays[b].wr + 1 /\ th'[t].pc = "idle"
         \/ At(t, "wrcap") /\ n = arrays[b].cap
         \/ At(t, "wrzero") /\ n = 0,
         NEW a \in 1..impl
  PROVE  ArrayStep(t, a = b, arrays[a], as[a])
<1>1. arrays[a].cap \in Nat /\ arrays[a].cell \in [0..arrays[a].cap -> Cell]
  BY DEF Types, Array
<1>2. /\ as[a].cap = arrays[a].cap /\ as[a].cell = arrays[a].cell
      /\ as[a].life = arrays[a].life /\ as[a].by = arrays[a].by
      /\ as[a].waits = arrays[a].waits
      /\ a # b => as[a] = arrays[a]
      /\ as[b].wr = n /\ as[b].rd = arrays[b].rd
  BY WrWritten
<1>3. CASE a = b
  BY <1>1, <1>2, <1>3 DEF ArrayStep
<1>4. CASE a # b
  BY <1>1, <1>2, <1>4 DEF ArrayStep
<1> QED
  BY <1>3, <1>4

(* rd_idx is written, as ArrayStep says.                                   *)
LEMMA RdStepped ==
  ASSUME Types, NEW t \in Thread, NEW b \in 1..impl,
         NEW n \in 0..arrays[b].cap, NEW as, as = WithRd(b, n),
         \/ At(t, "popbump") /\ n = arrays[b].rd + 1 /\ th'[t].pc = "idle"
         \/ At(t, "rdcap") /\ n = arrays[b].cap /\ th'[t].pc = "wipe"
         \/ At(t, "wipe") /\ th'[t].pc = "wrzero" /\ n = 0,
         NEW a \in 1..impl
  PROVE  ArrayStep(t, a = b, arrays[a], as[a])
<1>1. arrays[a].cap \in Nat /\ arrays[a].cell \in [0..arrays[a].cap -> Cell]
  BY DEF Types, Array
<1>2. /\ as[a].cap = arrays[a].cap /\ as[a].cell = arrays[a].cell
      /\ as[a].life = arrays[a].life /\ as[a].by = arrays[a].by
      /\ as[a].waits = arrays[a].waits
      /\ a # b => as[a] = arrays[a]
      /\ as[b].rd = n /\ as[b].wr = arrays[b].wr
  BY RdWritten
<1>3. CASE a = b
  BY <1>1, <1>2, <1>3 DEF ArrayStep
<1>4. CASE a # b
  BY <1>1, <1>2, <1>4 DEF ArrayStep
<1> QED
  BY <1>3, <1>4

(* No step but that of Install makes another array.                        *)
LEMMA ArraysStep ==
  ASSUME Types, CallsOK, PushersOK, PoppersOK, BarredOK, LivesOK,
         NEW t \in Thread, Step(t), ~Install(t)
  PROVE  /\ impl' = impl /\ arrays' \in [1..impl -> Array]
         /\ \A a \in 1..impl :
              ArrayStep(t, a = th[t].arr, arrays[a], arrays'[a])
<1> DEFINE Goal == /\ impl' = impl /\ arrays' \in [1..impl -> Array]
                   /\ \A a \in 1..impl :
                        ArrayStep(t, a = th[t].arr, arrays[a], arrays'[a])
           b == th[t].arr
<1>0. /\ impl \in Nat /\ arrays \in [1..impl -> Array]
      /\ \A a \in 1..impl : /\ arrays[a].cap \in Nat
                            /\ arrays[a].cell \in [0..arrays[a].cap -> Cell]
                            /\ arrays[a].wr \in 0..arrays[a].cap
                            /\ arrays[a].rd \in 0..arrays[a].cap
      /\ th[t].ix \in Nat
  BY DEF Types, Array, Local
<1>a. ASSUME ~At(t, "idle") PROVE b \in 1..impl
  BY <1>a, MineFacts
<1>b. ASSUME ~At(t, "install"), NEW a \in 1..impl
      PROVE  ~(arrays[a].life = "pending" /\ t \in arrays[a].by)
  BY <1>b DEF LivesOK, At
<1>c. ASSUME ~At(t, "install"), NEW as \in [1..impl -> Array], Done(t, as),
             \A a \in 1..impl : as[a].life = arrays[a].life /\ as[a].by = arrays[a].by
      PROVE  /\ arrays' \in [1..impl -> Array] /\ th'[t].pc = "idle"
             /\ \A a \in 1..impl :
                  /\ arrays'[a].cell = as[a].cell /\ arrays'[a].cap = as[a].cap
                  /\ arrays'[a].wr = as[a].wr /\ arrays'[a].rd = as[a].rd
                  /\ arrays'[a].life = as[a].life /\ arrays'[a].by = as[a].by
                  /\ arrays'[a].waits = as[a].waits \ {t}
  <2>1. \A a \in 1..impl : ~(as[a].life = "pending" /\ t \in as[a].by)
    BY <1>b, <1>c
  <2>2. arrays' = Left(t, as) /\ th'[t].pc = "idle"
    BY <1>c, RestFacts DEF Done, Types
  <2>3. /\ Left(t, as) \in [1..impl -> Array]
        /\ \A a \in 1..impl : LeftArray(t, as[a], Left(t, as)[a])
    BY <1>0, LeftFacts
  <2> QED
    BY <2>1, <2>2, <2>3 DEF LeftArray
<1>d. ASSUME ~At(t, "install"), impl' = impl, NEW as \in [1..impl -> Array],
             Done(t, as),
             \A a \in 1..impl :
               /\ ArrayStep(t, a = b, arrays[a], as[a])
               /\ as[a].life = arrays[a].life /\ as[a].by = arrays[a].by
               /\ as[a].waits = arrays[a].waits
      PROVE  Goal
  <2>1. /\ arrays' \in [1..impl -> Array] /\ th'[t].pc = "idle"
        /\ \A a \in 1..impl :
             /\ arrays'[a].cell = as[a].cell /\ arrays'[a].cap = as[a].cap
             /\ arrays'[a].wr = as[a].wr /\ arrays'[a].rd = as[a].rd
             /\ arrays'[a].life = as[a].life /\ arrays'[a].by = as[a].by
             /\ arrays'[a].waits = as[a].waits \ {t}
    <3>1. \A a \in 1..impl :
            as[a].life = arrays[a].life /\ as[a].by = arrays[a].by
      BY <1>d
    <3> QED
      BY <1>c, <1>d, <3>1
  <2>2. ASSUME NEW a \in 1..impl
        PROVE  ArrayStep(t, a = b, arrays[a], arrays'[a])
    <3>1. ArrayStep(t, a = b, arrays[a], as[a])
      BY <1>d
    <3> QED
      BY ZenonT(60), <1>d, <2>1, <3>1 DEF ArrayStep
  <2> QED
    BY <1>d, <2>1, <2>2
<1>1. CASE UNCHANGED <<arrays, impl>>
  BY <1>0, <1>1 DEF ArrayStep
<1>2. CASE Answer(t) \/ WalkEnd(t)
  <2>1. /\ ~At(t, "install") /\ Done(t, arrays) /\ impl' = impl
    BY <1>2 DEF Answer, WalkEnd, At
  <2> QED
    BY <1>0, <1>c, <2>1 DEF ArrayStep
<1>3. CASE PushCas(t) \/ PopCas(t)
  <2>1. b \in 1..impl /\ th[t].ix \in 0..arrays[b].cap
    BY <1>0, <1>a, <1>3 DEF PushCas, PopCas, At, PushersOK, PoppersOK, Mine
  <2>2. CASE PushCas(t) /\ Here(t) = Word(FREE)
    <3>1. Word(th[t].val) \in Cell
      BY DEF Types, Local, Word, Cell, AnyWord
    <3>2. arrays' = WithCell(b, th[t].ix, Word(th[t].val))
      BY <2>2 DEF PushCas, SetCell, WithCell
    <3>3. At(t, "pushcas") /\ th'[t].pc = "pushbump" /\ impl' = impl
      BY <2>2 DEF PushCas, Goto, Types, Local
    <3>4. arrays[b].cell[th[t].ix] = Word(FREE)
      BY <2>2 DEF Here, Mine
    <3>5. arrays' \in [1..impl -> Array]
      BY <2>1, <3>1, <3>2, CellWritten
    <3>6. ASSUME NEW a \in 1..impl
          PROVE  ArrayStep(t, a = b, arrays[a], arrays'[a])
      <4>1. CellStep(t, th[t].ix, arrays[b].cell[th[t].ix], Word(th[t].val))
        BY <3>3, <3>4 DEF CellStep
      <4> QED
        BY <2>1, <3>1, <3>2, <4>1, CellStepped
    <3> QED
      BY <3>3, <3>5, <3>6
  <2>3. CASE PopCas(t) /\ Here(t) = Word(th[t].got)
    <3>1. Word(DELT) \in Cell
      BY DEF Word, Cell, AnyWord
    <3>2. arrays' = WithCell(b, th[t].ix, Word(DELT))
      BY <2>3 DEF PopCas, SetCell, WithCell
    <3>3. At(t, "popcas") /\ th'[t].pc = "popbump" /\ impl' = impl
      BY <2>3 DEF PopCas, Goto, Types, Local
    <3>4. arrays[b].cell[th[t].ix] = Word(th[t].got)
      BY <2>3 DEF Here, Mine
    <3>5. arrays' \in [1..impl -> Array]
      BY <2>1, <3>1, <3>2, CellWritten
    <3>6. ASSUME NEW a \in 1..impl
          PROVE  ArrayStep(t, a = b, arrays[a], arrays'[a])
      <4>1. CellStep(t, th[t].ix, arrays[b].cell[th[t].ix], Word(DELT))
        BY <3>3, <3>4 DEF CellStep
      <4> QED
        BY <2>1, <3>1, <3>2, <4>1, CellStepped
    <3> QED
      BY <3>3, <3>5, <3>6
  <2> QED
    BY <1>1, <1>3, <2>2, <2>3 DEF PushCas, PopCas
<1>4. ASSUME NEW i \in 0..arrays[b].cap, b \in 1..impl,
             th[t].pc \in {"mark", "sweep"}, arrays' = Bit(t, i), impl' = impl
      PROVE  Goal
  <2> DEFINE w == [arrays[b].cell[i] EXCEPT !.x = TRUE]
  <2>0. arrays[b].cell[i] \in Cell
    BY <1>0, <1>4
  <2>1. w \in Cell /\ w.x /\ w.v = arrays[b].cell[i].v
    BY <2>0 DEF Cell
  <2>2. arrays' = WithCell(b, i, w)
    BY <1>0, <1>4 DEF Bit, WithCell
  <2> HIDE DEF w
  <2>3. arrays' \in [1..impl -> Array]
    BY <1>4, <2>1, <2>2, CellWritten
  <2>4. ASSUME NEW a \in 1..impl
        PROVE  ArrayStep(t, a = b, arrays[a], arrays'[a])
    <3>1. CellStep(t, i, arrays[b].cell[i], w)
      BY <1>4, <2>1 DEF CellStep
    <3> QED
      BY <1>4, <2>1, <2>2, <3>1, CellStepped
  <2> QED
    BY <1>4, <2>3, <2>4
<1>5. CASE Mark(t)
  <2>1. b \in 1..impl /\ th[t].ix \in 0..arrays[b].cap
    BY SMTT(40), <1>0, <1>a, <1>5 DEF Mark, At, PoppersOK, Mine
  <2> QED
    BY <1>4, <1>5, <2>1 DEF Mark, At
<1>6. CASE Sweep(t)
  <2>1. b \in 1..impl
    BY <1>a, <1>6 DEF Sweep, At
  <2>2. CASE th[t].ix + 1 >= Mine(t).cap
    BY <1>1, <1>6, <2>2 DEF Sweep
  <2>3. CASE ~(th[t].ix + 1 >= Mine(t).cap)
    BY SMTT(40), <1>0, <1>4, <1>6, <2>1, <2>3 DEF Sweep, At, Mine
  <2> QED
    BY <2>2, <2>3
<1>7. CASE PushBump(t)
  <2> DEFINE as == WithWr(b, arrays[b].wr + 1)
  <2>1. /\ b \in 1..impl /\ arrays[b].wr + 1 \in 0..arrays[b].cap
        /\ At(t, "pushbump") /\ ~At(t, "install") /\ impl' = impl
    BY <1>0, <1>a, <1>7 DEF PushBump, At, PushersOK, Mine
  <2>2. Done(t, as)
    BY <1>7 DEF PushBump, WithWr
  <2> HIDE DEF as
  <2>3. as = WithWr(b, arrays[b].wr + 1)
    BY DEF as
  <2>4. /\ as \in [1..impl -> Array]
        /\ \A a \in 1..impl :
             /\ as[a].life = arrays[a].life
             /\ as[a].by = arrays[a].by /\ as[a].waits = arrays[a].waits
    BY SMTT(40), <2>1, <2>3, WrWritten
  <2>5. th'[t].pc = "idle"
    BY <1>c, <2>1, <2>2, <2>4
  <2>6. \A a \in 1..impl : ArrayStep(t, a = b, arrays[a], as[a])
    BY <2>1, <2>3, <2>5, WrStepped
  <2> QED
    BY <1>d, <2>1, <2>2, <2>4, <2>6
<1>8. CASE PopBump(t)
  <2> DEFINE as == WithRd(b, arrays[b].rd + 1)
  <2>1. /\ b \in 1..impl /\ arrays[b].rd + 1 \in 0..arrays[b].cap
        /\ At(t, "popbump") /\ ~At(t, "install") /\ impl' = impl
    BY <1>0, <1>a, <1>8 DEF PopBump, At, PoppersOK, Mine
  <2>2. Done(t, as)
    BY <1>8 DEF PopBump, WithRd
  <2> HIDE DEF as
  <2>3. as = WithRd(b, arrays[b].rd + 1)
    BY DEF as
  <2>4. /\ as \in [1..impl -> Array]
        /\ \A a \in 1..impl :
             /\ as[a].life = arrays[a].life
             /\ as[a].by = arrays[a].by /\ as[a].waits = arrays[a].waits
    BY <2>1, <2>3, RdWritten
  <2>5. th'[t].pc = "idle"
    BY <1>c, <2>1, <2>2, <2>4
  <2>6. \A a \in 1..impl : ArrayStep(t, a = b, arrays[a], as[a])
    BY <2>1, <2>3, <2>5, RdStepped
  <2> QED
    BY <1>d, <2>1, <2>2, <2>4, <2>6
<1>9. CASE Unmark(t)
  <2> DEFINE w == [Here(t) EXCEPT !.x = FALSE]
             as == WithCell(b, th[t].ix, w)
  <2>1. /\ b \in 1..impl /\ th[t].ix \in 0..arrays[b].cap
        /\ At(t, "unmark") /\ ~At(t, "install") /\ impl' = impl
    BY <1>0, <1>a, <1>9 DEF Unmark, At, BarredOK, Mine
  <2>2. Done(t, as)
    BY <1>9 DEF Unmark, SetCell, WithCell
  <2>3. Here(t) \in Cell /\ Here(t) = arrays[b].cell[th[t].ix]
    BY <1>0, <2>1 DEF Here, Mine
  <2>4. w \in Cell /\ w.v = arrays[b].cell[th[t].ix].v
    BY <2>3 DEF Cell
  <2> HIDE DEF w
  <2>5. as = WithCell(b, th[t].ix, w)
    OBVIOUS
  <2> HIDE DEF as
  <2>6. /\ as \in [1..impl -> Array]
        /\ \A a \in 1..impl :
             /\ as[a].life = arrays[a].life
             /\ as[a].by = arrays[a].by /\ as[a].waits = arrays[a].waits
    BY SMTT(40), <2>1, <2>4, <2>5, CellWritten
  <2>7. CellStep(t, th[t].ix, arrays[b].cell[th[t].ix], w)
    BY <2>1, <2>4 DEF CellStep
  <2>8. \A a \in 1..impl : ArrayStep(t, a = b, arrays[a], as[a])
    BY SMTT(40), <2>1, <2>4, <2>5, <2>7, CellStepped
  <2> QED
    BY <1>d, <2>1, <2>2, <2>6, <2>8
<1>10. CASE Finalize(t)
  <2>1. /\ b \in 1..impl /\ At(t, "finalize") /\ impl' = impl
        /\ th'[t].pc = "install"
    BY <1>a, <1>10 DEF Finalize, At, Goto, Types, Local
  <2>2. arrays[b] \in Array /\ "pending" \in Life
        /\ arrays[b].by \cup {t} \in SUBSET Thread
    BY <1>0, <2>1 DEF Array, Life
  <2>3. arrays' = [arrays EXCEPT ![b] = [arrays[b] EXCEPT
                     !.life = "pending", !.by = arrays[b].by \cup {t}]]
    BY <1>0, <1>10, <2>1 DEF Finalize
  <2>4. [arrays[b] EXCEPT !.life = "pending", !.by = arrays[b].by \cup {t}]
          \in Array
    BY <2>2, ArrayLife DEF Array
  <2> QED
    BY <1>0, <2>1, <2>2, <2>3, <2>4 DEF ArrayStep, Array
<1>11. CASE ClearStore(t)
  <2>1. b \in 1..impl /\ impl' = impl /\ ~At(t, "install")
    BY <1>a, <1>11 DEF ClearStore, At
  <2>2. CASE At(t, "wrcap") /\ arrays' = WithWr(b, arrays[b].cap)
    BY SMTT(40), <1>0, <2>1, <2>2, WrWritten, WrStepped
  <2>3. CASE /\ At(t, "rdcap") /\ th'[t].pc = "wipe"
             /\ arrays' = WithRd(b, arrays[b].cap)
    <3>1. arrays[b].cap \in 0..arrays[b].cap
      BY <1>0, <2>1
    <3>2. arrays' \in [1..impl -> Array]
      BY <2>1, <2>3, <3>1, RdWritten
    <3>3. ASSUME NEW a \in 1..impl
          PROVE  ArrayStep(t, a = b, arrays[a], arrays'[a])
      BY <2>1, <2>3, <3>1, RdStepped
    <3> QED
      BY <2>1, <3>2, <3>3
  <2>4. CASE /\ At(t, "wipe") /\ th[t].ix < arrays[b].cap
             /\ arrays' = WithCell(b, th[t].ix, Word(FREE))
    <3>1. Word(FREE) \in Cell /\ th[t].ix \in 0..arrays[b].cap
      BY <1>0, <2>1, <2>4 DEF Word, Cell, AnyWord
    <3>2. arrays' \in [1..impl -> Array]
      BY <2>1, <2>4, <3>1, CellWritten
    <3>3. ASSUME NEW a \in 1..impl
          PROVE  ArrayStep(t, a = b, arrays[a], arrays'[a])
      <4>1. CellStep(t, th[t].ix, arrays[b].cell[th[t].ix], Word(FREE))
        BY <2>4 DEF CellStep
      <4> QED
        BY <2>1, <2>4, <3>1, <4>1, CellStepped
    <3> QED
      BY <2>1, <3>2, <3>3
  <2>5. CASE /\ At(t, "wipe") /\ th'[t].pc = "wrzero"
             /\ arrays' = WithRd(b, 0)
    <3>1. 0 \in 0..arrays[b].cap
      BY <1>0, <2>1
    <3>2. arrays' \in [1..impl -> Array]
      BY <2>1, <2>5, <3>1, RdWritten
    <3>3. ASSUME NEW a \in 1..impl
          PROVE  ArrayStep(t, a = b, arrays[a], arrays'[a])
      BY <2>1, <2>5, <3>1, RdStepped
    <3> QED
      BY <2>1, <3>2, <3>3
  <2>6. CASE At(t, "wrzero") /\ Done(t, WithWr(b, 0))
    <3> DEFINE as == WithWr(b, 0)
    <3>0. 0 \in 0..arrays[b].cap /\ as = WithWr(b, 0) /\ Done(t, as)
      BY <1>0, <2>1, <2>6
    <3> HIDE DEF as
    <3>1. /\ as \in [1..impl -> Array]
          /\ \A a \in 1..impl :
               /\ as[a].life = arrays[a].life
               /\ as[a].by = arrays[a].by /\ as[a].waits = arrays[a].waits
      BY <2>1, <3>0, WrWritten
    <3>2. \A a \in 1..impl : ArrayStep(t, a = b, arrays[a], as[a])
      BY <2>1, <2>6, <3>0, WrStepped
    <3> QED
      BY <1>d, <2>1, <3>0, <3>1, <3>2
  <2>7. th \in [Thread -> Local]
    BY DEF Types
  <2> QED
    BY SMTT(40), <1>11, <2>1, <2>2, <2>3, <2>4, <2>5, <2>6, <2>7
    DEF ClearStore, SetCell, WithCell, WithWr, WithRd, Mine, Goto, Local
<1> QED
  BY <1>1, <1>2, <1>3, <1>5, <1>6, <1>7, <1>8, <1>9, <1>10, <1>11
  DEF Step, LoadImpl, Push, PushIdx, PushCell, Pop, PopRd, PopWr, PopCell,
      PopWait, Assign, Clear, RdIdx, MarkWait, Alloc, Read, EndIdx, EndCell,
      WalkRd, Walk, Call

(* Every set of naturals has a least element.                              *)
LEMMA LeastNat ==
  ASSUME NEW S \in SUBSET Nat, S # {}
  PROVE  \E m \in S : \A n \in S : m <= n
<1>1. IsWellFoundedOn({p \in Nat \X Nat : p[1] < p[2]}, Nat)
  BY NatLessThanWellFounded DEF OpToRel
<1>2. PICK m \in S : \A n \in S : ~(<<n, m>> \in {p \in Nat \X Nat : p[1] < p[2]})
  BY <1>1, WFMin
<1>3. ASSUME NEW n \in S, n < m PROVE FALSE
  <2>1. <<n, m>> \in {p \in Nat \X Nat : p[1] < p[2]}
    BY <1>3
  <2> QED
    BY <1>2, <2>1
<1> QED
  BY <1>3

(* Powers of two, of which the prover only knows that they count subsets.  *)
LEMMA PowerNat ==
  ASSUME NEW n \in Nat
  PROVE  /\ IsFiniteSet(SUBSET (1..n)) /\ Cardinality(SUBSET (1..n)) = 2^n
         /\ 2^n \in Nat
<1>1. IsFiniteSet(1..n) /\ Cardinality(1..n) = n
  BY FS_Interval
<1> QED
  BY <1>1, FS_SUBSET, FS_CardinalityType

(* The next power of two is twice as large,                                *)
LEMMA PowerDoubles ==
  ASSUME NEW n \in Nat
  PROVE  2^(n + 1) = 2 * 2^n
<1> DEFINE A == SUBSET (1..n)
           B == {s \cup {n + 1} : s \in A}
           f == [s \in A |-> s \cup {n + 1}]
<1>1. SUBSET (1..n + 1) = A \cup B
  <2>1. ASSUME NEW s \in SUBSET (1..n + 1), s \notin A PROVE s \in B
    <3>1. s \ {n + 1} \in A /\ n + 1 \in s
      BY <2>1
    <3>2. s = (s \ {n + 1}) \cup {n + 1}
      BY <3>1
    <3> QED
      BY <3>1, <3>2
  <2>2. ASSUME NEW s \in A \cup B PROVE s \in SUBSET (1..n + 1)
    BY <2>2
  <2> QED
    BY <2>1, <2>2
<1>2. A \cap B = {}
  OBVIOUS
<1>3. f \in Bijection(A, B)
  <2>1. \A s \in A : n + 1 \notin s
    OBVIOUS
  <2>2. \A r, s \in A : f[r] = f[s] => r = s
    BY <2>1
  <2>3. f \in [A -> B] /\ \A b \in B : \E s \in A : f[s] = b
    OBVIOUS
  <2> QED
    BY <2>2, <2>3 DEF Bijection, Injection, Surjection, IsInjective
<1>4. IsFiniteSet(A) /\ Cardinality(A) = 2^n /\ 2^n \in Nat
  BY PowerNat
<1>5. IsFiniteSet(B) /\ Cardinality(B) = 2^n
  BY <1>3, <1>4, FS_Bijection DEF ExistsBijection
<1> HIDE DEF A, B
<1>6. Cardinality(A \cup B) = 2^n + 2^n
  BY <1>2, <1>4, <1>5, FS_Union, FS_EmptySet
<1>7. Cardinality(SUBSET (1..n + 1)) = 2^(n + 1)
  BY PowerNat
<1>8. 2^(n + 1) = 2^n + 2^n
  BY <1>1, <1>6, <1>7
<1> QED
  BY <1>4, <1>8

(* and so every number has one above it.                                   *)
LEMMA PowerGrows ==
  ASSUME NEW n \in Nat
  PROVE  2^n > n
<1> DEFINE S == {m \in Nat : ~(2^m > m)}
<1>1. ASSUME S # {} PROVE FALSE
  <2>1. PICK m \in S : \A k \in S : m <= k
    BY <1>1, LeastNat
  <2>2. ASSUME m = 0 PROVE FALSE
    <3>1. 2^m = 1
      <4>1. 2^0 = 1
        OBVIOUS
      <4> QED
        BY <2>2, <4>1
    <3> QED
      BY <2>1, <2>2, <3>1
  <2>3. m - 1 \in Nat /\ m - 1 \notin S /\ (m - 1) + 1 = m
    BY <2>1, <2>2
  <2>4. 2^(m - 1) > m - 1
    BY <2>3
  <2>5. 2^m = 2 * 2^(m - 1) /\ 2^(m - 1) \in Nat
    BY <2>3, PowerDoubles, PowerNat
  <2> QED
    BY <2>1, <2>2, <2>3, <2>4, <2>5
<1> QED
  BY <1>1

(* The capacity that doubling comes to is there to be chosen.              *)
LEMMA RangeCap ==
  ASSUME QueueAssumption, NEW n \in 0..MaxValues
  PROVE  LET cap == CHOOSE c \in {Cap * 2^i : i \in 0..MaxValues} :
                      c > n /\ (c = Cap \/ c <= 2 * n)
         IN  cap \in Nat \ {0} /\ cap > n
<1> DEFINE S == {i \in Nat : Cap * 2^i > n}
<1>1. Cap \in Nat \ {0} /\ MaxValues \in Nat /\ n \in Nat
  BY DEF QueueAssumption
<1>2. MaxValues \in S
  <2>1. 2^MaxValues > MaxValues /\ 2^MaxValues \in Nat
    BY <1>1, PowerGrows, PowerNat
  <2>2. Cap * 2^MaxValues >= 2^MaxValues
    BY <1>1, <2>1
  <2>3. Cap * 2^MaxValues \in Nat
    BY <1>1, <2>1
  <2> QED
    BY <1>1, <2>1, <2>2, <2>3
<1>3. PICK m \in S : \A i \in S : m <= i
  BY <1>2, LeastNat
<1>4. m \in 0..MaxValues /\ 2^m \in Nat /\ Cap * 2^m \in Nat
  BY <1>1, <1>2, <1>3, PowerNat
<1>5. Cap * 2^m = Cap \/ Cap * 2^m <= 2 * n
  <2>1. CASE m = 0
    <3>1. 2^0 = 1
      OBVIOUS
    <3> QED
      BY <1>1, <2>1, <3>1
  <2>2. CASE m # 0
    <3>1. m - 1 \in Nat /\ m - 1 \notin S /\ (m - 1) + 1 = m
      BY <1>3, <2>2
    <3>2. 2^m = 2 * 2^(m - 1) /\ 2^(m - 1) \in Nat
      BY <3>1, PowerDoubles, PowerNat
    <3>3. Cap * 2^(m - 1) \in Nat
      BY <1>1, <3>2
    <3>4. Cap * 2^(m - 1) <= n
      BY <1>1, <3>1, <3>3
    <3>5. Cap * 2^m = 2 * (Cap * 2^(m - 1))
      BY <1>1, <3>2
    <3> QED
      BY <1>1, <3>3, <3>4, <3>5
  <2> QED
    BY <2>1, <2>2
<1>6. ASSUME NEW i \in 0..MaxValues PROVE Cap * 2^i \in Nat
  <2>1. i \in Nat
    BY <1>1
  <2>2. 2^i \in Nat
    BY <2>1, PowerNat
  <2> QED
    BY <1>1, <2>2
<1> DEFINE P(c) == c > n /\ (c = Cap \/ c <= 2 * n)
           C == {Cap * 2^i : i \in 0..MaxValues}
           cap == CHOOSE c \in C : P(c)
<1>7. \E c \in C : P(c)
  BY <1>3, <1>4, <1>5
<1>8. cap \in C /\ P(cap)
  BY <1>7
<1>9. cap \in Nat
  BY <1>6, <1>8
<1>10. cap \in Nat \ {0} /\ cap > n
  <2> HIDE DEF cap
  <2> QED
    BY <1>1, <1>8, <1>9
<1> QED
  BY <1>10

(* One more element at the end of a sequence s of length n.                *)
Appended(s, n, e, S) ==
  /\ Append(s, e) \in [1..n + 1 -> S] /\ Len(s) = n
  /\ \A i \in 1..n : Append(s, e)[i] = s[i]
  /\ Append(s, e)[n + 1] = e

(* What Append does to it.                                                 *)
LEMMA AppendFacts ==
  ASSUME NEW S, NEW n \in Nat, NEW s \in [1..n -> S], NEW e \in S
  PROVE  Appended(s, n, e, S)
<1>1. s \in Seq(S) /\ Len(s) = n
  OBVIOUS
<1>2. Append(s, e) \in Seq(S) /\ Len(Append(s, e)) = n + 1
  BY <1>1
<1>3. Append(s, e) \in [1..n + 1 -> S]
  BY <1>2, LenProperties
<1>4. /\ \A i \in 1..n : Append(s, e)[i] = s[i]
      /\ Append(s, e)[n + 1] = e
  BY <1>1
<1> QED
  BY <1>1, <1>3, <1>4 DEF Appended

(* An array that is fit to be installed.                                   *)
NewArray(r) ==
  /\ r \in Array /\ r.cap > 0 /\ r.cell \in [0..r.cap -> Cell]
  /\ r.wr \in 0..r.cap /\ r.rd = 0 /\ r.life = "live" /\ r.by = {}

(* q_data::make makes one.                                                 *)
LEMMA MakeFacts ==
  ASSUME NEW cap \in Nat \ {0}, NEW q \in Seq(Cell), NEW wr \in 0..cap
  PROVE  NewArray(Make(cap, q, wr))
<1> DEFINE c == [i \in 0..cap |-> IF i < Len(q) THEN q[i + 1] ELSE Word(FREE)]
<1>1. c \in [0..cap -> Cell]
  <2>1. Word(FREE) \in Cell
    BY DEF Word, Cell, AnyWord
  <2>2. ASSUME NEW i \in 0..cap, i < Len(q) PROVE q[i + 1] \in Cell
    BY <2>2
  <2> QED
    BY <2>1, <2>2
<1>2. c \in Cells
  BY <1>1 DEF Cells
<1>3. Make(cap, q, wr) =
        [cell |-> c, cap |-> cap, wr |-> wr, rd |-> 0,
         life |-> "live", by |-> {}, waits |-> {}]
  BY DEF Make
<1> HIDE DEF c
<1>4. Make(cap, q, wr) \in Array
  BY <1>2, <1>3 DEF Array, Life
<1> QED
  BY <1>1, <1>3, <1>4 DEF NewArray

(* The array that Install makes.                                           *)
Installed(t) ==
  IF th[t].op = "push"
    THEN Make(2 * Mine(t).cap, Append(th[t].out, Word(th[t].val)),
              Len(th[t].out) + 1)
    ELSE FromRange(th[t].out)

(* The new array goes in; of the others, only what they wait for changes.  *)
LEMMA InstallStep ==
  ASSUME Types, CallsOK, OutFits, LivesOK, BarredOK, QueueAssumption,
         NEW t \in Thread, Install(t)
  PROVE  /\ impl' = impl + 1 /\ arrays' \in [1..impl + 1 -> Array]
         /\ th'[t].pc = "idle" /\ At(t, "install") /\ th[t].arr = impl
         /\ \A a \in 1..impl : LeftArray(t, arrays[a], arrays'[a])
         /\ NewArray(arrays'[impl + 1])
<1>0. /\ impl \in Nat /\ arrays \in [1..impl -> Array] /\ th \in [Thread -> Local]
      /\ th[t].out \in Seq(Cell) /\ At(t, "install")
  BY DEF Types, Local, Install
<1>1. th[t].arr = impl /\ impl \in 1..impl
  BY <1>0 DEF BarredOK, Leading, At, Types
<1>2. NewArray(Installed(t))
  <2>1. CASE th[t].op = "push"
    <3>1. Mine(t).cap \in Nat \ {0}
      <4>1. arrays[impl].life # "free"
        BY <1>0, <1>1 DEF LivesOK, At
      <4> QED
        BY <1>0, <1>1, <4>1 DEF LivesOK, Mine, Array
    <3>2. Len(th[t].out) <= Mine(t).cap /\ Len(th[t].out) \in Nat
      BY <1>0, <2>1 DEF OutFits, At
    <3>3. Word(th[t].val) \in Cell
      BY DEF Types, Local, Word, Cell, AnyWord
    <3>4. /\ Append(th[t].out, Word(th[t].val)) \in Seq(Cell)
          /\ 2 * Mine(t).cap \in Nat \ {0}
          /\ Len(th[t].out) + 1 \in 0..2 * Mine(t).cap
      BY <1>0, <3>1, <3>2, <3>3
    <3> QED
      BY <2>1, <3>4, MakeFacts DEF Installed
  <2>2. CASE th[t].op # "push"
    <3> DEFINE q == th[t].out
               cap == CHOOSE c \in {Cap * 2^i : i \in 0..MaxValues} :
                        c > Len(q) /\ (c = Cap \/ c <= 2 * Len(q))
               wr == IF 2 * Len(q) = cap /\ cap > Cap THEN 0 ELSE Len(q)
    <3>1. Len(q) \in 0..MaxValues
      BY <1>0, <2>2 DEF OutFits, CallsOK, At, QueueAssumption
    <3>2. cap \in Nat \ {0} /\ cap > Len(q)
      BY <3>1, RangeCap
    <3>3. Installed(t) = Make(cap, q, wr)
      BY <2>2 DEF Installed, FromRange
    <3> HIDE DEF cap
    <3>4. wr \in 0..cap
      BY <3>1, <3>2
    <3> HIDE DEF wr
    <3> QED
      BY <1>0, <3>2, <3>3, <3>4, MakeFacts
  <2> QED
    BY <2>1, <2>2
<1>3. /\ impl' = Len(arrays) + 1 /\ Done(t, Append(arrays, Installed(t)))
  BY DEF Install, Installed
<1> DEFINE as == Append(arrays, Installed(t))
<1>4. /\ as \in [1..impl + 1 -> Array] /\ Len(arrays) = impl
      /\ \A a \in 1..impl : as[a] = arrays[a]
      /\ as[impl + 1] = Installed(t)
  <2>1. Installed(t) \in Array
    BY <1>2 DEF NewArray
  <2>0. impl \in Nat /\ arrays \in [1..impl -> Array]
    BY <1>0
  <2>2. Appended(arrays, impl, Installed(t), Array)
    BY <2>0, <2>1, AppendFacts
  <2> QED
    BY <2>2 DEF Appended
<1>5. Done(t, as) /\ impl' = impl + 1
  BY <1>3, <1>4
<1> HIDE DEF as
<1>6. /\ Left(t, as) \in [1..impl + 1 -> Array]
      /\ \A a \in 1..impl + 1 : LeftArray(t, as[a], Left(t, as)[a])
  <2>1. impl + 1 \in Nat
    BY <1>0
  <2> QED
    BY <1>4, <2>1, LeftFacts
<1>7. arrays' = Left(t, as) /\ th'[t].pc = "idle"
  BY <1>0, <1>5, RestFacts DEF Done
<1>8. NewArray(arrays'[impl + 1])
  <2>1. impl + 1 \in 1..impl + 1
    BY <1>0
  <2>2. LeftArray(t, Installed(t), arrays'[impl + 1])
    BY <1>4, <1>6, <1>7, <2>1
  <2> QED
    BY <1>2, <1>6, <1>7, <2>1, <2>2 DEF LeftArray, NewArray
<1>9. ASSUME NEW a \in 1..impl PROVE LeftArray(t, arrays[a], arrays'[a])
  <2>1. a \in 1..impl + 1
    BY <1>0
  <2>2. as[a] = arrays[a]
    BY <1>4
  <2> QED
    BY <1>6, <1>7, <2>1, <2>2
<1> QED
  BY <1>0, <1>1, <1>5, <1>6, <1>7, <1>8, <1>9

(* Every step leaves its thread where its call can be.                     *)
LEMMA CallsStep ==
  ASSUME Types, CallsOK, QueueAssumption, NEW t \in Thread, Step(t)
  PROVE  CallsOK'
<1> SUFFICES ASSUME NEW u \in Thread PROVE CallsOK!(u)'
  BY DEF CallsOK
<1>0. CASE u # t
  BY <1>0, OthersSame DEF CallsOK, At
<1> SUFFICES ASSUME u = t PROVE CallsOK!(t)'
  BY <1>0
<1>1. CASE LoadImpl(t)
  BY <1>1, EntryFacts DEF At, LoadImpl, Types, CallsOK, Local, Op
<1>2. CASE Push(t)
  <2>1. made + 1 # FREE
    BY <1>2 DEF Types, FREE, QueueAssumption
  <2> QED
    BY <1>2, <2>1, EntryFacts DEF At, Push, Call, Started, Rest, Types,
       CallsOK, Local, Op
<1>3. CASE PushIdx(t)
  BY <1>3 DEF At, PushIdx, Goto, Types, CallsOK, Local, Op
<1>4. CASE PushCell(t)
  BY <1>4 DEF At, PushCell, Goto, Retry, Types, CallsOK, Local, Op
<1>5. CASE PushCas(t)
  BY <1>5 DEF At, PushCas, Goto, Retry, Types, CallsOK, Local, Op
<1>6. CASE PushBump(t)
  BY <1>6 DEF At, PushBump, Done, Rest, Types, CallsOK, Local, Op
<1>7. CASE Pop(t)
  BY <1>7, EntryFacts DEF At, Pop, Call, Started, Rest, Types, CallsOK, Local,
     Op
<1>8. CASE PopRd(t)
  BY <1>8 DEF At, PopRd, Types, CallsOK, Local, Op
<1>9. CASE PopWr(t)
  BY <1>9 DEF At, PopWr, Goto, Retry, Types, CallsOK, Local, Op
<1>10. CASE PopCell(t)
  BY SMTT(40), <1>10 DEF At, PopCell, Retry, Types, CallsOK, Local, Op
<1>11. CASE PopCas(t)
  BY <1>11 DEF At, PopCas, Goto, Retry, Types, CallsOK, Local, Op
<1>12. CASE PopBump(t)
  BY <1>12 DEF At, PopBump, Done, Rest, Types, CallsOK, Local, Op
<1>13. CASE PopWait(t)
  BY <1>13 DEF At, PopWait, Goto, Types, CallsOK, Local, Op
<1>14. CASE Assign(t)
  BY <1>14, EntryFacts DEF At, Assign, Call, Started, Rest, Types, CallsOK,
     Local, Op
<1>15. CASE Clear(t)
  BY <1>15, EntryFacts DEF At, Clear, Call, Started, Rest, Types, CallsOK,
     Local, Op
<1>16. CASE RdIdx(t)
  BY <1>16 DEF At, RdIdx, Types, CallsOK, Local, Op
<1>17. CASE Mark(t)
  BY <1>17 DEF At, Mark, Goto, Retry, Again, Lead, Types, CallsOK, Local, Op
<1>18. CASE MarkWait(t)
  BY <1>18 DEF At, MarkWait, Retry, Again, Types, CallsOK, Local, Op
<1>19. CASE Alloc(t)
  BY <1>19 DEF At, Alloc, Goto, Types, CallsOK, Local, Op
<1>20. CASE Unmark(t)
  BY <1>20 DEF At, Unmark, Done, Rest, Types, CallsOK, Local, Op
<1>21. CASE Sweep(t)
  BY SMTT(40), <1>21 DEF At, Sweep, Goto, AfterSweep, Types, CallsOK, Local, Op
<1>22. CASE Finalize(t)
  BY <1>22 DEF At, Finalize, Goto, Types, CallsOK, Local, Op
<1>23. CASE Install(t)
  BY <1>23 DEF At, Install, Done, Rest, Types, CallsOK, Local, Op
<1>24. CASE ClearStore(t)
  BY SMTT(40), <1>24 DEF At, ClearStore, Goto, Done, Rest, Types, CallsOK, Local, Op
<1>25. CASE \E op \in {"front", "back", "walk"} : Read(t, op)
  BY <1>25, EntryFacts DEF At, Read, Call, Started, Rest, Types, CallsOK,
     Local, Op
<1>26. CASE EndIdx(t)
  BY <1>26 DEF At, EndIdx, Types, CallsOK, Local, Op
<1>27. CASE EndCell(t)
  <2>1. CASE Here(t).v = DELT
    BY <1>27, <2>1 DEF At, EndCell, Retry, Types, CallsOK, Local, Op
  <2>2. CASE Here(t).v # DELT
    BY <1>27, <2>2 DEF At, EndCell, Types, CallsOK, Local, Op
  <2> QED
    BY <2>1, <2>2
<1>28. CASE Answer(t)
  BY <1>28 DEF At, Answer, Done, Rest, Types, CallsOK, Local, Op
<1>29. CASE WalkRd(t)
  BY <1>29 DEF At, WalkRd, Types, CallsOK, Local, Op
<1>30. CASE Walk(t)
  BY <1>30 DEF At, Walk, Types, CallsOK, Local, Op
<1>31. CASE WalkEnd(t)
  BY <1>31 DEF At, WalkEnd, Done, Rest, Types, CallsOK, Local, Op
<1> QED
  BY <1>1, <1>2, <1>3, <1>4, <1>5, <1>6, <1>7, <1>8, <1>9, <1>10, <1>11,
     <1>12, <1>13, <1>14, <1>15, <1>16, <1>17, <1>18, <1>19, <1>20, <1>21,
     <1>22, <1>23, <1>24, <1>25, <1>26, <1>27, <1>28, <1>29, <1>30, <1>31
  DEF Step

(* A call goes on with its operation until it ends, and with its array but *)
(* where it loads impl.                                                    *)
LEMMA CallStays ==
  ASSUME Types, CallsOK, NEW t \in Thread, Step(t)
  PROVE  /\ th'[t].arr \in {0, th[t].arr, impl}
         /\ th'[t].pc \notin {"idle", "pushidx", "poprd", "rdix", "end", "walkrd"}
              => th'[t].arr = th[t].arr
         /\ ~At(t, "idle") => th'[t].op \in {th[t].op, "none"}
<1>1. CASE LoadImpl(t)
  BY ZenonT(60), <1>1, EntryFacts DEF At, LoadImpl, Types, Local, CallsOK, Op
<1>2. CASE Push(t)
  BY <1>2, EntryFacts DEF At, Push, Call, Started, Rest, Types, Local
<1>3. CASE PushIdx(t)
  BY <1>3 DEF At, PushIdx, Goto, Types, Local
<1>4. CASE PushCell(t)
  BY <1>4 DEF At, PushCell, Goto, Retry, Types, Local
<1>5. CASE PushCas(t)
  BY <1>5 DEF At, PushCas, Goto, Retry, Types, Local
<1>6. CASE PushBump(t)
  BY <1>6 DEF At, PushBump, Done, Rest, Types, Local
<1>7. CASE Pop(t)
  BY <1>7, EntryFacts DEF At, Pop, Call, Started, Rest, Types, Local
<1>8. CASE PopRd(t)
  BY <1>8 DEF At, PopRd, Types, Local
<1>9. CASE PopWr(t)
  BY <1>9 DEF At, PopWr, Goto, Retry, Types, Local
<1>10. CASE PopCell(t)
  BY <1>10 DEF At, PopCell, Retry, Types, Local
<1>11. CASE PopCas(t)
  BY <1>11 DEF At, PopCas, Goto, Retry, Types, Local
<1>12. CASE PopBump(t)
  BY <1>12 DEF At, PopBump, Done, Rest, Types, Local
<1>13. CASE PopWait(t)
  BY <1>13 DEF At, PopWait, Goto, Types, Local
<1>14. CASE Assign(t)
  BY <1>14, EntryFacts DEF At, Assign, Call, Started, Rest, Types, Local
<1>15. CASE Clear(t)
  BY <1>15, EntryFacts DEF At, Clear, Call, Started, Rest, Types, Local
<1>16. CASE RdIdx(t)
  BY <1>16 DEF At, RdIdx, Types, Local
<1>17. CASE Mark(t)
  BY <1>17 DEF At, Mark, Goto, Retry, Again, Lead, Types, Local
<1>18. CASE MarkWait(t)
  BY <1>18 DEF At, MarkWait, Retry, Again, Types, Local
<1>19. CASE Alloc(t)
  BY <1>19 DEF At, Alloc, Goto, Types, Local
<1>20. CASE Unmark(t)
  BY <1>20 DEF At, Unmark, Done, Rest, Types, Local
<1>21. CASE Sweep(t)
  BY <1>21 DEF At, Sweep, Goto, AfterSweep, Types, Local
<1>22. CASE Finalize(t)
  BY <1>22 DEF At, Finalize, Goto, Types, Local
<1>23. CASE Install(t)
  BY <1>23 DEF At, Install, Done, Rest, Types, Local
<1>24. CASE ClearStore(t)
  BY <1>24 DEF At, ClearStore, Goto, Done, Rest, Types, Local
<1>25. CASE \E op \in {"front", "back", "walk"} : Read(t, op)
  BY <1>25, EntryFacts DEF At, Read, Call, Started, Rest, Types, Local
<1>26. CASE EndIdx(t)
  BY <1>26 DEF At, EndIdx, Types, Local
<1>27. CASE EndCell(t)
  BY <1>27 DEF At, EndCell, Retry, Types, Local
<1>28. CASE Answer(t)
  BY <1>28 DEF At, Answer, Done, Rest, Types, Local
<1>29. CASE WalkRd(t)
  BY <1>29 DEF At, WalkRd, Types, Local
<1>30. CASE Walk(t)
  BY <1>30 DEF At, Walk, Types, Local
<1>31. CASE WalkEnd(t)
  BY <1>31 DEF At, WalkEnd, Done, Rest, Types, Local
<1> QED
  BY <1>1, <1>2, <1>3, <1>4, <1>5, <1>6, <1>7, <1>8, <1>9, <1>10, <1>11,
     <1>12, <1>13, <1>14, <1>15, <1>16, <1>17, <1>18, <1>19, <1>20, <1>21,
     <1>22, <1>23, <1>24, <1>25, <1>26, <1>27, <1>28, <1>29, <1>30, <1>31
  DEF Step

(* The cells of the array that is being made change only where _Rearm      *)
(* copies them.                                                            *)
LEMMA OutStays ==
  ASSUME Types, NEW t \in Thread, Step(t)
  PROVE  ~At(t, "idle") /\ th'[t].pc # "idle" =>
           \/ th'[t].out = th[t].out \/ Alloc(t)
           \/ Sweep(t) /\ th[t].op = "push"
<1>1. CASE LoadImpl(t)
  BY <1>1, EntryFacts DEF At, LoadImpl, Types, Local, CallsOK, Op
<1>2. CASE Push(t)
  BY <1>2, EntryFacts DEF At, Push, Call, Started, Rest, Types, Local
<1>3. CASE PushIdx(t)
  BY <1>3 DEF At, PushIdx, Goto, Types, Local
<1>4. CASE PushCell(t)
  BY <1>4 DEF At, PushCell, Goto, Retry, Types, Local
<1>5. CASE PushCas(t)
  BY <1>5 DEF At, PushCas, Goto, Retry, Types, Local
<1>6. CASE PushBump(t)
  BY <1>6 DEF At, PushBump, Done, Rest, Types, Local
<1>7. CASE Pop(t)
  BY <1>7, EntryFacts DEF At, Pop, Call, Started, Rest, Types, Local
<1>8. CASE PopRd(t)
  BY <1>8 DEF At, PopRd, Types, Local
<1>9. CASE PopWr(t)
  BY <1>9 DEF At, PopWr, Goto, Retry, Types, Local
<1>10. CASE PopCell(t)
  BY <1>10 DEF At, PopCell, Retry, Types, Local
<1>11. CASE PopCas(t)
  BY <1>11 DEF At, PopCas, Goto, Retry, Types, Local
<1>12. CASE PopBump(t)
  BY <1>12 DEF At, PopBump, Done, Rest, Types, Local
<1>13. CASE PopWait(t)
  BY <1>13 DEF At, PopWait, Goto, Types, Local
<1>14. CASE Assign(t)
  BY <1>14, EntryFacts DEF At, Assign, Call, Started, Rest, Types, Local
<1>15. CASE Clear(t)
  BY <1>15, EntryFacts DEF At, Clear, Call, Started, Rest, Types, Local
<1>16. CASE RdIdx(t)
  BY <1>16 DEF At, RdIdx, Types, Local
<1>17. CASE Mark(t)
  BY <1>17 DEF At, Mark, Goto, Retry, Again, Lead, Types, Local
<1>18. CASE MarkWait(t)
  BY <1>18 DEF At, MarkWait, Retry, Again, Types, Local
<1>19. CASE Alloc(t)
  BY <1>19
<1>20. CASE Unmark(t)
  BY <1>20 DEF At, Unmark, Done, Rest, Types, Local
<1>21. CASE Sweep(t)
  <2>1. th[t].op # "push" => th'[t].out = th[t].out
    BY <1>21 DEF Sweep, Goto, Types, Local
  <2> QED
    BY <1>21, <2>1
<1>22. CASE Finalize(t)
  BY <1>22 DEF At, Finalize, Goto, Types, Local
<1>23. CASE Install(t)
  BY <1>23 DEF At, Install, Done, Rest, Types, Local
<1>24. CASE ClearStore(t)
  BY <1>24 DEF At, ClearStore, Goto, Done, Rest, Types, Local
<1>25. CASE \E op \in {"front", "back", "walk"} : Read(t, op)
  BY <1>25, EntryFacts DEF At, Read, Call, Started, Rest, Types, Local
<1>26. CASE EndIdx(t)
  BY <1>26 DEF At, EndIdx, Types, Local
<1>27. CASE EndCell(t)
  BY <1>27 DEF At, EndCell, Retry, Types, Local
<1>28. CASE Answer(t)
  BY <1>28 DEF At, Answer, Done, Rest, Types, Local
<1>29. CASE WalkRd(t)
  BY <1>29 DEF At, WalkRd, Types, Local
<1>30. CASE Walk(t)
  BY <1>30 DEF At, Walk, Types, Local
<1>31. CASE WalkEnd(t)
  BY <1>31 DEF At, WalkEnd, Done, Rest, Types, Local
<1> QED
  BY <1>1, <1>2, <1>3, <1>4, <1>5, <1>6, <1>7, <1>8, <1>9, <1>10, <1>11,
     <1>12, <1>13, <1>14, <1>15, <1>16, <1>17, <1>18, <1>19, <1>20, <1>21,
     <1>22, <1>23, <1>24, <1>25, <1>26, <1>27, <1>28, <1>29, <1>30, <1>31
  DEF Step

(* A call begins only while nobody clears, and a thread that is to install *)
(* an array, or to wipe one, does nothing else.                            *)
LEMMA GuardFacts ==
  ASSUME ClearAlone, NEW t \in Thread, Step(t)
  PROVE  /\ At(t, "idle") => \A u \in Thread : th[u].op # "clear"
         /\ At(t, "idle") => \/ Push(t) \/ Pop(t) \/ Assign(t) \/ Clear(t)
                             \/ \E op \in {"front", "back", "walk"} : Read(t, op)
         /\ At(t, "install") => Install(t)
         /\ Wiping(t) => ClearStore(t)
<1>1. CASE LoadImpl(t)
  BY <1>1 DEF At, Wiping, LoadImpl
<1>2. CASE Push(t)
  BY <1>2 DEF At, Wiping, Push, Call
<1>3. CASE PushIdx(t)
  BY <1>3 DEF At, Wiping, PushIdx
<1>4. CASE PushCell(t)
  BY <1>4 DEF At, Wiping, PushCell
<1>5. CASE PushCas(t)
  BY <1>5 DEF At, Wiping, PushCas
<1>6. CASE PushBump(t)
  BY <1>6 DEF At, Wiping, PushBump
<1>7. CASE Pop(t)
  BY <1>7 DEF At, Wiping, Pop, Call
<1>8. CASE PopRd(t)
  BY <1>8 DEF At, Wiping, PopRd
<1>9. CASE PopWr(t)
  BY <1>9 DEF At, Wiping, PopWr
<1>10. CASE PopCell(t)
  BY <1>10 DEF At, Wiping, PopCell
<1>11. CASE PopCas(t)
  BY <1>11 DEF At, Wiping, PopCas
<1>12. CASE PopBump(t)
  BY <1>12 DEF At, Wiping, PopBump
<1>13. CASE PopWait(t)
  BY <1>13 DEF At, Wiping, PopWait
<1>14. CASE Assign(t)
  BY <1>14 DEF At, Wiping, Assign, Call
<1>15. CASE Clear(t)
  BY <1>15 DEF At, Wiping, Clear, Call
<1>16. CASE RdIdx(t)
  BY <1>16 DEF At, Wiping, RdIdx
<1>17. CASE Mark(t)
  BY <1>17 DEF At, Wiping, Mark
<1>18. CASE MarkWait(t)
  BY <1>18 DEF At, Wiping, MarkWait
<1>19. CASE Alloc(t)
  BY <1>19 DEF At, Wiping, Alloc
<1>20. CASE Unmark(t)
  BY <1>20 DEF At, Wiping, Unmark
<1>21. CASE Sweep(t)
  BY <1>21 DEF At, Wiping, Sweep
<1>22. CASE Finalize(t)
  BY <1>22 DEF At, Wiping, Finalize
<1>23. CASE Install(t)
  BY <1>23 DEF At, Wiping, Install
<1>24. CASE ClearStore(t)
  BY <1>24 DEF At, Wiping, ClearStore
<1>25. CASE \E op \in {"front", "back", "walk"} : Read(t, op)
  BY <1>25 DEF At, Wiping, Read, Call
<1>26. CASE EndIdx(t)
  BY <1>26 DEF At, Wiping, EndIdx
<1>27. CASE EndCell(t)
  BY <1>27 DEF At, Wiping, EndCell
<1>28. CASE Answer(t)
  BY <1>28 DEF At, Wiping, Answer
<1>29. CASE WalkRd(t)
  BY <1>29 DEF At, Wiping, WalkRd
<1>30. CASE Walk(t)
  BY <1>30 DEF At, Wiping, Walk
<1>31. CASE WalkEnd(t)
  BY <1>31 DEF At, Wiping, WalkEnd
<1> QED
  BY <1>1, <1>2, <1>3, <1>4, <1>5, <1>6, <1>7, <1>8, <1>9, <1>10, <1>11,
     <1>12, <1>13, <1>14, <1>15, <1>16, <1>17, <1>18, <1>19, <1>20, <1>21,
     <1>22, <1>23, <1>24, <1>25, <1>26, <1>27, <1>28, <1>29, <1>30, <1>31
  DEF Step

(* Who steps while a thread clears is that thread.                         *)
LEMMA AloneFacts ==
  ASSUME ClearAlone, CallsOK, ClearsAlone, NEW t \in Thread, Step(t),
         NEW u \in Thread \ {t}
  PROVE  /\ th[u].op # "clear" /\ ~Wiping(u) /\ ~At(u, "wrcap")
         /\ th[t].op = "clear" \/ Wiping(t) \/ At(t, "wrcap") => At(u, "idle")
<1>1. th[u].op # "clear"
  BY GuardFacts DEF ClearsAlone
<1>2. th[t].op = "clear" => At(u, "idle")
  BY DEF ClearsAlone
<1> QED
  BY <1>1, <1>2 DEF Wiping, At, CallsOK

(* The types hold after a step of a thread.                                *)
LEMMA TypesStep ==
  ASSUME QueueAssumption, Types, CallsOK, EndsOK, PushersOK, PoppersOK,
         BarredOK, OutFits, LivesOK, NEW t \in Thread, Step(t)
  PROVE  Types'
<1>1. th' \in [Thread -> Local]
  BY ThreadTypes
<1>2. made' \in 0..MaxValues /\ pops' \in 0..MaxPops
  <2>0. made \in 0..MaxValues /\ pops \in 0..MaxPops /\ MaxValues \in Nat /\ MaxPops \in Nat
    BY DEF Types, QueueAssumption
  <2>1. CASE Push(t)
    BY <2>0, <2>1 DEF Push
  <2>2. CASE Pop(t)
    BY <2>0, <2>2 DEF Pop
  <2>3. CASE Assign(t)
    BY <2>0, <2>3 DEF Assign, QueueAssumption
  <2>4. CASE UNCHANGED <<made, pops>>
    BY <2>0, <2>4
  <2> QED
    BY <2>1, <2>2, <2>3, <2>4
    DEF Step, LoadImpl, PushIdx, PushCell, PushCas, PushBump, PopRd, PopWr,
        PopCell, PopCas, PopBump, PopWait, Clear, RdIdx, Mark, MarkWait, Alloc,
        Unmark, Sweep, Finalize, Install, ClearStore, Read, EndIdx, EndCell,
        Answer, WalkRd, Walk, WalkEnd
<1>3. impl \in Nat \ {0} /\ impl' \in {impl, impl + 1}
  BY ArraysStep, InstallStep DEF Types
<1>4. ASSUME NEW u \in Thread PROVE th'[u].arr \in 0..impl'
  <2>1. th[u].arr \in 0..impl /\ th[t].arr \in 0..impl
    BY DEF Types
  <2>2. th'[u].arr \in {0, th[u].arr, impl}
    BY CallStays, OthersSame
  <2> QED
    BY <1>3, <2>1, <2>2
<1>5. CASE Install(t)
  <2>1. /\ impl' = impl + 1 /\ arrays' \in [1..impl + 1 -> Array]
        /\ \A a \in 1..impl : LeftArray(t, arrays[a], arrays'[a])
        /\ NewArray(arrays'[impl + 1])
    BY <1>5, InstallStep
  <2>2. ASSUME NEW a \in 1..impl + 1
        PROVE  /\ arrays'[a].cell \in [0..arrays'[a].cap -> Cell]
               /\ arrays'[a].wr \in 0..arrays'[a].cap
               /\ arrays'[a].rd \in 0..arrays'[a].cap
    <3>1. CASE a \in 1..impl
      BY <2>1, <3>1 DEF LeftArray, Types
    <3>2. CASE a = impl + 1
      BY <2>1, <3>2 DEF NewArray, Array
    <3> QED
      BY <1>3, <3>1, <3>2
  <2> QED
    BY <1>1, <1>2, <1>3, <1>4, <2>1, <2>2 DEF Types
<1>6. CASE ~Install(t)
  <2>1. /\ impl' = impl /\ arrays' \in [1..impl -> Array]
        /\ \A a \in 1..impl :
             ArrayStep(t, a = th[t].arr, arrays[a], arrays'[a])
    BY <1>6, ArraysStep
  <2>2. ASSUME NEW a \in 1..impl
        PROVE  /\ arrays'[a].cell \in [0..arrays'[a].cap -> Cell]
               /\ arrays'[a].wr \in 0..arrays'[a].cap
               /\ arrays'[a].rd \in 0..arrays'[a].cap
    <3>1. /\ arrays[a].cap \in Nat /\ arrays[a].wr \in 0..arrays[a].cap
          /\ arrays[a].rd \in 0..arrays[a].cap
      BY DEF Types, Array
    <3>2. a = th[t].arr /\ At(t, "pushbump") => arrays[a].wr < arrays[a].cap
      BY <3>1 DEF PushersOK, At, Mine
    <3>3. a = th[t].arr /\ At(t, "popbump") => arrays[a].rd < arrays[a].cap
      BY <3>1 DEF PoppersOK, At, Mine
    <3>4. ArrayStep(t, a = th[t].arr, arrays[a], arrays'[a])
      BY <2>1
    <3> QED
      BY SMTT(40), <3>1, <3>2, <3>3, <3>4 DEF ArrayStep
  <2> QED
    BY <1>1, <1>2, <1>3, <1>4, <2>1, <2>2 DEF Types
<1> QED
  BY <1>5, <1>6

(* What ArrayStep says of the data of an array.                            *)
DataStep(t, mine, r, s) ==
  /\ s.cap = r.cap /\ s.cell \in [0..r.cap -> Cell]
  /\ \A i \in 0..r.cap :
       \/ s.cell[i] = r.cell[i]
       \/ mine /\ CellStep(t, i, r.cell[i], s.cell[i])
  /\ \/ s.wr = r.wr
     \/ mine /\ At(t, "pushbump") /\ s.wr = r.wr + 1 /\ th'[t].pc = "idle"
     \/ mine /\ At(t, "wrcap") /\ s.wr = r.cap
     \/ mine /\ At(t, "wrzero") /\ s.wr = 0
  /\ \/ s.rd = r.rd
     \/ mine /\ At(t, "popbump") /\ s.rd = r.rd + 1 /\ th'[t].pc = "idle"
     \/ mine /\ At(t, "rdcap") /\ s.rd = r.cap /\ th'[t].pc = "wipe"
     \/ mine /\ At(t, "wipe") /\ th'[t].pc = "wrzero" /\ s.rd = 0

(* Install changes the data of no array that is there.                     *)
LEMMA DataSteps ==
  ASSUME QueueAssumption, Types, CallsOK, PushersOK, PoppersOK, BarredOK,
         OutFits, LivesOK, NEW t \in Thread, Step(t)
  PROVE  /\ impl' \in {impl, impl + 1}
         /\ \A a \in 1..impl :
              DataStep(t, a = th[t].arr, arrays[a], arrays'[a])
<1>1. CASE Install(t)
  <2>1. /\ impl' = impl + 1
        /\ \A a \in 1..impl : LeftArray(t, arrays[a], arrays'[a])
    BY <1>1, InstallStep
  <2>2. \A a \in 1..impl : arrays[a].cell \in [0..arrays[a].cap -> Cell]
    BY DEF Types
  <2> QED
    BY <2>1, <2>2 DEF LeftArray, DataStep
<1>2. CASE ~Install(t)
  <2>1. /\ impl' = impl
        /\ \A a \in 1..impl :
             ArrayStep(t, a = th[t].arr, arrays[a], arrays'[a])
    BY <1>2, ArraysStep
  <2> QED
    BY <2>1 DEF ArrayStep, DataStep
<1> QED
  BY <1>1, <1>2

(* A thread that is at a cell where its array is FREE is at wr_idx, and a  *)
(* thread that is to increment it keeps the others from one.               *)
LEMMA PushersStep ==
  ASSUME QueueAssumption, ClearAlone, Types, CallsOK, ClearsAlone, PushersOK,
         PoppersOK, BarredOK, OutFits, LivesOK, NEW t \in Thread, Step(t)
  PROVE  PushersOK'
<1> SUFFICES ASSUME NEW u \in Thread,
                    th'[u].pc \in {"pushcell", "pushcas", "pushbump"}
             PROVE  PushersOK!(u)'
  BY DEF PushersOK, At
<1>0. /\ \A a \in 1..impl : DataStep(t, a = th[t].arr, arrays[a], arrays'[a])
      /\ \A v \in Thread \ {t} : th'[v] = th[v]
  BY DataSteps, OthersSame
<1>1. CASE u # t
  <2> DEFINE a == th[u].arr
             i == th[u].ix
             r == arrays[a]
             s == arrays'[a]
  <2>0. th'[u] = th[u]
    BY <1>0, <1>1
  <2>1. /\ a \in 1..impl /\ r.cap \in Nat /\ r.wr \in 0..r.cap /\ i \in Nat
    BY <2>0, MineFacts DEF At, Mine, Types, Local
  <2>2. DataStep(t, a = th[t].arr, r, s)
    BY <1>0, <2>1
  <2>3. /\ ~At(t, "wrcap") /\ ~At(t, "wrzero") /\ ~At(t, "wipe")
    BY <1>1, <2>0, AloneFacts DEF At, Wiping
  <2>4. i < r.cap /\ i <= r.wr /\ (i < r.wr => r.cell[i].v # FREE)
    BY <2>0 DEF PushersOK, Mine, Here
  <2>5. i \in 0..r.cap
    BY <2>1, <2>4
  <2>6. r.cell[i].v # FREE => s.cell[i].v # FREE
    <3>1. s.cell[i] = r.cell[i] \/ CellStep(t, i, r.cell[i], s.cell[i])
      BY <2>2, <2>5 DEF DataStep
    <3> QED
      BY SMTT(40), <2>3, <3>1 DEF CellStep, Word, FREE, DELT
  <2>7. At(t, "pushbump") /\ a = th[t].arr => th[t].ix = r.wr /\ r.cell[r.wr].v # FREE
    BY DEF PushersOK, Mine, Here
  <2>8. s.wr = r.wr \/ (s.wr = r.wr + 1 /\ At(t, "pushbump") /\ a = th[t].arr)
    BY <2>2, <2>3 DEF DataStep
  <2>9. i < s.cap /\ i <= s.wr /\ (i < s.wr => s.cell[i].v # FREE)
    <3>1. s.cap = r.cap
      BY <2>2 DEF DataStep
    <3>2. CASE s.wr = r.wr
      BY <2>4, <2>6, <3>1, <3>2
    <3>3. CASE s.wr = r.wr + 1 /\ At(t, "pushbump") /\ a = th[t].arr
      <4>1. i < r.wr + 1 => r.cell[i].v # FREE
        BY SMTT(40), <2>1, <2>4, <2>7, <3>3
      <4> QED
        BY SMTT(40), <2>1, <2>4, <2>6, <3>1, <3>3, <4>1
    <3> QED
      BY <2>8, <3>2, <3>3
  <2>10. ASSUME th'[u].pc = "pushbump"
         PROVE  /\ i = s.wr /\ s.cell[i].v # FREE
                /\ \A w \in Thread \ {u} :
                     th'[w].pc = "pushbump" => th'[w].arr # a
    <3>1. /\ i = r.wr /\ r.cell[i].v # FREE
          /\ \A w \in Thread \ {u} : At(w, "pushbump") => th[w].arr # a
      BY <2>0, <2>10 DEF PushersOK, At, Mine, Here
    <3>2. s.wr = r.wr
      BY <1>1, <2>8, <3>1
    <3>3. ASSUME th'[t].pc = "pushbump", th'[t].arr = a PROVE FALSE
      <4>1. PushCas(t)
        BY <3>3, Enters
      <4>2. th[t].arr = a
        BY <3>3, CallStays
      <4>3. Here(t) = Word(FREE)
        BY <3>3, <4>1 DEF PushCas, Retry, Types, Local
      <4>4. th[t].ix <= r.wr /\ (th[t].ix < r.wr => r.cell[th[t].ix].v # FREE)
        BY <4>1, <4>2 DEF PushersOK, PushCas, At, Mine, Here
      <4>5. th[t].ix \in Nat
        BY DEF Types, Local
      <4>6. r.cell[th[t].ix].v = FREE
        BY <4>2, <4>3 DEF Here, Mine, Word
      <4> QED
        BY SMTT(40), <2>1, <3>1, <4>4, <4>5, <4>6
    <3>4. ASSUME NEW w \in Thread \ {u}, th'[w].pc = "pushbump"
          PROVE  th'[w].arr # a
      BY <1>0, <3>1, <3>3, <3>4 DEF At
    <3> QED
      BY <2>6, <3>1, <3>2, <3>4
  <2> QED
    BY <2>0, <2>9, <2>10 DEF At, Mine, Here
<1>2. CASE u = t
  <2> DEFINE a == th[t].arr
             r == arrays[a]
  <2>1. th'[t].arr = a
    BY <1>2, CallStays
  <2>2. ~At(t, "idle")
    BY <1>2, Enters DEF At, PushIdx, PushCell, PushCas
  <2>3. a \in 1..impl /\ r.cap \in Nat /\ r.wr \in 0..r.cap /\ r = Mine(t)
    BY <2>2, MineFacts DEF Mine
  <2>4. CASE th'[t].pc = "pushcell"
    <3>1. PushIdx(t)
      BY <2>4, Enters
    <3>2. r.wr < r.cap /\ th'[t].ix = r.wr /\ arrays' = arrays
      BY SMTT(40), <2>3, <2>4, <3>1 DEF PushIdx, Goto, Types, Local
    <3> QED
      BY <1>2, <2>1, <2>3, <2>4, <3>2 DEF At, Mine, Here
  <2>5. CASE th'[t].pc = "pushcas"
    <3>1. PushCell(t)
      BY <2>5, Enters
    <3>2. th'[t].ix = th[t].ix /\ arrays' = arrays
      BY <2>5, <3>1 DEF PushCell, Goto, Retry, Types, Local
    <3>3. th[t].ix < r.cap /\ th[t].ix <= r.wr
          /\ (th[t].ix < r.wr => r.cell[th[t].ix].v # FREE)
      BY <3>1 DEF PushCell, PushersOK, At, Mine, Here
    <3> QED
      BY <1>2, <2>1, <2>5, <3>2, <3>3 DEF At, Mine, Here
  <2>6. CASE th'[t].pc = "pushbump"
    <3> DEFINE i == th[t].ix
               s == arrays'[a]
    <3>1. PushCas(t)
      BY <2>6, Enters
    <3>2. Here(t) = Word(FREE) /\ th'[t].ix = i /\ th[t].op = "push"
      BY <2>6, <3>1 DEF PushCas, Goto, Retry, Types, Local, CallsOK, At
    <3>3. /\ i < r.cap /\ i <= r.wr /\ i \in Nat
          /\ (i < r.wr => r.cell[i].v # FREE)
      BY <3>1 DEF PushCas, PushersOK, At, Mine, Here, Types, Local
    <3>4. r.cell[i] = Word(FREE)
      BY <3>2 DEF Here, Mine
    <3>5. i = r.wr
      BY <2>3, <3>3, <3>4 DEF Word
    <3>6. i \in 0..r.cap /\ DataStep(t, a = th[t].arr, r, s)
      BY <1>0, <2>3, <3>3
    <3>7. s.wr = r.wr /\ s.cap = r.cap
      BY <3>1, <3>6 DEF PushCas, At, DataStep
    <3>8. s.cell[i].v # FREE
      <4>1. th[t].val # FREE
        BY <3>2 DEF CallsOK
      <4>2. s = [r EXCEPT !.cell = [r.cell EXCEPT ![i] = Word(th[t].val)]]
        BY <2>3, <3>1, <3>2 DEF PushCas, SetCell, Types
      <4>3. s.cell[i] = Word(th[t].val)
        BY <2>3, <3>6, <4>2 DEF Types, Array
      <4> QED
        BY <4>1, <4>3 DEF Word
    <3>9. ASSUME NEW w \in Thread \ {t}, th'[w].pc = "pushbump", th'[w].arr = a
          PROVE  FALSE
      <4>1. th[w].pc = "pushbump" /\ th[w].arr = a
        BY <1>0, <3>9
      <4>2. th[w].ix = r.wr /\ r.cell[th[w].ix].v # FREE
        BY <4>1 DEF PushersOK, At, Mine, Here
      <4> QED
        BY <3>4, <3>5, <4>2 DEF Word
    <3> QED
      BY <1>2, <2>1, <2>6, <3>2, <3>3, <3>5, <3>7, <3>8, <3>9 DEF At, Mine,
         Here
  <2> QED
    BY <1>2, <2>4, <2>5, <2>6
<1> QED
  BY <1>1, <1>2

(* A thread that pops, or marks, is in an array that nobody wipes.         *)
LEMMA NotWiped ==
  ASSUME ClearAlone, CallsOK, ClearsAlone, NEW t \in Thread, Step(t),
         NEW u \in Thread, ~At(u, "idle"), ~At(u, "wipe")
  PROVE  \A a : ~Wiped(a)
<1>1. ASSUME NEW w \in Thread, At(w, "wipe") PROVE FALSE
  <2>1. th[w].op = "clear"
    BY <1>1 DEF CallsOK, At
  <2> QED
    BY <1>1, <2>1 DEF ClearsAlone
<1> QED
  BY <1>1 DEF Wiped

(* The cell of a thread about to pop is at rd_idx, if it is not popped yet.*)
LEMMA AtRdIdx ==
  ASSUME ClearAlone, Types, CallsOK, ClearsAlone, PoppedBefore, PoppersOK,
         NEW t \in Thread, Step(t), th[t].pc \in {"popcas", "mark"},
         Here(t).v # DELT
  PROVE  th[t].ix = Mine(t).rd
<1>1. /\ th[t].arr \in 1..impl /\ Mine(t).rd \in Nat /\ th[t].ix \in Nat
      /\ th[t].ix <= Mine(t).rd
  BY MineFacts DEF At, Types, Local, PoppersOK
<1>2. ~Wiped(th[t].arr)
  BY NotWiped DEF At
<1>3. \A i \in 0..Mine(t).rd - 1 : Mine(t).cell[i].v = DELT
  BY <1>1, <1>2 DEF PoppedBefore, Mine
<1> QED
  BY <1>1, <1>3 DEF Here

(* rd_idx passes no cell that was not popped.                              *)
LEMMA PoppedStep ==
  ASSUME QueueAssumption, ClearAlone, Types, CallsOK, ClearsAlone,
         PoppedBefore, PushersOK, PoppersOK, BarredOK, OutFits, LivesOK,
         NEW t \in Thread, Step(t)
  PROVE  PoppedBefore'
<1> SUFFICES ASSUME NEW a \in 1..impl', ~Wiped(a)',
                    NEW i \in 0..arrays'[a].rd - 1
             PROVE  arrays'[a].cell[i].v = DELT
  BY DEF PoppedBefore
<1>0. impl \in Nat /\ impl' \in {impl, impl + 1}
  BY DataSteps DEF Types
<1>1. CASE a \in 1..impl
  <2> DEFINE r == arrays[a]
             s == arrays'[a]
  <2>1. DataStep(t, a = th[t].arr, r, s)
    BY <1>1, DataSteps
  <2>2. r.cap \in Nat /\ r.rd \in 0..r.cap
    BY <1>1 DEF Types, Array
  <2>3. ~(At(t, "rdcap") /\ th'[t].pc = "wipe" /\ a = th[t].arr)
    BY CallStays DEF Wiped, At
  <2>4. CASE Wiped(a)
    <3>1. PICK w \in Thread : At(w, "wipe") /\ th[w].arr = a
      BY <2>4 DEF Wiped
    <3>2. w = t
      BY <3>1, AloneFacts DEF Wiping, At
    <3>3. th'[t].pc # "wipe"
      BY <3>1, <3>2, CallStays DEF Wiped, At
    <3>4. ClearStore(t) /\ At(t, "wipe")
      BY <3>1, <3>2, GuardFacts DEF Wiping, At
    <3>5. s.rd = 0
      <4>1. arrays' = [arrays EXCEPT ![a].rd = 0]
        BY <3>1, <3>2, <3>3, <3>4 DEF ClearStore, At, Types, Local
      <4> QED
        BY <1>1, <4>1 DEF Types, Array
    <3> QED
      BY <3>5
  <2>5. CASE ~Wiped(a)
    <3>1. \A j \in 0..r.rd - 1 : r.cell[j].v = DELT
      BY <1>1, <2>5 DEF PoppedBefore
    <3>2. ~(At(t, "wipe") /\ a = th[t].arr)
      BY <2>5 DEF Wiped
    <3>3. ASSUME NEW j \in 0..r.cap, r.cell[j].v = DELT
          PROVE  s.cell[j].v = DELT
      <4>1. \/ s.cell[j] = r.cell[j]
            \/ a = th[t].arr /\ CellStep(t, j, r.cell[j], s.cell[j])
        BY <2>1 DEF DataStep
      <4> QED
        BY <3>2, <3>3, <4>1 DEF CellStep, Word, FREE, DELT
    <3>4. CASE s.rd = r.rd
      BY <2>2, <3>1, <3>3, <3>4
    <3>5. CASE a = th[t].arr /\ At(t, "popbump") /\ s.rd = r.rd + 1
      <4>1. r.cell[r.rd].v = DELT
        BY <3>5 DEF PoppersOK, Mine, Here
      <4>2. \A j \in 0..s.rd - 1 : j \in 0..r.cap /\ r.cell[j].v = DELT
        BY <2>2, <3>1, <3>5, <4>1
      <4> QED
        BY <3>3, <4>2
    <3> QED
      BY <2>1, <2>3, <3>2, <3>4, <3>5 DEF DataStep
  <2> QED
    BY <2>4, <2>5
<1>2. CASE ~(a \in 1..impl)
  <2>1. Install(t)
    BY <1>2, ArraysStep
  <2>2. a = impl + 1 /\ NewArray(arrays'[impl + 1])
    BY <1>0, <1>2, <2>1, InstallStep
  <2> QED
    BY <2>2 DEF NewArray
<1> QED
  BY <1>1, <1>2

(* A thread whose compare-and-swap takes a value is at rd_idx, and keeps   *)
(* the others from one until it has incremented the index.                 *)
LEMMA PoppersStep ==
  ASSUME QueueAssumption, ClearAlone, Types, CallsOK, ClearsAlone,
         PoppedBefore, PushersOK, PoppersOK, BarredOK, OutFits, LivesOK,
         NEW t \in Thread, Step(t)
  PROVE  PoppersOK'
<1> SUFFICES ASSUME NEW u \in Thread,
                    th'[u].pc \in {"popwr", "popcell", "popcas", "popbump", "mark"}
             PROVE  PoppersOK!(u)'
  BY DEF PoppersOK, At
<1>0. /\ \A a \in 1..impl : DataStep(t, a = th[t].arr, arrays[a], arrays'[a])
      /\ \A v \in Thread \ {t} : th'[v] = th[v]
  BY DataSteps, OthersSame
<1>1. CASE u # t
  <2> DEFINE a == th[u].arr
             i == th[u].ix
             r == arrays[a]
             s == arrays'[a]
  <2>0. th'[u] = th[u]
    BY <1>0, <1>1
  <2>1. /\ a \in 1..impl /\ r.cap \in Nat /\ r.rd \in 0..r.cap /\ i \in Nat
        /\ ~At(u, "idle") /\ ~At(u, "wipe")
    BY <2>0, MineFacts DEF At, Mine, Types, Local
  <2>2. DataStep(t, a = th[t].arr, r, s)
    BY <1>0, <2>1
  <2>3. ~At(t, "rdcap") /\ ~At(t, "wipe")
    BY <1>1, <2>0, AloneFacts DEF At, Wiping
  <2>4. /\ s.cap = r.cap
        /\ s.rd = r.rd \/ (s.rd = r.rd + 1 /\ At(t, "popbump") /\ a = th[t].arr)
    BY <2>2, <2>3 DEF DataStep
  <2>5. /\ th'[u].pc \in {"popwr", "popcell", "popcas", "mark"} => i <= s.rd
        /\ th'[u].pc \in {"popcell", "popcas"} => i < s.cap
        /\ th'[u].pc = "popcas" => th'[u].got # DELT
    BY <2>0, <2>1, <2>4 DEF PoppersOK, At, Mine
  <2>6. ASSUME th'[u].pc = "popbump"
        PROVE  /\ i = s.rd /\ i < s.cap /\ s.cell[i].v = DELT
               /\ \A w \in Thread \ {u} : th'[w].pc = "popbump" => th'[w].arr # a
    <3>1. /\ i = r.rd /\ i < r.cap /\ r.cell[i].v = DELT
          /\ \A w \in Thread \ {u} : At(w, "popbump") => th[w].arr # a
      BY <2>0, <2>6 DEF PoppersOK, At, Mine, Here
    <3>2. s.rd = r.rd
      BY <1>1, <2>4, <3>1
    <3>3. s.cell[i].v = DELT
      <4>1. i \in 0..r.cap /\ r.cell[i].v = DELT
        BY <2>1, <3>1
      <4>2. s.cell[i] = r.cell[i] \/ CellStep(t, i, r.cell[i], s.cell[i])
        BY <2>2, <4>1 DEF DataStep
      <4> QED
        BY SMTT(40), <2>3, <4>1, <4>2 DEF CellStep, Word, FREE, DELT
    <3>4. ASSUME th'[t].pc = "popbump", th'[t].arr = a PROVE FALSE
      <4>1. PopCas(t)
        BY <3>4, Enters
      <4>2. th[t].arr = a
        BY <3>4, CallStays
      <4>3. Here(t) = Word(th[t].got) /\ At(t, "popcas")
        BY <3>4, <4>1 DEF PopCas, Retry, Types, Local
      <4>4. Here(t).v # DELT
        BY <4>3 DEF PoppersOK, Word
      <4>5. th[t].ix = r.rd
        BY <4>2, <4>3, <4>4, AtRdIdx DEF At, Mine
      <4> QED
        BY <3>1, <4>2, <4>4, <4>5 DEF Here, Mine
    <3>5. ASSUME NEW w \in Thread \ {u}, th'[w].pc = "popbump"
          PROVE  th'[w].arr # a
      BY <1>0, <3>1, <3>4, <3>5 DEF At
    <3> QED
      BY <2>4, <3>1, <3>2, <3>3, <3>5
  <2> QED
    BY <2>0, <2>5, <2>6 DEF At, Mine, Here
<1>2. CASE u = t
  <2> DEFINE a == th[t].arr
             r == arrays[a]
  <2>1. th'[t].arr = a
    BY <1>2, CallStays
  <2>2. ~At(t, "idle")
    BY <1>2, Enters DEF At, PopRd, PopWr, PopCell, PopCas, RdIdx
  <2>3. /\ a \in 1..impl /\ r.cap \in Nat /\ r.rd \in 0..r.cap /\ r = Mine(t)
        /\ r.wr \in 0..r.cap /\ th[t].ix \in Nat
    BY <2>2, MineFacts DEF Mine, Types, Local
  <2>4. CASE th'[t].pc = "popwr"
    <3>1. PopRd(t)
      BY <2>4, Enters
    <3>2. th'[t].ix = r.rd /\ arrays' = arrays
      BY <2>3, <3>1 DEF PopRd, Types, Local
    <3> QED
      BY <1>2, <2>1, <2>3, <2>4, <3>2 DEF At, Mine
  <2>5. CASE th'[t].pc = "mark"
    <3>1. RdIdx(t)
      BY <2>5, Enters
    <3>2. th'[t].ix = r.rd /\ arrays' = arrays
      BY <2>3, <3>1 DEF RdIdx, Types, Local
    <3> QED
      BY <1>2, <2>1, <2>3, <2>5, <3>2 DEF At, Mine
  <2>6. CASE th'[t].pc = "popcell"
    <3>1. PopWr(t)
      BY <2>6, Enters
    <3>2. th'[t].ix = th[t].ix /\ arrays' = arrays /\ th[t].ix < r.wr
      BY SMTT(40), <2>3, <2>6, <3>1 DEF PopWr, Goto, Retry, Types, Local
    <3>3. th[t].ix <= r.rd
      BY <2>3, <3>1 DEF PopWr, PoppersOK, At
    <3> QED
      BY <1>2, <2>1, <2>3, <2>6, <3>2, <3>3 DEF At, Mine
  <2>7. CASE th'[t].pc = "popcas"
    <3>1. PopCell(t)
      BY <2>7, Enters
    <3>2. ~Here(t).x /\ Here(t).v # DELT
      BY <2>7, <3>1 DEF PopCell, Retry, Types, Local
    <3>3. th'[t].ix = th[t].ix /\ arrays' = arrays /\ th'[t].got # DELT
      BY <3>1, <3>2 DEF PopCell, Types, Local
    <3>4. th[t].ix <= r.rd /\ th[t].ix < r.cap
      BY <2>3, <3>1 DEF PopCell, PoppersOK, At
    <3> QED
      BY <1>2, <2>1, <2>3, <2>7, <3>3, <3>4 DEF At, Mine
  <2>8. CASE th'[t].pc = "popbump"
    <3> DEFINE i == th[t].ix
               s == arrays'[a]
    <3>1. PopCas(t) /\ At(t, "popcas")
      BY <2>8, Enters DEF PopCas
    <3>2. Here(t) = Word(th[t].got) /\ th'[t].ix = i
      BY <2>8, <3>1 DEF PopCas, Goto, Retry, Types, Local
    <3>3. i < r.cap /\ Here(t).v # DELT
      BY <2>3, <3>1, <3>2 DEF PoppersOK, Word, At
    <3>4. i = r.rd
      BY <2>3, <3>1, <3>3, AtRdIdx DEF At
    <3>5. DataStep(t, a = th[t].arr, r, s)
      BY <1>0, <2>3
    <3>6. s.rd = r.rd /\ s.cap = r.cap
      BY <3>1, <3>5 DEF At, DataStep
    <3>7. s.cell[i].v = DELT
      <4>1. s = [r EXCEPT !.cell = [r.cell EXCEPT ![i] = Word(DELT)]]
        BY <2>3, <3>1, <3>2 DEF PopCas, SetCell, Types
      <4>2. r.cell \in [0..r.cap -> Cell] /\ i \in 0..r.cap /\ r \in Array
        BY <2>3, <3>3 DEF Types
      <4>3. s.cell[i] = Word(DELT)
        BY <4>1, <4>2 DEF Array
      <4> QED
        BY <4>3 DEF Word
    <3>8. ASSUME NEW w \in Thread \ {t}, th'[w].pc = "popbump", th'[w].arr = a
          PROVE  FALSE
      <4>1. th[w].pc = "popbump" /\ th[w].arr = a
        BY <1>0, <3>8
      <4>2. r.cell[r.rd].v = DELT
        BY <4>1 DEF PoppersOK, At, Mine, Here
      <4> QED
        BY <2>3, <3>3, <3>4, <4>2 DEF Here
    <3> QED
      BY <1>2, <2>1, <2>8, <3>2, <3>3, <3>4, <3>6, <3>7, <3>8 DEF At, Mine,
         Here
  <2> QED
    BY <1>2, <2>4, <2>5, <2>6, <2>7, <2>8
<1> QED
  BY <1>1, <1>2

(* What a bit keeps others from doing: rd_idx of a barred array stays, and *)
(* so does its cell there, but for the thread that set the bit first.      *)
LEMMA BarredStays ==
  ASSUME QueueAssumption, Types, CallsOK, PushersOK, PoppersOK, BarredOK,
         OutFits, LivesOK, NEW t \in Thread, Step(t), NEW a \in 1..impl,
         Barred(a),
         a = th[t].arr => th[t].pc \notin {"unmark", "rdcap", "wipe"}
  PROVE  arrays'[a].rd = arrays[a].rd /\ Barred(a)'
<1> DEFINE r == arrays[a]
           s == arrays'[a]
<1>1. DataStep(t, a = th[t].arr, r, s)
  BY DataSteps
<1>2. r.cap \in Nat /\ r.rd \in 0..r.cap
  BY DEF Types, Array
<1>3. ~(a = th[t].arr /\ At(t, "popbump"))
  BY DEF PoppersOK, Barred, Mine, Here
<1>4. s.rd = r.rd
  BY <1>1, <1>3 DEF DataStep, At
<1>5. \/ s.cell[r.rd] = r.cell[r.rd]
      \/ a = th[t].arr /\ CellStep(t, r.rd, r.cell[r.rd], s.cell[r.rd])
  BY <1>1, <1>2 DEF DataStep
<1>6. r.cell[r.rd].x /\ r.cell[r.rd].v # DELT
  BY DEF Barred
<1>7. s.cell[r.rd].x /\ s.cell[r.rd].v # DELT
  BY <1>5, <1>6 DEF CellStep, Word, At
<1> QED
  BY <1>4, <1>7 DEF Barred

(* A thread that finds no bit where it sets its own is at rd_idx of the    *)
(* array in use.                                                           *)
LEMMA MarkLeads ==
  ASSUME ClearAlone, Types, CallsOK, ClearsAlone, PoppedBefore, PoppersOK,
         BarredOK, LivesOK, NEW t \in Thread, Mark(t), Step(t),
         th'[t].pc \in {"alloc", "sweep"}
  PROVE  /\ ~Here(t).x /\ Here(t).v # DELT /\ th[t].ix = Mine(t).rd
         /\ th[t].arr = impl /\ ~Barred(impl)
<1>1. At(t, "mark") /\ th[t].arr \in 1..impl
  BY MineFacts DEF Mark, At
<1>2. ~Here(t).x /\ Here(t).v # DELT
  BY DEF Mark, Goto, Retry, Again, Types, Local
<1>3. th[t].ix = Mine(t).rd
  BY <1>1, <1>2, AtRdIdx DEF At
<1>4. ~Barred(th[t].arr)
  BY <1>2, <1>3 DEF Barred, Here, Mine
<1>5. arrays[th[t].arr].life # "free"
  BY <1>1 DEF LivesOK
<1>6. th[t].arr = impl
  BY <1>1, <1>4, <1>5 DEF BarredOK
<1> QED
  BY <1>2, <1>3, <1>4, <1>6

(* The bit of the cell at rd_idx makes the thread that set it first the    *)
(* only one, and stays in the arrays that were replaced.                   *)
LEMMA BarredStep ==
  ASSUME QueueAssumption, ClearAlone, Types, CallsOK, ClearsAlone,
         PoppedBefore, PushersOK, PoppersOK, BarredOK, OutFits, LivesOK,
         NEW t \in Thread, Step(t)
  PROVE  BarredOK'
<1>0. /\ \A u \in Thread \ {t} : th'[u] = th[u]
      /\ impl \in 1..impl /\ impl' \in {impl, impl + 1}
      /\ ~Install(t) => impl' = impl
  <2>1. impl \in 1..impl
    BY DEF Types
  <2>2. ~Install(t) => impl' = impl
    BY ArraysStep
  <2>3. impl' \in {impl, impl + 1}
    BY DataSteps
  <2> QED
    BY <2>1, <2>2, <2>3, OthersSame
<1>1. ASSUME NEW u \in Thread, Leading(u)', u # t
      PROVE  /\ Leading(u) /\ ~Leading(t) /\ impl' = impl
             /\ th[u].arr = impl /\ Barred(impl)' /\ th'[u].arr = impl'
             /\ arrays'[impl].rd = arrays[impl].rd
  <2>1. Leading(u) /\ th'[u] = th[u]
    BY <1>0, <1>1 DEF Leading
  <2>2. ~Leading(t) /\ Barred(impl) /\ th[u].arr = impl
    BY <1>1, <2>1 DEF BarredOK
  <2>3. ~Wiping(t)
    <3>1. ~At(u, "idle")
      BY <2>1 DEF Leading, At
    <3> QED
      BY <1>1, <3>1, AloneFacts
  <2>4. ~Install(t)
    BY <2>2 DEF Install, Leading, At
  <2> QED
    BY <1>0, <2>1, <2>2, <2>3, <2>4, BarredStays DEF Leading, Wiping
<1>2. ASSUME Leading(t)'
      PROVE  /\ ~Install(t) /\ impl' = impl /\ th[t].arr = impl
             /\ th'[t].arr = impl /\ Barred(impl)'
             /\ Mark(t) => ~Barred(impl)
             /\ Mark(t) \/ Leading(t)
             /\ th'[t].pc \in {"alloc", "unmark"} => th'[t].ix = arrays'[impl].rd
  <2>0. /\ Mark(t) \/ Alloc(t) \/ Sweep(t) \/ Finalize(t)
        /\ th'[t].arr = th[t].arr
    BY <1>2, Enters, CallStays DEF Leading
  <2>1. CASE Mark(t)
    <3>1. th'[t].pc \in {"alloc", "sweep"}
      BY <1>2, <2>1, Enters DEF Leading, Mark, Alloc, Sweep, Finalize, At
    <3>2. /\ ~Here(t).x /\ Here(t).v # DELT /\ th[t].ix = Mine(t).rd
          /\ th[t].arr = impl /\ ~Barred(impl)
      BY <2>1, <3>1, MarkLeads
    <3>3. ~Install(t)
      BY <2>1 DEF Mark, Install, At
    <3>4. th'[t].ix = th[t].ix
      BY <2>1, <3>2 DEF Mark, Lead, Goto, Types, Local
    <3>5. arrays'[impl].rd = arrays[impl].rd /\ Barred(impl)'
      <4> DEFINE r == arrays[impl]
                 i == r.rd
      <4>1. r \in Array /\ r.cell \in [0..r.cap -> Cell] /\ i \in 0..r.cap
        BY <1>0 DEF Types
      <4>2. r.cell[i] \in Cell /\ r.cell[i].v # DELT
        BY <3>2, <4>1 DEF Here, Mine
      <4>3. arrays' = [arrays EXCEPT ![impl].cell[i].x = TRUE]
        BY <2>1, <3>2 DEF Mark, Bit, Mine
      <4>4. arrays'[impl] = [r EXCEPT !.cell = [r.cell EXCEPT ![i] =
                                [r.cell[i] EXCEPT !.x = TRUE]]]
        BY <1>0, <4>3 DEF Types
      <4>5. /\ arrays'[impl].rd = i
            /\ arrays'[impl].cell[i] = [r.cell[i] EXCEPT !.x = TRUE]
        BY <4>1, <4>4 DEF Array
      <4>6. [r.cell[i] EXCEPT !.x = TRUE].x /\ [r.cell[i] EXCEPT !.x = TRUE].v # DELT
        BY <4>2 DEF Cell
      <4>7. impl' = impl
        BY <1>0, <3>3
      <4> QED
        BY <4>5, <4>6, <4>7 DEF Barred
    <3> QED
      BY <1>0, <2>0, <2>1, <3>2, <3>3, <3>4, <3>5 DEF Mine
  <2>2. CASE Alloc(t) \/ Sweep(t) \/ Finalize(t)
    <3>1. Leading(t) /\ ~Mark(t) /\ ~Install(t)
          /\ th[t].pc \in {"alloc", "sweep", "finalize"}
      BY <2>2 DEF Alloc, Sweep, Finalize, Mark, Install, Leading, At
    <3>2. th[t].arr = impl /\ Barred(impl)
      BY <3>1 DEF BarredOK
    <3>3. arrays'[impl].rd = arrays[impl].rd /\ Barred(impl)'
      BY <1>0, <3>1, <3>2, BarredStays
    <3>4. ASSUME th'[t].pc \in {"alloc", "unmark"}
          PROVE  th'[t].ix = arrays[impl].rd
      <4>1. Alloc(t)
        BY <3>1, <3>4, Enters
      <4>2. th'[t].ix = th[t].ix
        BY <4>1 DEF Alloc, Goto, Types, Local
      <4> QED
        BY <3>2, <4>1, <4>2 DEF BarredOK, Alloc, At, Mine
    <3> QED
      BY <1>0, <2>0, <3>1, <3>2, <3>3, <3>4
  <2> QED
    BY <2>0, <2>1, <2>2
<1>3. ASSUME NEW u \in Thread, Leading(u)'
      PROVE  Barred(th[u].arr)' /\ th'[u].arr = impl'
  <2>1. Barred(impl)' /\ th'[u].arr = impl'
    BY <1>1, <1>2, <1>3
  <2> QED
    BY <2>1 DEF Barred
<1>4. ASSUME NEW u \in Thread, Wiping(u)'
      PROVE  th'[u].arr = impl'
  <2>1. CASE u # t
    <3>1. th'[u] = th[u] /\ Wiping(u)
      BY <1>0, <1>4, <2>1 DEF Wiping
    <3>2. FALSE
      BY <2>1, <3>1, AloneFacts
    <3> QED
      BY <3>2
  <2>2. CASE u = t
    <3>1. ClearStore(t) /\ th'[t].arr = th[t].arr
      BY <1>4, <2>2, Enters, CallStays DEF Wiping
    <3>2. th[t].arr = impl /\ ~Install(t)
      BY <3>1 DEF ClearStore, Install, At, BarredOK, Leading, Wiping
    <3> QED
      BY <1>0, <2>2, <3>1, <3>2
  <2> QED
    BY <2>1, <2>2
<1>5. ASSUME NEW u \in Thread, NEW w \in Thread, Leading(u)', Leading(w)'
      PROVE  u = w
  <2>1. ASSUME NEW v \in Thread \ {t}, Leading(v)', Leading(t)' PROVE FALSE
    <3>1. Leading(v) /\ ~Leading(t)
      BY <1>1, <2>1
    <3>2. Barred(impl)
      BY <3>1 DEF BarredOK
    <3> QED
      BY <1>2, <2>1, <3>1, <3>2
  <2>2. CASE u # t /\ w # t
    BY <1>1, <1>5, <2>2 DEF BarredOK
  <2> QED
    BY <1>5, <2>1, <2>2
<1>6. ASSUME NEW u \in Thread, th'[u].pc \in {"alloc", "unmark"}
      PROVE  th'[u].ix = Mine(u)'.rd
  <2>0. Leading(u)'
    BY <1>6 DEF Leading
  <2>1. CASE u # t
    <3>1. th'[u] = th[u] /\ th[u].ix = arrays[th[u].arr].rd
      BY <1>0, <1>6, <2>1 DEF BarredOK, Mine
    <3> QED
      BY <1>1, <2>0, <2>1, <3>1 DEF Mine
  <2>2. CASE u = t
    BY <1>2, <1>6, <2>0, <2>2 DEF Mine
  <2> QED
    BY <2>1, <2>2
<1>7. ASSUME NEW a \in 1..impl', a # impl'
      PROVE  arrays'[a].life = "free" \/ Barred(a)'
  <2>1. a \in 1..impl
    BY <1>0, <1>7
  <2>2. CASE Install(t)
    <3>1. /\ LeftArray(t, arrays[a], arrays'[a]) /\ th[t].arr = impl
          /\ Leading(t)
      BY <2>1, <2>2, InstallStep DEF At, Leading
    <3>2. arrays[a].life = "free" \/ Barred(a)
      BY <2>1, <3>1 DEF BarredOK
    <3> QED
      BY <3>1, <3>2 DEF LeftArray, Barred
  <2>3. CASE ~Install(t)
    <3>1. a # impl /\ ArrayStep(t, a = th[t].arr, arrays[a], arrays'[a])
      BY <1>0, <1>7, <2>1, <2>3, ArraysStep
    <3>2. CASE arrays[a].life = "free"
      <4>1. ~(a = th[t].arr /\ At(t, "finalize"))
        BY <3>1 DEF BarredOK, Leading, At
      <4> QED
        BY <3>1, <3>2, <4>1 DEF ArrayStep
    <3>3. CASE Barred(a)
      <4>1. a = th[t].arr => th[t].pc \notin {"unmark", "rdcap", "wipe"}
        BY <3>1 DEF BarredOK, Leading, Wiping
      <4> QED
        BY <2>1, <3>3, <4>1, BarredStays
    <3> QED
      BY <2>1, <3>1, <3>2, <3>3 DEF BarredOK
  <2> QED
    BY <2>2, <2>3
<1> QED
  BY <1>3, <1>4, <1>5, <1>6, <1>7 DEF BarredOK

(* Who clears is alone, as clients see to.                                 *)
LEMMA ClearsStep ==
  ASSUME ClearAlone, Types, CallsOK, ClearsAlone, NEW t \in Thread, Step(t)
  PROVE  ClearsAlone'
<1> SUFFICES ASSUME NEW u \in Thread, NEW w \in Thread, th'[u].op = "clear", w # u
             PROVE  th'[w].pc = "idle"
  BY DEF ClearsAlone, At
<1>0. \A v \in Thread \ {t} : th'[v] = th[v]
  BY OthersSame
<1>1. CASE u # t /\ w # t
  BY <1>0, <1>1 DEF ClearsAlone, At
<1>2. CASE u # t /\ w = t
  BY <1>0, <1>2, AloneFacts
<1>3. CASE u = t /\ ~At(t, "idle")
  <2>1. th[t].op = "clear"
    BY <1>3, CallStays
  <2> QED
    BY <1>0, <1>3, <2>1 DEF ClearsAlone, At
<1>4. CASE u = t /\ At(t, "idle")
  <2>1. \/ Push(t) \/ Pop(t) \/ Assign(t) \/ Clear(t)
        \/ \E op \in {"front", "back", "walk"} : Read(t, op)
    BY <1>4, GuardFacts
  <2>2. ~Push(t) /\ ~Pop(t) /\ ~Assign(t)
    BY ZenonT(60), <1>4 DEF Push, Pop, Assign, Call, Started, Rest, Types
  <2>3. ~\E op \in {"front", "back", "walk"} : Read(t, op)
    BY <1>4 DEF Read, Call, Started, Rest, Types
  <2>4. Clear(t)
    BY <2>1, <2>2, <2>3
  <2>5. \A v \in Thread : At(v, "idle")
    BY <2>4 DEF Clear, Call, Started, Rest
  <2> QED
    BY <1>0, <1>4, <2>5 DEF At
<1> QED
  BY <1>1, <1>2, <1>3, <1>4

(* front and back look at a cell of their array.                           *)
LEMMA EndsStep ==
  ASSUME QueueAssumption, Types, CallsOK, EndsOK, PushersOK, PoppersOK,
         BarredOK, OutFits, LivesOK, NEW t \in Thread, Step(t)
  PROVE  EndsOK'
<1> SUFFICES ASSUME NEW u \in Thread, th'[u].pc = "endcell"
             PROVE  th'[u].ix <= arrays'[th'[u].arr].cap
  BY DEF EndsOK, At, Mine
<1>1. CASE u # t
  <2>1. th'[u] = th[u] /\ At(u, "endcell")
    BY <1>1, OthersSame DEF At
  <2>2. th[u].arr \in 1..impl /\ th[u].ix <= arrays[th[u].arr].cap
    BY <2>1, MineFacts DEF EndsOK, At, Mine
  <2>3. arrays'[th[u].arr].cap = arrays[th[u].arr].cap
    BY <2>2, DataSteps DEF DataStep
  <2> QED
    BY <2>1, <2>2, <2>3
<1>2. CASE u = t
  <2>1. EndIdx(t) /\ th'[t].arr = th[t].arr
    BY <1>2, Enters, CallStays
  <2>2. /\ Mine(t).cap \in Nat /\ Mine(t).wr \in 0..Mine(t).cap
        /\ Mine(t).rd \in 0..Mine(t).cap
    BY <2>1, MineFacts DEF EndIdx, At
  <2>3. /\ arrays' = arrays
        /\ th'[t].ix = IF th[t].op = "front" THEN Mine(t).rd
                       ELSE IF Mine(t).wr = 0 THEN Mine(t).cap
                       ELSE Mine(t).wr - 1
    BY <2>1 DEF EndIdx, Types, Local
  <2> QED
    BY <1>2, <2>1, <2>2, <2>3 DEF Mine
<1> QED
  BY <1>1, <1>2

(* What is to go into a new array fits.                                    *)
LEMMA OutStep ==
  ASSUME QueueAssumption, ClearAlone, Types, CallsOK, PushersOK, PoppersOK,
         BarredOK, OutFits, LivesOK, NEW t \in Thread, Step(t)
  PROVE  OutFits'
<1> SUFFICES ASSUME NEW u \in Thread
             PROVE  /\ th'[u].op = "assign" => Len(th'[u].out) <= MaxValues
                    /\ th'[u].op = "push"
                         /\ th'[u].pc \in {"sweep", "finalize", "install"} =>
                       /\ Len(th'[u].out) <= th'[u].ix + 1
                       /\ Len(th'[u].out) <= arrays'[th'[u].arr].cap
  BY DEF OutFits, Mine
<1>1. CASE u # t
  <2>1. th'[u] = th[u]
    BY <1>1, OthersSame
  <2>2. ASSUME th[u].pc \in {"sweep", "finalize", "install"}
        PROVE  arrays'[th[u].arr].cap = arrays[th[u].arr].cap
    <3>1. th[u].arr \in 1..impl
      BY <2>2, MineFacts DEF At
    <3> QED
      BY <3>1, DataSteps DEF DataStep
  <2> QED
    BY <2>1, <2>2 DEF OutFits, Mine
<1>2. ASSUME th'[t].op = "assign" PROVE Len(th'[t].out) <= MaxValues
  <2>1. CASE At(t, "idle")
    <3>1. \/ Push(t) \/ Pop(t) \/ Assign(t) \/ Clear(t)
          \/ \E op \in {"front", "back", "walk"} : Read(t, op)
      BY <2>1, GuardFacts
    <3>2. ~Push(t) /\ ~Pop(t) /\ ~Clear(t)
      <4>1. ~Push(t)
        BY <1>2 DEF Push, Call, Started, Rest, Types
      <4>2. ~Pop(t)
        BY <1>2 DEF Pop, Call, Started, Rest, Types
      <4>3. ~Clear(t)
        BY <1>2 DEF Clear, Call, Started, Rest, Types
      <4> QED
        BY <4>1, <4>2, <4>3
    <3>3. ~\E op \in {"front", "back", "walk"} : Read(t, op)
      BY ZenonT(60), <1>2 DEF Read, Call, Started, Rest, Types
    <3>4. PICK k \in Ranges :
            /\ made + k <= MaxValues
            /\ Call(t, [Started("assign") EXCEPT !.out = Words(made, k)])
      BY <3>1, <3>2, <3>3 DEF Assign
    <3>5. th'[t].out = Words(made, k)
      BY <3>4 DEF Call, Started, Rest, Types
    <3>6. k \in Nat /\ k <= MaxValues
      BY DEF QueueAssumption
    <3>7. Len(Words(made, k)) = k
      BY <3>6 DEF Words
    <3> QED
      BY <3>5, <3>6, <3>7
  <2>2. CASE ~At(t, "idle")
    <3>1. th[t].op = "assign" /\ th'[t].pc # "idle"
      BY <1>2, <2>2, CallStays, CallsStep DEF CallsOK, At
    <3>2. ~Alloc(t)
      BY <3>1 DEF Alloc, At, CallsOK
    <3>3. th'[t].out = th[t].out
      BY <2>2, <3>1, <3>2, OutStays
    <3> QED
      BY <3>1, <3>3 DEF OutFits
  <2> QED
    BY <2>1, <2>2
<1>3. ASSUME th'[t].op = "push", th'[t].pc \in {"sweep", "finalize", "install"}
      PROVE  /\ Len(th'[t].out) <= th'[t].ix + 1
             /\ Len(th'[t].out) <= arrays'[th'[t].arr].cap
  <2>0. /\ Mark(t) \/ Alloc(t) \/ Sweep(t) \/ Finalize(t)
        /\ th'[t].arr = th[t].arr
    BY <1>3, Enters, CallStays
  <2>1. ~At(t, "idle")
    BY <2>0 DEF Mark, Alloc, Sweep, Finalize, At
  <2>2. /\ th[t].arr \in 1..impl /\ Mine(t).cap \in Nat /\ th[t].ix \in Nat
        /\ th[t].out \in Seq(Cell) /\ th[t].op = "push"
    BY <1>3, <2>1, MineFacts, CallStays DEF Types, Local
  <2>3. arrays'[th'[t].arr].cap = Mine(t).cap
    BY <2>0, <2>2, DataSteps DEF DataStep, Mine
  <2>4. CASE Mark(t)
    BY <1>3, <2>2, <2>4 DEF Mark, Goto, Retry, Again, Lead, Types, Local
  <2>5. CASE Alloc(t)
    <3>1. th'[t].out = <<Word(th[t].got)>> /\ th'[t].ix = th[t].ix
      BY <1>3, <2>5 DEF Alloc, Goto, Types, Local
    <3>2. Mine(t).cap > 0
      BY <2>1, <2>2 DEF LivesOK, Mine
    <3> QED
      BY <2>2, <2>3, <3>1, <3>2
  <2>6. CASE Sweep(t)
    <3>1. Len(th[t].out) <= th[t].ix + 1 /\ Len(th[t].out) <= Mine(t).cap
      BY <2>2, <2>6 DEF Sweep, At, OutFits
    <3>2. CASE th[t].ix + 1 >= Mine(t).cap
      BY ZenonT(60), <2>3, <2>6, <3>1, <3>2 DEF Sweep, Goto, Types, Local
    <3>3. CASE ~(th[t].ix + 1 >= Mine(t).cap)
      <4>1. /\ th'[t].ix = th[t].ix + 1
            /\ th'[t].out = Append(th[t].out, Mine(t).cell[th[t].ix + 1])
        BY SMTT(40), <2>2, <2>6, <3>3 DEF Sweep, Types, Local
      <4>2. Mine(t).cell[th[t].ix + 1] \in Cell
        BY SMTT(40), <2>1, <2>2, <3>3, MineFacts
      <4>3. Len(th'[t].out) = Len(th[t].out) + 1 /\ Len(th[t].out) \in Nat
        BY <2>2, <4>1, <4>2, AppendProperties, LenProperties
      <4> QED
        BY <2>2, <2>3, <3>1, <3>3, <4>1, <4>3
    <3> QED
      BY <3>2, <3>3
  <2>7. CASE Finalize(t)
    <3>1. Len(th[t].out) <= th[t].ix + 1 /\ Len(th[t].out) <= Mine(t).cap
      BY <2>2, <2>7 DEF Finalize, At, OutFits
    <3> QED
      BY <2>3, <2>7, <3>1 DEF Finalize, Goto, Types, Local
  <2> QED
    BY <2>0, <2>4, <2>5, <2>6, <2>7
<1> QED
  BY <1>1, <1>2, <1>3

(* The thread that is to install an array has finalized the one in use.    *)
LEMMA FinalizeStep ==
  ASSUME Types, CallsOK, BarredOK, LivesOK, NEW t \in Thread, Finalize(t)
  PROVE  /\ arrays'[impl].life = "pending" /\ arrays'[impl].by = {t}
         /\ th[t].arr = impl /\ impl' = impl
<1>1. At(t, "finalize") /\ th[t].arr = impl /\ impl \in 1..impl
  BY DEF Finalize, At, BarredOK, Leading, Types
<1>2. arrays[impl].by \subseteq {t}
  <2>1. ASSUME NEW w \in Thread, At(w, "install") PROVE FALSE
    <3>1. w = t
      BY <1>1, <2>1 DEF BarredOK, Leading, At
    <3> QED
      BY <1>1, <2>1, <3>1 DEF At
  <2> QED
    BY <2>1 DEF LivesOK
<1>3. /\ arrays'[impl].life = "pending"
      /\ arrays'[impl].by = arrays[impl].by \cup {t}
  <2>1. arrays[impl] \in Array
    BY <1>1 DEF Types
  <2>2. arrays'[impl] = [arrays[impl] EXCEPT !.life = "pending",
                                             !.by = arrays[impl].by \cup {t}]
    BY <1>1 DEF Finalize, Types
  <2> QED
    BY <2>1, <2>2 DEF Array
<1> QED
  BY <1>1, <1>2, <1>3 DEF Finalize

(* The array in use is finalized by the thread that replaces it, and is    *)
(* retired by the end of that thread's section, for which all who hold it  *)
(* wait.                                                                   *)
LEMMA LivesStep ==
  ASSUME QueueAssumption, Types, CallsOK, PushersOK, PoppersOK, BarredOK,
         OutFits, LivesOK, ClearAlone, NEW t \in Thread, Step(t)
  PROVE  LivesOK'
<1>0. /\ \A u \in Thread \ {t} : th'[u] = th[u]
      /\ impl \in 1..impl
      /\ \A u \in Thread : th[u].arr # 0 => th[u].arr \in 1..impl
      /\ th'[t].arr \in {0, th[t].arr, impl}
  BY OthersSame, CallStays DEF Types
<1>a. CallsOK'
  BY CallsStep
<1>1. CASE Install(t)
  <2>1. /\ impl' = impl + 1 /\ th'[t].pc = "idle" /\ At(t, "install")
        /\ th[t].arr = impl
        /\ \A a \in 1..impl : LeftArray(t, arrays[a], arrays'[a])
        /\ NewArray(arrays'[impl + 1])
    BY <1>1, InstallStep
  <2>2. arrays[impl].life = "pending" /\ arrays[impl].by = {t}
    BY <2>1 DEF LivesOK
  <2>3. ASSUME NEW a \in 1..impl'
        PROVE  /\ arrays'[a].life # "free" => arrays'[a].cap > 0
               /\ a # impl' => arrays'[a].life \in {"retired", "free"}
    <3>1. CASE a \in 1..impl
      BY <2>1, <2>2, <3>1 DEF LeftArray, LivesOK
    <3>2. CASE a = impl + 1
      BY <2>1, <3>2 DEF NewArray
    <3> QED
      BY <1>0, <2>1, <3>1, <3>2
  <2>4. arrays'[impl'].life = "live" /\ arrays'[impl'].by = {}
    BY <2>1 DEF NewArray
  <2>5. ASSUME NEW u \in Thread, th'[u].pc = "install" PROVE FALSE
    <3>1. u # t /\ At(u, "install")
      BY <1>0, <2>1, <2>5 DEF At
    <3> QED
      BY <2>1, <3>1 DEF BarredOK, Leading, At
  <2>6. ASSUME NEW u \in Thread, th'[u].arr # 0
        PROVE  \/ arrays'[th'[u].arr].life \in {"live", "pending"}
               \/ /\ arrays'[th'[u].arr].life = "retired"
                  /\ u \in arrays'[th'[u].arr].waits
    <3>1. u # t /\ th'[u] = th[u] /\ th[u].arr \in 1..impl
      BY <1>0, <1>a, <2>1, <2>6 DEF CallsOK, At
    <3>2. InCs(u)
      BY <2>6, <3>1 DEF CallsOK, InCs
    <3>3. LeftArray(t, arrays[th[u].arr], arrays'[th[u].arr])
      BY <2>1, <3>1
    <3>4. \/ arrays[th[u].arr].life \in {"live", "pending"}
          \/ /\ arrays[th[u].arr].life = "retired"
             /\ u \in arrays[th[u].arr].waits
      BY <2>6, <3>1 DEF LivesOK
    <3>5. u \in {v \in Thread \ {t} : InCs(v)}
      BY <3>1, <3>2
    <3> HIDE DEF InCs
    <3> QED
      BY <3>1, <3>3, <3>4, <3>5 DEF LeftArray
  <2> QED
    BY <2>3, <2>4, <2>5, <2>6 DEF LivesOK, At
<1>2. CASE ~Install(t)
  <2>1. /\ impl' = impl
        /\ \A a \in 1..impl :
             ArrayStep(t, a = th[t].arr, arrays[a], arrays'[a])
    BY <1>2, ArraysStep
  <2>2. At(t, "finalize") /\ th'[t].pc = "install" => Finalize(t)
    BY Enters
  <2>3. ~At(t, "install")
    BY <1>2, GuardFacts
  <2>4. ASSUME NEW a \in 1..impl,
               ~(arrays'[a].life = arrays[a].life /\ arrays'[a].by = arrays[a].by)
        PROVE  a = impl /\ Finalize(t) /\ th'[t].pc = "install"
    <3>1. /\ a = th[t].arr /\ At(t, "finalize") /\ th'[t].pc = "install"
      BY <2>1, <2>4 DEF ArrayStep
    <3>2. th[t].arr = impl
      BY <3>1 DEF BarredOK, Leading, At
    <3> QED
      BY <2>2, <3>1, <3>2
  <2>5. Finalize(t) => /\ arrays'[impl].life = "pending" /\ arrays'[impl].by = {t}
                       /\ At(t, "finalize") /\ th'[t].pc = "install"
    <3>1. Finalize(t) => At(t, "finalize") /\ th'[t].pc = "install"
      BY DEF Finalize, Goto, Types, Local
    <3> QED
      BY <3>1, FinalizeStep
  <2>6. ASSUME NEW a \in 1..impl'
        PROVE  /\ arrays'[a].life # "free" => arrays'[a].cap > 0
               /\ a # impl' => arrays'[a].life \in {"retired", "free"}
    <3>1. a \in 1..impl /\ arrays'[a].cap = arrays[a].cap
      BY <2>1, <2>6 DEF ArrayStep
    <3>2. a = impl => arrays[a].cap > 0
      BY <3>1 DEF LivesOK
    <3> QED
      BY <2>1, <2>4, <3>1, <3>2 DEF LivesOK
  <2>7. /\ \/ arrays'[impl'].life = "live"
           \/ /\ arrays'[impl'].life = "pending"
              /\ \E u \in Thread : th'[u].pc = "install" /\ arrays'[impl'].by = {u}
        /\ arrays'[impl'].life = "live" => arrays'[impl'].by = {}
        /\ \A u \in Thread : th'[u].pc = "install" =>
             arrays'[impl'].life = "pending" /\ arrays'[impl'].by = {u}
    <3>1. CASE Finalize(t)
      <4>1. ASSUME NEW u \in Thread, th'[u].pc = "install" PROVE u = t
        <5>1. CASE u # t
          <6>1. th[u].pc = "install"
            BY <1>0, <4>1, <5>1
          <6> QED
            BY <2>5, <3>1, <6>1 DEF BarredOK, Leading, At
        <5> QED
          BY <5>1
      <4> QED
        BY <2>1, <2>5, <3>1, <4>1
    <3>2. CASE ~Finalize(t)
      <4>1. /\ arrays'[impl].life = arrays[impl].life
            /\ arrays'[impl].by = arrays[impl].by
        BY <1>0, <2>4, <3>2
      <4>2. \A u \in Thread : th'[u].pc = "install" <=> th[u].pc = "install"
        <5>1. th'[t].pc # "install"
          BY <3>2, Enters
        <5> QED
          BY <1>0, <2>3, <5>1 DEF At
      <4> QED
        BY <2>1, <4>1, <4>2 DEF LivesOK, At
    <3> QED
      BY <3>1, <3>2
  <2>8. ASSUME NEW u \in Thread, th'[u].arr # 0
        PROVE  \/ arrays'[th'[u].arr].life \in {"live", "pending"}
               \/ /\ arrays'[th'[u].arr].life = "retired"
                  /\ u \in arrays'[th'[u].arr].waits
    <3>1. CASE th'[u].arr = impl
      BY <2>1, <2>7, <3>1
    <3>2. CASE th'[u].arr # impl
      <4> DEFINE a == th[u].arr
      <4>1. th'[u].arr = a /\ a \in 1..impl
        BY <1>0, <2>8, <3>2
      <4>2. th'[u].pc # "idle"
        BY <1>a, <2>8 DEF CallsOK, At
      <4>3. ArrayStep(t, a = th[t].arr, arrays[a], arrays'[a])
        BY <2>1, <4>1
      <4>4. u \in arrays[a].waits => u \in arrays'[a].waits
        BY <4>2, <4>3 DEF ArrayStep
      <4>5. arrays'[a].life = arrays[a].life
        BY <2>4, <3>2, <4>1
      <4>6. \/ arrays[a].life \in {"live", "pending"}
            \/ arrays[a].life = "retired" /\ u \in arrays[a].waits
        BY <4>1 DEF LivesOK
      <4> QED
        BY <4>1, <4>4, <4>5, <4>6
    <3> QED
      BY <3>1, <3>2
  <2> QED
    BY <2>6, <2>7, <2>8 DEF LivesOK, At
<1> QED
  BY <1>1, <1>2

(* safe_destroy takes an array that nobody holds.                          *)
LEMMA DestroyFacts ==
  ASSUME Types, LivesOK, NEW a \in DOMAIN arrays, SafeDestroy(a)
  PROVE  /\ a \in 1..impl /\ a # impl /\ th' = th /\ impl' = impl
         /\ made' = made /\ pops' = pops
         /\ \A u \in Thread : th[u].arr # a
         /\ \A b \in 1..impl : b # a => arrays'[b] = arrays[b]
         /\ arrays' \in [1..impl -> Array]
         /\ arrays'[a].life = "free" /\ arrays'[a].rd = 0 /\ arrays'[a].wr = 0
         /\ arrays'[a].cell \in [0..arrays'[a].cap -> Cell]
         /\ arrays'[a].cap = 0
<1>1. a \in 1..impl /\ arrays[a].life = "retired" /\ arrays[a].waits = {}
  BY DEF Types, SafeDestroy
<1>2. a # impl
  BY <1>1 DEF LivesOK
<1>3. \A u \in Thread : th[u].arr # a
  BY <1>1 DEF LivesOK, Types
<1> DEFINE c == [i \in 0..0 |-> Word(FREE)]
           m == Make(0, <<>>, 0)
           r == [m EXCEPT !.life = "free"]
<1>4. m = [cell |-> c, cap |-> 0, wr |-> 0, rd |-> 0,
           life |-> "live", by |-> {}, waits |-> {}]
  BY DEF Make
<1>5. c \in [0..0 -> Cell]
  BY DEF Word, Cell, AnyWord
<1>6. c \in Cells
  BY <1>5 DEF Cells
<1> HIDE DEF c, m
<1>7. m \in Array /\ m.cell = c /\ m.cap = 0 /\ m.wr = 0 /\ m.rd = 0
  BY <1>4, <1>6 DEF Array, Life
<1>8. /\ r \in Array /\ r.cell = c /\ r.cap = 0 /\ r.wr = 0 /\ r.rd = 0
      /\ r.life = "free"
  BY <1>7 DEF Array, Life
<1>9. arrays' = [arrays EXCEPT ![a] = r]
  BY DEF SafeDestroy, m
<1> HIDE DEF r
<1>10. arrays'[a] = r /\ \A b \in 1..impl : b # a => arrays'[b] = arrays[b]
  BY <1>1, <1>9 DEF Types
<1>11. arrays' \in [1..impl -> Array]
  BY <1>8, <1>9 DEF Types
<1> QED
  BY <1>1, <1>2, <1>3, <1>5, <1>8, <1>10, <1>11 DEF SafeDestroy

(* safe_destroy keeps the invariant.                                       *)
LEMMA DestroyStep ==
  ASSUME IInv, NEW a \in DOMAIN arrays, SafeDestroy(a)
  PROVE  IInv'
<1>0. /\ Types /\ CallsOK /\ EndsOK /\ ClearsAlone /\ PoppedBefore
      /\ PushersOK /\ PoppersOK /\ BarredOK /\ OutFits /\ LivesOK
  BY DEF IInv
<1>1. /\ a \in 1..impl /\ a # impl /\ th' = th /\ impl' = impl
      /\ made' = made /\ pops' = pops
      /\ \A u \in Thread : th[u].arr # a
      /\ \A b \in 1..impl : b # a => arrays'[b] = arrays[b]
      /\ arrays' \in [1..impl -> Array]
      /\ arrays'[a].life = "free" /\ arrays'[a].rd = 0 /\ arrays'[a].wr = 0
      /\ arrays'[a].cell \in [0..arrays'[a].cap -> Cell]
      /\ arrays'[a].cap = 0
  BY <1>0, DestroyFacts
<1>2. ASSUME NEW u \in Thread, ~At(u, "idle")
      PROVE  arrays'[th[u].arr] = arrays[th[u].arr]
  BY <1>0, <1>1, <1>2, MineFacts
<1>3. arrays'[impl] = arrays[impl] /\ impl \in 1..impl
  BY <1>0, <1>1 DEF Types
<1>4. Types'
  <2>1. ASSUME NEW b \in 1..impl
        PROVE  /\ arrays'[b].cell \in [0..arrays'[b].cap -> Cell]
               /\ arrays'[b].wr \in 0..arrays'[b].cap
               /\ arrays'[b].rd \in 0..arrays'[b].cap
    <3>1. CASE b = a
      <4>1. arrays'[a].wr \in 0..arrays'[a].cap /\ arrays'[a].rd \in 0..arrays'[a].cap
        BY <1>1
      <4>2. arrays'[a].cell \in [0..arrays'[a].cap -> Cell]
        BY <1>1
      <4> QED
        BY <3>1, <4>1, <4>2
    <3>2. CASE b # a
      BY <1>0, <1>1, <3>2 DEF Types
    <3> QED
      BY <3>1, <3>2
  <2> QED
    BY <1>0, <1>1, <2>1 DEF Types
<1>5. CallsOK' /\ ClearsAlone'
  BY <1>0, <1>1 DEF CallsOK, ClearsAlone, At
<1>6. EndsOK'
  BY <1>0, <1>1, <1>2 DEF EndsOK, At, Mine
<1>7. PoppedBefore'
  <2> SUFFICES ASSUME NEW b \in 1..impl, ~Wiped(b)', NEW i \in 0..arrays'[b].rd - 1
               PROVE  arrays'[b].cell[i].v = DELT
    BY <1>1 DEF PoppedBefore
  <2>1. CASE b = a
    BY <1>1, <2>1
  <2>2. CASE b # a
    BY <1>0, <1>1, <2>2 DEF PoppedBefore, Wiped, At
  <2> QED
    BY <2>1, <2>2
<1>8. PushersOK'
  <2> SUFFICES ASSUME NEW u \in Thread,
                      th[u].pc \in {"pushcell", "pushcas", "pushbump"}
               PROVE  PushersOK!(u)'
    BY <1>1 DEF PushersOK, At
  <2>1. arrays'[th[u].arr] = arrays[th[u].arr]
    BY <1>2 DEF At
  <2> QED
    BY <1>0, <1>1, <2>1 DEF PushersOK, At, Mine, Here
<1>9. PoppersOK'
  <2> SUFFICES ASSUME NEW u \in Thread,
                      th[u].pc \in {"popwr", "popcell", "popcas", "popbump", "mark"}
               PROVE  PoppersOK!(u)'
    BY <1>1 DEF PoppersOK, At
  <2>1. arrays'[th[u].arr] = arrays[th[u].arr]
    BY <1>2 DEF At
  <2> QED
    BY <1>0, <1>1, <2>1 DEF PoppersOK, At, Mine, Here
<1>10. BarredOK'
  <2>1. ASSUME NEW u \in Thread, Leading(u)'
        PROVE  Barred(th[u].arr)' /\ th'[u].arr = impl'
    BY <1>0, <1>1, <1>3, <2>1 DEF BarredOK, Leading, Barred
  <2>2. ASSUME NEW u \in Thread, th'[u].pc \in {"alloc", "unmark"}
        PROVE  th'[u].ix = Mine(u)'.rd
    <3>1. arrays'[th[u].arr] = arrays[th[u].arr]
      BY <1>1, <1>2, <2>2 DEF At
    <3> QED
      BY <1>0, <1>1, <2>2, <3>1 DEF BarredOK, Mine
  <2>3. ASSUME NEW b \in 1..impl, b # impl
        PROVE  arrays'[b].life = "free" \/ Barred(b)'
    BY <1>0, <1>1, <2>3 DEF BarredOK, Barred
  <2>4. /\ \A u \in Thread : Wiping(u)' => th'[u].arr = impl'
        /\ \A u, w \in Thread : Leading(u)' /\ Leading(w)' => u = w
    BY <1>0, <1>1 DEF BarredOK, Leading, Wiping
  <2> QED
    BY <1>1, <2>1, <2>2, <2>3, <2>4 DEF BarredOK
<1>11. OutFits'
  <2> SUFFICES ASSUME NEW u \in Thread
               PROVE  OutFits!(u)'
    BY DEF OutFits
  <2>1. th[u].pc \in {"sweep", "finalize", "install"} =>
          arrays'[th[u].arr] = arrays[th[u].arr]
    BY <1>2 DEF At
  <2> QED
    BY <1>0, <1>1, <2>1 DEF OutFits, Mine
<1>12. LivesOK'
  <2>1. ASSUME NEW b \in 1..impl
        PROVE  /\ arrays'[b].life # "free" => arrays'[b].cap > 0
               /\ b # impl => arrays'[b].life \in {"retired", "free"}
    BY <1>0, <1>1 DEF LivesOK
  <2>2. ASSUME NEW u \in Thread, th[u].arr # 0
        PROVE  arrays'[th[u].arr] = arrays[th[u].arr]
    BY <1>0, <1>2, <2>2 DEF CallsOK
  <2> QED
    BY <1>0, <1>1, <1>3, <2>1, <2>2 DEF LivesOK, At
<1> QED
  BY <1>4, <1>5, <1>6, <1>7, <1>8, <1>9, <1>10, <1>11, <1>12 DEF IInv

(* A queue that nobody has used.                                           *)
LEMMA InitInv ==
  ASSUME QueueAssumption, Init
  PROVE  IInv
<1>1. PICK n \in Initial : arrays = <<Make(Cap, Words(MaxValues, n), n)>>
  BY DEF Init
<1>2. n \in Nat /\ n \in 0..Cap /\ Cap \in Nat \ {0} /\ MaxValues \in Nat
  BY DEF QueueAssumption
<1>3. Words(MaxValues, n) \in Seq(Cell)
  <2>1. ASSUME NEW i \in 1..n PROVE Word(MaxValues + i) \in Cell
    BY <1>2 DEF Word, Cell, AnyWord, Value
  <2> QED
    BY <1>2, <2>1 DEF Words
<1> DEFINE r == Make(Cap, Words(MaxValues, n), n)
<1>4. NewArray(r)
  BY <1>2, <1>3, MakeFacts
<1> HIDE DEF r
<1>5. /\ impl = 1 /\ arrays \in [1..impl -> Array] /\ arrays[1] = r
      /\ th = [t \in Thread |-> Rest] /\ made = 0 /\ pops = 0
  BY <1>1, <1>4 DEF Init, NewArray, r
<1>6. \A t \in Thread : /\ th[t].pc = "idle" /\ th[t].op = "none"
                        /\ th[t].arr = 0
  BY <1>5, RestFacts
<1>7. th \in [Thread -> Local]
  BY <1>5, RestLocal
<1>8. Types
  BY <1>4, <1>5, <1>6, <1>7 DEF Types, NewArray, QueueAssumption, Array
<1>9. CallsOK /\ EndsOK /\ ClearsAlone
  BY <1>6 DEF CallsOK, EndsOK, ClearsAlone, At
<1>10. PoppedBefore /\ PushersOK /\ PoppersOK
  BY <1>4, <1>5, <1>6 DEF PoppedBefore, PushersOK, PoppersOK, At, NewArray
<1>11. BarredOK /\ OutFits /\ LivesOK
  BY <1>4, <1>5, <1>6 DEF BarredOK, OutFits, LivesOK, At, Leading, Wiping,
     NewArray
<1> QED
  BY <1>8, <1>9, <1>10, <1>11 DEF IInv

(* Every step keeps the invariant, where clients keep clear to themselves. *)
LEMMA NextInv ==
  ASSUME QueueAssumption, ClearAlone, IInv, [Next]_vars
  PROVE  IInv'
<1>0. /\ Types /\ CallsOK /\ EndsOK /\ ClearsAlone /\ PoppedBefore
      /\ PushersOK /\ PoppersOK /\ BarredOK /\ OutFits /\ LivesOK
  BY DEF IInv
<1>1. ASSUME NEW t \in Thread, Step(t) PROVE IInv'
  <2>1. Types' /\ CallsOK' /\ EndsOK' /\ ClearsAlone'
    BY <1>0, <1>1, TypesStep, CallsStep, EndsStep, ClearsStep
  <2>2. PoppedBefore' /\ PushersOK' /\ PoppersOK'
    BY <1>0, <1>1, PoppedStep, PushersStep, PoppersStep
  <2>3. BarredOK' /\ OutFits' /\ LivesOK'
    BY <1>0, <1>1, BarredStep, OutStep, LivesStep
  <2> QED
    BY <2>1, <2>2, <2>3 DEF IInv
<1>2. CASE \E a \in DOMAIN arrays : SafeDestroy(a)
  BY <1>2, DestroyStep
<1>3. CASE UNCHANGED vars
  <2>0. UNCHANGED <<arrays, impl, th, made, pops>>
    BY <1>3 DEF vars
  <2>1. Types' /\ CallsOK' /\ EndsOK' /\ ClearsAlone' /\ OutFits'
    BY <1>0, <2>0 DEF Types, CallsOK, EndsOK, ClearsAlone, OutFits, At, Mine
  <2>2. PoppedBefore'
    BY <1>0, <2>0 DEF PoppedBefore, Wiped, At
  <2>3. PushersOK' /\ PoppersOK'
    BY <1>0, <2>0 DEF PushersOK, PoppersOK, At, Mine, Here
  <2>4. BarredOK'
    BY <1>0, <2>0 DEF BarredOK, Leading, Wiping, Barred, Mine
  <2>5. LivesOK'
    BY <1>0, <2>0 DEF LivesOK, At
  <2> QED
    BY <2>1, <2>2, <2>3, <2>4, <2>5 DEF IInv
<1> QED
  BY <1>1, <1>2, <1>3 DEF Next

(* The invariant, for every number of threads, capacity and bound.         *)
THEOREM Invariance ==
  ASSUME ClearAlone PROVE Spec => []IInv
<1>1. Init => IInv
  BY InitInv, QueueAssumption
<1>2. IInv /\ [Next]_vars => IInv'
  BY NextInv, QueueAssumption
<1> QED
  BY <1>1, <1>2, PTL DEF Spec

(* Where clients keep clear to themselves, one thread at a time replaces   *)
(* or clears an array, and it is the array in use: the thread whose bit    *)
(* came first in _Rearm or _Call_cb.                                       *)
THEOREM OneThreadMoves ==
  ASSUME ClearAlone PROVE Spec => []OneMover
<1>1. IInv => OneMover
  <2> SUFFICES ASSUME IInv, NEW t \in Thread, Moving(t)
               PROVE  /\ th[t].arr = impl
                      /\ \A u \in Thread \ {t} : ~Moving(u)
    BY DEF OneMover
  <2>1. CallsOK /\ ClearsAlone /\ BarredOK
    BY DEF IInv
  <2>2. Leading(t) \/ Wiping(t)
    BY DEF Moving, Leading, Wiping
  <2>3. th[t].arr = impl
    BY <2>1, <2>2 DEF BarredOK
  <2>4. ASSUME NEW u \in Thread \ {t}, Moving(u) PROVE FALSE
    <3>1. Leading(u) \/ Wiping(u)
      BY <2>4 DEF Moving, Leading, Wiping
    <3>2. CASE Leading(t) /\ Leading(u)
      BY <2>1, <3>2 DEF BarredOK
    <3>3. CASE Wiping(t)
      <4>1. At(u, "idle")
        BY <2>1, <3>3 DEF ClearsAlone, CallsOK, Wiping
      <4> QED
        BY <2>4, <4>1 DEF Moving, At
    <3>4. CASE Wiping(u)
      <4>1. At(t, "idle")
        BY <2>1, <3>4 DEF ClearsAlone, CallsOK, Wiping
      <4> QED
        BY <4>1 DEF Moving, At
    <3> QED
      BY <2>2, <3>1, <3>2, <3>3, <3>4
  <2> QED
    BY <2>3, <2>4
<1> QED
  BY <1>1, Invariance, PTL

(* No call uses an array that was destroyed, though _Rearm and _Call_cb    *)
(* finalize an array before they replace it.                               *)
THEOREM ArraysOutliveCalls ==
  ASSUME ClearAlone PROVE Spec => []NoUseAfterDestroy
<1>1. IInv => NoUseAfterDestroy
  BY DEF IInv, LivesOK, NoUseAfterDestroy
<1> QED
  BY <1>1, Invariance, PTL

=============================================================================
