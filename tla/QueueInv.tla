------------------------------ MODULE QueueInv -------------------------------
(* The inductive invariant of the queue, in parts named for what they say. *)
(* clear resets the indices of an array that is in use, and has it for     *)
(* itself: what holds of arrays at other times does not while one is being *)
(* wiped.                                                                  *)
EXTENDS Queue

Cells == UNION {[0..c -> Cell] : c \in Nat}
Life == {"live", "pending", "retired", "free"}
Array ==
  [cell : Cells, cap : Nat, wr : Nat, rd : Nat, life : Life,
   by : SUBSET Thread, waits : SUBSET Thread]

Local ==
  [pc : Label, op : Op, val : Value \cup {FREE}, arr : Nat, ix : Nat,
   got : AnyWord, out : Seq(Cell), met : SUBSET Value]

(* TypeOK but for the history, with impl the last array.                   *)
Types ==
  /\ impl \in Nat \ {0} /\ arrays \in [1..impl -> Array]
  /\ \A a \in 1..impl :
       /\ arrays[a].cell \in [0..arrays[a].cap -> Cell]
       /\ arrays[a].wr \in 0..arrays[a].cap
       /\ arrays[a].rd \in 0..arrays[a].cap
  /\ th \in [Thread -> Local]
  /\ \A t \in Thread : th[t].arr \in 0..impl
  /\ made \in 0..MaxValues /\ pops \in 0..MaxPops

(* What a call may be doing at each place.                                 *)
CallsOK ==
  \A t \in Thread :
    /\ At(t, "idle") <=> th[t].op = "none"
    /\ At(t, "idle") <=> th[t].arr = 0
    /\ th[t].op = "push" => th[t].val # FREE
    /\ th[t].pc \in {"pushidx", "pushcell", "pushcas", "pushbump", "alloc",
                     "unmark"} => th[t].op = "push"
    /\ th[t].pc \in {"poprd", "popwr", "popcell", "popcas", "popbump",
                     "popwait"} => th[t].op = "pop"
    /\ th[t].pc \in {"rdix", "mark", "wait", "sweep"} =>
         th[t].op \in {"push", "assign", "clear"}
    /\ th[t].pc \in {"finalize", "install"} => th[t].op \in {"push", "assign"}
    /\ th[t].pc \in {"wrcap", "rdcap", "wipe", "wrzero"} => th[t].op = "clear"
    /\ th[t].pc \in {"end", "endcell"} => th[t].op \in {"front", "back"}
    /\ At(t, "answer") => th[t].op \in {"pop", "front", "back"}
    /\ th[t].pc \in {"walkrd", "walk"} => th[t].op = "walk"
    /\ At(t, "impl") => th[t].op # "walk"
    /\ ~At(t, "rdzero")

(* front and back look at a cell of their array.                           *)
EndsOK == \A t \in Thread : At(t, "endcell") => th[t].ix <= Mine(t).cap

(* Who clears is alone.                                                    *)
ClearsAlone ==
  \A t, u \in Thread : th[t].op = "clear" /\ u # t => At(u, "idle")

Wiping(t) == th[t].pc \in {"rdcap", "wipe", "wrzero"}
Wiped(a) == \E t \in Thread : At(t, "wipe") /\ th[t].arr = a

(* The cells before rd_idx were popped.                                    *)
PoppedBefore ==
  \A a \in 1..impl :
    Wiped(a) \/ \A i \in 0..arrays[a].rd - 1 : arrays[a].cell[i].v = DELT

(* A thread between the compare-and-swap of a cell and the increment of an *)
(* index is the only one there, and its cell is the one at the index; the  *)
(* others come to cells that the index has passed, or is at.               *)
PushersOK ==
  \A t \in Thread :
    /\ th[t].pc \in {"pushcell", "pushcas", "pushbump"} =>
         /\ th[t].ix < Mine(t).cap /\ th[t].ix <= Mine(t).wr
         /\ th[t].ix < Mine(t).wr => Here(t).v # FREE
    /\ At(t, "pushbump") =>
         /\ th[t].ix = Mine(t).wr /\ Here(t).v # FREE
         /\ \A u \in Thread \ {t} :
              At(u, "pushbump") => th[u].arr # th[t].arr

PoppersOK ==
  \A t \in Thread :
    /\ th[t].pc \in {"popwr", "popcell", "popcas", "mark"} =>
         th[t].ix <= Mine(t).rd
    /\ th[t].pc \in {"popcell", "popcas"} => th[t].ix < Mine(t).cap
    /\ At(t, "popcas") => th[t].got # DELT
    /\ At(t, "popbump") =>
         /\ th[t].ix = Mine(t).rd /\ th[t].ix < Mine(t).cap
         /\ Here(t).v = DELT
         /\ \A u \in Thread \ {t} :
              At(u, "popbump") => th[u].arr # th[t].arr

(* The bit that keeps others out of an array is that of the cell at rd_idx *)
(* while it holds a value that is not popped: nobody can pop that value,   *)
(* and so nobody moves rd_idx.                                             *)
Barred(a) ==
  arrays[a].cell[arrays[a].rd].x /\ arrays[a].cell[arrays[a].rd].v # DELT

Leading(t) ==
  th[t].pc \in {"alloc", "unmark", "sweep", "finalize", "install", "wrcap"}

BarredOK ==
  /\ \A t \in Thread : Leading(t) => Barred(th[t].arr) /\ th[t].arr = impl
  /\ \A t \in Thread : Wiping(t) => th[t].arr = impl
  /\ \A t, u \in Thread : Leading(t) /\ Leading(u) => t = u
  /\ \A t \in Thread :
       th[t].pc \in {"alloc", "unmark"} => th[t].ix = Mine(t).rd
  /\ \A a \in 1..impl :
       a # impl => arrays[a].life = "free" \/ Barred(a)

(* The new array is longer than what goes into it.                         *)
OutFits ==
  \A t \in Thread :
    /\ th[t].op = "assign" => Len(th[t].out) <= MaxValues
    /\ th[t].op = "push" /\ th[t].pc \in {"sweep", "finalize", "install"} =>
         Len(th[t].out) <= th[t].ix + 1 /\ Len(th[t].out) <= Mine(t).cap

(* The array in use is finalized by the thread that replaces it, and those *)
(* it has replaced wait for the threads that still have them.              *)
LivesOK ==
  /\ \A a \in 1..impl :
       /\ arrays[a].life # "free" => arrays[a].cap > 0
       /\ a # impl => arrays[a].life \in {"retired", "free"}
  /\ \/ arrays[impl].life = "live"
     \/ /\ arrays[impl].life = "pending"
        /\ \E t \in Thread : At(t, "install") /\ arrays[impl].by = {t}
  /\ arrays[impl].life = "live" => arrays[impl].by = {}
  /\ \A t \in Thread :
       At(t, "install") =>
         arrays[impl].life = "pending" /\ arrays[impl].by = {t}
  /\ \A t \in Thread : th[t].arr # 0 =>
       arrays[th[t].arr].life \in {"live", "pending"}
         \/ /\ arrays[th[t].arr].life = "retired"
            /\ t \in arrays[th[t].arr].waits

IInv ==
  /\ Types /\ CallsOK /\ EndsOK /\ ClearsAlone /\ PoppedBefore /\ PushersOK /\ PoppersOK
  /\ BarredOK /\ OutFits /\ LivesOK
=============================================================================
