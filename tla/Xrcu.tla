-------------------------------- MODULE Xrcu --------------------------------
(***************************************************************************)
(* The RCU runtime of src/xrcu.cpp: per-thread reader counters, the global *)
(* registry and its two-phase grace period, the per-thread list of         *)
(* finalizable objects, thread exit and the pthread_atfork callbacks.      *)
(*                                                                         *)
(* One step is one access to memory that other threads can see, or one     *)
(* critical section of a mutex whose body touches only what that mutex     *)
(* protects.  Thread-local work is folded into the neighbouring step.      *)
(*                                                                         *)
(* Clients appear through the protocol the library documents: an object is *)
(* published, readers take references to it inside critical sections,      *)
(* somebody unlinks it, and somebody then calls finalize on it, once.      *)
(***************************************************************************)
EXTENDS Integers, Sequences, Functions

CONSTANTS
  Thread,       \* threads that may use the library
  NoThread,     \* the owner of a mutex that is free
  Object,       \* finalizable objects; storage is recycled once destroyed
  MaxNest,      \* bound on nested critical sections (GP_NEST_MASK in the code)
  MaxFins,      \* XRCU_MAX_FINS, the pending finalizers that force a flush
  StoreBuffer,  \* do plain stores linger in a store buffer, as on x86?
  Updaters,     \* threads that sync, finalize and flush
  Leavers,      \* threads that may end
  Forkers,      \* threads that may fork through the atfork callbacks
  ForkInCs      \* may they do so inside a critical section?

ASSUME ThreadAssumption ==
  /\ NoThread \notin Thread
  /\ Updaters \subseteq Thread /\ Leavers \subseteq Thread
  /\ Forkers \subseteq Thread
ASSUME BoundAssumption == MaxNest \in Nat \ {0} /\ MaxFins \in Nat \ {0}
ASSUME ModeAssumption == StoreBuffer \in BOOLEAN /\ ForkInCs \in BOOLEAN

VARIABLES
  gphase,  \* the phase bit of registry::counter
  ctr,     \* tl_data::counter of each thread, as the thread itself reads it
  seen,    \* the same counter, as every other thread reads it
  loaded,  \* the phase enter_cs has loaded and not yet stored
  list,    \* the td_link list each thread is on
  gp,      \* owner of registry::gp_mtx
  td,      \* owner of registry::td_mtx
  todo,    \* readers the current pass of poll_readers has yet to look at
  pc,      \* where each thread is in the library
  op,      \* the call that led a thread into registry::sync
  must,    \* tl_data::must_flush
  fins,    \* tl_data::fin_objs, oldest first; its length is n_fins
  obj,     \* the stage of each object's life
  refs,    \* the objects each thread may dereference
  owed     \* history: sections that were open when a thread called sync

registry == <<gphase, list, gp, td, todo>>
readers == <<ctr, seen, loaded>>
control == <<pc, op>>
memory == <<must, fins, obj>>
client == <<refs, owed>>
vars == <<gphase, ctr, seen, loaded, list, gp, td, todo, pc, op, must, fins,
          obj, refs, owed>>

Phase == {0, 1}
Counter == [phase : Phase, nest : 0..MaxNest]
Zero == [phase |-> 0, nest |-> 0]

Polling == {"poll1", "poll2"}     \* holding both mutexes, inside a pass
Yielding == {"yield1", "yield2"}  \* between two passes, td_mtx released
Locked == {"start"} \cup Polling \cup Yielding
Waiting == {"lock"} \cup Locked   \* inside registry::sync
Forking == {"fork1", "fork2", "fork3"}
Label == {"idle", "enter", "flush", "destroy", "gone", "dead"}
           \cup Waiting \cup Forking

Linked(t) == list[t] # "none"
InCs(t) == ctr[t].nest > 0
On(l) == {t \in Thread : list[t] = l}
Readers == {t \in Thread : InCs(t) /\ pc[t] # "dead"}

TypeOK ==
  /\ gphase \in Phase
  /\ ctr \in [Thread -> Counter]
  /\ seen \in [Thread -> Counter]
  /\ loaded \in [Thread -> Phase]
  /\ list \in [Thread -> {"none", "root", "out", "qs"}]
  /\ gp \in Thread \cup {NoThread}
  /\ td \in Thread \cup {NoThread}
  /\ todo \subseteq Thread
  /\ pc \in [Thread -> Label]
  /\ op \in [Thread -> {"sync", "flush", "exit"}]
  /\ must \in [Thread -> BOOLEAN]
  /\ fins \in [Thread -> Seq(Object)]
  /\ obj \in [Object -> {"free", "live", "unlinked", "retired"}]
  /\ refs \in [Thread -> SUBSET Object]
  /\ owed \in [Thread -> SUBSET Thread]

Init ==
  /\ gphase = 0
  /\ ctr = [t \in Thread |-> Zero]
  /\ seen = [t \in Thread |-> Zero]
  /\ loaded = [t \in Thread |-> 0]
  /\ list = [t \in Thread |-> "none"]
  /\ gp = NoThread
  /\ td = NoThread
  /\ todo = {}
  /\ pc = [t \in Thread |-> "idle"]
  /\ op = [t \in Thread |-> "sync"]
  /\ must = [t \in Thread |-> FALSE]
  /\ fins = [t \in Thread |-> <<>>]
  /\ obj = [o \in Object |-> "free"]
  /\ refs = [t \in Thread |-> {}]
  /\ owed = [t \in Thread |-> {}]

-----------------------------------------------------------------------------
(* Helpers.                                                                *)

At(t, l) == pc[t] = l
Goto(t, l) == pc' = [pc EXCEPT ![t] = l]

(* counter.store (val, memory_order_release): a plain store.               *)
Store(t, val) ==
  /\ ctr' = [ctr EXCEPT ![t] = val]
  /\ seen' = IF StoreBuffer THEN seen ELSE [seen EXCEPT ![t] = val]

(* Locked instructions, which every mutex operation has, wait for the      *)
(* stores before them.                                                     *)
Fenced(t) == seen[t] = ctr[t]

(* A thread that leaves its outermost section drops what it could read     *)
(* there, and stops holding up the grace periods that waited for it.       *)
Leave(t) ==
  /\ refs' = [refs EXCEPT ![t] = {}]
  /\ owed' = [u \in Thread |-> owed[u] \ {t}]

-----------------------------------------------------------------------------
(* Critical sections.                                                      *)

(* local_data's first use of the library by a thread: add_tdata links it.  *)
AddTdata(t) ==
  /\ At(t, "idle") /\ ~Linked(t)
  /\ td = NoThread /\ Fenced(t)
  /\ list' = [list EXCEPT ![t] = "root"]
  /\ UNCHANGED <<gphase, gp, td, todo, readers, control, memory, client>>

(* enter_cs, outermost: the load of the global counter...                  *)
EnterLoad(t) ==
  /\ At(t, "idle") /\ Linked(t) /\ ~InCs(t)
  /\ loaded' = [loaded EXCEPT ![t] = gphase]
  /\ Goto(t, "enter")
  /\ UNCHANGED <<registry, ctr, seen, op, memory, client>>

(* ... and the store of what was loaded.                                   *)
EnterStore(t) ==
  /\ At(t, "enter")
  /\ Store(t, [phase |-> loaded[t], nest |-> 1])
  /\ loaded' = [loaded EXCEPT ![t] = 0]
  /\ Goto(t, "idle")
  /\ UNCHANGED <<registry, op, memory, client>>

(* enter_cs inside a section: the phase stays, the nesting grows.          *)
EnterNested(t) ==
  /\ At(t, "idle") /\ InCs(t) /\ ctr[t].nest < MaxNest
  /\ Store(t, [phase |-> ctr[t].phase, nest |-> ctr[t].nest + 1])
  /\ UNCHANGED <<registry, loaded, control, memory, client>>

(* exit_cs inside an outer section: one level less.                        *)
ExitNested(t) ==
  /\ At(t, "idle") /\ ctr[t].nest > 1
  /\ Store(t, [phase |-> ctr[t].phase, nest |-> ctr[t].nest - 1])
  /\ UNCHANGED <<registry, loaded, control, memory, client>>

(* Mutant: the deferred flush is left for the next finalizer.              *)
ForgetfulExit(t) ==
  /\ At(t, "idle") /\ ctr[t].nest = 1
  /\ Store(t, Zero)
  /\ Leave(t)
  /\ UNCHANGED <<registry, loaded, control, memory>>

(* exit_cs of the outermost one: the nesting is back to zero, where the    *)
(* phase means nothing, and a deferred flush is run at once.               *)
ExitCs(t) ==
  /\ At(t, "idle") /\ ctr[t].nest = 1
  /\ Store(t, Zero)
  /\ Leave(t)
  /\ IF must[t]
       THEN Goto(t, "flush") /\ op' = [op EXCEPT ![t] = "flush"]
       ELSE UNCHANGED control
  /\ UNCHANGED <<registry, loaded, memory>>

(* The store buffer of a thread drains when the hardware pleases.          *)
Drain(t) ==
  /\ ~Fenced(t)
  /\ seen' = [seen EXCEPT ![t] = ctr[t]]
  /\ UNCHANGED <<registry, ctr, loaded, control, memory, client>>

-----------------------------------------------------------------------------
(* Grace periods.                                                          *)

(* The top of registry::sync, with the caller outside a section.           *)
BeginSync(t) ==
  /\ Goto(t, "lock")
  /\ owed' = [owed EXCEPT ![t] = Readers]

(* sync.  Inside a section it returns false and changes nothing.           *)
Sync(t) ==
  /\ t \in Updaters
  /\ At(t, "idle") /\ ~InCs(t)
  /\ BeginSync(t)
  /\ UNCHANGED <<registry, readers, op, memory, refs>>

LockGp(t) ==
  /\ At(t, "lock")
  /\ gp = NoThread /\ Fenced(t)
  /\ gp' = t
  /\ Goto(t, "start")
  /\ UNCHANGED <<gphase, list, td, todo, readers, op, memory, client>>

(* What follows registry::sync: flush_all goes on to destroy its list.     *)
EndSync(t) == Goto(t, IF op[t] = "sync" THEN "idle" ELSE "destroy")

(* td_mtx is taken; an empty registry ends the grace period, otherwise the *)
(* first pass of the first poll_readers begins.                            *)
LockTd(t) ==
  /\ At(t, "start")
  /\ td = NoThread
  /\ IF On("root") = {}
       THEN /\ EndSync(t)
            /\ gp' = NoThread
            /\ UNCHANGED <<td, todo>>
       ELSE /\ Goto(t, "poll1")
            /\ td' = t
            /\ todo' = On("root")
            /\ UNCHANGED gp
  /\ UNCHANGED <<gphase, list, readers, op, memory, client>>

(* tl_data::state of reader r, as the thread that polls sees it.           *)
State(r) ==
  CASE seen[r].nest = 0 -> "inactive"
    [] seen[r].nest > 0 /\ seen[r].phase = gphase -> "active"
    [] OTHER -> "old"

(* Mutant: an active reader counts as quiescent from the start.            *)
VisitEager(t, r) ==
  /\ pc[t] \in Polling
  /\ r \in todo
  /\ todo' = todo \ {r}
  /\ list' = IF State(r) = "old" THEN list ELSE [list EXCEPT ![r] = "qs"]
  /\ UNCHANGED <<gphase, gp, td, readers, control, memory, client>>

(* poll_readers looks at one reader: a reader of the current phase moves   *)
(* to out (qs when there is no out list), one outside any section to qs,   *)
(* and an old one stays.                                                   *)
Visit(t, r) ==
  /\ pc[t] \in Polling
  /\ r \in todo
  /\ todo' = todo \ {r}
  /\ list' = CASE State(r) = "active" ->
                    [list EXCEPT ![r] = IF At(t, "poll1") THEN "out" ELSE "qs"]
               [] State(r) = "inactive" -> [list EXCEPT ![r] = "qs"]
               [] OTHER -> list
  /\ UNCHANGED <<gphase, gp, td, readers, control, memory, client>>

(* Mutants: the phase stays, and the counter is incremented.               *)
KeepPhase(t) ==
  /\ At(t, "poll1") /\ todo = {} /\ On("root") = {}
  /\ todo' = On("out")
  /\ Goto(t, "poll2")
  /\ UNCHANGED <<gphase, list, gp, td, readers, op, memory, client>>

CountPhase(t) ==
  /\ At(t, "poll1") /\ todo = {} /\ On("root") = {}
  /\ gphase' = gphase + 1
  /\ todo' = On("out")
  /\ Goto(t, "poll2")
  /\ UNCHANGED <<list, gp, td, readers, op, memory, client>>

(* The end of a pass that left nobody behind in the first poll_readers:    *)
(* the phase flips and the second one starts on out.                       *)
Flip(t) ==
  /\ At(t, "poll1") /\ todo = {} /\ On("root") = {}
  /\ gphase' = 1 - gphase
  /\ todo' = On("out")
  /\ Goto(t, "poll2")
  /\ UNCHANGED <<list, gp, td, readers, op, memory, client>>

(* Mutant: qs is never spliced back.                                       *)
NoSplice(t) ==
  /\ At(t, "poll2") /\ todo = {} /\ On("out") = {}
  /\ td' = NoThread
  /\ gp' = NoThread
  /\ EndSync(t)
  /\ UNCHANGED <<gphase, list, todo, readers, op, memory, client>>

(* The same in the second one: qs is spliced back and the mutexes freed.   *)
Splice(t) ==
  /\ At(t, "poll2") /\ todo = {} /\ On("out") = {}
  /\ list' = [r \in Thread |-> IF list[r] = "qs" THEN "root" ELSE list[r]]
  /\ td' = NoThread
  /\ gp' = NoThread
  /\ EndSync(t)
  /\ UNCHANGED <<gphase, todo, readers, op, memory, client>>

(* A pass that left somebody behind releases td_mtx for a while...         *)
Yield(t) ==
  /\ pc[t] \in Polling /\ todo = {}
  /\ IF At(t, "poll1")
       THEN On("root") # {} /\ Goto(t, "yield1")
       ELSE On("out") # {} /\ Goto(t, "yield2")
  /\ td' = NoThread
  /\ UNCHANGED <<gphase, list, gp, todo, readers, op, memory, client>>

(* Mutant: every pass after the first starts on root.                      *)
RelockRoot(t) ==
  /\ pc[t] \in Yielding
  /\ td = NoThread
  /\ td' = t
  /\ todo' = On("root")
  /\ Goto(t, IF At(t, "yield1") THEN "poll1" ELSE "poll2")
  /\ UNCHANGED <<gphase, list, gp, readers, op, memory, client>>

(* ... and takes it again for the next pass.                               *)
Relock(t) ==
  /\ pc[t] \in Yielding
  /\ td = NoThread
  /\ td' = t
  /\ IF At(t, "yield1")
       THEN todo' = On("root") /\ Goto(t, "poll1")
       ELSE todo' = On("out") /\ Goto(t, "poll2")
  /\ UNCHANGED <<gphase, list, gp, readers, op, memory, client>>

-----------------------------------------------------------------------------
(* Finalizers.                                                             *)

(* finalize: append, and flush at the limit.                               *)
Finalize(t, o) ==
  /\ t \in Updaters
  /\ At(t, "idle") /\ Linked(t)
  /\ obj[o] = "unlinked"
  /\ obj' = [obj EXCEPT ![o] = "retired"]
  /\ fins' = [fins EXCEPT ![t] = Append(@, o)]
  /\ IF Len(fins[t]) + 1 < MaxFins
       THEN UNCHANGED control
       ELSE Goto(t, "flush") /\ op' = [op EXCEPT ![t] = "flush"]
  /\ UNCHANGED <<registry, readers, must, client>>

(* flush_finalizers.                                                       *)
FlushFinalizers(t) ==
  /\ t \in Updaters
  /\ At(t, "idle") /\ Linked(t)
  /\ Goto(t, "flush")
  /\ op' = [op EXCEPT ![t] = "flush"]
  /\ UNCHANGED <<registry, readers, memory, client>>

(* flush_all: inside a section sync refuses, and the caller records that a *)
(* flush is owed; otherwise a grace period begins.                         *)
FlushAll(t) ==
  /\ At(t, "flush")
  /\ IF InCs(t)
       THEN /\ must' = [must EXCEPT ![t] = TRUE]
            /\ op' = [op EXCEPT ![t] = "sync"]
            /\ Goto(t, "idle")
            /\ UNCHANGED owed
       ELSE /\ BeginSync(t)
            /\ UNCHANGED <<op, must>>
  /\ UNCHANGED <<registry, readers, fins, obj, refs>>

(* Mutant: the list is walked but not reset.                               *)
DestroyKeep(t) ==
  /\ At(t, "destroy")
  /\ obj' = [o \in Object |->
               IF o \in Range(fins[t]) THEN "free" ELSE obj[o]]
  /\ must' = [must EXCEPT ![t] = FALSE]
  /\ Goto(t, IF op[t] = "exit" THEN "gone" ELSE "idle")
  /\ op' = [op EXCEPT ![t] = "sync"]
  /\ UNCHANGED <<registry, readers, fins, client>>

(* The loop of flush_all, one safe_destroy at a time, and the reset of the *)
(* list that follows it.                                                   *)
Destroy(t) ==
  /\ At(t, "destroy")
  /\ IF fins[t] # <<>>
       THEN /\ obj' = [obj EXCEPT ![Head(fins[t])] = "free"]
            /\ fins' = [fins EXCEPT ![t] = Tail(@)]
            /\ UNCHANGED <<must, control>>
       ELSE /\ must' = [must EXCEPT ![t] = FALSE]
            /\ Goto(t, IF op[t] = "exit" THEN "gone" ELSE "idle")
            /\ op' = [op EXCEPT ![t] = "sync"]
            /\ UNCHANGED <<fins, obj>>
  /\ UNCHANGED <<registry, readers, client>>

-----------------------------------------------------------------------------
(* Threads that end, and processes that fork.                              *)

(* ~tl_data: any section still open is closed, pending objects flushed...  *)
EndThread(t) ==
  /\ t \in Leavers
  /\ At(t, "idle") /\ Linked(t)
  /\ Store(t, Zero)
  /\ Leave(t)
  /\ IF fins[t] # <<>>
       THEN Goto(t, "flush") /\ op' = [op EXCEPT ![t] = "exit"]
       ELSE Goto(t, "gone") /\ UNCHANGED op
  /\ UNCHANGED <<registry, loaded, memory>>

(* ... and the thread unlinked.  Its name stands for a new thread after.   *)
Unlink(t) ==
  /\ At(t, "gone")
  /\ td = NoThread /\ Fenced(t)
  /\ list' = [list EXCEPT ![t] = "none"]
  /\ must' = [must EXCEPT ![t] = FALSE]
  /\ Goto(t, "idle")
  /\ UNCHANGED <<gphase, gp, td, todo, readers, op, fins, obj, client>>

(* fork, with atfork_prepare taking the two mutexes in sync's order.       *)
Fork(t) ==
  /\ t \in Forkers
  /\ At(t, "idle") /\ (InCs(t) => ForkInCs)
  /\ Goto(t, "fork1")
  /\ UNCHANGED <<registry, readers, op, memory, client>>

PrepareGp(t) ==
  /\ At(t, "fork1")
  /\ gp = NoThread /\ Fenced(t)
  /\ gp' = t
  /\ Goto(t, "fork2")
  /\ UNCHANGED <<gphase, list, td, todo, readers, op, memory, client>>

PrepareTd(t) ==
  /\ At(t, "fork2")
  /\ td = NoThread
  /\ td' = t
  /\ Goto(t, "fork3")
  /\ UNCHANGED <<gphase, list, gp, todo, readers, op, memory, client>>

(* atfork_parent.                                                          *)
ForkParent(t) ==
  /\ At(t, "fork3")
  /\ gp' = NoThread
  /\ td' = NoThread
  /\ Goto(t, "idle")
  /\ UNCHANGED <<gphase, list, todo, readers, op, memory, client>>

(* Mutants: the caller is not added back, and the registry is not reset.    *)
ChildForgetsSelf(t) ==
  /\ At(t, "fork3")
  /\ gp' = NoThread
  /\ td' = NoThread
  /\ list' = [r \in Thread |-> "none"]
  /\ pc' = [r \in Thread |-> IF r = t THEN "idle" ELSE "dead"]
  /\ op' = [r \in Thread |-> "sync"]
  /\ loaded' = [r \in Thread |-> 0]
  /\ must' = [r \in Thread |-> r = t /\ must[t]]
  /\ fins' = [r \in Thread |-> IF r = t THEN fins[t] ELSE <<>>]
  /\ refs' = [r \in Thread |-> IF r = t THEN refs[t] ELSE {}]
  /\ owed' = [r \in Thread |-> {}]
  /\ UNCHANGED <<gphase, todo, ctr, seen, obj>>

ChildKeepsRegistry(t) ==
  /\ At(t, "fork3")
  /\ gp' = NoThread
  /\ td' = NoThread
  /\ pc' = [r \in Thread |-> IF r = t THEN "idle" ELSE "dead"]
  /\ op' = [r \in Thread |-> "sync"]
  /\ loaded' = [r \in Thread |-> 0]
  /\ must' = [r \in Thread |-> r = t /\ must[t]]
  /\ fins' = [r \in Thread |-> IF r = t THEN fins[t] ELSE <<>>]
  /\ refs' = [r \in Thread |-> IF r = t THEN refs[t] ELSE {}]
  /\ owed' = [r \in Thread |-> {}]
  /\ UNCHANGED <<gphase, list, todo, ctr, seen, obj>>

(* atfork_child, seen from the child: only the caller is left and only it  *)
(* is registered.  The memory of the others stays as it was, for nobody.   *)
ForkChild(t) ==
  /\ At(t, "fork3")
  /\ gp' = NoThread
  /\ td' = NoThread
  /\ list' = [r \in Thread |-> IF r = t THEN list[t] ELSE "none"]
  /\ pc' = [r \in Thread |-> IF r = t THEN "idle" ELSE "dead"]
  /\ op' = [r \in Thread |-> "sync"]
  /\ loaded' = [r \in Thread |-> 0]
  /\ must' = [r \in Thread |-> r = t /\ must[t]]
  /\ fins' = [r \in Thread |-> IF r = t THEN fins[t] ELSE <<>>]
  /\ refs' = [r \in Thread |-> IF r = t THEN refs[t] ELSE {}]
  /\ owed' = [r \in Thread |-> {}]
  /\ UNCHANGED <<gphase, todo, ctr, seen, obj>>

(* The child starts a thread, with a tl_data of its own.                   *)
Spawn(t) ==
  /\ At(t, "dead") /\ ~Linked(t)
  /\ ctr' = [ctr EXCEPT ![t] = Zero]
  /\ seen' = [seen EXCEPT ![t] = Zero]
  /\ Goto(t, "idle")
  /\ UNCHANGED <<registry, loaded, op, memory, client>>

-----------------------------------------------------------------------------
(* The client's side of the protocol, as the containers follow it.         *)

(* An object becomes reachable.                                            *)
Publish(o) ==
  /\ obj[o] = "free"
  /\ obj' = [obj EXCEPT ![o] = "live"]
  /\ UNCHANGED <<registry, readers, control, must, fins, client>>

(* A reader inside a section follows a pointer to a reachable object.      *)
Acquire(t, o) ==
  /\ At(t, "idle") /\ InCs(t)
  /\ obj[o] = "live"
  /\ refs' = [refs EXCEPT ![t] = @ \cup {o}]
  /\ UNCHANGED <<registry, readers, control, memory, owed>>

(* An object stops being reachable.  The winner of the race will finalize  *)
(* it, from whatever thread it likes.                                      *)
Remove(o) ==
  /\ obj[o] = "live"
  /\ obj' = [obj EXCEPT ![o] = "unlinked"]
  /\ UNCHANGED <<registry, readers, control, must, fins, client>>

-----------------------------------------------------------------------------

GraceStep(t) ==
  \/ LockGp(t) \/ LockTd(t)
  \/ \E r \in Thread : Visit(t, r)
  \/ Flip(t) \/ Splice(t) \/ Yield(t) \/ Relock(t)

ForkStep(t) ==
  \/ Fork(t) \/ PrepareGp(t) \/ PrepareTd(t)
  \/ ForkParent(t) \/ ForkChild(t) \/ Spawn(t)

ReaderStep(t) ==
  \/ AddTdata(t) \/ EnterLoad(t) \/ EnterStore(t) \/ EnterNested(t)
  \/ ExitNested(t) \/ ExitCs(t) \/ Drain(t)
  \/ \E o \in Object : Acquire(t, o)

FlushStep(t) ==
  \/ Sync(t) \/ FlushFinalizers(t) \/ FlushAll(t) \/ Destroy(t)
  \/ EndThread(t) \/ Unlink(t)
  \/ \E o \in Object : Finalize(t, o)

Next ==
  \/ \E t \in Thread :
       ReaderStep(t) \/ GraceStep(t) \/ FlushStep(t) \/ ForkStep(t)
  \/ \E o \in Object : Publish(o) \/ Remove(o)

Spec == Init /\ [][Next]_vars

-----------------------------------------------------------------------------
(* Safety.                                                                 *)

(* A reader never holds a reference to an object whose destructor has run: *)
(* flush_all destroys only after registry::sync waited for every section   *)
(* that could have reached the object.                                     *)
NoUseAfterReclaim ==
  \A t \in Thread, o \in Object : o \in refs[t] => obj[o] # "free"

(* The lists out and qs live in the stack frame of registry::sync: no      *)
(* thread may be linked there once that frame is gone, and a thread inside *)
(* a section, or about to be, is always where a later sync will look.      *)
NobodyStranded ==
  \A t \in Thread :
    /\ list[t] \in {"out", "qs"} =>
         gp # NoThread /\ pc[gp] \in Polling \cup Yielding
    /\ t \in Readers \/ At(t, "enter") \/ fins[t] # <<>> => Linked(t)

(* A flush that had to be put off, because of must_flush or of the limit   *)
(* on n_fins, is owed only for as long as the thread stays in its section. *)
FlushNotForgotten ==
  \A t \in Thread :
    ~InCs(t) /\ pc[t] \in {"idle", "enter"} \cup Forking =>
      ~must[t] /\ Len(fins[t]) < MaxFins

(* An object that was finalized waits in exactly one place of exactly one  *)
(* list until it is destroyed, whoever exits in the meantime: it is never  *)
(* leaked, and never destroyed twice.                                      *)
RetiredOnce ==
  \A o \in Object :
    LET Places == UNION {{<<t, i>> : i \in {j \in DOMAIN fins[t] :
                                              fins[t][j] = o}} : t \in Thread}
    IN  IF obj[o] = "retired"
          THEN \E p \in Places : Places = {p}
          ELSE Places = {}

-----------------------------------------------------------------------------
(* What registry::sync promises, as the GracePeriod specification says it. *)

Stage(t) ==
  CASE pc[t] \in Waiting -> IF op[t] = "sync" THEN "sync" ELSE "flush"
    [] pc[t] = "destroy" -> "reclaim"
    [] OTHER -> "none"

Promise == INSTANCE GracePeriod WITH
  inside <- Readers,
  stage <- [t \in Thread |-> Stage(t)],
  waitfor <- owed,
  pending <- [t \in Thread |-> Range(fins[t])],
  obj <- obj,
  refs <- refs

(* The runtime implements it: a sync ends only when every section that was *)
(* open at its start has been left, and objects are destroyed only by a    *)
(* thread that has waited since it retired them.                           *)
ImplementsGracePeriod == Promise!Spec

-----------------------------------------------------------------------------
(* Liveness.                                                               *)

(* The scheduler runs every thread that can run, store buffers drain, and  *)
(* clients end the sections they open; nothing makes a thread call in, and *)
(* nothing makes a mutex fair.                                             *)
Fairness ==
  \A t \in Thread :
    /\ WF_vars(GraceStep(t))
    /\ WF_vars(PrepareTd(t)) /\ WF_vars(ForkParent(t) \/ ForkChild(t))
    /\ WF_vars(EnterStore(t)) /\ WF_vars(FlushAll(t)) /\ WF_vars(Drain(t))
    /\ SF_vars(ExitNested(t)) /\ SF_vars(ExitCs(t))

FairSpec == Spec /\ Fairness

(* A grace period that has begun ends, even if readers come back for ever: *)
(* sync waits for pre-existing sections only.                              *)
SyncEnds == \A t \in Thread : pc[t] \in Locked ~> pc[t] \notin Locked
=============================================================================
