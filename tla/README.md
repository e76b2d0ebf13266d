# A verification of xrcu in TLA+

xrcu is a C++ library with a userspace RCU (read-copy-update) runtime and four
lock-free containers built on it: a stack, a queue, a hash table and a skip
list. This directory holds TLA+ models of its parts, the TLC configurations
that check them, and TLAPS proofs about them. Line numbers refer to the
repository; `PROJECT.json` maps every definition to the lines it models.

## 1. Inventory

### RCU runtime (`src/xrcu.cpp`, `xrcu/xrcu.hpp`)

* State. One `registry`: the phase bit in `counter`, the list `root` of
  registered threads, and two mutexes, `gp_mtx` (one grace period at a time) and
  `td_mtx` (the lists). One `tl_data` per thread: its reader counter (phase and
  nesting), the list of finalizable objects it has pending, their number, and
  `must_flush`.
* Operations. `enter_cs`, `exit_cs`, `sync`, `finalize`, `flush_finalizers`, the
  implicit registration of a thread and its destructor, and the three
  `pthread_atfork` callbacks.
* Interaction. Every container opens a section around each operation and calls
  `finalize` on what it unlinks. `finalize` and `exit_cs` may run a whole grace
  period and user destructors.
* Hard behaviour. `enter_cs` loads the phase and stores it later, with a plain
  release store; `poll_readers` gives up `td_mtx` between passes, so threads come
  and go in the middle of a grace period, on lists that live in the stack frame
  of `sync`; flushes are put off inside sections; threads exit with objects
  pending; a fork copies all of this at any moment.
* Correct when: no object is destroyed while a section that could reach it is
  open; `sync` waits for pre-existing sections and only for those; every
  finalized object is destroyed exactly once; a registry in a forked child holds
  the forking thread and nobody else.

### Lightweight lock (`src/lwlock.cpp`, `xrcu/lwlock.hpp`)

* State. One word: 0 free, 1 held, 2 held and perhaps waited for.
* Operations. `acquire`, `release`, over a futex or, elsewhere, over naps.
* Interaction. The hash table serialises rehashes, clears and swaps with it.
* Hard behaviour. The swap that marks the word as contended also takes the lock.
* Correct when: at most one owner, no sleeper without somebody to wake it.

### Stack (`src/stack.cpp`, `xrcu/stack.hpp`)

* State. One pointer to the top node, whose low bit is a spin bit; nodes with a
  `next` pointer, each one a finalizable object.
* Operations. `push` of one value, of a range, of n copies; `pop`, `top`,
  `size`, `swap`, `clear`, `assign`, iterators.
* Hard behaviour. ABA on the top pointer, kept out by RCU; `swap` locks two
  heads one after the other and stores them one after the other; `pop` clears
  the `next` of the node it took while iterators may stand on it; `clear` retires
  a whole chain through its first node.
* Correct when: pushes, pops, swaps and clears are atomic steps of an abstract
  stack, and a walk stands only on nodes that have not been destroyed.

### Queue (`src/queue.cpp`, `xrcu/queue.hpp`)

* State. A pointer to an array of cells with a read and a write index; a cell is
  free, a value, deleted, and may carry the bit XBIT that freezes it.
* Operations. `push`, `pop`, `front`, `back`, `size`, iterators, the `_Rearm`
  that moves to a bigger array, `assign`, `clear`, `swap`.
* Hard behaviour. A cell and the index that points at it are updated one after
  the other; freezing an array races with pops and pushes in flight; `clear`
  reuses the array in place.
* Correct when: what is pushed is popped once, in order.

### Hash table (`src/hash_table.cpp`, `xrcu/hash_table.hpp`)

* State. A pointer to a vector of key and value slots, with a count of elements; a
  grow limit, and a lightweight lock. A word of a slot is free, deleted, or an
  object, and a value may carry XBIT.
* Operations. `insert`, `update`, `find`, `erase`, iterators, `_Rehash`, `clear`,
  `swap`, assignment.
* Interaction. Keys and values are finalized when they leave the table, vectors when
  they are replaced. Rehashes, `clear`, assignment and `swap` take the lock.
* Hard behaviour. Insertions are a double-width compare-and-swap; a rehash
  freezes every slot with XBIT and copies; erasures race with it and with
  `clear`; the limit is decremented before a slot is filled, for whichever vector;
  `clear` holds the lock while `finalize` may wait for readers, and
  readers take the lock to rehash.
* Correct when: each call takes effect on its own key at one instant, a rehash
  changes nothing, a key has one slot, probes end, every object is finalized once
  and the count is that of the elements.

### Skip list (`xrcu/skip_list.hpp`)

* State. Nodes with one next pointer for each of their levels, whose low bit is the
  mark of an erased node; a root with the length, the highest level in use.
* Operations. `insert`, `erase`, `find`, bounds, iterators, `swap`, `clear`,
  assignment.
* Hard behaviour. Nodes are marked, and unlinked by whoever passes, level by level;
  an insert links the upper levels of a node that may be erased meanwhile; the
  search keeps what it found from one level to the next; `clear` and assignment
  replace the root under their users.
* Correct when: the levels stay sorted, and each level holds nodes of the one
  below; each call adds or takes away its own key at one instant; nodes are
  finalized once, when no level leads to them; the length follows.

### Helpers (`xrcu/xatomic.hpp`, `xrcu/memory.hpp`, `xrcu/utils.hpp`)

Compiler-specific atomics, array allocation, boxed and unboxed element traits.
They have no state of their own; the models use what they do.

## 2. Modules, and how they correspond to the code

| module | models | role |
| --- | --- | --- |
| `Xrcu` | `src/xrcu.cpp`: sections, `sync`, `poll_readers`, `finalize`, flushes, thread exit, fork | detailed specification |
| `GracePeriod` | nothing of its own: what the runtime promises | abstract specification of `Xrcu`; the contract the containers rely on |
| `XrcuInv`, `XrcuProofs` | | inductive invariant and proofs |
| `Lwlock`, `LwlockProofs` | `src/lwlock.cpp`, both variants | specification and proofs |
| `Stack` | `src/stack.cpp`, `xrcu/stack.hpp` | detailed specification |
| `AbstractStack` | what the stack promises | abstract specification |
| `StackInv`, `StackProofs` | | inductive invariant and proofs |
| `Queue` | `src/queue.cpp`, `xrcu/queue.hpp` | detailed specification |
| `AbstractQueue` | what the queue promises | abstract specification |
| `QueueInv`, `QueueProofs` | | inductive invariant and proofs |
| `HashTable` | `src/hash_table.cpp`, `xrcu/hash_table.hpp` | detailed specification |
| `HashTableInv` | | inductive invariant of `HashTable`, in named parts |
| `HashTableSteps`, `HashTableShape`, `HashTableProofs`, `HashTableMemory` | | its proofs, each module on top of the one before: what each action does and writes; types, calls, lock, vectors, slots and bits; room, counts, `TypeOK`, chains and keys; who owns and who reads each object |
| `SkipList` | `xrcu/skip_list.hpp` | detailed specification |
| `AbstractMap` | what the hash table and the skip list promise | abstract specification of both |
| `MCXrcu`, `MCStack`, `MCQueue`, `MCHashTable`, `MCSkipList` | | model values and definitions for the `.cfg` files |

Everywhere, one action is one access to memory that other threads can reach, one
system call, or one operation on a mutex; what a thread does to memory nobody
else can see goes into the action of the access that precedes or follows it.
Definitions whose comment begins with *Mutant* are wrong on purpose: they are
plausible bugs, never part of `Next`, that the properties have been seen to
catch (`mutants` in `PROJECT.json`).

### `Xrcu`

`ctr[t]` is `tl_data::counter` as its thread reads it, `seen[t]` as the others do;
they differ only when `StoreBuffer` is TRUE, where a plain store of the counter
waits in a buffer (of one entry: a thread that stores twice drains the first)
until `Drain`. `list[t]` is the `td_link` list a thread is on: `root`, or the lists
`out` and `qs` of the frame of `sync`. `gp` and `td` are the owners of the two
mutexes. `pc` places the thread between lock operations and visits of
`poll_readers`; `todo` is the set of readers the current pass has yet to visit, in
any order (the order of a list that others may relink while `td_mtx` is given up
carries no information). `must`, `fins` are `must_flush` and the finalizer list.

`enter_cs` is `EnterLoad` (read the phase) and `EnterStore` (store the counter), with
anything in between. `sync` is `LockGp`, `LockTd`, then passes of `Visit` until the
polled list is empty, `Yield`/`Relock` between passes, `Flip` between the polls, and
`Splice` at the end. `exit_cs` and `finalize` lead to a flush the way the code does,
and `Destroy` runs `safe_destroy` object by object. `EndThread` and `Unlink` are the
destructor of `tl_data`, and the `Fork...` actions the callbacks of
`pthread_atfork`, after which the child goes on with one thread and may start new
ones (`Spawn`).

`Publish`, `Acquire` and `Remove` are the client: the pattern all containers follow.

### `Lwlock`

`lock` is the word, `pc` the place in `acquire` and `release`. `futex` is chosen in
`Init` and never changes: it selects the variant that is compiled. The bounded spin
is the label `spin`, which can be left at any moment. Waits may be interrupted.

### `Stack`

`head` is the pointer with its spin bit, `next` the link of each node. `life` and
`waits` stand for RCU: a node that is finalized can be destroyed when the sections
that were open have ended, which is what `GracePeriod` promises. `th` holds the
locals of each thread. `items` is a history variable that each operation updates
where it takes effect; `Linked` then says that memory agrees with it. `path` is the other
history: what the stack held when a walk over it began. A spin is a guard: the action is disabled until the loop would end.

### `Queue`

`arrays` is the sequence of arrays installed so far; each has its cells, `cap`, the
two indices, and its place in RCU. Here the finalizer is inside a section of its
own, so an array waits first for that one (`by`), and then for the sections that are
open at its end (`waits`): the thread's own flush cannot start earlier. `impl` is the
pointer; a cell is a word and XBIT. `_Rearm` and `_Call_cb` share the actions `RdIdx`,
`Mark`, `MarkWait`, `Sweep`, `Finalize` and `Install`, which differ where the code
does. There is no history of the contents: `Items` reads them off the array, and
`seen` remembers only what a call in progress may still answer.

### `HashTable`

`vec`, `limit` and `lock` are the members `vec`, `grow_limit` and `lock`; `tab` holds the
slots, `pidx` and `nelems` of each vector ever made, where `x` is XBIT of a value. Keys
and values are objects (the wrapped types; integral ones have nothing to finalize),
made, freed and finalized as the traits do. `th[t]` has the locals: `ix` counts probes,
or slots where a loop goes over the vector. `_Probe` is `ProbeFree`, `ProbeMatch` and
`ProbeNext`; `_Upsert` goes on with `PutValue` and `SwapValue` or with `DecrLimit` and
`FillSlot`; `_Erase` with `OldKey`, `OldValue`, `TakeValue`, `CountDown` and `Bury`. `_Rehash`
is one step to take the lock and look at the limit, two for each slot, one for the
count and the limit, and one to install the vector, finalize the old one and release
the lock; the vector it fills is its own until then. A key that finds no slot free
and none of its own leads to the label `wild`, where the code uses index -1.

`Memory` is the part of RCU that matters: `waits[o]` are the sections that hold up the
destruction of `o`, and what is destroyed loses its contents. `Flushed` is the wait
of a `finalize` at its limit, outside sections. The map that the refinement is about
is read off the vector in use (`Contents`).

### `SkipList`

`next[o]` has a pointer and a mark for each level of a node or root, `len` the length
word of each root, `head` and `hi` are `head` and `hi_water`. `_Find_preds` is `Descend` (the
first pointer of a level), `Scan` and `ScanErased` (the pointer of the node it came to)
and `Unlink`, for the modes none, assist and force, and `then` says where its caller
goes on. `got` and `it` live from one level to the next as they do in the code.
`_Insert` is `Draw`, `LinkBottom`, `LinkUpper`, the loop of `Relink` and `Recas`, `Check` and
`CountUp`; `_Erase` is `Load` and `Mark` from the top to the bottom, a search by force,
`CountDown` and `Retire`. `clear` and the assignments are `Exchange` and `Fini`.

Calls are not drawn at will but are those of a program: `role` gives the heights of
the keys that are in the list at first, and for each thread the calls it makes. That
keeps instances with two levels small and says which calls overlap. `role.apart` says
of a program that no thread inserts a key that another erases.

## 3. What the runs check

| run | instance | what it shows |
| --- | --- | --- |
| `xrcu_safety` | 2 threads, 2 objects, nesting 2, limit of 2 pending finalizers, threads leave | no use after reclamation, no flush forgotten, no object lost or destroyed twice; `Xrcu` implements `GracePeriod` |
| `xrcu_live` | 2 threads with store buffers, one forks, the other leaves | no thread stranded on the lists of a finished `sync`; every `sync` ends |
| `xrcu_tso` | 2 threads, 1 object, store buffers | *violation*: see 6 |
| `lwlock` | 4 threads, both variants | mutual exclusion, no lost wakeup, progress |
| `stack` | 3 threads, 1 stack, 3 nodes, chains of 2 | `Stack` implements `AbstractStack`; chains, accounting, walks |
| `stack_swap` | 3 threads, two of which swap, 2 stacks, 2 nodes | `Stack` implements `AbstractStack` across `swap`; some call always completes |
| `queue` | 3 threads, arrays of 3, 6 and so on, 2 initial sizes, 2 values made, 2 pops | `Queue` implements `AbstractQueue`; one mover; answers that were true; walks |
| `queue_drained` | 1 thread, array of 2 | *violation*: see 6 |
| `hash_table` | 3 threads, 2 keys with one hash, vectors of 2 and 3 slots | `HashTable` implements `AbstractMap` through rehashes; one slot for a key, room for probes, the count, finalization, answers, walks |
| `hash_torn_copy` | 2 threads | *violation*: see 6 |
| `skip_list` | 17 programs of up to 3 threads and 4 calls, 3 keys, 2 levels | `SkipList` implements `AbstractMap`; sorted levels, finalization, answers, walks; the length, where no thread inserts what another erases; all programs end |
| `skip_wrong_victim` | 2 threads that erase one key | *violation*: see 6 |

Bounds. Two threads in `Xrcu` give a syncer and a reader in every combination of
roles, a second syncer that queues behind the first, and a reader that comes back
during a poll. What takes three, a syncer with two readers in different phases or two
syncers and a reader, does not fit in these runs and is covered by the proofs, for
safety; liveness is checked with two threads only. Nesting 2 tells the outermost section from an inner one, and a limit
of 2 finalizers with 2 objects lets the limit be reached both inside and outside a
section. The two runs split what would not fit in one: pending objects without
forks, and forks with store buffers without objects. Proofs cover the rest of the
parameters. The four threads of `Lwlock` are an owner, one on its way to wake and
two that sleep or spin. Three nodes in `Stack` are a chain of two and one more, so
that a node can come back (ABA) while a chain is in place. In `Queue` the array of 3
starts with 2 or 3 values: the second push, or the first, finds it full; two
threads that both find it full race to replace it, against two pops. `MaxPops`
below `Cap` is the regime named below, and the other constants with a bound
(`MaxChain`, `Copies`, `MaxValues`, `Ranges`, `Initial`) only limit what clients do, except
that no array of the run starts with one value: see the second path in 6. In
`HashTable` a vector of 2 slots may have 1 filled and one of 3 may have 2, so that
the second key, or a key inserted again after it was erased, finds the limit used up;
the vectors that may be made (2) allow one rehash in a behaviour, and an `assign`
in its place. Both keys probe the same slots. `Workloads` pairs the calls: insert with
erase, erase with find, update with erase, and `clear` and `assign` with readers before
and after. In `SkipList` two levels are what it takes for a node to be erased at one
and not yet at the other; `Copies` and `Roots` are as many as the programs use, and
`Finished` lets TLC tell a program that is over from one that is stuck.

Regimes. Two constants state what the clients of the passing `queue` run do not
do, because the code does not survive it: drain a full array and push again
(`MaxPops < Cap`; run `queue_drained` is the opposite), and clear a queue that others
are using (`ClearAlone`; see 6). In the `stack` runs iterators are made inside a
section of the client (`BareBegin = FALSE`), `size` is not called while stacks are
swapped, `top` and iterators are not used while stacks are swapped, and swaps take
their stacks in one order. `RetiredOnce` of `Xrcu` is checked without forks: what other
threads had pending is lost in the child, as any of their memory is.

In `hash_table`, `clear` and `assign` run while no other call does (`Alone`), and no slot
is filled between the two reads that `_Rehash` makes of it (`TornCopy = FALSE`; run
`hash_torn_copy` is the opposite). `LoadPct` is a load factor the constructor accepts. In
`skip_list`, where nodes of two levels are involved, nobody looks for a key while it is
erased if a greater key is in the list (run `skip_wrong_victim` is the opposite); an
insert of two levels meets the erase of its own key only when the program ends there;
no insert or erase is under way when `clear` or an assignment begins; `assign` is called
by the only thread, and what it assigns is not erased at two levels afterwards. What
happens otherwise is in section 6. Programs in which one thread inserts a key that
another erases are in the run, for all its properties but one: `LengthExact` says that
the length is the number of keys of the others only (`role.apart`), and of these that it
is never too great. The code loses a count there; section 6 says how.

Deadlock is not checked in the queue runs nor in `hash_torn_copy`: clients stop when
their bounds are used up, and see 6. It is in `hash_table` and `skip_list`.

### Fairness

* `Xrcu`: weak fairness of everything a thread does inside the library, since the
  scheduler runs every thread that can run; of `Drain`, since store buffers empty; strong fairness of
  leaving a section, the client's duty, because entering nested ones again and again
  disables it intermittently. Nobody has to call in, mutexes are not fair, and a
  thread may enter sections for ever: `SyncEnds` holds all the same.
* `Lwlock`: weak fairness of each step after the first of `acquire`, and of
  `release`. Signals may never come, and no thread is promised the lock:
  `Progress` is about the lock.
* `Stack`: weak fairness of each thread's steps inside calls. No
  compare-and-swap has to succeed: `CallsComplete` is lock-freedom, somebody gets
  done. The spin bit makes this depend on the thread that swaps being scheduled.
* `SkipList`: weak fairness of all threads together, which says only that the machine
  goes on. `ProgramsEnd` is lock-freedom: a thread may stop anywhere, half-way through
  an erase for one, and the others still finish; since programs are finite, restarts
  have to be as well.
* `Queue` and `HashTable`: none is assumed and no liveness is claimed. For the first see
  6; in the second a thread that stops with the lock stops those that rehash.

## 4. What is proved

TLAPS checks these for every value of the constants that the named ASSUMEs of the
modules admit: `NoThread` and `Null` are no thread, bounds are positive, roles are
sets of threads, the sizes of vectors grow. Further hypotheses are stated in the
theorems and named here. Each invariant below was checked by TLC, with the
constants of the run of its component, before it was proved.

*Runtime* (`XrcuProofs`). `XrcuTypes`: the type invariant, in both memory modes.
`ReaderSafety`, `NobodyIsStranded` and `XrcuKeepsPromise` assume `~StoreBuffer`, without
which `xrcu_tso` refutes them.

The safety of readers is not inductive: that an object is not destroyed while
referenced depends on what the thread that will destroy it still waits for, and
that on the lists and the phases. `GraceInv` (`XrcuInv`) is the conjunction that is:

* `MutexInv`: who holds the mutexes at which label; nobody syncs in a section;
* `ListInv`: `out` and `qs` are populated only while `sync` runs, and a pass has the
  readers it has yet to look at on the list it walks;
* `OwedInv`: the sections a grace period still has to wait for (`owed`, a history
  variable) are open;
* `PhaseInv`, the heart: before the flip, a reader that is owed is on `root`, or on
  `out` with the current phase; after it, on `out` with the other phase. So the
  empty `root` of the first poll, and then the empty `out` of the second, mean that
  nobody is owed. This is why two polls are needed, and why `enter_cs` may use a
  phase it loaded long ago;
* `PendInv`: a pending object is in one place of one list;
* `RefInv`: whoever has a referenced object pending is not destroying, and, if it
  is waiting, waits for that reference's section.

`OpInv` adds why a thread is in `sync`. Each part has a lemma with one step per
action; `XrcuInvariant` puts them together; `ReaderSafety` and `NobodyIsStranded`
follow from it. `XrcuKeepsPromise` is the refinement: initial states map to initial
states, and `RefineStep` maps each action to an action of `GracePeriod` or to a
stutter.

Two theorems are about `finalize`. `FlushesAreRun` (`FlushNotForgotten`) holds in both
memory modes and across forks: `FlushInv` says that the limit is reached, or
`must_flush` set, only inside a section, and that whoever gets to the exit of its
outermost section with either goes to the flush. `RetiredAreAccounted` (`RetiredOnce`)
assumes that nobody forks: with `HeldInv`, what was finalized and not destroyed is on
the list of a thread, at one place by `PendInv`, and a thread that is gone has an empty
list.

*Lock* (`LwlockProofs`). `LockInvariant`, `LockTypes`, `LockMutualExclusion` and `LockNoLostWakeup`.

*Stack* (`StackProofs`), for any numbers of threads, stacks and nodes, chains of any length, and
any pairs that are swapped. `StackOK` (`StackInv`) is inductive. Besides types, labels
(`ControlOK`) and heads it says that there are four functions, `kind`, `where`, `gone` and `safe`,
which give the nodes their places, the nodes on their way out the chain that hangs from
them, and the sections the nodes that they can still come to:

* `HeadsOK`: one thread at most has set the spin bit of a stack, and nobody else changes its
  head; a head leads to the first node that its stack holds, but for the second head of a
  swap between its two stores;
* `PlacesOK`: a node is free, in the chain of a call, in a stack, in the hand of a pop, or on
  its way out, and in one such place only. What `Linked` and `NodesAccounted` say of paths
  along links follows from places, and needs no induction along links;
* `LinksOK`: each stack, and each chain on its way out, is strung together by the next
  pointers, a chain of a push but for its last link. A node that was popped leads nowhere
  before it is finalized, so that nothing hangs from it;
* `GoneOK`: a chain on its way out hangs from a first node, which one thread is about to
  finalize or which was finalized;
* `SafeOK`: the nodes that a section can come to are in a stack, in a hand or on their way out
  under a node that waits for the section, and they lead to such nodes only. It is closed
  under what others do: a pop, a clear or a finalization after the section was opened leaves
  the node in the set and adds the section to those that are waited for;
* `PopsOK`: a pop that has read the next pointer of a node still knows it as long as the node
  is in a stack. As the node cannot come back while the section is open, the
  compare-and-swap that finds it on top stores the right pointer: there is no ABA;
* `ReadsOK`: `top` and walks stand on such nodes, walks on those of `path`.

From it follow `TypeCorrect` (`TypeOK`), `ChainsLinked` (`Linked`), `Accounted`
(`NodesAccounted`), and, if `Careful` holds, `ReadersSafe` (`NoUseAfterDestroy`) and
`WalksInOrder` (`WalkInOrder`). `Careful` is the regime of the runs: if anybody calls `top` or
makes iterators, iterators are made inside a section and stacks are not swapped. Without
either half `NoUseAfterDestroy` is false, see 6. `StacksAsPromised` is `ImplementsStack`, with
no such condition: `SwapFirst`, `ReplaceStore` and the compare-and-swaps of push and pop that
succeed map to the steps of `AbstractStack`, `PopFinish` to the return of a pop, and all
other steps to stutters.

*Queue* (`QueueProofs`), where `clear` is not called while others call (`ClearAlone`; in 6
is what happens otherwise). `OneThreadMoves` is `OneMover` and `ArraysOutliveCalls` is
`NoUseAfterDestroy`, for any number of threads and any capacity. The argument of `IInv`
(`QueueInv`): the cells before `rd_idx` are popped (`PoppedBefore`), and a thread between
the compare-and-swap of a cell and the increment of an index is the only such one of
its array, at the cell of the index (`PushersOK`, `PoppersOK`). So a bit in the cell at
`rd_idx`, on a value that is not popped, keeps that value from being popped and `rd_idx`
from moving (`Barred`): whoever set it is alone in the array until it takes the bit away or
installs another array (`BarredOK`), and the array that was replaced stays barred until
it is freed. It waits for the threads that had it in their sections (`LivesOK`).

*Hash table* (`HashTableProofs`, `HashTableMemory`), for any number of threads, keys, slots and
vectors, any hash function, probe sequence and growing sequence of sizes, in the regime
where `clear` and `assign` are alone, and for a finite set of threads, since calls are
counted. The slot of an insertion is filled in one step, long after the limit was
decremented for it, and in a vector that may have been replaced in between; counts
follow one step later. `Core` (`HashTableInv`) is what makes that harmless:

* `Structure`: the holder of the lock works on the vector in use (`LockOK`); the bits are
  behind the loop that sets them, and a vector that was replaced has them all (`BitsOK`),
  so that no slot is filled there any more; the vector that is being made is known to
  its maker alone (`VectorsOK`); indices stay in bounds, and the places a probe has ended
  at stay in use (`IndexOK`, `TakenOK`);
* `RoomOK`: the slots in use, the limit that is left and the insertions that were promised
  a slot are together no more than the share of the vector that may be used. A copy has no
  more slots in use than the old vector has behind the copier, and no insertion can end in
  the old one while `install` is under way;
* `CountOK`: the count and the calls about to count make up the number of live slots, in
  the vector in use and in the one that will replace it.

From it follow `TypeCorrect` (`TypeOK`), `RoomIsLeft` (`RoomLeft`: a probe always finds a free
slot to end at) and `CountIsExact` (`NelemsExact`). On top of `Core`, `SlotsInv` is the
invariant of the keys:

* `ChainsOK`: no free slot lies between the first slot of a key's probes and the one it is
  in, so a probe that ends at a free slot has not passed by its key;
* `ProbesOK`: what a probe has passed is in use and not of its key, whatever happened to it
  since, because a slot is freed by `clear` alone and a buried key never comes back; two
  erasures that have taken values work on different slots;
* `CopiesOK`: what a rehash has copied comes from live slots behind it, one each.

A slot that is filled by a compare-and-swap was free up to that instant, so the chain of
its key had no slot with it: `KeysHaveOneSlot` (`OneSlotPerKey`).

`MemoryInv` is the invariant of the keys and values as objects in memory:

* `OwnersOK`: a slot whose value does not carry the bit owns its key and its value, and so
  does a slot whose value was taken. What is owned is live, has one owner, and is held by no
  call; the vector in use has it in that slot alone, unless a rehash owns the copy;
* `HeldOK`: what a call has made and not stored, or has taken out of a slot and not
  finalized, it alone has, and nobody reads what it has made;
* `CurrentOK`: all that is in the vector in use is live, but for what an assign finalizes;
* `ReadersOK`, `WordsOK`: what is in the vector of a section, and the word that a call has
  read, is live or waits for that section;
* `LivesOK`, `ErasersOK`: nothing in a slot was never made, nothing is finalized twice, and
  an erase has a key only while it is about to take it away.

`LifeSteps`, `SlotSources`, `HeldSources` and `WordSources` say once and for all actions what
a step does to the life of an object, and how an object comes into a slot, into the hands
of a call and into its word; `RetiredFrom` says that whoever finalizes was the owner. The
proof of each part then goes over those few cases instead of the forty actions. A vector
that was replaced still has the objects that the new one owns, under the bit: that is why
owning needs the bit, and why a reader of the old vector is safe when the owner in the new
one finalizes: it was in its section before. `NothingUsedAfterDestroy` (`NoUseAfterDestroy`)
follows.

*Only model-checked*, and why:

* liveness (`SyncEnds`, `Progress`, `CallsComplete`, `ProgramsEnd`): TLAPS has no support for
  the fairness and ENABLED it needs;
* `AnswersAreCurrent` and `ImplementsQueue` of `Queue`: they do not hold for all values of the
  constants. The proof of the first failed at a push that finds a popped cell with XBIT,
  and TLC then found the behaviour with other constants than the run's (the second path in 6);
* `TypeOK` of `Queue`: its history `seen` is filtered with `SelectSeq`, whose result the
  provers know nothing of. The types of all other variables are part of `IInv`;
* the answers, the walks and the refinements of `Queue` and `HashTable`, which relate histories
  to contents that are defined with CHOOSE and with sequences;
* all of `SkipList`: its invariants are about what can be reached along the links of each
  level, which marked nodes go on leading to. The chains of `Stack` are histories, so that no
  induction along links is needed; here it would be, and it is out of reach.

## 5. What is not modelled

* Finalizers that call back into the library: see the plan.
* Of the hash table: `swap`, `size`, comparison, the constructors from ranges, and the
  build without a double-width compare-and-swap, which fills a slot with two. A probe
  step is a residue, not the four steps that `secondary_hash` chooses from, and the
  sizes of vectors are small ones, not the table of primes.
* Of the skip list: `swap` and its lock, `size`, `lower_bound` and `upper_bound`,
  comparison, the constructors from ranges, and a load of `hi_water` that sees another
  list than that of `head`. `rand_lvl` is a choice. More than two levels.
* `swap`, `size` and comparison of queues; the moves and destructors of all
  containers, which only the owner may call; exceptions while a private chain or
  array is filled.
* Spurious failures of weak compare-and-swaps: they repeat a step that is already
  there. Weaker memory than x86's, and reordering by the compiler. The containers
  are modelled with sequentially consistent memory.
* Wrap-around of the nesting counter; user code inside finalizers; allocation
  failures other than those of `_Rearm`, `_Upsert` and `_Rehash`.

## 6. Where code and documentation disagree

Each of the first four is a run that TLC ends with a counterexample; `findings` in
`PROJECT.json` quotes the documentation.

* `xrcu_tso`. `enter_cs` publishes its counter with a release store and no fence, so
  on x86 a section can read before `sync` can see it.
* `queue_drained`. A push that finds the array full, and drained, copies the sentinel
  after the last cell as if it were an element.
* `hash_torn_copy`. `_Rehash` reads the key of a slot before it sets the bit in its
  value (hash_table.hpp:498-499). An insert fills the slot in between and answers true;
  the pair is not copied.
* `skip_wrong_victim`. `_Find_preds` leaves `got` set from an upper level when the node is
  erased under it and the next key is greater (skip_list.hpp:402-406): `find` answers
  with that key, and `erase` erases it.

The models show these as well, and no run lists them: the passing runs leave the case
out by the values of their constants, or a property says that it does not speak of it.

* With `ForkInCs` TRUE, `SyncEnds` fails: `atfork_prepare` waits for `gp_mtx`, whose
  owner waits for the forking thread's section.
* In a forked child, what other threads had pending is never destroyed.
* `begin` of the stack reads the top before the iterator's section is open
  (stack.hpp:419): with `BareBegin` TRUE, one thread in `Poppers`, another in `Readers` and
  `Initial <- TwoItems`, `NoUseAfterDestroy` fails. docs/xrcu.pod:482 says "iterating a
  stack will always be safe".
* Between the two stores of `swap` (stack.cpp:126-127) two heads lead to the same nodes:
  with `OneEach`, one thread in `Swappers`, one in `Poppers` and one in `Readers`, a node is
  popped and finalized through the first head and found by `top` through the second,
  and `NoUseAfterDestroy` fails.
* `push (n, value)` of the stack adds `n + 1` nodes (stack.hpp:301; docs/xrcu.pod:339
  says n). `PushCopies` models it.
* `size` of the stack follows a pointer that may carry the spin bit (stack.cpp:139):
  with `Sizers` and `Swappers` in one instance a thread reaches the label `wild`. And it
  counts short when a node is popped under it.
* Two threads that swap two stacks in opposite orders wait for each other: with both
  pairs in `SwapPairs`, `CallsComplete` fails.
* `_Rearm` of the queue sets XBIT in the cell at `rd_idx` even if its value was just
  popped, tries again, and, if the popper has not moved `rd_idx` yet, finds its own
  bit and waits for somebody to remove it (queue.hpp:318-343). One producer and one
  consumer suffice: in `Queue`, the producer stays at `wait` with everybody else idle.
* There is a second path to what `queue_drained` shows, without a drained array.
  `_Call_cb` may leave XBIT in a cell whose value was popped (queue.cpp:34-35). A push
  with an old `wr_idx` finds that cell neither free nor at the end of the array, and goes on
  to `_Rearm`; the array it replaces has free cells, which it copies as elements. With three
  threads, `Cap = 3`, `Initial = {1}`, `MaxValues = 3`, `MaxPops = 2`, `Ranges = {1}`, two
  `Pushers` of which one is the only one in `Replacers`, one other in `Poppers` and `Readers`,
  `AllocFails` FALSE and `ClearAlone` TRUE, `AnswersAreCurrent` fails.
* A pop that meets XBIT waits for a new array (queue.hpp:411). After `clear`, which
  keeps the array, or after a replacement whose allocation failed, there may be none.
* With `ClearAlone` FALSE, `ImplementsQueue` and `AnswersAreCurrent` fail: a push that
  has filled its cell moves `wr_idx` after `clear` has reset it, and a pop that read
  `rd_idx` before takes a cell that is FREE for a value.
* `front` may answer with a value whose push is not over, and a later pop find the
  queue empty. `AnswersAreCurrent` allows it (`Filled`).
* A queue made from a range whose length is 8, 16 and so on is empty: the array that
  replaces the full one starts with `wr_idx` 0 (queue.hpp:271-279). `FromRange` models
  it; `Ranges` in the run has no such length.
* `size` of the queue subtracts a later `rd_idx` from an earlier `wr_idx` and may
  underflow.
* `_Lock` of the queue, unlike `_Rearm`, takes the bit set in a cell that holds DELT for
  its lock, and `swap` opens no section (queue.hpp:626).
* Without `clear` in `Alone` (`ClearAndFind`, `ClearAndInsert`), `AnswersAreCurrent` of
  `HashTable` fails: `find` takes the FREE that `clear` stores for a value. So does
  `NoUseAfterDestroy`: `clear` and an erase (hash_table.hpp:688, "Safe to set the key without
  atomic ops") both finalize the key. And TLC finds a deadlock: `clear` holds the lock,
  the limit is 0, an insert in its section waits in `_Rehash` for the lock, and the
  `finalize` of `clear` (hash_table.hpp:829-831), once 1000 objects are pending, waits for
  that section. `sync` promises (docs/xrcu.pod:143, xrcu.hpp:35) to detect deadlocks; this
  one it does not.
* Without `assign` in `Alone`, `NoUseAfterDestroy` fails: `_Assign_vector` finalizes the
  pairs while the vector is still the one in use (hash_table.hpp:795-809).
* `clear` computes the limit from the number of elements instead of the number of slots
  (hash_table.hpp:834): a table that was empty is rehashed by its next insert.
* `swap` and move construction set the limit from the number of slots or of elements,
  not from that of the slots in use (hash_table.hpp:888, 395): `RoomLeft` is what they
  break, and a table without free slots leads an insert to the label `wild`.
* `nelems` may be short of the elements while a call is about to count, and below zero:
  `NelemsExact` says by how much. It is unsigned.
* `max_size` of the hash table reads past the end of `PRIMES` (hash_table.cpp:49-62).
* An insert that meets the erase of its own key answers false after it took effect, and
  leaves the length one too small for good (skip_list.hpp:498-510): the erase has counted
  the key out, which nobody counts in. docs/xrcu.pod:788 says that insert "Returns true if
  the key wasn't present", and docs/xrcu.pod:816 that size "Returns the current size". With
  `Roles <- Met`, one insert and one erase of a key in an empty list, TLC finds that the
  equality in `LengthExact`, asserted without `role.apart`, fails when the insert returns.
  Once the erase returns too the list is empty and its length is -1, of which `size` makes
  the value of `max_size` (skip_list.hpp:607, 612), and `empty` answers false. tests/sl.hpp:118 checks the length after inserts alone.
  `ImplementsMap` does not see it, since `AbstractMap` does not say what an insert answers.
* An insert of two levels goes on linking the second level of a node that was erased at
  the first meanwhile: what comes after may meet it when it is destroyed.
* The assignments replace `head` and leave `hi_water` (skip_list.hpp:657, 675): erase then
  does not unlink the upper levels of a node that is higher. With `Roles <- Assigned`,
  `NoUseAfterDestroy` fails in a single thread: assign, erase, insert, insert.
  `assign` also destroys the old list at once, under its readers.
* `clear` of the skip list while an erase is under way may follow a null pointer that
  carries a mark (skip_list.hpp:623-632; `Fini` then stays where it is).
* An iterator of the skip list that stands on an erased node goes over the one that
  follows, and follows a null pointer if there is none (skip_list.hpp:298-300); `over`
  and the label `walkover` model it. `cbegin` reads the first node before the section of
  the iterator is open (skip_list.hpp:575), as `begin` of the stack does.
* `rand_lvl` knows nothing of `max_depth` (skip_list.hpp:93): in a list made with a small
  depth a node may be linked at levels its root does not have.
* docs/xrcu.pod:251 says that `finalize` prepends; it appends.

## 7. Plan

In this order; the most important behaviour, that of grace periods, came first.

1. Done: `Xrcu` with its proofs, `Lwlock` with its proofs, `Stack`, `Queue`, `HashTable` and
   `SkipList`, the last two as implementations of one `AbstractMap`.
2. Done: the proofs of `Xrcu`, `Lwlock`, `Stack`, `Queue` and `HashTable` that section 4
   describes. Left: the first half of `Sorted` of `SkipList`, from the order of `preds`, key
   and `succs`.
3. Re-entrant finalizers in `Xrcu`: a destructor that finalizes, flushes or opens a
   section, and the destruction order of thread-local objects.
4. `swap` of hash tables and of skip lists, each over two instances of its module's
   state, and the lock of the hash table composed with `Lwlock`.
5. `swap` and `size` of queues; a passing run with swapped queues.
