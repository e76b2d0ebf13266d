------------------------------- MODULE Stack --------------------------------
(* The lock-free stack of src/stack.cpp and xrcu/stack.hpp: a pointer to   *)
(* the top node whose low bit makes everybody else spin while a thread     *)
(* exchanges whole stacks, and nodes that are finalizable objects.         *)
(*                                                                         *)
(* One step is one access to a head, or to the next pointer of a node that *)
(* others can reach.  RCU is what GracePeriod says it is: a node that was  *)
(* finalized is destroyed once every section that was open then has been   *)
(* left.  A value is the node that carries it.                             *)
EXTENDS Integers, Sequences, FiniteSets, Functions

CONSTANTS
  Thread, Stack, Node,
  Null,       \* the null pointer
  Initial,    \* what the constructors filled the stacks with
  MaxChain,   \* bound on the nodes that one call adds
  Copies,     \* the numbers n that push (n, value) is called with
  SwapPairs,  \* the pairs a, b that a.swap (b) is called with
  Pushers, Poppers, Replacers, Swappers, Readers, Sizers,  \* who calls what
  BareBegin   \* are iterators made outside any section of the client?

ASSUME StackAssumption ==
  /\ Null \notin Node \cup Stack
  /\ Initial \in [Stack -> Seq(Node)]
  /\ \A s \in Stack : IsInjective(Initial[s])
  /\ \A s, r \in Stack : s # r => Range(Initial[s]) \cap Range(Initial[r]) = {}
  /\ MaxChain \in Nat /\ \A n \in Copies : n \in 1..MaxChain - 1
  /\ \A p \in SwapPairs : p \in Stack \X Stack /\ p[1] # p[2]
  /\ BareBegin \in BOOLEAN

VARIABLES
  head,   \* stack::hnode: a node and the spin bit
  next,   \* stack_node_base::next
  life,   \* where each node is between its allocation and its destruction
  waits,  \* the sections that hold up the destruction of a retired node
  th,     \* the local variables of each thread
  items   \* history: what each stack holds, as its operations take effect

vars == <<head, next, life, waits, th, items>>

Ptr == Node \cup {Null}
Unlocked(n) == [node |-> n, spin |-> FALSE]
First(q) == IF q = <<>> THEN Null ELSE q[1]
Last(q) == q[Len(q)]

Label == {"idle", "push", "publish", "pop", "next", "take", "cut", "value",
          "top", "size", "wild", "bare", "walk", "spin1", "mark1", "spin2",
          "mark2", "store", "store1", "store2", "retire"}
Op == {"none", "push", "pop", "top", "size", "walk", "swap", "clear", "assign"}

(* op is the call, at and other its stacks; cur and nx are pointers it has *)
(* read, chain the nodes it adds, cnt how far it has walked, and path,     *)
(* history, what the stack held when the walk began.                       *)
Rest == [pc |-> "idle", op |-> "none", at |-> Null, other |-> Null,
         cur |-> Null, nx |-> Null, chain |-> <<>>, cnt |-> 0, path |-> <<>>]

Local ==
  [pc : Label, op : Op, at : Stack \cup {Null}, other : Stack \cup {Null},
   cur : Ptr, nx : Ptr, chain : Seq(Node), cnt : Nat, path : Seq(Node)]

TypeOK ==
  /\ head \in [Stack -> [node : Ptr, spin : BOOLEAN]]
  /\ next \in [Node -> Ptr]
  /\ life \in [Node -> {"free", "live", "retired"}]
  /\ waits \in [Node -> SUBSET Thread]
  /\ th \in [Thread -> Local]
  /\ items \in [Stack -> Seq(Node)]

Succ(q, n) ==
  LET i == CHOOSE j \in DOMAIN q : q[j] = n
  IN  IF i < Len(q) THEN q[i + 1] ELSE Null

Init ==
  LET In(n) == {s \in Stack : n \in Range(Initial[s])}
  IN  /\ items = Initial
      /\ head = [s \in Stack |-> Unlocked(First(Initial[s]))]
      /\ next = [n \in Node |->
                   IF In(n) = {} THEN Null
                   ELSE Succ(Initial[CHOOSE s \in In(n) : TRUE], n)]
      /\ life = [n \in Node |-> IF In(n) = {} THEN "free" ELSE "live"]
      /\ waits = [n \in Node |-> {}]
      /\ th = [t \in Thread |-> Rest]

-----------------------------------------------------------------------------
(* Helpers.                                                                *)

At(t, l) == th[t].pc = l
Goto(t, l) == th' = [th EXCEPT ![t].pc = l]
Call(t, op, s, l) ==
  /\ At(t, "idle")
  /\ th' = [th EXCEPT ![t] = [Rest EXCEPT !.op = op, !.at = s, !.pc = l]]

(* clear opens no section, assign none while it finalizes, and an iterator *)
(* opens its own after its argument, the root, has been loaded: until then *)
(* there is only the section of the client, if any.                        *)
InCs(t) ==
  /\ th[t].pc \notin {"idle", "retire"} /\ th[t].op # "clear"
  /\ At(t, "bare") => ~BareBegin

(* The end of a call, and of the section it had opened.                    *)
Left(t) == [n \in Node |-> waits[n] \ {t}]
Done(t) == th' = [th EXCEPT ![t] = Rest] /\ waits' = Left(t)

(* finalize (n), with the sections that are open and stay open.            *)
Retire(t, n) ==
  /\ life' = [life EXCEPT ![n] = "retired"]
  /\ waits' = [Left(t) EXCEPT ![n] = {u \in Thread \ {t} : InCs(u)}]
  /\ th' = [th EXCEPT ![t] = Rest]

(* Chains of k nodes not in use, as the constructors and alloc build them. *)
Fresh(k) ==
  {q \in [1..k -> {n \in Node : life[n] = "free"}] : IsInjective(q)}

Allocate(t, op, s, l, q) ==
  /\ At(t, "idle")
  /\ next' = [n \in Node |-> IF n \in Range(q) THEN Succ(q, n) ELSE next[n]]
  /\ life' = [n \in Node |-> IF n \in Range(q) THEN "live" ELSE life[n]]
  /\ th' = [th EXCEPT ![t] =
              [Rest EXCEPT !.op = op, !.at = s, !.pc = l, !.chain = q]]
  /\ UNCHANGED <<head, waits, items>>

-----------------------------------------------------------------------------
(* push.                                                                   *)

(* push (value), emplace and push (first, last).                           *)
PushRange(t, s) ==
  /\ t \in Pushers
  /\ \E k \in 1..MaxChain : \E q \in Fresh(k) : Allocate(t, "push", s, "push", q)

(* push (n, value): the first node is allocated before a loop of n.        *)
PushCopies(t, s, n) ==
  /\ t \in Pushers
  /\ \E q \in Fresh(n + 1) : Allocate(t, "push", s, "push", q)

(* Mutant: the first node of the chain is made to point at the old head.   *)
PushLoadFirst(t) ==
  LET s == th[t].at IN
  /\ At(t, "push") /\ ~head[s].spin
  /\ next' = [next EXCEPT ![First(th[t].chain)] = head[s].node]
  /\ Goto(t, "publish")
  /\ UNCHANGED <<head, life, waits, items>>

(* The last node is made to point at the head...                           *)
PushLoad(t) ==
  LET s == th[t].at IN
  /\ At(t, "push") /\ ~head[s].spin
  /\ next' = [next EXCEPT ![Last(th[t].chain)] = head[s].node]
  /\ Goto(t, "publish")
  /\ UNCHANGED <<head, life, waits, items>>

(* Mutant: the head is loaded once, and not again when the swap fails.     *)
PushCasStale(t) ==
  LET s == th[t].at
      q == th[t].chain
  IN  /\ At(t, "publish")
      /\ IF head[s] = Unlocked(next[Last(q)])
           THEN /\ head' = [head EXCEPT ![s] = Unlocked(q[1])]
                /\ items' = [items EXCEPT ![s] = q \o @]
                /\ Done(t)
           ELSE UNCHANGED <<head, waits, th, items>>
      /\ UNCHANGED <<next, life>>

(* ... and the first one becomes the head, if it still is what it was.     *)
PushCas(t) ==
  LET s == th[t].at
      q == th[t].chain
  IN  /\ At(t, "publish")
      /\ IF head[s] = Unlocked(next[Last(q)])
           THEN /\ head' = [head EXCEPT ![s] = Unlocked(q[1])]
                /\ items' = [items EXCEPT ![s] = q \o @]
                /\ Done(t)
           ELSE Goto(t, "push") /\ UNCHANGED <<head, waits, items>>
      /\ UNCHANGED <<next, life>>

-----------------------------------------------------------------------------
(* pop and top.                                                            *)

Pop(t, s) ==
  /\ t \in Poppers
  /\ Call(t, "pop", s, "pop")
  /\ UNCHANGED <<head, next, life, waits, items>>

PopLoad(t) ==
  LET s == th[t].at IN
  /\ At(t, "pop") /\ ~head[s].spin
  /\ IF head[s].node = Null
       THEN Done(t)
       ELSE /\ th' = [th EXCEPT ![t].pc = "next", ![t].cur = head[s].node]
            /\ UNCHANGED waits
  /\ UNCHANGED <<head, next, life, items>>

PopNext(t) ==
  /\ At(t, "next")
  /\ th' = [th EXCEPT ![t].pc = "take", ![t].nx = next[th[t].cur]]
  /\ UNCHANGED <<head, next, life, waits, items>>

PopCas(t) ==
  LET s == th[t].at IN
  /\ At(t, "take")
  /\ IF head[s] = Unlocked(th[t].cur)
       THEN /\ head' = [head EXCEPT ![s] = Unlocked(th[t].nx)]
            /\ items' = [items EXCEPT ![s] = Tail(@)]
            /\ Goto(t, "cut")
       ELSE Goto(t, "pop") /\ UNCHANGED <<head, items>>
  /\ UNCHANGED <<next, life, waits>>

(* Mutant: the popped node keeps its next pointer.                         *)
PopKeep(t) ==
  /\ At(t, "cut")
  /\ Goto(t, "value")
  /\ UNCHANGED <<head, next, life, waits, items>>

(* The popped node forgets the others: its destruction is that of a chain. *)
PopCut(t) ==
  /\ At(t, "cut")
  /\ next' = [next EXCEPT ![th[t].cur] = Null]
  /\ Goto(t, "value")
  /\ UNCHANGED <<head, life, waits, items>>

(* Its value is copied; then it is finalized, and the section ends.        *)
PopFinish(t) ==
  /\ At(t, "value") /\ th[t].op = "pop"
  /\ Retire(t, th[t].cur)
  /\ UNCHANGED <<head, next, items>>

Top(t, s) ==
  /\ t \in Readers
  /\ Call(t, "top", s, "top")
  /\ UNCHANGED <<head, next, life, waits, items>>

(* top and the iterators read the root, that is the head without its bit.  *)
TopLoad(t) ==
  LET n == head[th[t].at].node IN
  /\ At(t, "top")
  /\ IF n = Null
       THEN Done(t)
       ELSE /\ th' = [th EXCEPT ![t].pc = "value", ![t].cur = n]
            /\ UNCHANGED waits
  /\ UNCHANGED <<head, next, life, items>>

TopFinish(t) ==
  /\ At(t, "value") /\ th[t].op = "top"
  /\ Done(t)
  /\ UNCHANGED <<head, next, life, items>>

-----------------------------------------------------------------------------
(* Walks: iterators, and size.                                             *)

(* begin: the root is loaded...                                            *)
Begin(t, s) ==
  /\ t \in Readers /\ At(t, "idle")
  /\ th' = [th EXCEPT ![t] =
              [Rest EXCEPT !.op = "walk", !.at = s, !.cur = head[s].node,
                           !.path = items[s], !.pc = "bare"]]
  /\ UNCHANGED <<head, next, life, waits, items>>

(* ... and then the iterator, which is a cs_guard, is made.                *)
Guard(t) ==
  /\ At(t, "bare")
  /\ Goto(t, "walk")
  /\ UNCHANGED <<head, next, life, waits, items>>

Size(t, s) ==
  /\ t \in Sizers
  /\ Call(t, "size", s, "size")
  /\ UNCHANGED <<head, next, life, waits, items>>

(* size reads the head, bit included, and follows it.  With the bit set it *)
(* reads from inside the node: the program may stop there...               *)
SizeLoad(t) ==
  LET s == th[t].at IN
  /\ At(t, "size")
  /\ IF head[s].spin
       THEN Goto(t, "wild")
       ELSE th' = [th EXCEPT ![t].pc = "walk", ![t].cur = head[s].node,
                             ![t].path = items[s]]
  /\ UNCHANGED <<head, next, life, waits, items>>

(* ... or come back with any number.                                       *)
SizeWild(t) ==
  /\ At(t, "wild")
  /\ Done(t)
  /\ UNCHANGED <<head, next, life, items>>

Walk(t) ==
  /\ At(t, "walk") /\ th[t].cur # Null
  /\ th' = [th EXCEPT ![t].cur = next[@], ![t].cnt = @ + 1]
  /\ UNCHANGED <<head, next, life, waits, items>>

WalkEnd(t) ==
  /\ At(t, "walk") /\ th[t].cur = Null
  /\ Done(t)
  /\ UNCHANGED <<head, next, life, items>>

-----------------------------------------------------------------------------
(* clear, assign and swap, which all set the spin bit.                     *)

Clear(t, s) ==
  /\ t \in Replacers
  /\ Call(t, "clear", s, "spin1")
  /\ UNCHANGED <<head, next, life, waits, items>>

(* assign swaps with a temporary stack that nobody else can see.           *)
Assign(t, s) ==
  /\ t \in Replacers
  /\ \E k \in 0..MaxChain : \E q \in Fresh(k) : Allocate(t, "assign", s, "spin1", q)

Swap(t, a, b) ==
  /\ t \in Swappers /\ <<a, b>> \in SwapPairs
  /\ At(t, "idle")
  /\ th' = [th EXCEPT ![t] =
              [Rest EXCEPT !.op = "swap", !.at = a, !.other = b, !.pc = "spin1"]]
  /\ UNCHANGED <<head, next, life, waits, items>>

(* Mutant: set_spin returns the pointer with the bit in it.                *)
SpinLoadMarked(t) ==
  /\ \/ /\ At(t, "spin1") /\ ~head[th[t].at].spin
        /\ th' = [th EXCEPT ![t].pc = "mark1", ![t].cur = head[th[t].at]]
     \/ /\ At(t, "spin2") /\ ~head[th[t].other].spin
        /\ th' = [th EXCEPT ![t].pc = "mark2", ![t].nx = head[th[t].other]]
  /\ UNCHANGED <<head, next, life, waits, items>>

(* set_spin: the first head is read into cur, the second one into nx.      *)
SpinLoad(t) ==
  /\ \/ /\ At(t, "spin1") /\ ~head[th[t].at].spin
        /\ th' = [th EXCEPT ![t].pc = "mark1", ![t].cur = head[th[t].at].node]
     \/ /\ At(t, "spin2") /\ ~head[th[t].other].spin
        /\ th' = [th EXCEPT ![t].pc = "mark2", ![t].nx = head[th[t].other].node]
  /\ UNCHANGED <<head, next, life, waits, items>>

Mark(t, s, n, retry, then) ==
  IF head[s] = Unlocked(n)
    THEN head' = [head EXCEPT ![s].spin = TRUE] /\ Goto(t, then)
    ELSE Goto(t, retry) /\ UNCHANGED head

SpinCas(t) ==
  /\ \/ /\ At(t, "mark1")
        /\ Mark(t, th[t].at, th[t].cur, "spin1",
                IF th[t].op = "swap" THEN "spin2" ELSE "store")
     \/ /\ At(t, "mark2")
        /\ Mark(t, th[t].other, th[t].nx, "spin2", "store1")
  /\ UNCHANGED <<next, life, waits, items>>

(* Mutant: the old chain is stored back where it was.                      *)
SwapBack(t) ==
  LET s == th[t].at
      r == th[t].other
  IN  /\ At(t, "store1")
      /\ head' = [head EXCEPT ![s] = Unlocked(th[t].cur)]
      /\ items' = [items EXCEPT ![s] = items[r], ![r] = items[s]]
      /\ Goto(t, "store2")
      /\ UNCHANGED <<next, life, waits>>

(* swap takes effect for those who modify at the first of its two stores.  *)
SwapFirst(t) ==
  LET s == th[t].at
      r == th[t].other
  IN  /\ At(t, "store1")
      /\ head' = [head EXCEPT ![s] = Unlocked(th[t].nx)]
      /\ items' = [items EXCEPT ![s] = items[r], ![r] = items[s]]
      /\ Goto(t, "store2")
      /\ UNCHANGED <<next, life, waits>>

SwapSecond(t) ==
  /\ At(t, "store2")
  /\ head' = [head EXCEPT ![th[t].other] = Unlocked(th[t].cur)]
  /\ Done(t)
  /\ UNCHANGED <<next, life, items>>

(* The new chain of clear, which is empty, or of assign, goes in.          *)
ReplaceStore(t) ==
  LET s == th[t].at
      q == th[t].chain
  IN  /\ At(t, "store")
      /\ head' = [head EXCEPT ![s] = Unlocked(First(q))]
      /\ items' = [items EXCEPT ![s] = q]
      /\ th' = [th EXCEPT ![t].pc = "retire", ![t].chain = <<>>]
      /\ waits' = Left(t)
      /\ UNCHANGED <<next, life>>

(* The old chain is finalized through its first node.                      *)
ReplaceFinish(t) ==
  /\ At(t, "retire")
  /\ IF th[t].cur = Null
       THEN Done(t) /\ UNCHANGED life
       ELSE Retire(t, th[t].cur)
  /\ UNCHANGED <<head, next, items>>

(* safe_destroy, one node at a time: the rest of the chain follows.  What  *)
(* is left in the memory of a node that was freed is nobody's business.    *)
SafeDestroy(n) ==
  /\ life[n] = "retired" /\ waits[n] = {}
  /\ life' = [m \in Node |-> IF m = n THEN "free"
                             ELSE IF m = next[n] THEN "retired" ELSE life[m]]
  /\ next' = [next EXCEPT ![n] = Null]
  /\ UNCHANGED <<head, waits, th, items>>

-----------------------------------------------------------------------------

ThreadStep(t) ==
  \/ PushLoad(t) \/ PushCas(t)
  \/ PopLoad(t) \/ PopNext(t) \/ PopCas(t) \/ PopCut(t) \/ PopFinish(t)
  \/ TopLoad(t) \/ TopFinish(t)
  \/ Guard(t) \/ SizeLoad(t) \/ Walk(t) \/ WalkEnd(t)
  \/ SpinLoad(t) \/ SpinCas(t) \/ SwapFirst(t) \/ SwapSecond(t)
  \/ ReplaceStore(t) \/ ReplaceFinish(t)

ThreadCall(t) ==
  \/ SizeWild(t)
  \/ \E s \in Stack :
       \/ PushRange(t, s) \/ \E n \in Copies : PushCopies(t, s, n)
       \/ Pop(t, s) \/ Top(t, s) \/ Begin(t, s) \/ Size(t, s)
       \/ Clear(t, s) \/ Assign(t, s)
  \/ \E a, b \in Stack : Swap(t, a, b)

Next ==
  \/ \E t \in Thread : ThreadCall(t) \/ ThreadStep(t)
  \/ \E n \in Node : SafeDestroy(n)

Spec == Init /\ [][Next]_vars

(* Threads inside a call run.  Nothing makes a client call, and nothing    *)
(* makes a compare-and-swap succeed.                                       *)
FairSpec == Spec /\ \A t \in Thread : WF_vars(ThreadStep(t))

-----------------------------------------------------------------------------
(* Safety.                                                                 *)

(* Where a stack's chain hangs: between the two stores of a swap that of   *)
(* the second stack is in a local variable of the thread that swaps.       *)
Root(s) ==
  IF \E t \in Thread : At(t, "store2") /\ th[t].other = s
    THEN th[CHOOSE t \in Thread : At(t, "store2") /\ th[t].other = s].cur
    ELSE head[s].node

(* The chains in memory are what the operations have made of the stacks:   *)
(* each compare-and-swap has compared with, and installed, the right node. *)
Linked ==
  \A s \in Stack :
    /\ Root(s) = First(items[s])
    /\ \A i \in DOMAIN items[s] :
         next[items[s][i]] = IF i < Len(items[s]) THEN items[s][i + 1] ELSE Null

(* No thread follows a pointer to a node that was destroyed.               *)
NoUseAfterDestroy ==
  \A t \in Thread :
    th[t].pc \in {"next", "cut", "value", "walk"} /\ th[t].cur # Null =>
      life[th[t].cur] # "free"

(* What lies below a node: the least set that its next pointer leads into  *)
(* and that no next pointer leads out of.                                  *)
Closed(S) == \A m \in S : next[m] \in S \cup {Null}
Below(n) ==
  {m \in Node : \A S \in SUBSET Node :
     next[n] \in S \cup {Null} /\ Closed(S) => m \in S}

(* Where a node can be: in a stack, in a chain on its way in, popped and   *)
(* not yet finalized, or the first of, or below, something on its way out. *)
Places(n) ==
  (UNION {{<<s, i>> : i \in {j \in DOMAIN items[s] : items[s][j] = n}}
            : s \in Stack})
  \cup {<<t, "in">> : t \in {u \in Thread : n \in Range(th[u].chain)}}
  \cup {<<t, "out">> : t \in {u \in Thread :
          /\ th[u].cur = n
          /\ At(u, "cut") \/ At(u, "retire") \/ (At(u, "value") /\ th[u].op = "pop")}}
  \cup {<<t, "out">> : t \in {u \in Thread :
          At(u, "retire") /\ th[u].cur # Null /\ n \in Below(th[u].cur)}}
  \cup {<<m, "out">> : m \in {p \in Node :
          life[p] = "retired" /\ (p = n \/ n \in Below(p))}}

(* A node is in one place from its allocation to its destruction: it is    *)
(* never in two stacks, never leaked, and never finalized twice, which is  *)
(* why pop cuts the node it takes off the chain.                           *)
NodesAccounted ==
  \A n \in Node :
    IF life[n] = "free" THEN Places(n) = {}
    ELSE \E p \in Places(n) : Places(n) = {p}

(* A walk meets what the stack held when it began, in its order, and skips *)
(* nothing: at worst it ends early, on a node that was popped under it.    *)
WalkInOrder ==
  \A t \in Thread :
    LET w == th[t] IN
    w.pc = "walk" /\ w.cur # Null =>
      w.cnt < Len(w.path) /\ w.cur = w.path[w.cnt + 1]

(* The stacks behave as if each operation took one step.                   *)
Promise == INSTANCE AbstractStack WITH
  hand <- [t \in Thread |->
             IF At(t, "cut") \/ (At(t, "value") /\ th[t].op = "pop")
               THEN th[t].cur ELSE Null]

ImplementsStack == Promise!Spec

-----------------------------------------------------------------------------
(* Liveness.                                                               *)

(* While threads are inside calls, calls go on being completed.            *)
CallsComplete ==
  \/ <>[](\A t \in Thread : At(t, "idle"))
  \/ []<><<\E t \in Thread : ~At(t, "idle") /\ At(t, "idle")'>>_vars
=============================================================================
