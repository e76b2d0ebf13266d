------------------------------ MODULE StackInv ------------------------------
(* The invariant of Stack that its proofs are about.  Besides the state it *)
(* speaks of four functions that say where each node is (kind and where),  *)
(* which chain hangs from each node on its way out (gone), and which nodes *)
(* each section can still come to (safe).                                  *)
EXTENDS Stack

(* A sequence of nodes that the links f string together.                   *)
Strung(q, f) ==
  /\ IsInjective(q)
  /\ \A i \in 1..Len(q) : f[q[i]] = IF i < Len(q) THEN q[i + 1] ELSE Null

(* The same, but for the last link: a chain that is being pushed.          *)
Open(q, f) ==
  /\ IsInjective(q)
  /\ \A i \in 1..Len(q) : i < Len(q) => f[q[i]] = q[i + 1]

(* How the labels, the calls and the local variables of a thread agree.    *)
Agree(w) ==
  /\ w.op = "none" <=> w.pc = "idle"
  /\ w.pc # "idle" => w.at \in Stack
  /\ w.op = "push" <=> w.pc \in {"push", "publish"}
  /\ w.op = "push" => w.chain # <<>>
  /\ w.chain # <<>> => w.op \in {"push", "assign"} /\ w.pc # "retire"
  /\ w.pc \in {"pop", "next", "take", "cut"} => w.op = "pop"
  /\ w.pc = "value" => w.op \in {"pop", "top"}
  /\ w.pc = "top" => w.op = "top"
  /\ w.pc = "bare" => w.op = "walk"
  /\ w.pc = "walk" => w.op \in {"walk", "size"}
  /\ w.pc \in {"size", "wild"} => w.op = "size"
  /\ w.pc = "size" => w.cnt = 0
  /\ w.pc \in {"spin1", "mark1"} => w.op \in {"swap", "clear", "assign"}
  /\ w.pc \in {"spin2", "mark2", "store1", "store2"} => w.op = "swap"
  /\ w.pc \in {"store", "retire"} => w.op \in {"clear", "assign"}
  /\ w.pc \in {"next", "take", "cut", "value"} => w.cur # Null
  /\ w.op = "swap" => <<w.at, w.other>> \in SwapPairs
  /\ w.op \in {"top", "walk"} => Readers # {}

ControlOK == \A t \in Thread : Agree(th[t])

(* The thread that has set the spin bit of a stack.                        *)
Holds(t, s) ==
  \/ th[t].pc \in {"store", "spin2", "mark2", "store1"} /\ th[t].at = s
  \/ th[t].pc \in {"store1", "store2"} /\ th[t].other = s

HeadsOK ==
  /\ \A t \in Thread, s \in Stack : Holds(t, s) => head[s].spin
  /\ \A t, u \in Thread, s \in Stack : Holds(t, s) /\ Holds(u, s) => t = u
  /\ \A s \in Stack :
       (\A t \in Thread : ~(At(t, "store2") /\ th[t].other = s)) =>
         head[s].node = First(items[s])
  /\ \A t \in Thread :
       LET w == th[t] IN
       /\ w.pc = "store2" => w.cur = First(items[w.other])
       /\ w.pc \in {"store", "spin2", "mark2", "store1"} =>
            w.cur = First(items[w.at])
       /\ w.pc = "store1" => w.nx = First(items[w.other])

Kind == {"free", "chain", "stack", "hand", "out"}

(* A node that a thread has popped, and not finalized yet.                 *)
Popped(t, n) ==
  /\ th[t].cur = n
  /\ At(t, "cut") \/ (At(t, "value") /\ th[t].op = "pop")

(* Each node that was allocated is in one place.                           *)
Placed(n, k, w, gone) ==
  /\ k = "free" <=> life[n] = "free"
  /\ k = "stack" => w \in Stack
  /\ k \in {"chain", "hand"} => w \in Thread
  /\ k = "out" => w \in Node
  /\ \A s \in Stack : n \in Range(items[s]) <=> k = "stack" /\ w = s
  /\ \A t \in Thread :
       /\ n \in Range(th[t].chain) <=> k = "chain" /\ w = t
       /\ Popped(t, n) <=> k = "hand" /\ w = t
  /\ \A r \in Node : n \in Range(gone[r]) <=> k = "out" /\ w = r

PlacesOK(kind, where, gone) ==
  \A n \in Node : Placed(n, kind[n], where[n], gone)

(* A node that was popped and cut off leads nowhere.                       *)
Cut(w, f) == w.pc = "value" /\ w.op = "pop" => f[w.cur] = Null

LinksOK(gone) ==
  /\ \A s \in Stack : Strung(items[s], next)
  /\ \A r \in Node : Strung(gone[r], next)
  /\ \A t \in Thread :
       /\ Open(th[t].chain, next)
       /\ th[t].op = "assign" => Strung(th[t].chain, next)
       /\ Cut(th[t], next)

(* What is on its way out: first by the thread that finalizes it, and then *)
(* by its first node, which was finalized.                                 *)
GoneOK(gone) ==
  /\ \A r \in Node :
       /\ gone[r] # <<>> =>
            /\ gone[r][1] = r
            /\ \/ life[r] = "retired"
               \/ \E t \in Thread : At(t, "retire") /\ th[t].cur = r
       /\ life[r] = "retired" => gone[r] # <<>>
  /\ \A t \in Thread :
       At(t, "retire") /\ th[t].cur # Null =>
         gone[th[t].cur] # <<>> /\ life[th[t].cur] = "live"
  /\ \A t, u \in Thread :
       At(t, "retire") /\ At(u, "retire") /\ th[t].cur = th[u].cur
         /\ th[t].cur # Null => t = u

(* The nodes a section can come to hold up what they hang from, and lead   *)
(* to no others.                                                           *)
SafeOK(safe, kind, where) ==
  \A t \in Thread : InCs(t) =>
    /\ \A n \in Node : kind[n] = "stack" => n \in safe[t]
    /\ \A n \in safe[t] :
         /\ kind[n] \in {"stack", "hand", "out"}
         /\ kind[n] = "out" /\ life[where[n]] = "retired" =>
              t \in waits[where[n]]
         /\ next[n] \in safe[t] \cup {Null}

(* A pop stands on such a node, and the next pointer it has read is that   *)
(* of the node as long as the node is in a stack.                          *)
Pops(w, S, f, kind) ==
  /\ w.pc \in {"next", "take", "cut"} => w.cur \in S
  /\ w.pc = "take" /\ kind[w.cur] = "stack" => w.nx = f[w.cur]

PopsOK(safe, kind) == \A t \in Thread : Pops(th[t], safe[t], next, kind)

(* What clients have to see to before readers are safe: that iterators are *)
(* made inside a section, and that stacks with readers are not swapped.    *)
Careful == Readers # {} => ~BareBegin /\ SwapPairs = {}

(* A call that reads stands on such a node too, and walks along those that *)
(* were in the stack when it began.                                        *)
Reads(w, S, f) ==
  /\ w.pc \in {"value", "bare", "walk"} => w.cur \in S \cup {Null}
  /\ w.pc \in {"bare", "walk"} =>
       /\ \A i \in 1..Len(w.path) :
            /\ w.path[i] \in S
            /\ f[w.path[i]] # Null => i < Len(w.path) /\ f[w.path[i]] = w.path[i + 1]
       /\ w.cur # Null => w.cnt < Len(w.path) /\ w.cur = w.path[w.cnt + 1]
       /\ w.pc = "bare" => w.cnt = 0

ReadsOK(safe) == Careful => \A t \in Thread : Reads(th[t], safe[t], next)

NodesOK(kind, where, gone, safe) ==
  /\ PlacesOK(kind, where, gone) /\ LinksOK(gone) /\ GoneOK(gone)
  /\ SafeOK(safe, kind, where) /\ PopsOK(safe, kind) /\ ReadsOK(safe)

StackOK ==
  /\ TypeOK /\ ControlOK /\ HeadsOK
  /\ \E kind \in [Node -> Kind], where \in [Node -> Thread \cup Stack \cup Node],
        gone \in [Node -> Seq(Node)], safe \in [Thread -> SUBSET Node] :
       NodesOK(kind, where, gone, safe)
=============================================================================
