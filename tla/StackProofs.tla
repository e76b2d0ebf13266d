---------------------------- MODULE StackProofs -----------------------------
(* Proofs about the stack, for any number of threads, nodes and stacks:    *)
(* its types, the order of its chains, where its nodes are, the memory     *)
(* that readers touch, the order of walks, and that it implements          *)
(* AbstractStack.                                                          *)
EXTENDS StackInv, SequenceTheorems, WellFoundedInduction, TLAPS

-----------------------------------------------------------------------------
(* Sequences of nodes, and the links that string them together.            *)

(* What sequences of nodes are to the provers.                             *)
LEMMA SeqFacts ==
  ASSUME NEW q \in Seq(Node)
  PROVE  /\ Len(q) \in Nat /\ DOMAIN q = 1..Len(q)
         /\ q = <<>> <=> Len(q) = 0
         /\ \A i \in 1..Len(q) : q[i] \in Node
         /\ Range(q) \subseteq Node
         /\ \A i \in 1..Len(q) : q[i] \in Range(q)
         /\ \A n : n \in Range(q) <=> \E i \in 1..Len(q) : q[i] = n
         /\ q = <<>> => Range(q) = {} /\ First(q) = Null
         /\ q # <<>> => First(q) = q[1] /\ q[1] \in Range(q) /\ 1 \in 1..Len(q)
         /\ q # <<>> => Last(q) = q[Len(q)] /\ Last(q) \in Range(q)
                        /\ Len(q) \in 1..Len(q)
<1>1. Len(q) \in Nat /\ DOMAIN q = 1..Len(q) /\ \A i \in 1..Len(q) : q[i] \in Node
  BY LenProperties, ElementOfSeq
<1>2. q = <<>> <=> Len(q) = 0
  BY EmptySeq, <1>1
<1>3. \A n : n \in Range(q) <=> \E i \in 1..Len(q) : q[i] = n
  BY <1>1 DEF Range
<1>4. \A i \in 1..Len(q) : q[i] \in Range(q)
  BY <1>3
<1>5. Range(q) \subseteq Node
  BY <1>1, <1>3
<1>6. q # <<>> => Len(q) \in 1..Len(q) /\ 1 \in 1..Len(q)
  BY <1>1, <1>2
<1>7. q = <<>> => Range(q) = {} /\ First(q) = Null
  <2>1. SUFFICES ASSUME q = <<>> PROVE Range(q) = {} /\ First(q) = Null
    OBVIOUS
  <2>2. 1..Len(q) = {}
    BY <1>1, <1>2, <2>1
  <2> QED
    BY <1>3, <2>1, <2>2 DEF First
<1> QED
  BY <1>1, <1>2, <1>3, <1>4, <1>5, <1>6, <1>7 DEF First, Last

(* What IsInjective says of a sequence of nodes.                           *)
LEMMA InjectiveFacts ==
  ASSUME NEW q \in Seq(Node), IsInjective(q),
         NEW i \in 1..Len(q), NEW j \in 1..Len(q), q[i] = q[j]
  PROVE  i = j
  BY SeqFacts DEF IsInjective

(* A sequence is injective if no two of its elements are the same.         *)
LEMMA InjectiveIf ==
  ASSUME NEW q \in Seq(Node),
         \A i, j \in 1..Len(q) : q[i] = q[j] => i = j
  PROVE  IsInjective(q)
  BY SeqFacts DEF IsInjective

(* Succ returns the next element.                                          *)
LEMMA SuccFacts ==
  ASSUME NEW q \in Seq(Node), IsInjective(q), NEW i \in 1..Len(q)
  PROVE  Succ(q, q[i]) = IF i < Len(q) THEN q[i + 1] ELSE Null
<1>1. DOMAIN q = 1..Len(q)
  BY SeqFacts
<1> DEFINE j == CHOOSE k \in DOMAIN q : q[k] = q[i]
<1>2. j \in DOMAIN q /\ q[j] = q[i]
  BY <1>1
<1>3. j = i
  BY <1>1, <1>2, InjectiveFacts
<1>4. Succ(q, q[i]) = IF j < Len(q) THEN q[j + 1] ELSE Null
  BY DEF Succ
<1> QED
  BY <1>3, <1>4

(* The empty sequence is strung together by any links.                     *)
LEMMA EmptyFacts ==
  /\ <<>> \in Seq(Node) /\ Len(<<>>) = 0 /\ Range(<<>>) = {}
  /\ IsInjective(<<>>) /\ \A f : Strung(<<>>, f) /\ Open(<<>>, f)
<1>1. <<>> \in Seq(Node) /\ Len(<<>>) = 0
  BY EmptySeq
<1>2. 1..Len(<<>>) = {}
  BY <1>1
<1>3. IsInjective(<<>>)
  BY <1>1, <1>2, InjectiveIf
<1> QED
  BY <1>1, <1>2, <1>3, SeqFacts DEF Strung, Open

(* The chain without its first node.                                       *)
LEMMA TailFacts ==
  ASSUME NEW q \in Seq(Node), q # <<>>, NEW f, Strung(q, f)
  PROVE  /\ Tail(q) \in Seq(Node) /\ Strung(Tail(q), f)
         /\ Range(Tail(q)) = Range(q) \ {q[1]}
         /\ First(Tail(q)) = f[q[1]]
<1> DEFINE r == Tail(q)
<1>1. /\ r \in Seq(Node) /\ Len(r) = Len(q) - 1
      /\ \A i \in 1..Len(r) : r[i] = q[i + 1]
  BY HeadTailProperties
<1>2. Len(q) \in Nat \ {0} /\ 1 \in 1..Len(q)
  BY SeqFacts
<1>3. \A i \in 1..Len(r) : i \in 1..Len(q) /\ i + 1 \in 1..Len(q)
  BY <1>1, <1>2
<1> HIDE DEF r
<1>4. IsInjective(r)
  <2>1. ASSUME NEW i \in 1..Len(r), NEW j \in 1..Len(r), r[i] = r[j] PROVE i = j
    <3>1. q[i + 1] = q[j + 1] /\ i + 1 \in 1..Len(q) /\ j + 1 \in 1..Len(q)
      BY <1>1, <1>3, <2>1
    <3>2. i + 1 = j + 1
      BY <3>1, InjectiveFacts DEF Strung
    <3> QED
      BY <3>2
  <2> QED
    BY <1>1, <2>1, InjectiveIf
<1>5. \A i \in 1..Len(r) : f[r[i]] = IF i < Len(r) THEN r[i + 1] ELSE Null
  <2>1. TAKE i \in 1..Len(r)
  <2>2. f[q[i + 1]] = IF i + 1 < Len(q) THEN q[i + 2] ELSE Null
    BY <1>3 DEF Strung
  <2>3. i < Len(r) => r[i + 1] = q[i + 2] /\ i + 1 < Len(q)
    BY <1>1, <1>2, <1>3
  <2>4. ~(i < Len(r)) => ~(i + 1 < Len(q))
    BY <1>1, <1>2
  <2> QED
    BY <1>1, <2>2, <2>3, <2>4
<1>6. ASSUME NEW n PROVE n \in Range(r) <=> n \in Range(q) \ {q[1]}
  <2>1. ASSUME n \in Range(r) PROVE n \in Range(q) \ {q[1]}
    <3>1. PICK i \in 1..Len(r) : r[i] = n
      BY <1>1, <2>1, SeqFacts
    <3>2. i + 1 \in 1..Len(q) /\ q[i + 1] = n /\ i + 1 # 1
      BY <1>1, <1>3, <3>1
    <3> QED
      BY <1>2, <3>2, SeqFacts, InjectiveFacts DEF Strung
  <2>2. ASSUME n \in Range(q) \ {q[1]} PROVE n \in Range(r)
    <3>1. PICK i \in 1..Len(q) : q[i] = n
      BY <2>2, SeqFacts
    <3>2. i # 1
      BY <2>2, <3>1
    <3>3. i - 1 \in 1..Len(r) /\ r[i - 1] = n
      <4>1. i - 1 \in 1..Len(r)
        BY <1>1, <1>2, <3>2
      <4>2. r[i - 1] = q[(i - 1) + 1]
        BY <1>1, <4>1
      <4> QED
        BY <3>1, <4>1, <4>2
    <3> QED
      BY <1>1, <3>3, SeqFacts
  <2> QED
    BY <2>1, <2>2
<1>7. First(r) = f[q[1]]
  <2>1. f[q[1]] = IF 1 < Len(q) THEN q[2] ELSE Null
    BY <1>2 DEF Strung
  <2>2. CASE ~(1 < Len(q))
    <3>1. Len(r) = 0
      BY <1>1, <1>2, <2>2
    <3>2. First(r) = Null
      BY <1>1, <3>1, SeqFacts
    <3> QED
      BY <2>1, <2>2, <3>2
  <2>3. CASE 1 < Len(q)
    <3>1. Len(r) # 0 /\ 1 \in 1..Len(r)
      BY <1>1, <1>2, <2>3
    <3>2. First(r) = r[1]
      BY <1>1, <3>1, SeqFacts
    <3>3. r[1] = q[1 + 1]
      BY <1>1, <3>1
    <3>5. f[q[1]] = q[2]
      BY <2>1, <2>3
    <3>6. r[1] = q[2]
      BY <3>3
    <3> QED
      BY <3>2, <3>5, <3>6
  <2> QED
    BY <2>2, <2>3
<1> QED
  BY <1>1, <1>4, <1>5, <1>6, <1>7 DEF Strung, r

(* A chain put on top of another one, to which its last node leads.        *)
LEMMA ConcatFacts ==
  ASSUME NEW q \in Seq(Node), NEW r \in Seq(Node), q # <<>>, NEW f,
         Open(q, f), Strung(r, f), f[Last(q)] = First(r),
         Range(q) \cap Range(r) = {}
  PROVE  /\ q \o r \in Seq(Node) /\ Strung(q \o r, f)
         /\ Range(q \o r) = Range(q) \cup Range(r)
         /\ First(q \o r) = q[1]
<1> DEFINE p == q \o r
<1>1. /\ p \in Seq(Node) /\ Len(p) = Len(q) + Len(r)
      /\ \A i \in 1..Len(q) + Len(r) :
           p[i] = IF i <= Len(q) THEN q[i] ELSE r[i - Len(q)]
  BY ConcatProperties
<1>2. Len(q) \in Nat \ {0} /\ Len(r) \in Nat
  BY SeqFacts
<1> HIDE DEF p
<1>3. \A i \in 1..Len(q) : i \in 1..Len(p) /\ p[i] = q[i]
  BY <1>1, <1>2
<1>4. \A i \in 1..Len(r) : Len(q) + i \in 1..Len(p) /\ p[Len(q) + i] = r[i]
  <2>1. TAKE i \in 1..Len(r)
  <2>2. Len(q) + i \in 1..Len(q) + Len(r) /\ ~(Len(q) + i <= Len(q))
    BY <1>2
  <2>3. p[Len(q) + i] = r[(Len(q) + i) - Len(q)]
    BY <1>1, <2>2
  <2>4. (Len(q) + i) - Len(q) = i
    BY <1>2
  <2> QED
    BY <1>1, <2>2, <2>3, <2>4
<1>5. \A i \in 1..Len(p) : \/ i \in 1..Len(q)
                           \/ i - Len(q) \in 1..Len(r) /\ i = Len(q) + (i - Len(q))
                              /\ i > Len(q)
  BY <1>1, <1>2
<1>6. ASSUME NEW n PROVE n \in Range(p) <=> n \in Range(q) \cup Range(r)
  <2>1. ASSUME n \in Range(p) PROVE n \in Range(q) \cup Range(r)
    <3>1. PICK i \in 1..Len(p) : p[i] = n
      BY <1>1, <2>1, SeqFacts
    <3>2. CASE i \in 1..Len(q)
      <4>1. q[i] = n
        BY <1>3, <3>1, <3>2
      <4> QED
        BY <3>2, <4>1, SeqFacts
    <3>3. CASE i - Len(q) \in 1..Len(r) /\ i = Len(q) + (i - Len(q))
      <4>1. r[i - Len(q)] = n
        BY <1>4, <3>1, <3>3
      <4> QED
        BY <3>3, <4>1, SeqFacts
    <3> QED
      BY <1>5, <3>2, <3>3
  <2>2. ASSUME n \in Range(q) PROVE n \in Range(p)
    BY <1>1, <1>3, <2>2, SeqFacts
  <2>3. ASSUME n \in Range(r) PROVE n \in Range(p)
    <3>1. PICK i \in 1..Len(r) : r[i] = n
      BY <2>3, SeqFacts
    <3> QED
      BY <1>1, <1>4, <3>1, SeqFacts
  <2> QED
    BY <2>1, <2>2, <2>3
<1>7. IsInjective(p)
  <2>1. ASSUME NEW i \in 1..Len(p), NEW j \in 1..Len(p), p[i] = p[j] PROVE i = j
    <3>1. CASE i \in 1..Len(q) /\ j \in 1..Len(q)
      <4>1. q[i] = q[j]
        BY <1>3, <2>1, <3>1
      <4> QED
        BY <3>1, <4>1, InjectiveFacts DEF Open
    <3>2. CASE i \in 1..Len(q) /\ j - Len(q) \in 1..Len(r) /\ j = Len(q) + (j - Len(q))
      <4>1. q[i] = r[j - Len(q)]
        BY <1>3, <1>4, <2>1, <3>2
      <4>2. q[i] \in Range(q) /\ r[j - Len(q)] \in Range(r)
        BY <3>2, SeqFacts
      <4> QED
        BY <4>1, <4>2
    <3>3. CASE j \in 1..Len(q) /\ i - Len(q) \in 1..Len(r) /\ i = Len(q) + (i - Len(q))
      <4>1. q[j] = r[i - Len(q)]
        BY <1>3, <1>4, <2>1, <3>3
      <4>2. q[j] \in Range(q) /\ r[i - Len(q)] \in Range(r)
        BY <3>3, SeqFacts
      <4> QED
        BY <4>1, <4>2
    <3>4. CASE /\ i - Len(q) \in 1..Len(r) /\ i = Len(q) + (i - Len(q))
               /\ j - Len(q) \in 1..Len(r) /\ j = Len(q) + (j - Len(q))
      <4>1. r[i - Len(q)] = r[j - Len(q)]
        BY <1>4, <2>1, <3>4
      <4>2. i - Len(q) = j - Len(q)
        BY <3>4, <4>1, InjectiveFacts DEF Strung
      <4> QED
        BY <1>2, <4>2
    <3> QED
      BY <1>5, <3>1, <3>2, <3>3, <3>4
  <2> QED
    BY <1>1, <2>1, InjectiveIf
<1>8. \A i \in 1..Len(p) : f[p[i]] = IF i < Len(p) THEN p[i + 1] ELSE Null
  <2>1. TAKE i \in 1..Len(p)
  <2>2. CASE i < Len(q)
    <3>1. i \in 1..Len(q) /\ i + 1 \in 1..Len(q) /\ i < Len(p)
      BY <1>1, <1>2, <2>2
    <3>2. f[q[i]] = q[i + 1]
      BY <2>2, <3>1 DEF Open
    <3> QED
      BY <1>3, <3>1, <3>2
  <2>3. CASE i = Len(q)
    <3>1. p[i] = Last(q)
      BY <1>2, <1>3, <2>3, SeqFacts
    <3>2. CASE Len(r) = 0
      <4>1. First(r) = Null
        BY <3>2, SeqFacts
      <4> QED
        BY <1>1, <1>2, <2>3, <3>1, <3>2, <4>1
    <3>3. CASE Len(r) # 0
      <4>1. 1 \in 1..Len(r) /\ i < Len(p)
        BY <1>1, <1>2, <2>3, <3>3
      <4>2. First(r) = r[1] /\ p[i + 1] = r[1]
        BY <1>4, <2>3, <3>3, <4>1, SeqFacts
      <4> QED
        BY <3>1, <4>1, <4>2
    <3> QED
      BY <3>2, <3>3
  <2>4. CASE i > Len(q)
    <3> DEFINE k == i - Len(q)
    <3>1. k \in 1..Len(r) /\ i = Len(q) + k
      BY <1>1, <1>2, <2>4
    <3>2. p[i] = r[k] /\ f[r[k]] = IF k < Len(r) THEN r[k + 1] ELSE Null
      BY <1>4, <3>1 DEF Strung
    <3>3. CASE k < Len(r)
      <4>1. k + 1 \in 1..Len(r) /\ i < Len(p) /\ i + 1 = Len(q) + (k + 1)
        BY <1>1, <1>2, <3>1, <3>3
      <4>2. p[i + 1] = r[k + 1]
        BY <1>4, <4>1
      <4> QED
        BY <3>2, <3>3, <4>1, <4>2
    <3>4. CASE ~(k < Len(r))
      <4>1. ~(i < Len(p))
        BY <1>1, <1>2, <3>1, <3>4
      <4> QED
        BY <3>2, <3>4, <4>1
    <3> QED
      BY <3>3, <3>4
  <2> QED
    BY <1>2, <2>2, <2>3, <2>4
<1>9. First(p) = q[1]
  <2>1. 1 \in 1..Len(q) /\ Len(p) # 0
    BY <1>1, <1>2
  <2> QED
    BY <1>1, <1>3, <2>1, SeqFacts
<1> QED
  BY <1>1, <1>6, <1>7, <1>8, <1>9 DEF Strung, p

-----------------------------------------------------------------------------
(* Names and types.                                                        *)

(* The names that the provers need.                                        *)
LEMMA Names ==
  /\ Null \notin Node /\ Null \notin Stack /\ Null \in Ptr
  /\ Node \subseteq Ptr
  /\ \A a, b : <<a, b>> \in SwapPairs => a \in Stack /\ b \in Stack /\ a # b
<1>1. ASSUME NEW a, NEW b, <<a, b>> \in SwapPairs
      PROVE  a \in Stack /\ b \in Stack /\ a # b
  <2>1. <<a, b>> \in Stack \X Stack /\ <<a, b>>[1] # <<a, b>>[2]
    BY <1>1, StackAssumption
  <2> QED
    BY <2>1
<1> QED
  BY <1>1, StackAssumption DEF Ptr

(* A thread between two calls.                                             *)
LEMMA RestFacts ==
  /\ Rest \in Local /\ Agree(Rest)
  /\ Rest.pc = "idle" /\ Rest.op = "none" /\ Rest.chain = <<>>
  /\ Rest.cur = Null /\ Rest.nx = Null /\ Rest.cnt = 0 /\ Rest.path = <<>>
  /\ Rest.at = Null /\ Rest.other = Null
<1>1. <<>> \in Seq(Node)
  BY EmptyFacts
<1> QED
  BY <1>1, Names DEF Rest, Local, Label, Op, Agree

(* The fields of the local variables.                                      *)
LEMMA Fields ==
  ASSUME TypeOK, NEW t \in Thread
  PROVE  /\ th[t] \in Local /\ th[t].pc \in Label /\ th[t].op \in Op
         /\ th[t].at \in Stack \cup {Null} /\ th[t].other \in Stack \cup {Null}
         /\ th[t].cur \in Ptr /\ th[t].nx \in Ptr /\ th[t].chain \in Seq(Node)
         /\ th[t].cnt \in Nat /\ th[t].path \in Seq(Node)
<1>1. th[t] \in Local
  BY DEF TypeOK
<1> QED
  BY <1>1 DEF Local

(* What the state's other variables are made of.                           *)
LEMMA Parts ==
  ASSUME TypeOK
  PROVE  /\ \A s \in Stack : /\ head[s].node \in Ptr /\ head[s].spin \in BOOLEAN
                             /\ items[s] \in Seq(Node)
                             /\ \A n : head[s] = Unlocked(n) <=>
                                       head[s].node = n /\ ~head[s].spin
         /\ \A n \in Node : next[n] \in Ptr /\ waits[n] \in SUBSET Thread
<1>1. ASSUME NEW s \in Stack
      PROVE  /\ head[s].node \in Ptr /\ head[s].spin \in BOOLEAN
             /\ \A n : head[s] = Unlocked(n) <=> head[s].node = n /\ ~head[s].spin
  <2>1. head[s] \in [node : Ptr, spin : BOOLEAN]
    BY DEF TypeOK
  <2>2. ASSUME NEW n, head[s].node = n, ~head[s].spin
        PROVE  head[s] = [node |-> n, spin |-> FALSE]
    BY <2>1, <2>2
  <2>3. ASSUME NEW n, head[s] = [node |-> n, spin |-> FALSE]
        PROVE  head[s].node = n /\ ~head[s].spin
    BY <2>3
  <2> QED
    BY <2>1, <2>2, <2>3 DEF Unlocked
<1> QED
  BY <1>1 DEF TypeOK

(* A word without the spin bit.                                            *)
LEMMA UnlockedFacts ==
  \A n : Unlocked(n).node = n /\ ~Unlocked(n).spin
         /\ (n \in Ptr => Unlocked(n) \in [node : Ptr, spin : BOOLEAN])
  BY DEF Unlocked

(* The first node of a sequence is a pointer.                              *)
LEMMA FirstFacts ==
  ASSUME NEW q \in Seq(Node)
  PROVE  First(q) \in Ptr
  BY SeqFacts, Names

-----------------------------------------------------------------------------
(* What each step does to the thread that takes it.                        *)

(* A step that only moves a thread to another label.                       *)
Moved(t, l) ==
  /\ th' \in [Thread -> Local] /\ th'[t].pc = l
  /\ \A u \in Thread : u # t => th'[u] = th[u]
  /\ th'[t].op = th[t].op /\ th'[t].at = th[t].at /\ th'[t].other = th[t].other
  /\ th'[t].chain = th[t].chain

(* The rest of its local variables stay.                                   *)
Kept(t) ==
  /\ th'[t].cur = th[t].cur /\ th'[t].nx = th[t].nx
  /\ th'[t].cnt = th[t].cnt /\ th'[t].path = th[t].path

(* A step that ends a call.                                                *)
Ended(t) ==
  /\ th' \in [Thread -> Local] /\ th'[t] = Rest
  /\ \A u \in Thread : u # t => th'[u] = th[u]

(* What Goto does to the local variables of the thread.                    *)
LEMMA GotoDoes ==
  ASSUME TypeOK, NEW t \in Thread, NEW l \in Label, Goto(t, l)
  PROVE  Moved(t, l) /\ Kept(t)
<1>1. th[t] \in Local
  BY DEF TypeOK
<1>2. th' = [th EXCEPT ![t] = [th[t] EXCEPT !.pc = l]]
  BY DEF Goto, TypeOK
<1> DEFINE w == [th[t] EXCEPT !.pc = l]
<1>3. /\ w \in Local /\ w.pc = l /\ w.op = th[t].op /\ w.at = th[t].at
      /\ w.other = th[t].other /\ w.cur = th[t].cur /\ w.nx = th[t].nx
      /\ w.chain = th[t].chain /\ w.cnt = th[t].cnt /\ w.path = th[t].path
  BY <1>1 DEF Local
<1> HIDE DEF w
<1>4. th'[t] = w /\ th' \in [Thread -> Local] /\ \A u \in Thread : u # t => th'[u] = th[u]
  BY <1>2, <1>3 DEF TypeOK, w
<1> QED
  BY <1>3, <1>4 DEF Moved, Kept

(* What the end of a call does to them.                                    *)
LEMMA DoneDoes ==
  ASSUME TypeOK, NEW t \in Thread, th' = [th EXCEPT ![t] = Rest]
  PROVE  Ended(t)
  BY RestFacts DEF Ended, TypeOK

(* A step that starts a call.                                              *)
Started(t, op, s, l) ==
  /\ th' \in [Thread -> Local] /\ th'[t].pc = l
  /\ \A u \in Thread : u # t => th'[u] = th[u]
  /\ th'[t].op = op /\ th'[t].at = s

(* What it means to set all the local variables of a thread.               *)
LEMMA BecomesDoes ==
  ASSUME TypeOK, NEW t \in Thread, NEW w \in Local, th' = [th EXCEPT ![t] = w]
  PROVE  /\ th'[t] = w /\ th' \in [Thread -> Local]
         /\ \A u \in Thread : u # t => th'[u] = th[u]
  BY DEF TypeOK

(* What the other steps that set local variables set.                      *)
LEMMA CallDoes ==
  ASSUME TypeOK, NEW t \in Thread, NEW op \in Op, NEW s \in Stack, NEW l \in Label,
         Call(t, op, s, l)
  PROVE  /\ At(t, "idle") /\ Started(t, op, s, l) /\ th'[t].chain = <<>>
         /\ th'[t].other = Null /\ th'[t].cur = Null /\ th'[t].cnt = 0
<1> DEFINE w == [Rest EXCEPT !.op = op, !.at = s, !.pc = l]
<1>1. /\ w \in Local /\ w.pc = l /\ w.op = op /\ w.at = s /\ w.chain = <<>>
      /\ w.other = Null /\ w.cur = Null /\ w.cnt = 0
  BY RestFacts DEF Local, Rest
<1>2. th' = [th EXCEPT ![t] = w] /\ At(t, "idle")
  BY DEF Call
<1> HIDE DEF w
<1> QED
  BY <1>1, <1>2, BecomesDoes DEF Started

(* What Allocate does to the thread that takes it.                         *)
LEMMA AllocateDoes ==
  ASSUME TypeOK, NEW t \in Thread, NEW op \in Op, NEW s \in Stack, NEW l \in Label,
         NEW q \in Seq(Node), Allocate(t, op, s, l, q)
  PROVE  /\ At(t, "idle") /\ Started(t, op, s, l) /\ th'[t].chain = q
         /\ th'[t].other = Null /\ th'[t].cur = Null
<1> DEFINE w == [Rest EXCEPT !.op = op, !.at = s, !.pc = l, !.chain = q]
<1>1. /\ w \in Local /\ w.pc = l /\ w.op = op /\ w.at = s /\ w.chain = q
      /\ w.other = Null /\ w.cur = Null
  BY RestFacts DEF Local, Rest
<1>2. th' = [th EXCEPT ![t] = w] /\ At(t, "idle")
  BY DEF Allocate
<1> HIDE DEF w
<1> QED
  BY <1>1, <1>2, BecomesDoes DEF Started

(* What Swap does to the thread that takes it.                             *)
LEMMA SwapDoes ==
  ASSUME TypeOK, NEW t \in Thread, NEW a \in Stack, NEW b \in Stack, Swap(t, a, b)
  PROVE  /\ At(t, "idle") /\ Started(t, "swap", a, "spin1") /\ th'[t].chain = <<>>
         /\ th'[t].other = b /\ th'[t].cur = Null /\ <<a, b>> \in SwapPairs
         /\ UNCHANGED <<head, next, life, waits, items>>
<1> DEFINE w == [Rest EXCEPT !.op = "swap", !.at = a, !.other = b, !.pc = "spin1"]
<1>1. /\ w \in Local /\ w.pc = "spin1" /\ w.op = "swap" /\ w.at = a /\ w.chain = <<>>
      /\ w.other = b /\ w.cur = Null
  BY RestFacts DEF Local, Rest, Label, Op
<1>2. /\ th' = [th EXCEPT ![t] = w] /\ At(t, "idle") /\ <<a, b>> \in SwapPairs
      /\ UNCHANGED <<head, next, life, waits, items>>
  BY DEF Swap
<1> HIDE DEF w
<1> QED
  BY <1>1, <1>2, BecomesDoes DEF Started

(* What Begin does to the thread that takes it.                            *)
LEMMA BeginDoes ==
  ASSUME TypeOK, NEW t \in Thread, NEW s \in Stack, Begin(t, s)
  PROVE  /\ At(t, "idle") /\ Started(t, "walk", s, "bare") /\ th'[t].chain = <<>>
         /\ th'[t].other = Null /\ th'[t].cur = head[s].node /\ th'[t].path = items[s]
         /\ th'[t].cnt = 0 /\ Readers # {}
         /\ UNCHANGED <<head, next, life, waits, items>>
<1> DEFINE w == [Rest EXCEPT !.op = "walk", !.at = s, !.cur = head[s].node,
                             !.path = items[s], !.pc = "bare"]
<1>1. /\ w \in Local /\ w.pc = "bare" /\ w.op = "walk" /\ w.at = s /\ w.chain = <<>>
      /\ w.other = Null /\ w.cur = head[s].node /\ w.path = items[s] /\ w.cnt = 0
  BY RestFacts, Parts DEF Local, Rest, Label, Op
<1>2. /\ th' = [th EXCEPT ![t] = w] /\ At(t, "idle") /\ Readers # {}
      /\ UNCHANGED <<head, next, life, waits, items>>
  BY DEF Begin
<1> HIDE DEF w
<1> QED
  BY <1>1, <1>2, BecomesDoes DEF Started

(* A thread in a call works on a stack, and one that swaps on two.         *)
LEMMA InCall ==
  ASSUME TypeOK, ControlOK, NEW t \in Thread
  PROVE  /\ th[t].pc # "idle" => th[t].at \in Stack
         /\ th[t].op = "swap" => th[t].at \in Stack /\ th[t].other \in Stack
                                /\ th[t].at # th[t].other
         /\ th[t].pc \in {"spin2", "mark2", "store1", "store2"} => th[t].op = "swap"
  BY Names DEF ControlOK, Agree

(* What PopLoad does to the thread that takes it.                          *)
LEMMA PopLoadDoes ==
  ASSUME TypeOK, ControlOK, NEW t \in Thread, PopLoad(t)
  PROVE  /\ At(t, "pop") /\ ~head[th[t].at].spin
         /\ UNCHANGED <<head, next, life, items>>
         /\ \/ Ended(t) /\ waits' = Left(t)
            \/ /\ head[th[t].at].node # Null /\ waits' = waits
               /\ Moved(t, "next") /\ th'[t].cur = head[th[t].at].node
<1>0. th[t].at \in Stack
  BY InCall DEF PopLoad, At
<1>1. CASE head[th[t].at].node = Null
  BY <1>1, DoneDoes DEF PopLoad, Done
<1>2. CASE head[th[t].at].node # Null
  <2>0. th[t] \in Local /\ head[th[t].at].node \in Ptr
    BY <1>0, Fields, Parts
  <2> DEFINE w == [th[t] EXCEPT !.pc = "next", !.cur = head[th[t].at].node]
  <2>1. /\ w \in Local /\ w.pc = "next" /\ w.cur = head[th[t].at].node
        /\ w.op = th[t].op /\ w.at = th[t].at
        /\ w.other = th[t].other /\ w.chain = th[t].chain
    BY <2>0 DEF Local, Label
  <2>2. /\ th' = [th EXCEPT ![t] = w] /\ waits' = waits /\ At(t, "pop")
        /\ ~head[th[t].at].spin /\ UNCHANGED <<head, next, life, items>>
    BY <1>2 DEF PopLoad, TypeOK
  <2> HIDE DEF w
  <2> QED
    BY <1>2, <2>1, <2>2, BecomesDoes DEF Moved
<1> QED
  BY <1>1, <1>2

(* What PopNext does to the thread that takes it.                          *)
LEMMA PopNextDoes ==
  ASSUME TypeOK, ControlOK, NEW t \in Thread, PopNext(t)
  PROVE  /\ At(t, "next") /\ UNCHANGED <<head, next, life, waits, items>>
         /\ Moved(t, "take") /\ th'[t].cur = th[t].cur /\ th'[t].nx = next[th[t].cur]
<1>1. th[t].cur \in Node
  BY Fields, Names DEF PopNext, At, ControlOK, Agree, Ptr
<1>0. th[t] \in Local /\ next[th[t].cur] \in Ptr
  BY <1>1, Fields, Parts
<1> DEFINE w == [th[t] EXCEPT !.pc = "take", !.nx = next[th[t].cur]]
<1>2. /\ w \in Local /\ w.pc = "take" /\ w.cur = th[t].cur /\ w.nx = next[th[t].cur]
      /\ w.op = th[t].op /\ w.at = th[t].at
      /\ w.other = th[t].other /\ w.chain = th[t].chain
  BY <1>0 DEF Local, Label
<1>3. th' = [th EXCEPT ![t] = w]
  BY DEF PopNext, TypeOK
<1> HIDE DEF w
<1> QED
  BY <1>2, <1>3, BecomesDoes DEF Moved, PopNext

(* What TopLoad does to the thread that takes it.                          *)
LEMMA TopLoadDoes ==
  ASSUME TypeOK, ControlOK, NEW t \in Thread, TopLoad(t)
  PROVE  /\ At(t, "top") /\ UNCHANGED <<head, next, life, items>>
         /\ \/ Ended(t) /\ waits' = Left(t)
            \/ /\ head[th[t].at].node # Null /\ waits' = waits
               /\ Moved(t, "value") /\ th'[t].cur = head[th[t].at].node
<1>0. th[t].at \in Stack
  BY InCall DEF TopLoad, At
<1>1. CASE head[th[t].at].node = Null
  BY <1>1, DoneDoes DEF TopLoad, Done
<1>2. CASE head[th[t].at].node # Null
  <2>0. th[t] \in Local /\ head[th[t].at].node \in Ptr
    BY <1>0, Fields, Parts
  <2> DEFINE w == [th[t] EXCEPT !.pc = "value", !.cur = head[th[t].at].node]
  <2>1. /\ w \in Local /\ w.pc = "value" /\ w.cur = head[th[t].at].node
        /\ w.op = th[t].op /\ w.at = th[t].at
        /\ w.other = th[t].other /\ w.chain = th[t].chain
    BY <2>0 DEF Local, Label
  <2>2. /\ th' = [th EXCEPT ![t] = w] /\ waits' = waits /\ At(t, "top")
        /\ UNCHANGED <<head, next, life, items>>
    BY <1>2 DEF TopLoad, TypeOK
  <2> HIDE DEF w
  <2> QED
    BY <1>2, <2>1, <2>2, BecomesDoes DEF Moved
<1> QED
  BY <1>1, <1>2

(* What SizeLoad does to the thread that takes it.                         *)
LEMMA SizeLoadDoes ==
  ASSUME TypeOK, ControlOK, NEW t \in Thread, SizeLoad(t)
  PROVE  /\ At(t, "size") /\ UNCHANGED <<head, next, life, waits, items>>
         /\ \/ Moved(t, "wild") /\ Kept(t)
            \/ /\ ~head[th[t].at].spin
               /\ Moved(t, "walk") /\ th'[t].cur = head[th[t].at].node
               /\ th'[t].cnt = th[t].cnt /\ th'[t].path = items[th[t].at]
<1>0. th[t].at \in Stack
  BY InCall DEF SizeLoad, At
<1>1. CASE head[th[t].at].spin
  <2>1. Goto(t, "wild") /\ "wild" \in Label
    BY <1>1 DEF SizeLoad, Label
  <2> QED
    BY <2>1, GotoDoes DEF SizeLoad
<1>2. CASE ~head[th[t].at].spin
  <2>0. th[t] \in Local /\ head[th[t].at].node \in Ptr /\ items[th[t].at] \in Seq(Node)
    BY <1>0, Fields, Parts
  <2> DEFINE w == [th[t] EXCEPT !.pc = "walk", !.cur = head[th[t].at].node,
                               !.path = items[th[t].at]]
  <2>1. /\ w \in Local /\ w.pc = "walk" /\ w.cur = head[th[t].at].node
        /\ w.op = th[t].op /\ w.at = th[t].at /\ w.cnt = th[t].cnt
        /\ w.other = th[t].other /\ w.chain = th[t].chain
        /\ w.path = items[th[t].at]
    BY <2>0 DEF Local, Label
  <2>2. /\ th' = [th EXCEPT ![t] = w] /\ At(t, "size")
        /\ UNCHANGED <<head, next, life, waits, items>>
    BY <1>2 DEF SizeLoad, TypeOK
  <2> HIDE DEF w
  <2> QED
    BY <1>2, <2>1, <2>2, BecomesDoes DEF Moved
<1> QED
  BY <1>1, <1>2

(* What Walk does to the thread that takes it.                             *)
LEMMA WalkDoes ==
  ASSUME TypeOK, ControlOK, NEW t \in Thread, Walk(t)
  PROVE  /\ At(t, "walk") /\ th[t].cur \in Node
         /\ UNCHANGED <<head, next, life, waits, items>>
         /\ Moved(t, "walk") /\ th'[t].cur = next[th[t].cur]
         /\ th'[t].cnt = th[t].cnt + 1 /\ th'[t].path = th[t].path
<1>1. th[t].cur \in Node
  BY Fields, Names DEF Walk, Ptr
<1>0. /\ th[t] \in Local /\ next[th[t].cur] \in Ptr /\ th[t].cnt + 1 \in Nat
  BY <1>1, Fields, Parts
<1> DEFINE w == [th[t] EXCEPT !.cur = next[th[t].cur], !.cnt = th[t].cnt + 1]
<1>2. /\ w \in Local /\ w.pc = th[t].pc /\ w.cur = next[th[t].cur]
      /\ w.cnt = th[t].cnt + 1 /\ w.path = th[t].path
      /\ w.op = th[t].op /\ w.at = th[t].at
      /\ w.other = th[t].other /\ w.chain = th[t].chain
  BY <1>0 DEF Local
<1>3. th' = [th EXCEPT ![t] = w]
  BY DEF Walk, TypeOK
<1> HIDE DEF w
<1> QED
  BY <1>1, <1>2, <1>3, BecomesDoes DEF Moved, Walk, At

(* What SpinLoad does to the thread that takes it.                         *)
LEMMA SpinLoadDoes ==
  ASSUME TypeOK, ControlOK, NEW t \in Thread, SpinLoad(t)
  PROVE  /\ UNCHANGED <<head, next, life, waits, items>>
         /\ \/ At(t, "spin1") /\ Moved(t, "mark1")
            \/ /\ At(t, "spin2") /\ Moved(t, "mark2") /\ th'[t].cur = th[t].cur
<1>1. CASE At(t, "spin1")
  <2>0. th[t].at \in Stack
    BY <1>1, InCall DEF At
  <2>3. th[t] \in Local /\ head[th[t].at].node \in Ptr
    BY <2>0, Fields, Parts
  <2> DEFINE w == [th[t] EXCEPT !.pc = "mark1", !.cur = head[th[t].at].node]
  <2>1. /\ w \in Local /\ w.pc = "mark1"
        /\ w.op = th[t].op /\ w.at = th[t].at
        /\ w.other = th[t].other /\ w.chain = th[t].chain
    BY <2>3 DEF Local, Label
  <2>2. th' = [th EXCEPT ![t] = w]
    BY <1>1 DEF SpinLoad, TypeOK, At
  <2> HIDE DEF w
  <2> QED
    BY <1>1, <2>1, <2>2, BecomesDoes DEF Moved, SpinLoad
<1>2. CASE At(t, "spin2")
  <2>0. th[t].other \in Stack
    BY <1>2, InCall DEF At
  <2>3. th[t] \in Local /\ head[th[t].other].node \in Ptr
    BY <2>0, Fields, Parts
  <2> DEFINE w == [th[t] EXCEPT !.pc = "mark2", !.nx = head[th[t].other].node]
  <2>1. /\ w \in Local /\ w.pc = "mark2" /\ w.cur = th[t].cur
        /\ w.op = th[t].op /\ w.at = th[t].at
        /\ w.other = th[t].other /\ w.chain = th[t].chain
    BY <2>3 DEF Local, Label
  <2>2. th' = [th EXCEPT ![t] = w]
    BY <1>2 DEF SpinLoad, TypeOK, At
  <2> HIDE DEF w
  <2> QED
    BY <1>2, <2>1, <2>2, BecomesDoes DEF Moved, SpinLoad
<1> QED
  BY <1>1, <1>2 DEF SpinLoad

(* What SpinCas does to the thread that takes it.                          *)
LEMMA SpinCasDoes ==
  ASSUME TypeOK, ControlOK, NEW t \in Thread, SpinCas(t)
  PROVE  /\ UNCHANGED <<next, life, waits, items>> /\ Kept(t)
         /\ \/ /\ head' = head
               /\ \/ At(t, "mark1") /\ Moved(t, "spin1")
                  \/ At(t, "mark2") /\ Moved(t, "spin2")
            \/ /\ At(t, "mark1") /\ head[th[t].at] = Unlocked(th[t].cur)
               /\ head' = [head EXCEPT ![th[t].at].spin = TRUE]
               /\ \/ th[t].op = "swap" /\ Moved(t, "spin2")
                  \/ th[t].op # "swap" /\ Moved(t, "store")
            \/ /\ At(t, "mark2") /\ head[th[t].other] = Unlocked(th[t].nx)
               /\ head' = [head EXCEPT ![th[t].other].spin = TRUE]
               /\ Moved(t, "store1")
<1> DEFINE then == IF th[t].op = "swap" THEN "spin2" ELSE "store"
<1>1. /\ then \in Label /\ "spin1" \in Label /\ "spin2" \in Label /\ "store1" \in Label
      /\ "store" \in Label
  BY DEF Label
<1>2. CASE At(t, "mark1")
  <2>1. /\ Mark(t, th[t].at, th[t].cur, "spin1", then)
        /\ UNCHANGED <<next, life, waits, items>>
    BY <1>2 DEF SpinCas, At
  <2> HIDE DEF then
  <2>2. CASE head[th[t].at] = Unlocked(th[t].cur)
    <3>1. Goto(t, then) /\ head' = [head EXCEPT ![th[t].at].spin = TRUE]
      BY <2>1, <2>2 DEF Mark
    <3>2. Moved(t, then) /\ Kept(t)
      BY <1>1, <3>1, GotoDoes
    <3> QED
      BY <1>2, <2>1, <2>2, <3>1, <3>2 DEF then
  <2>3. CASE head[th[t].at] # Unlocked(th[t].cur)
    <3>1. Goto(t, "spin1") /\ head' = head
      BY <2>1, <2>3 DEF Mark
    <3>2. Moved(t, "spin1") /\ Kept(t)
      BY <1>1, <3>1, GotoDoes
    <3> QED
      BY <1>2, <2>1, <3>1, <3>2
  <2> QED
    BY <2>2, <2>3
<1>3. CASE At(t, "mark2")
  <2>1. /\ Mark(t, th[t].other, th[t].nx, "spin2", "store1")
        /\ UNCHANGED <<next, life, waits, items>>
    BY <1>3 DEF SpinCas, At
  <2>2. CASE head[th[t].other] = Unlocked(th[t].nx)
    <3>1. Goto(t, "store1") /\ head' = [head EXCEPT ![th[t].other].spin = TRUE]
      BY <2>1, <2>2 DEF Mark
    <3>2. Moved(t, "store1") /\ Kept(t)
      BY <1>1, <3>1, GotoDoes
    <3> QED
      BY <1>3, <2>1, <2>2, <3>1, <3>2
  <2>3. CASE head[th[t].other] # Unlocked(th[t].nx)
    <3>1. Goto(t, "spin2") /\ head' = head
      BY <2>1, <2>3 DEF Mark
    <3>2. Moved(t, "spin2") /\ Kept(t)
      BY <1>1, <3>1, GotoDoes
    <3> QED
      BY <1>3, <2>1, <3>1, <3>2
  <2> QED
    BY <2>2, <2>3
<1> QED
  BY <1>2, <1>3 DEF SpinCas

(* What ReplaceStore does to the thread that takes it.                     *)
LEMMA ReplaceStoreDoes ==
  ASSUME TypeOK, ControlOK, NEW t \in Thread, ReplaceStore(t)
  PROVE  /\ At(t, "store") /\ UNCHANGED <<next, life>> /\ waits' = Left(t)
         /\ head' = [head EXCEPT ![th[t].at] = Unlocked(First(th[t].chain))]
         /\ items' = [items EXCEPT ![th[t].at] = th[t].chain]
         /\ th' \in [Thread -> Local] /\ th'[t].pc = "retire" /\ th'[t].chain = <<>>
         /\ \A u \in Thread : u # t => th'[u] = th[u]
         /\ th'[t].op = th[t].op /\ th'[t].at = th[t].at /\ th'[t].other = th[t].other
         /\ th'[t].cur = th[t].cur
<1> DEFINE w == [th[t] EXCEPT !.pc = "retire", !.chain = <<>>]
<1>1. /\ w \in Local /\ w.pc = "retire" /\ w.chain = <<>>
      /\ w.op = th[t].op /\ w.at = th[t].at
      /\ w.other = th[t].other /\ w.cur = th[t].cur
  BY Fields, EmptyFacts DEF Local, Label
<1>2. th' = [th EXCEPT ![t] = w]
  BY DEF ReplaceStore, TypeOK
<1> HIDE DEF w
<1> QED
  BY <1>1, <1>2, BecomesDoes DEF ReplaceStore
-----------------------------------------------------------------------------
(* Every step keeps the types, and the labels in line with the calls.      *)

(* Who waits for whom stays well-typed.                                    *)
LEMMA LeftFacts ==
  ASSUME TypeOK, NEW t \in Thread
  PROVE  /\ Left(t) \in [Node -> SUBSET Thread]
         /\ \A n \in Node : Left(t)[n] = waits[n] \ {t}
  BY DEF Left, TypeOK

(* What Retire does to the thread that takes it.                           *)
LEMMA RetireDoes ==
  ASSUME TypeOK, NEW t \in Thread, NEW n \in Node, Retire(t, n)
  PROVE  /\ life' = [life EXCEPT ![n] = "retired"]
         /\ waits' \in [Node -> SUBSET Thread]
         /\ waits'[n] = {u \in Thread \ {t} : InCs(u)}
         /\ \A m \in Node : m # n => waits'[m] = waits[m] \ {t}
         /\ Ended(t)
<1>1. waits' = [Left(t) EXCEPT ![n] = {u \in Thread \ {t} : InCs(u)}]
  BY DEF Retire
<1>2. {u \in Thread \ {t} : InCs(u)} \in SUBSET Thread
  OBVIOUS
<1>3. waits' \in [Node -> SUBSET Thread]
  BY <1>1, <1>2, LeftFacts
<1>4. waits'[n] = {u \in Thread \ {t} : InCs(u)}
  BY <1>1, LeftFacts
<1>5. \A m \in Node : m # n => waits'[m] = waits[m] \ {t}
  BY <1>1, LeftFacts
<1> QED
  BY <1>3, <1>4, <1>5, DoneDoes DEF Retire

(* What is left to see to when one thread has taken a step.                *)
LEMMA BasicStep ==
  ASSUME TypeOK, ControlOK, NEW t \in Thread, th' \in [Thread -> Local],
         \A u \in Thread : u # t => th'[u] = th[u], Agree(th'[t]),
         head' \in [Stack -> [node : Ptr, spin : BOOLEAN]],
         next' \in [Node -> Ptr],
         life' \in [Node -> {"free", "live", "retired"}],
         waits' \in [Node -> SUBSET Thread],
         items' \in [Stack -> Seq(Node)]
  PROVE  TypeOK' /\ ControlOK'
<1>1. TypeOK'
  BY DEF TypeOK
<1>2. \A u \in Thread : Agree(th'[u])
  BY DEF ControlOK
<1> QED
  BY <1>1, <1>2 DEF ControlOK

(* Threads between calls agree, and so do those that end or start one.     *)
LEMMA EndedStep ==
  ASSUME TypeOK, ControlOK, NEW t \in Thread, Ended(t),
         head' \in [Stack -> [node : Ptr, spin : BOOLEAN]],
         next' \in [Node -> Ptr],
         life' \in [Node -> {"free", "live", "retired"}],
         waits' \in [Node -> SUBSET Thread],
         items' \in [Stack -> Seq(Node)]
  PROVE  TypeOK' /\ ControlOK'
<1>1. Agree(th'[t]) /\ th' \in [Thread -> Local] /\ \A u \in Thread : u # t => th'[u] = th[u]
  BY RestFacts DEF Ended
<1> QED
  BY <1>1, BasicStep

(* Pop keeps the types and the labels right.                               *)
LEMMA PopKeeps ==
  ASSUME TypeOK, ControlOK, NEW t \in Thread, NEW s \in Stack, Pop(t, s)
  PROVE  /\ At(t, "idle") /\ Started(t, "pop", s, "pop") /\ th'[t].chain = <<>>
         /\ UNCHANGED <<head, next, life, waits, items>>
         /\ TypeOK' /\ ControlOK'
<1>1. Call(t, "pop", s, "pop") /\ "pop" \in Op /\ "pop" \in Label
  BY DEF Pop, Op, Label
<1>2. /\ At(t, "idle") /\ Started(t, "pop", s, "pop")
      /\ th'[t].chain = <<>> /\ th'[t].cur = Null
  BY <1>1, CallDoes
<1>3. UNCHANGED <<head, next, life, waits, items>>
  BY DEF Pop
<1>4. Agree(th'[t])
  BY <1>2, <1>3 DEF Started, Agree
<1>5. th' \in [Thread -> Local] /\ \A u \in Thread : u # t => th'[u] = th[u]
  BY <1>2 DEF Started
<1>6. TypeOK' /\ ControlOK'
  BY <1>3, <1>4, <1>5, BasicStep DEF TypeOK
<1> QED
  BY <1>2, <1>3, <1>6

(* Top keeps the types and the labels right.                               *)
LEMMA TopKeeps ==
  ASSUME TypeOK, ControlOK, NEW t \in Thread, NEW s \in Stack, Top(t, s)
  PROVE  /\ At(t, "idle") /\ Started(t, "top", s, "top") /\ th'[t].chain = <<>>
         /\ UNCHANGED <<head, next, life, waits, items>> /\ Readers # {}
         /\ TypeOK' /\ ControlOK'
<1>1. Call(t, "top", s, "top") /\ "top" \in Op /\ "top" \in Label
  BY DEF Top, Op, Label
<1>2. /\ At(t, "idle") /\ Started(t, "top", s, "top")
      /\ th'[t].chain = <<>> /\ th'[t].cur = Null
  BY <1>1, CallDoes
<1>3. UNCHANGED <<head, next, life, waits, items>> /\ Readers # {}
  BY DEF Top
<1>4. Agree(th'[t])
  BY <1>2, <1>3 DEF Started, Agree
<1>5. th' \in [Thread -> Local] /\ \A u \in Thread : u # t => th'[u] = th[u]
  BY <1>2 DEF Started
<1>6. TypeOK' /\ ControlOK'
  BY <1>3, <1>4, <1>5, BasicStep DEF TypeOK
<1> QED
  BY <1>2, <1>3, <1>6

(* Size keeps the types and the labels right.                              *)
LEMMA SizeKeeps ==
  ASSUME TypeOK, ControlOK, NEW t \in Thread, NEW s \in Stack, Size(t, s)
  PROVE  /\ At(t, "idle") /\ Started(t, "size", s, "size") /\ th'[t].chain = <<>>
         /\ UNCHANGED <<head, next, life, waits, items>>
         /\ TypeOK' /\ ControlOK'
<1>1. Call(t, "size", s, "size") /\ "size" \in Op /\ "size" \in Label
  BY DEF Size, Op, Label
<1>2. /\ At(t, "idle") /\ Started(t, "size", s, "size")
      /\ th'[t].chain = <<>> /\ th'[t].cnt = 0
  BY <1>1, CallDoes
<1>3. UNCHANGED <<head, next, life, waits, items>>
  BY DEF Size
<1>4. Agree(th'[t])
  BY <1>2, <1>3 DEF Started, Agree
<1>5. th' \in [Thread -> Local] /\ \A u \in Thread : u # t => th'[u] = th[u]
  BY <1>2 DEF Started
<1>6. TypeOK' /\ ControlOK'
  BY <1>3, <1>4, <1>5, BasicStep DEF TypeOK
<1> QED
  BY <1>2, <1>3, <1>6

(* Clear keeps the types and the labels right.                             *)
LEMMA ClearKeeps ==
  ASSUME TypeOK, ControlOK, NEW t \in Thread, NEW s \in Stack, Clear(t, s)
  PROVE  /\ At(t, "idle") /\ Started(t, "clear", s, "spin1") /\ th'[t].chain = <<>>
         /\ UNCHANGED <<head, next, life, waits, items>>
         /\ TypeOK' /\ ControlOK'
<1>1. Call(t, "clear", s, "spin1") /\ "clear" \in Op /\ "spin1" \in Label
  BY DEF Clear, Op, Label
<1>2. /\ At(t, "idle") /\ Started(t, "clear", s, "spin1")
      /\ th'[t].chain = <<>> /\ th'[t].cur = Null
  BY <1>1, CallDoes
<1>3. UNCHANGED <<head, next, life, waits, items>>
  BY DEF Clear
<1>4. Agree(th'[t])
  BY <1>2, <1>3 DEF Started, Agree
<1>5. th' \in [Thread -> Local] /\ \A u \in Thread : u # t => th'[u] = th[u]
  BY <1>2 DEF Started
<1>6. TypeOK' /\ ControlOK'
  BY <1>3, <1>4, <1>5, BasicStep DEF TypeOK
<1> QED
  BY <1>2, <1>3, <1>6

(* Begin keeps the types and the labels right.                             *)
LEMMA BeginKeeps ==
  ASSUME TypeOK, ControlOK, NEW t \in Thread, NEW s \in Stack, Begin(t, s)
  PROVE  TypeOK' /\ ControlOK'
<1>1. /\ Started(t, "walk", s, "bare") /\ th'[t].chain = <<>> /\ Readers # {}
      /\ UNCHANGED <<head, next, life, waits, items>>
  BY BeginDoes
<1>2. Agree(th'[t])
  BY <1>1 DEF Started, Agree
<1>3. th' \in [Thread -> Local] /\ \A u \in Thread : u # t => th'[u] = th[u]
  BY <1>1 DEF Started
<1> QED
  BY <1>1, <1>2, <1>3, BasicStep DEF TypeOK

(* Swap keeps the types and the labels right.                              *)
LEMMA SwapKeeps ==
  ASSUME TypeOK, ControlOK, NEW t \in Thread, NEW a \in Stack, NEW b \in Stack,
         Swap(t, a, b)
  PROVE  TypeOK' /\ ControlOK'
<1>1. /\ Started(t, "swap", a, "spin1") /\ th'[t].chain = <<>>
      /\ th'[t].other = b /\ <<a, b>> \in SwapPairs
      /\ UNCHANGED <<head, next, life, waits, items>>
  BY SwapDoes
<1>2. Agree(th'[t])
  BY <1>1 DEF Started, Agree
<1>3. th' \in [Thread -> Local] /\ \A u \in Thread : u # t => th'[u] = th[u]
  BY <1>1 DEF Started
<1> QED
  BY <1>1, <1>2, <1>3, BasicStep DEF TypeOK

(* Chains that are allocated.                                              *)
LEMMA FreshFacts ==
  ASSUME NEW k \in Nat, NEW q, q \in Fresh(k)
  PROVE  /\ q \in Seq(Node) /\ Len(q) = k /\ IsInjective(q)
         /\ \A n \in Range(q) : n \in Node /\ life[n] = "free"
<1>1. q \in [1..k -> {n \in Node : life[n] = "free"}] /\ IsInjective(q)
  BY DEF Fresh
<1>2. q \in Seq(Node) /\ Len(q) = k
  BY <1>1
<1>3. \A i \in 1..k : q[i] \in Node /\ life[q[i]] = "free"
  BY <1>1
<1>4. \A n \in Range(q) : \E i \in 1..k : q[i] = n
  BY <1>2, SeqFacts
<1> QED
  BY <1>1, <1>2, <1>3, <1>4

(* The chain that Allocate makes is linked, from its first node to the     *)
(* last.                                                                   *)
LEMMA AllocateLinks ==
  ASSUME TypeOK, NEW t \in Thread, NEW op \in Op, NEW s \in Stack, NEW l \in Label,
         NEW k \in Nat, NEW q, q \in Fresh(k), Allocate(t, op, s, l, q)
  PROVE  /\ next' \in [Node -> Ptr]
         /\ life' \in [Node -> {"free", "live", "retired"}]
         /\ Strung(q, next')
         /\ \A n \in Node : n \notin Range(q) => next'[n] = next[n] /\ life'[n] = life[n]
         /\ \A n \in Range(q) : life'[n] = "live"
         /\ UNCHANGED <<head, waits, items>>
<1>1. /\ q \in Seq(Node) /\ IsInjective(q) /\ Range(q) \subseteq Node
      /\ \A i \in 1..Len(q) : q[i] \in Range(q) /\ q[i] \in Node
  BY FreshFacts, SeqFacts
<1>2. /\ next' = [n \in Node |-> IF n \in Range(q) THEN Succ(q, n) ELSE next[n]]
      /\ life' = [n \in Node |-> IF n \in Range(q) THEN "live" ELSE life[n]]
      /\ UNCHANGED <<head, waits, items>>
  BY DEF Allocate
<1>3. \A i \in 1..Len(q) : Succ(q, q[i]) = IF i < Len(q) THEN q[i + 1] ELSE Null
  BY <1>1, SuccFacts
<1>4. \A i \in 1..Len(q) : next'[q[i]] = IF i < Len(q) THEN q[i + 1] ELSE Null
  BY <1>1, <1>2, <1>3
<1>5. \A i \in 1..Len(q) : i < Len(q) => q[i + 1] \in Node
  <2>1. TAKE i \in 1..Len(q)
  <2>2. SUFFICES ASSUME i < Len(q) PROVE q[i + 1] \in Node
    OBVIOUS
  <2>3. i + 1 \in 1..Len(q)
    BY <1>1, <2>2, SeqFacts
  <2> QED
    BY <1>1, <2>3
<1>6. \A n \in Range(q) : Succ(q, n) \in Ptr
  <2>1. TAKE n \in Range(q)
  <2>2. PICK i \in 1..Len(q) : q[i] = n
    BY <1>1, SeqFacts
  <2> QED
    BY <1>3, <1>5, <2>2, Names
<1>7. next' \in [Node -> Ptr]
  BY <1>2, <1>6 DEF TypeOK
<1>8. life' \in [Node -> {"free", "live", "retired"}]
  BY <1>2 DEF TypeOK
<1> QED
  BY <1>1, <1>2, <1>4, <1>7, <1>8 DEF Strung

(* PushRange keeps the types and the labels right.                         *)
LEMMA PushRangeKeeps ==
  ASSUME TypeOK, ControlOK, NEW t \in Thread, NEW s \in Stack, PushRange(t, s)
  PROVE  /\ \E k \in Nat : \E q \in Fresh(k) :
              /\ Allocate(t, "push", s, "push", q) /\ k <= MaxChain
              /\ At(t, "idle") /\ Started(t, "push", s, "push") /\ th'[t].chain = q /\ q # <<>>
         /\ TypeOK' /\ ControlOK'
<1>10. PICK k \in Nat :
         k <= MaxChain /\ k # 0 /\ \E q \in Fresh(k) : Allocate(t, "push", s, "push", q)
  BY StackAssumption DEF PushRange
<1>1. PICK q \in Fresh(k) : Allocate(t, "push", s, "push", q) /\ k <= MaxChain /\ k # 0
  BY <1>10
<1>2. "push" \in Op /\ "push" \in Label
  BY DEF Op, Label
<1>3. q \in Seq(Node) /\ Len(q) = k
  BY FreshFacts
<1>4. /\ At(t, "idle") /\ Started(t, "push", s, "push")
      /\ th'[t].chain = q /\ th'[t].cur = Null
  BY <1>1, <1>2, <1>3, AllocateDoes
<1>5. q # <<>>
  BY <1>1, <1>3, SeqFacts
<1>6. /\ next' \in [Node -> Ptr] /\ life' \in [Node -> {"free", "live", "retired"}]
      /\ UNCHANGED <<head, waits, items>>
  BY <1>1, <1>2, AllocateLinks
<1>7. Agree(th'[t])
  BY <1>4, <1>5 DEF Started, Agree
<1>8. th' \in [Thread -> Local] /\ \A u \in Thread : u # t => th'[u] = th[u]
  BY <1>4 DEF Started
<1>9. TypeOK' /\ ControlOK'
  BY <1>6, <1>7, <1>8, BasicStep DEF TypeOK
<1> QED
  BY <1>1, <1>4, <1>5, <1>9

(* PushCopies keeps the types and the labels right.                        *)
LEMMA PushCopiesKeeps ==
  ASSUME TypeOK, ControlOK, NEW t \in Thread, NEW s \in Stack,
         NEW n \in Copies, PushCopies(t, s, n)
  PROVE  /\ \E k \in Nat : \E q \in Fresh(k) :
              /\ Allocate(t, "push", s, "push", q) /\ k <= MaxChain
              /\ At(t, "idle") /\ Started(t, "push", s, "push") /\ th'[t].chain = q /\ q # <<>>
         /\ TypeOK' /\ ControlOK'
<1>0. n \in Nat /\ n + 1 \in Nat /\ n + 1 # 0 /\ n + 1 <= MaxChain
  BY StackAssumption
<1>10. PICK k \in Nat :
         k <= MaxChain /\ k # 0 /\ \E q \in Fresh(k) : Allocate(t, "push", s, "push", q)
  BY <1>0 DEF PushCopies
<1>1. PICK q \in Fresh(k) : Allocate(t, "push", s, "push", q) /\ k <= MaxChain /\ k # 0
  BY <1>10 DEF PushCopies
<1>2. "push" \in Op /\ "push" \in Label
  BY DEF Op, Label
<1>3. q \in Seq(Node) /\ Len(q) = k
  BY FreshFacts
<1>4. /\ At(t, "idle") /\ Started(t, "push", s, "push")
      /\ th'[t].chain = q /\ th'[t].cur = Null
  BY <1>1, <1>2, <1>3, AllocateDoes
<1>5. q # <<>>
  BY <1>1, <1>3, SeqFacts
<1>6. /\ next' \in [Node -> Ptr] /\ life' \in [Node -> {"free", "live", "retired"}]
      /\ UNCHANGED <<head, waits, items>>
  BY <1>1, <1>2, AllocateLinks
<1>7. Agree(th'[t])
  BY <1>4, <1>5 DEF Started, Agree
<1>8. th' \in [Thread -> Local] /\ \A u \in Thread : u # t => th'[u] = th[u]
  BY <1>4 DEF Started
<1>9. TypeOK' /\ ControlOK'
  BY <1>6, <1>7, <1>8, BasicStep DEF TypeOK
<1> QED
  BY <1>1, <1>4, <1>5, <1>9

(* Assign keeps the types and the labels right.                            *)
LEMMA AssignKeeps ==
  ASSUME TypeOK, ControlOK, NEW t \in Thread, NEW s \in Stack, Assign(t, s)
  PROVE  /\ \E k \in Nat : \E q \in Fresh(k) :
              /\ Allocate(t, "assign", s, "spin1", q) /\ k <= MaxChain
              /\ At(t, "idle") /\ Started(t, "assign", s, "spin1") /\ th'[t].chain = q
         /\ TypeOK' /\ ControlOK'
<1>10. PICK k \in Nat :
         k <= MaxChain /\ \E q \in Fresh(k) : Allocate(t, "assign", s, "spin1", q)
  BY StackAssumption DEF Assign
<1>1. PICK q \in Fresh(k) : Allocate(t, "assign", s, "spin1", q) /\ k <= MaxChain
  BY <1>10
<1>2. "assign" \in Op /\ "spin1" \in Label
  BY DEF Op, Label
<1>3. q \in Seq(Node) /\ Len(q) = k
  BY FreshFacts
<1>4. /\ At(t, "idle") /\ Started(t, "assign", s, "spin1")
      /\ th'[t].chain = q /\ th'[t].cur = Null
  BY <1>1, <1>2, <1>3, AllocateDoes
<1>6. /\ next' \in [Node -> Ptr] /\ life' \in [Node -> {"free", "live", "retired"}]
      /\ UNCHANGED <<head, waits, items>>
  BY <1>1, <1>2, AllocateLinks
<1>7. Agree(th'[t])
  BY <1>4 DEF Started, Agree
<1>8. th' \in [Thread -> Local] /\ \A u \in Thread : u # t => th'[u] = th[u]
  BY <1>4 DEF Started
<1>9. TypeOK' /\ ControlOK'
  BY <1>6, <1>7, <1>8, BasicStep DEF TypeOK
<1> QED
  BY <1>1, <1>4, <1>9

(* The chain of a push is not empty, and its nodes are nodes.              *)
LEMMA PushFacts ==
  ASSUME TypeOK, ControlOK, NEW t \in Thread, th[t].op = "push"
  PROVE  /\ th[t].at \in Stack /\ th[t].chain \in Seq(Node) /\ th[t].chain # <<>>
         /\ Last(th[t].chain) \in Node /\ Last(th[t].chain) \in Range(th[t].chain)
         /\ th[t].chain[1] \in Node /\ First(th[t].chain) = th[t].chain[1]
<1>1. th[t].at \in Stack /\ th[t].chain \in Seq(Node) /\ th[t].chain # <<>>
  BY Fields, InCall DEF ControlOK, Agree
<1> QED
  BY <1>1, SeqFacts

(* PushLoad keeps the types and the labels right.                          *)
LEMMA PushLoadKeeps ==
  ASSUME TypeOK, ControlOK, NEW t \in Thread, PushLoad(t)
  PROVE  /\ At(t, "push") /\ th[t].op = "push" /\ ~head[th[t].at].spin
         /\ Moved(t, "publish") /\ Kept(t)
         /\ next' = [next EXCEPT ![Last(th[t].chain)] = head[th[t].at].node]
         /\ UNCHANGED <<head, life, waits, items>>
         /\ TypeOK' /\ ControlOK'
<1>1. At(t, "push") /\ th[t].op = "push" /\ Agree(th[t])
  BY DEF PushLoad, ControlOK, Agree, At
<1>2. /\ Goto(t, "publish") /\ "publish" \in Label
      /\ next' = [next EXCEPT ![Last(th[t].chain)] = head[th[t].at].node]
      /\ UNCHANGED <<head, life, waits, items>> /\ ~head[th[t].at].spin
  BY DEF PushLoad, Label
<1>3. Moved(t, "publish") /\ Kept(t)
  BY <1>2, GotoDoes
<1>4. head[th[t].at].node \in Ptr /\ Last(th[t].chain) \in Node
  BY <1>1, PushFacts, Parts
<1>5. next' \in [Node -> Ptr]
  BY <1>2, <1>4 DEF TypeOK
<1>6. Agree(th'[t])
  BY <1>1, <1>3 DEF Moved, Kept, Agree, At
<1>7. th' \in [Thread -> Local] /\ \A u \in Thread : u # t => th'[u] = th[u]
  BY <1>3 DEF Moved
<1>8. TypeOK' /\ ControlOK'
  BY <1>2, <1>5, <1>6, <1>7, BasicStep DEF TypeOK
<1> QED
  BY <1>1, <1>2, <1>3, <1>8

(* What PushCas does when it succeeds.                                     *)
Pushed(t) ==
  LET s == th[t].at
      q == th[t].chain
  IN  /\ head[s].node = next[Last(q)] /\ ~head[s].spin
      /\ head' = [head EXCEPT ![s] = Unlocked(q[1])]
      /\ items' = [items EXCEPT ![s] = q \o items[s]]
      /\ Ended(t) /\ waits' = Left(t)

(* PushCas keeps the types and the labels right.                           *)
LEMMA PushCasKeeps ==
  ASSUME TypeOK, ControlOK, NEW t \in Thread, PushCas(t)
  PROVE  /\ At(t, "publish") /\ th[t].op = "push" /\ UNCHANGED <<next, life>>
         /\ \/ Pushed(t)
            \/ Moved(t, "push") /\ Kept(t) /\ UNCHANGED <<head, waits, items>>
         /\ TypeOK' /\ ControlOK'
<1>1. At(t, "publish") /\ th[t].op = "push" /\ Agree(th[t]) /\ UNCHANGED <<next, life>>
  BY DEF PushCas, ControlOK, Agree, At
<1>2. /\ th[t].at \in Stack /\ th[t].chain \in Seq(Node) /\ th[t].chain[1] \in Ptr
      /\ items[th[t].at] \in Seq(Node)
  BY <1>1, PushFacts, Names, Parts
<1>3. CASE head[th[t].at] = Unlocked(next[Last(th[t].chain)])
  <2>1. /\ head' = [head EXCEPT ![th[t].at] = Unlocked(th[t].chain[1])]
        /\ items' = [items EXCEPT ![th[t].at] = th[t].chain \o items[th[t].at]]
        /\ Done(t)
    BY <1>3 DEF PushCas
  <2>2. Ended(t) /\ waits' = Left(t)
    BY <2>1, DoneDoes DEF Done
  <2>3. Pushed(t)
    BY <1>2, <1>3, <2>1, <2>2, Parts DEF Pushed
  <2>4. head' \in [Stack -> [node : Ptr, spin : BOOLEAN]]
    BY <1>2, <2>1, UnlockedFacts DEF TypeOK
  <2>5. th[t].chain \o items[th[t].at] \in Seq(Node)
    BY <1>2, ConcatProperties
  <2>6. items' \in [Stack -> Seq(Node)]
    BY <2>1, <2>5 DEF TypeOK
  <2>7. waits' \in [Node -> SUBSET Thread]
    BY <2>2, LeftFacts
  <2>8. TypeOK' /\ ControlOK'
    BY <1>1, <2>2, <2>4, <2>6, <2>7, EndedStep DEF TypeOK
  <2> QED
    BY <1>1, <2>3, <2>8
<1>4. CASE head[th[t].at] # Unlocked(next[Last(th[t].chain)])
  <2>1. Goto(t, "push") /\ UNCHANGED <<head, waits, items>> /\ "push" \in Label
    BY <1>4 DEF PushCas, Label
  <2>2. Moved(t, "push") /\ Kept(t)
    BY <2>1, GotoDoes
  <2>3. Agree(th'[t])
    BY <1>1, <2>2 DEF Moved, Kept, Agree, At
  <2>4. th' \in [Thread -> Local] /\ \A u \in Thread : u # t => th'[u] = th[u]
    BY <2>2 DEF Moved
  <2>5. TypeOK' /\ ControlOK'
    BY <1>1, <2>1, <2>3, <2>4, BasicStep DEF TypeOK
  <2> QED
    BY <1>1, <2>1, <2>2, <2>5
<1> QED
  BY <1>3, <1>4

(* PopLoad keeps the types and the labels right.                           *)
LEMMA PopLoadKeeps ==
  ASSUME TypeOK, ControlOK, NEW t \in Thread, PopLoad(t)
  PROVE  TypeOK' /\ ControlOK' /\ th[t].op = "pop" /\ th[t].chain = <<>>
<1>1. /\ At(t, "pop") /\ UNCHANGED <<head, next, life, items>> /\ Agree(th[t])
      /\ \/ Ended(t) /\ waits' = Left(t)
         \/ /\ head[th[t].at].node # Null /\ waits' = waits
            /\ Moved(t, "next") /\ th'[t].cur = head[th[t].at].node
  BY PopLoadDoes DEF ControlOK
<1>2. th[t].op = "pop" /\ th[t].chain = <<>>
  BY <1>1 DEF Agree, At
<1>3. CASE Ended(t) /\ waits' = Left(t)
  <2>1. waits' \in [Node -> SUBSET Thread]
    BY <1>3, LeftFacts
  <2> QED
    BY <1>1, <1>2, <1>3, <2>1, EndedStep DEF TypeOK
<1>4. CASE /\ head[th[t].at].node # Null /\ waits' = waits
           /\ Moved(t, "next") /\ th'[t].cur = head[th[t].at].node
  <2>1. Agree(th'[t])
    BY <1>1, <1>2, <1>4 DEF Moved, Agree, At
  <2>2. th' \in [Thread -> Local] /\ \A u \in Thread : u # t => th'[u] = th[u]
    BY <1>4 DEF Moved
  <2> QED
    BY <1>1, <1>2, <1>4, <2>1, <2>2, BasicStep DEF TypeOK
<1> QED
  BY <1>1, <1>3, <1>4

(* PopNext keeps the types and the labels right.                           *)
LEMMA PopNextKeeps ==
  ASSUME TypeOK, ControlOK, NEW t \in Thread, PopNext(t)
  PROVE  TypeOK' /\ ControlOK' /\ th[t].op = "pop" /\ th[t].cur \in Node
<1>1. /\ At(t, "next") /\ UNCHANGED <<head, next, life, waits, items>> /\ Agree(th[t])
      /\ Moved(t, "take") /\ th'[t].cur = th[t].cur
  BY PopNextDoes DEF ControlOK
<1>2. Agree(th'[t]) /\ th[t].op = "pop" /\ th[t].cur # Null
  BY <1>1 DEF Moved, Agree, At
<1>3. th' \in [Thread -> Local] /\ \A u \in Thread : u # t => th'[u] = th[u]
  BY <1>1 DEF Moved
<1>4. th[t].cur \in Node
  BY <1>2, Fields DEF Ptr
<1> QED
  BY <1>1, <1>2, <1>3, <1>4, BasicStep DEF TypeOK

(* What PopCas does when it succeeds.                                      *)
Took(t) ==
  LET s == th[t].at IN
  /\ head[s].node = th[t].cur /\ ~head[s].spin
  /\ head' = [head EXCEPT ![s] = Unlocked(th[t].nx)]
  /\ items' = [items EXCEPT ![s] = Tail(items[s])]
  /\ Moved(t, "cut") /\ Kept(t)

(* A pop that succeeds finds a node on its stack.                          *)
LEMMA PopCasKeeps ==
  ASSUME TypeOK, ControlOK, NEW t \in Thread, PopCas(t),
         head[th[t].at] = Unlocked(th[t].cur) => items[th[t].at] # <<>>
  PROVE  /\ At(t, "take") /\ th[t].op = "pop" /\ UNCHANGED <<next, life, waits>>
         /\ th[t].cur \in Node /\ th[t].at \in Stack
         /\ \/ Took(t)
            \/ Moved(t, "pop") /\ Kept(t) /\ UNCHANGED <<head, items>>
         /\ TypeOK' /\ ControlOK'
<1>1. At(t, "take") /\ th[t].op = "pop" /\ Agree(th[t]) /\ UNCHANGED <<next, life, waits>>
  BY DEF PopCas, ControlOK, Agree, At
<1>2. th[t].at \in Stack /\ th[t].cur \in Node /\ th[t].nx \in Ptr
  BY <1>1, Fields, InCall DEF Agree, At, Ptr
<1>3. CASE head[th[t].at] = Unlocked(th[t].cur)
  <2>1. /\ head' = [head EXCEPT ![th[t].at] = Unlocked(th[t].nx)]
        /\ items' = [items EXCEPT ![th[t].at] = Tail(items[th[t].at])]
        /\ Goto(t, "cut") /\ "cut" \in Label
    BY <1>3 DEF PopCas, Label
  <2>2. Moved(t, "cut") /\ Kept(t)
    BY <2>1, GotoDoes
  <2>3. Took(t)
    BY <1>2, <1>3, <2>1, <2>2, Parts DEF Took
  <2>4. head' \in [Stack -> [node : Ptr, spin : BOOLEAN]]
    BY <1>2, <2>1, UnlockedFacts DEF TypeOK
  <2>5. Tail(items[th[t].at]) \in Seq(Node)
    BY <1>2, <1>3, Parts, HeadTailProperties
  <2>6. items' \in [Stack -> Seq(Node)]
    BY <2>1, <2>5 DEF TypeOK
  <2>7. Agree(th'[t])
    BY <1>1, <2>2 DEF Moved, Kept, Agree, At
  <2>8. th' \in [Thread -> Local] /\ \A u \in Thread : u # t => th'[u] = th[u]
    BY <2>2 DEF Moved
  <2>9. TypeOK' /\ ControlOK'
    BY <1>1, <2>4, <2>6, <2>7, <2>8, BasicStep DEF TypeOK
  <2> QED
    BY <1>1, <1>2, <2>3, <2>9
<1>4. CASE head[th[t].at] # Unlocked(th[t].cur)
  <2>1. Goto(t, "pop") /\ UNCHANGED <<head, items>> /\ "pop" \in Label
    BY <1>4 DEF PopCas, Label
  <2>2. Moved(t, "pop") /\ Kept(t)
    BY <2>1, GotoDoes
  <2>3. Agree(th'[t])
    BY <1>1, <2>2 DEF Moved, Kept, Agree, At
  <2>4. th' \in [Thread -> Local] /\ \A u \in Thread : u # t => th'[u] = th[u]
    BY <2>2 DEF Moved
  <2>5. TypeOK' /\ ControlOK'
    BY <1>1, <2>1, <2>3, <2>4, BasicStep DEF TypeOK
  <2> QED
    BY <1>1, <1>2, <2>1, <2>2, <2>5
<1> QED
  BY <1>3, <1>4

(* PopCut keeps the types and the labels right.                            *)
LEMMA PopCutKeeps ==
  ASSUME TypeOK, ControlOK, NEW t \in Thread, PopCut(t)
  PROVE  /\ At(t, "cut") /\ th[t].op = "pop" /\ th[t].cur \in Node
         /\ next' = [next EXCEPT ![th[t].cur] = Null]
         /\ Moved(t, "value") /\ Kept(t) /\ UNCHANGED <<head, life, waits, items>>
         /\ TypeOK' /\ ControlOK'
<1>1. /\ At(t, "cut") /\ Agree(th[t]) /\ Goto(t, "value") /\ "value" \in Label
      /\ next' = [next EXCEPT ![th[t].cur] = Null]
      /\ UNCHANGED <<head, life, waits, items>>
  BY DEF PopCut, ControlOK, Label
<1>2. Moved(t, "value") /\ Kept(t)
  BY <1>1, GotoDoes
<1>3. Agree(th'[t]) /\ th[t].op = "pop" /\ th[t].cur # Null
  BY <1>1, <1>2 DEF Moved, Kept, Agree, At
<1>4. th[t].cur \in Node
  BY <1>3, Fields DEF Ptr
<1>5. next' \in [Node -> Ptr]
  BY <1>1, <1>4, Names DEF TypeOK
<1>6. th' \in [Thread -> Local] /\ \A u \in Thread : u # t => th'[u] = th[u]
  BY <1>2 DEF Moved
<1>7. TypeOK' /\ ControlOK'
  BY <1>1, <1>3, <1>5, <1>6, BasicStep DEF TypeOK
<1> QED
  BY <1>1, <1>2, <1>3, <1>4, <1>7

(* What finalizing a node does.                                            *)
Finalized(t, n) ==
  /\ life' = [life EXCEPT ![n] = "retired"]
  /\ waits'[n] = {u \in Thread \ {t} : InCs(u)}
  /\ \A m \in Node : m # n => waits'[m] = waits[m] \ {t}
  /\ Ended(t) /\ UNCHANGED <<head, next, items>>

(* Finalized keeps the types and the labels right.                         *)
LEMMA FinalizedKeeps ==
  ASSUME TypeOK, ControlOK, NEW t \in Thread, NEW n \in Node, Retire(t, n),
         UNCHANGED <<head, next, items>>
  PROVE  Finalized(t, n) /\ TypeOK' /\ ControlOK'
<1>1. /\ Finalized(t, n) /\ waits' \in [Node -> SUBSET Thread]
  BY RetireDoes DEF Finalized
<1>2. life' \in [Node -> {"free", "live", "retired"}]
  BY <1>1 DEF Finalized, TypeOK
<1>3. Ended(t)
  BY <1>1 DEF Finalized
<1>4. TypeOK' /\ ControlOK'
  BY <1>1, <1>2, <1>3, EndedStep DEF TypeOK
<1> QED
  BY <1>1, <1>4

(* PopFinish keeps the types and the labels right.                         *)
LEMMA PopFinishKeeps ==
  ASSUME TypeOK, ControlOK, NEW t \in Thread, PopFinish(t)
  PROVE  /\ At(t, "value") /\ th[t].op = "pop" /\ th[t].cur \in Node
         /\ th[t].chain = <<>> /\ Finalized(t, th[t].cur)
         /\ TypeOK' /\ ControlOK'
<1>1. /\ At(t, "value") /\ th[t].op = "pop" /\ Agree(th[t]) /\ Retire(t, th[t].cur)
      /\ UNCHANGED <<head, next, items>>
  BY DEF PopFinish, ControlOK
<1>2. th[t].cur # Null /\ th[t].chain = <<>>
  BY <1>1 DEF Agree, At
<1>3. th[t].cur \in Node
  BY <1>2, Fields DEF Ptr
<1>4. Finalized(t, th[t].cur) /\ TypeOK' /\ ControlOK'
  BY <1>1, <1>3, FinalizedKeeps
<1> QED
  BY <1>1, <1>2, <1>3, <1>4

(* ReplaceFinish keeps the types and the labels right.                     *)
LEMMA ReplaceFinishKeeps ==
  ASSUME TypeOK, ControlOK, NEW t \in Thread, ReplaceFinish(t)
  PROVE  /\ At(t, "retire") /\ th[t].chain = <<>> /\ th[t].op \in {"clear", "assign"}
         /\ \/ /\ th[t].cur = Null /\ Ended(t) /\ waits' = Left(t)
               /\ UNCHANGED <<head, next, life, items>>
            \/ th[t].cur \in Node /\ Finalized(t, th[t].cur)
         /\ TypeOK' /\ ControlOK'
<1>1. At(t, "retire") /\ Agree(th[t]) /\ UNCHANGED <<head, next, items>>
  BY DEF ReplaceFinish, ControlOK
<1>2. th[t].chain = <<>> /\ th[t].op \in {"clear", "assign"}
  BY <1>1 DEF Agree, At
<1>3. CASE th[t].cur = Null
  <2>1. Done(t) /\ life' = life
    BY <1>3 DEF ReplaceFinish
  <2>2. Ended(t) /\ waits' = Left(t) /\ waits' \in [Node -> SUBSET Thread]
    BY <2>1, DoneDoes, LeftFacts DEF Done
  <2>3. TypeOK' /\ ControlOK'
    BY <1>1, <2>1, <2>2, EndedStep DEF TypeOK
  <2> QED
    BY <1>1, <1>2, <1>3, <2>1, <2>2, <2>3
<1>4. CASE th[t].cur # Null
  <2>1. Retire(t, th[t].cur)
    BY <1>4 DEF ReplaceFinish
  <2>2. th[t].cur \in Node
    BY <1>4, Fields DEF Ptr
  <2>3. Finalized(t, th[t].cur) /\ TypeOK' /\ ControlOK'
    BY <1>1, <2>1, <2>2, FinalizedKeeps
  <2> QED
    BY <1>1, <1>2, <2>2, <2>3
<1> QED
  BY <1>3, <1>4

(* TopFinish keeps the types and the labels right.                         *)
LEMMA TopFinishKeeps ==
  ASSUME TypeOK, ControlOK, NEW t \in Thread, TopFinish(t)
  PROVE  /\ At(t, "value") /\ th[t].op = "top" /\ th[t].chain = <<>>
         /\ Ended(t) /\ waits' = Left(t) /\ UNCHANGED <<head, next, life, items>>
         /\ TypeOK' /\ ControlOK'
<1>1. /\ At(t, "value") /\ Agree(th[t])
      /\ Done(t) /\ UNCHANGED <<head, next, life, items>>
  BY DEF TopFinish, ControlOK
<1>2. th[t].op = "top" /\ th[t].chain = <<>>
  BY <1>1 DEF Agree, At, TopFinish
<1>3. Ended(t) /\ waits' = Left(t) /\ waits' \in [Node -> SUBSET Thread]
  BY <1>1, DoneDoes, LeftFacts DEF Done
<1>4. TypeOK' /\ ControlOK'
  BY <1>1, <1>3, EndedStep DEF TypeOK
<1> QED
  BY <1>1, <1>2, <1>3, <1>4

(* SizeWild keeps the types and the labels right.                          *)
LEMMA SizeWildKeeps ==
  ASSUME TypeOK, ControlOK, NEW t \in Thread, SizeWild(t)
  PROVE  /\ At(t, "wild") /\ th[t].op = "size" /\ th[t].chain = <<>>
         /\ Ended(t) /\ waits' = Left(t) /\ UNCHANGED <<head, next, life, items>>
         /\ TypeOK' /\ ControlOK'
<1>1. /\ At(t, "wild") /\ Agree(th[t]) /\ Done(t) /\ UNCHANGED <<head, next, life, items>>
  BY DEF SizeWild, ControlOK
<1>2. th[t].op = "size" /\ th[t].chain = <<>>
  BY <1>1 DEF Agree, At
<1>3. Ended(t) /\ waits' = Left(t) /\ waits' \in [Node -> SUBSET Thread]
  BY <1>1, DoneDoes, LeftFacts DEF Done
<1>4. TypeOK' /\ ControlOK'
  BY <1>1, <1>3, EndedStep DEF TypeOK
<1> QED
  BY <1>1, <1>2, <1>3, <1>4

(* WalkEnd keeps the types and the labels right.                           *)
LEMMA WalkEndKeeps ==
  ASSUME TypeOK, ControlOK, NEW t \in Thread, WalkEnd(t)
  PROVE  /\ At(t, "walk") /\ th[t].op \in {"walk", "size"} /\ th[t].chain = <<>>
         /\ Ended(t) /\ waits' = Left(t) /\ UNCHANGED <<head, next, life, items>>
         /\ TypeOK' /\ ControlOK'
<1>1. /\ At(t, "walk") /\ Agree(th[t]) /\ Done(t) /\ UNCHANGED <<head, next, life, items>>
  BY DEF WalkEnd, ControlOK
<1>2. th[t].op \in {"walk", "size"} /\ th[t].chain = <<>>
  BY <1>1 DEF Agree, At
<1>3. Ended(t) /\ waits' = Left(t) /\ waits' \in [Node -> SUBSET Thread]
  BY <1>1, DoneDoes, LeftFacts DEF Done
<1>4. TypeOK' /\ ControlOK'
  BY <1>1, <1>3, EndedStep DEF TypeOK
<1> QED
  BY <1>1, <1>2, <1>3, <1>4

(* TopLoad keeps the types and the labels right.                           *)
LEMMA TopLoadKeeps ==
  ASSUME TypeOK, ControlOK, NEW t \in Thread, TopLoad(t)
  PROVE  TypeOK' /\ ControlOK' /\ th[t].op = "top" /\ th[t].chain = <<>> /\ Readers # {}
         /\ th[t].at \in Stack
<1>1. /\ At(t, "top") /\ UNCHANGED <<head, next, life, items>> /\ Agree(th[t])
      /\ \/ Ended(t) /\ waits' = Left(t)
         \/ /\ head[th[t].at].node # Null /\ waits' = waits
            /\ Moved(t, "value") /\ th'[t].cur = head[th[t].at].node
  BY TopLoadDoes DEF ControlOK
<1>2. th[t].op = "top" /\ th[t].chain = <<>> /\ Readers # {} /\ th[t].at \in Stack
  BY <1>1 DEF Agree, At
<1>3. CASE Ended(t) /\ waits' = Left(t)
  <2>1. waits' \in [Node -> SUBSET Thread]
    BY <1>3, LeftFacts
  <2> QED
    BY <1>1, <1>2, <1>3, <2>1, EndedStep DEF TypeOK
<1>4. CASE /\ head[th[t].at].node # Null /\ waits' = waits
           /\ Moved(t, "value") /\ th'[t].cur = head[th[t].at].node
  <2>1. Agree(th'[t])
    BY <1>1, <1>2, <1>4 DEF Moved, Agree, At
  <2>2. th' \in [Thread -> Local] /\ \A u \in Thread : u # t => th'[u] = th[u]
    BY <1>4 DEF Moved
  <2> QED
    BY <1>1, <1>2, <1>4, <2>1, <2>2, BasicStep DEF TypeOK
<1> QED
  BY <1>1, <1>3, <1>4

(* Guard keeps the types and the labels right.                             *)
LEMMA GuardKeeps ==
  ASSUME TypeOK, ControlOK, NEW t \in Thread, Guard(t)
  PROVE  /\ At(t, "bare") /\ th[t].op = "walk" /\ th[t].chain = <<>>
         /\ Moved(t, "walk") /\ Kept(t) /\ UNCHANGED <<head, next, life, waits, items>>
         /\ TypeOK' /\ ControlOK'
<1>1. /\ At(t, "bare") /\ Agree(th[t]) /\ Goto(t, "walk") /\ "walk" \in Label
      /\ UNCHANGED <<head, next, life, waits, items>>
  BY DEF Guard, ControlOK, Label
<1>2. Moved(t, "walk") /\ Kept(t)
  BY <1>1, GotoDoes
<1>3. Agree(th'[t]) /\ th[t].op = "walk" /\ th[t].chain = <<>>
  BY <1>1, <1>2 DEF Moved, Kept, Agree, At
<1>4. th' \in [Thread -> Local] /\ \A u \in Thread : u # t => th'[u] = th[u]
  BY <1>2 DEF Moved
<1>5. TypeOK' /\ ControlOK'
  BY <1>1, <1>3, <1>4, BasicStep DEF TypeOK
<1> QED
  BY <1>1, <1>2, <1>3, <1>5

(* SizeLoad keeps the types and the labels right.                          *)
LEMMA SizeLoadKeeps ==
  ASSUME TypeOK, ControlOK, NEW t \in Thread, SizeLoad(t)
  PROVE  TypeOK' /\ ControlOK' /\ th[t].op = "size" /\ th[t].at \in Stack
<1>1. /\ At(t, "size") /\ UNCHANGED <<head, next, life, waits, items>> /\ Agree(th[t])
      /\ Moved(t, "wild") \/ Moved(t, "walk")
  BY SizeLoadDoes DEF ControlOK
<1>2. th[t].op = "size" /\ th[t].at \in Stack
  BY <1>1 DEF Agree, At
<1>3. Agree(th'[t])
  BY <1>1, <1>2 DEF Moved, Agree, At
<1>4. th' \in [Thread -> Local] /\ \A u \in Thread : u # t => th'[u] = th[u]
  BY <1>1 DEF Moved
<1> QED
  BY <1>1, <1>2, <1>3, <1>4, BasicStep DEF TypeOK

(* Walk keeps the types and the labels right.                              *)
LEMMA WalkKeeps ==
  ASSUME TypeOK, ControlOK, NEW t \in Thread, Walk(t)
  PROVE  TypeOK' /\ ControlOK' /\ th[t].op \in {"walk", "size"}
<1>1. /\ At(t, "walk") /\ UNCHANGED <<head, next, life, waits, items>> /\ Agree(th[t])
      /\ Moved(t, "walk")
  BY WalkDoes DEF ControlOK
<1>2. th[t].op \in {"walk", "size"}
  BY <1>1 DEF Agree, At
<1>3. Agree(th'[t])
  BY <1>1, <1>2 DEF Moved, Agree, At
<1>4. th' \in [Thread -> Local] /\ \A u \in Thread : u # t => th'[u] = th[u]
  BY <1>1 DEF Moved
<1> QED
  BY <1>1, <1>2, <1>3, <1>4, BasicStep DEF TypeOK

(* SpinLoad keeps the types and the labels right.                          *)
LEMMA SpinLoadKeeps ==
  ASSUME TypeOK, ControlOK, NEW t \in Thread, SpinLoad(t)
  PROVE  TypeOK' /\ ControlOK'
<1>1. /\ UNCHANGED <<head, next, life, waits, items>> /\ Agree(th[t])
      /\ \/ At(t, "spin1") /\ Moved(t, "mark1")
         \/ At(t, "spin2") /\ Moved(t, "mark2")
  BY SpinLoadDoes DEF ControlOK
<1>2. Agree(th'[t])
  BY <1>1 DEF Moved, Agree, At
<1>3. th' \in [Thread -> Local] /\ \A u \in Thread : u # t => th'[u] = th[u]
  BY <1>1 DEF Moved
<1> QED
  BY <1>1, <1>2, <1>3, BasicStep DEF TypeOK

(* Setting the spin bit of a head.                                         *)
LEMMA SpunFacts ==
  ASSUME TypeOK, NEW s \in Stack, head' = [head EXCEPT ![s].spin = TRUE]
  PROVE  /\ head' \in [Stack -> [node : Ptr, spin : BOOLEAN]]
         /\ head'[s].spin /\ head'[s].node = head[s].node
         /\ \A r \in Stack : r # s => head'[r] = head[r]
<1>1. head[s] \in [node : Ptr, spin : BOOLEAN]
  BY DEF TypeOK
<1> DEFINE h == [head[s] EXCEPT !.spin = TRUE]
<1>2. h \in [node : Ptr, spin : BOOLEAN] /\ h.spin = TRUE /\ h.node = head[s].node
  BY <1>1
<1>3. head' = [head EXCEPT ![s] = h]
  BY DEF TypeOK
<1> HIDE DEF h
<1> QED
  BY <1>2, <1>3 DEF TypeOK

(* SpinCas keeps the types and the labels right.                           *)
LEMMA SpinCasKeeps ==
  ASSUME TypeOK, ControlOK, NEW t \in Thread, SpinCas(t)
  PROVE  TypeOK' /\ ControlOK'
<1>1. /\ UNCHANGED <<next, life, waits, items>> /\ Kept(t) /\ Agree(th[t])
      /\ \/ /\ head' = head
            /\ \/ At(t, "mark1") /\ Moved(t, "spin1")
               \/ At(t, "mark2") /\ Moved(t, "spin2")
         \/ /\ At(t, "mark1") /\ head[th[t].at] = Unlocked(th[t].cur)
            /\ head' = [head EXCEPT ![th[t].at].spin = TRUE]
            /\ \/ th[t].op = "swap" /\ Moved(t, "spin2")
               \/ th[t].op # "swap" /\ Moved(t, "store")
         \/ /\ At(t, "mark2") /\ head[th[t].other] = Unlocked(th[t].nx)
            /\ head' = [head EXCEPT ![th[t].other].spin = TRUE]
            /\ Moved(t, "store1")
  BY SpinCasDoes DEF ControlOK
<1>2. Agree(th'[t])
  BY <1>1 DEF Moved, Agree, At
<1>3. th' \in [Thread -> Local] /\ \A u \in Thread : u # t => th'[u] = th[u]
  BY <1>1 DEF Moved
<1>4. /\ At(t, "mark1") => th[t].at \in Stack
      /\ At(t, "mark2") => th[t].other \in Stack
  BY <1>1, InCall DEF Agree, At
<1>5. head' \in [Stack -> [node : Ptr, spin : BOOLEAN]]
  <2>1. CASE head' = head
    BY <2>1 DEF TypeOK
  <2>2. CASE At(t, "mark1") /\ head' = [head EXCEPT ![th[t].at].spin = TRUE]
    BY <1>4, <2>2, SpunFacts
  <2>3. CASE At(t, "mark2") /\ head' = [head EXCEPT ![th[t].other].spin = TRUE]
    BY <1>4, <2>3, SpunFacts
  <2> QED
    BY <1>1, <2>1, <2>2, <2>3
<1> QED
  BY <1>1, <1>2, <1>3, <1>5, BasicStep DEF TypeOK

(* SwapFirst keeps the types and the labels right.                         *)
LEMMA SwapFirstKeeps ==
  ASSUME TypeOK, ControlOK, NEW t \in Thread, SwapFirst(t)
  PROVE  /\ At(t, "store1") /\ th[t].op = "swap" /\ th[t].chain = <<>>
         /\ th[t].at \in Stack /\ th[t].other \in Stack /\ th[t].at # th[t].other
         /\ head' = [head EXCEPT ![th[t].at] = Unlocked(th[t].nx)]
         /\ items' = [items EXCEPT ![th[t].at] = items[th[t].other],
                                   ![th[t].other] = items[th[t].at]]
         /\ Moved(t, "store2") /\ Kept(t) /\ UNCHANGED <<next, life, waits>>
         /\ TypeOK' /\ ControlOK'
<1>1. /\ At(t, "store1") /\ Agree(th[t]) /\ Goto(t, "store2") /\ "store2" \in Label
      /\ head' = [head EXCEPT ![th[t].at] = Unlocked(th[t].nx)]
      /\ items' = [items EXCEPT ![th[t].at] = items[th[t].other],
                                ![th[t].other] = items[th[t].at]]
      /\ UNCHANGED <<next, life, waits>>
  BY DEF SwapFirst, ControlOK, Label
<1>2. Moved(t, "store2") /\ Kept(t)
  BY <1>1, GotoDoes
<1>3. Agree(th'[t]) /\ th[t].op = "swap" /\ th[t].chain = <<>>
  BY <1>1, <1>2 DEF Moved, Kept, Agree, At
<1>4. th[t].at \in Stack /\ th[t].other \in Stack /\ th[t].at # th[t].other
      /\ th[t].nx \in Ptr
  BY <1>3, InCall, Fields
<1>5. head' \in [Stack -> [node : Ptr, spin : BOOLEAN]]
  BY <1>1, <1>4, UnlockedFacts DEF TypeOK
<1>6. items' \in [Stack -> Seq(Node)]
  BY <1>1, <1>4 DEF TypeOK
<1>7. th' \in [Thread -> Local] /\ \A u \in Thread : u # t => th'[u] = th[u]
  BY <1>2 DEF Moved
<1>8. TypeOK' /\ ControlOK'
  BY <1>1, <1>3, <1>5, <1>6, <1>7, BasicStep DEF TypeOK
<1> QED
  BY <1>1, <1>2, <1>3, <1>4, <1>8

(* SwapSecond keeps the types and the labels right.                        *)
LEMMA SwapSecondKeeps ==
  ASSUME TypeOK, ControlOK, NEW t \in Thread, SwapSecond(t)
  PROVE  /\ At(t, "store2") /\ th[t].op = "swap" /\ th[t].chain = <<>>
         /\ th[t].other \in Stack
         /\ head' = [head EXCEPT ![th[t].other] = Unlocked(th[t].cur)]
         /\ Ended(t) /\ waits' = Left(t) /\ UNCHANGED <<next, life, items>>
         /\ TypeOK' /\ ControlOK'
<1>1. /\ At(t, "store2") /\ Agree(th[t]) /\ Done(t)
      /\ head' = [head EXCEPT ![th[t].other] = Unlocked(th[t].cur)]
      /\ UNCHANGED <<next, life, items>>
  BY DEF SwapSecond, ControlOK
<1>2. th[t].op = "swap" /\ th[t].chain = <<>>
  BY <1>1 DEF Agree, At
<1>3. Ended(t) /\ waits' = Left(t) /\ waits' \in [Node -> SUBSET Thread]
  BY <1>1, DoneDoes, LeftFacts DEF Done
<1>4. th[t].other \in Stack /\ th[t].cur \in Ptr
  BY <1>2, InCall, Fields
<1>5. head' \in [Stack -> [node : Ptr, spin : BOOLEAN]]
  BY <1>1, <1>4, UnlockedFacts DEF TypeOK
<1>6. TypeOK' /\ ControlOK'
  BY <1>1, <1>3, <1>5, EndedStep DEF TypeOK
<1> QED
  BY <1>1, <1>2, <1>3, <1>4, <1>6

(* ReplaceStore keeps the types and the labels right.                      *)
LEMMA ReplaceStoreKeeps ==
  ASSUME TypeOK, ControlOK, NEW t \in Thread, ReplaceStore(t)
  PROVE  /\ th[t].op \in {"clear", "assign"} /\ th[t].at \in Stack
         /\ th[t].chain \in Seq(Node) /\ TypeOK' /\ ControlOK'
<1>1. /\ At(t, "store") /\ UNCHANGED <<next, life>> /\ waits' = Left(t)
      /\ head' = [head EXCEPT ![th[t].at] = Unlocked(First(th[t].chain))]
      /\ items' = [items EXCEPT ![th[t].at] = th[t].chain]
      /\ th' \in [Thread -> Local] /\ th'[t].pc = "retire" /\ th'[t].chain = <<>>
      /\ \A u \in Thread : u # t => th'[u] = th[u]
      /\ th'[t].op = th[t].op /\ th'[t].at = th[t].at /\ Agree(th[t])
  BY ReplaceStoreDoes DEF ControlOK
<1>2. th[t].op \in {"clear", "assign"} /\ th[t].at \in Stack
  BY <1>1 DEF Agree, At
<1>3. Agree(th'[t])
  BY <1>1, <1>2 DEF Agree
<1>4. th[t].chain \in Seq(Node) /\ First(th[t].chain) \in Ptr
  BY Fields, FirstFacts
<1>5. head' \in [Stack -> [node : Ptr, spin : BOOLEAN]]
  BY <1>1, <1>2, <1>4, UnlockedFacts DEF TypeOK
<1>6. items' \in [Stack -> Seq(Node)] /\ waits' \in [Node -> SUBSET Thread]
  BY <1>1, <1>2, <1>4, LeftFacts DEF TypeOK
<1>7. TypeOK' /\ ControlOK'
  BY <1>1, <1>3, <1>5, <1>6, BasicStep DEF TypeOK
<1> QED
  BY <1>2, <1>4, <1>7

(* SafeDestroy keeps the types and the labels right.                       *)
LEMMA SafeDestroyKeeps ==
  ASSUME TypeOK, ControlOK, NEW n \in Node, SafeDestroy(n)
  PROVE  /\ life[n] = "retired" /\ waits[n] = {} /\ UNCHANGED <<head, waits, th, items>>
         /\ \A m \in Node :
              life'[m] = IF m = n THEN "free"
                         ELSE IF m = next[n] THEN "retired" ELSE life[m]
         /\ next' = [next EXCEPT ![n] = Null]
         /\ TypeOK' /\ ControlOK'
<1>1. /\ life[n] = "retired" /\ waits[n] = {} /\ UNCHANGED <<head, waits, th, items>>
      /\ life' = [m \in Node |-> IF m = n THEN "free"
                                 ELSE IF m = next[n] THEN "retired" ELSE life[m]]
      /\ next' = [next EXCEPT ![n] = Null]
  BY DEF SafeDestroy
<1>2. next' \in [Node -> Ptr] /\ life' \in [Node -> {"free", "live", "retired"}]
  BY <1>1, Names DEF TypeOK
<1>3. TypeOK'
  BY <1>1, <1>2 DEF TypeOK
<1>4. ControlOK'
  BY <1>1 DEF ControlOK
<1> QED
  BY <1>1, <1>3, <1>4

-----------------------------------------------------------------------------
(* The heads.                                                              *)

(* Where a thread has set a spin bit.                                      *)
HolderPc == {"store", "spin2", "mark2", "store1", "store2"}

(* What a thread holds depends on nobody else.                             *)
LEMMA HoldsFrame ==
  ASSUME NEW t \in Thread, \A u \in Thread : u # t => th'[u] = th[u]
  PROVE  \A u \in Thread, s \in Stack :
           /\ u # t => (Holds(u, s)' <=> Holds(u, s))
           /\ th'[t].pc \notin HolderPc => ~Holds(t, s)'
           /\ th[t].pc \notin HolderPc => ~Holds(t, s)
  BY DEF Holds, HolderPc

(* Who has set the bit of the stack of a thread.                           *)
LEMMA HoldsMine ==
  ASSUME TypeOK, ControlOK, NEW t \in Thread
  PROVE  /\ th[t].pc \in {"store", "spin2", "mark2", "store1"} =>
              th[t].at \in Stack /\ Holds(t, th[t].at)
         /\ th[t].pc \in {"store1", "store2"} =>
              th[t].other \in Stack /\ Holds(t, th[t].other)
<1>1. /\ th[t].pc \in {"store", "spin2", "mark2", "store1"} => th[t].at \in Stack
      /\ th[t].pc \in {"store1", "store2"} => th[t].other \in Stack
  BY InCall
<1> QED
  BY <1>1 DEF Holds

(* A step of a thread that has set no bit, and leaves the heads alone.     *)
LEMMA HeadsQuiet ==
  ASSUME HeadsOK, NEW t \in Thread, \A u \in Thread : u # t => th'[u] = th[u],
         UNCHANGED <<head, items>>, th[t].pc \notin HolderPc, th'[t].pc \notin HolderPc
  PROVE  HeadsOK'
<1>1. \A u \in Thread, s \in Stack : Holds(u, s)' <=> Holds(u, s)
  BY HoldsFrame
<1>2. \A u \in Thread, s \in Stack :
        At(u, "store2")' /\ th'[u].other = s <=> At(u, "store2") /\ th[u].other = s
  BY DEF At, HolderPc
<1>3. \A s \in Stack : (\A u \in Thread : ~(At(u, "store2")' /\ th'[u].other = s)) =>
                         head'[s].node = First(items'[s])
  BY <1>2 DEF HeadsOK
<1>4. \A u \in Thread :
        /\ th'[u].pc = "store2" => th'[u].cur = First(items'[th'[u].other])
        /\ th'[u].pc \in {"store", "spin2", "mark2", "store1"} =>
             th'[u].cur = First(items'[th'[u].at])
        /\ th'[u].pc = "store1" => th'[u].nx = First(items'[th'[u].other])
  BY DEF HeadsOK, HolderPc
<1> QED
  BY <1>1, <1>3, <1>4 DEF HeadsOK

(* A step that stores the head of a stack and its contents: nobody else    *)
(* has set the bit, and afterwards nobody has.                             *)
LEMMA HeadsStore ==
  ASSUME TypeOK, ControlOK, HeadsOK, NEW t \in Thread,
         \A u \in Thread : u # t => th'[u] = th[u],
         NEW s \in Stack, NEW n,
         head' = [head EXCEPT ![s] = Unlocked(n)],
         \A r \in Stack : r # s => items'[r] = items[r],
         First(items'[s]) = n,
         \A u \in Thread : u # t => ~Holds(u, s),
         \A r \in Stack : Holds(t, r) => r = s,
         th'[t].pc \notin HolderPc
  PROVE  HeadsOK'
<1>1. /\ \A u \in Thread, r \in Stack : Holds(u, r)' => u # t /\ r # s /\ Holds(u, r)
  BY HoldsFrame
<1>2. /\ head'[s] = Unlocked(n) /\ head'[s].node = n
      /\ \A r \in Stack : r # s => head'[r] = head[r]
  BY UnlockedFacts DEF TypeOK
<1>3. \A u \in Thread, r \in Stack : Holds(u, r)' => head'[r].spin
  BY <1>1, <1>2 DEF HeadsOK
<1>4. \A u, v \in Thread, r \in Stack : Holds(u, r)' /\ Holds(v, r)' => u = v
  BY <1>1 DEF HeadsOK
<1>5. \A r \in Stack : (\A u \in Thread : ~(At(u, "store2")' /\ th'[u].other = r)) =>
                         head'[r].node = First(items'[r])
  <2>1. SUFFICES ASSUME NEW r \in Stack,
                        \A u \in Thread : ~(At(u, "store2")' /\ th'[u].other = r)
                 PROVE  head'[r].node = First(items'[r])
    OBVIOUS
  <2>2. CASE r = s
    BY <1>2, <2>2
  <2>3. CASE r # s
    <3>1. ASSUME NEW u \in Thread, At(u, "store2"), th[u].other = r PROVE FALSE
      <4>1. Holds(u, r)
        BY <3>1 DEF Holds, At
      <4>2. u # t
        BY <2>3, <4>1
      <4>3. At(u, "store2")' /\ th'[u].other = r
        BY <3>1, <4>2 DEF At
      <4> QED
        BY <2>1, <4>3
    <3>2. head[r].node = First(items[r])
      BY <3>1 DEF HeadsOK
    <3> QED
      BY <1>2, <2>3, <3>2
  <2> QED
    BY <2>2, <2>3
<1>6. ASSUME NEW u \in Thread
      PROVE /\ th'[u].pc = "store2" => th'[u].cur = First(items'[th'[u].other])
            /\ th'[u].pc \in {"store", "spin2", "mark2", "store1"} =>
                 th'[u].cur = First(items'[th'[u].at])
            /\ th'[u].pc = "store1" => th'[u].nx = First(items'[th'[u].other])
  <2>1. CASE u = t
    BY <2>1 DEF HolderPc
  <2>2. CASE u # t
    <3>1. th'[u] = th[u]
      BY <2>2
    <3>2. /\ th[u].pc \in {"store", "spin2", "mark2", "store1"} =>
               th[u].at \in Stack /\ th[u].at # s
          /\ th[u].pc \in {"store1", "store2"} => th[u].other \in Stack /\ th[u].other # s
      BY <2>2, HoldsMine
    <3> QED
      BY <3>1, <3>2 DEF HeadsOK
  <2> QED
    BY <2>1, <2>2
<1> QED
  BY <1>3, <1>4, <1>5, <1>6 DEF HeadsOK

(* A head without the bit is the first node of its stack.                  *)
LEMMA OpenHead ==
  ASSUME TypeOK, ControlOK, HeadsOK, NEW s \in Stack, ~head[s].spin
  PROVE  /\ \A u \in Thread : ~Holds(u, s)
         /\ head[s].node = First(items[s])
<1>1. \A u \in Thread : ~Holds(u, s)
  BY DEF HeadsOK
<1>2. \A u \in Thread : ~(At(u, "store2") /\ th[u].other = s)
  BY <1>1 DEF Holds, At
<1> QED
  BY <1>1, <1>2 DEF HeadsOK

(* A push that succeeds changes the head of its stack, whose bit is clear. *)
LEMMA PushedHeads ==
  ASSUME TypeOK, ControlOK, HeadsOK, NEW t \in Thread, th[t].op = "push", Pushed(t),
         At(t, "publish")
  PROVE  HeadsOK'
<1> DEFINE s == th[t].at
           q == th[t].chain
<1>1. s \in Stack /\ q \in Seq(Node) /\ q # <<>> /\ items[s] \in Seq(Node)
  BY PushFacts, Parts
<1>2. /\ ~head[s].spin /\ head' = [head EXCEPT ![s] = Unlocked(q[1])]
      /\ items' = [items EXCEPT ![s] = q \o items[s]] /\ Ended(t)
  BY DEF Pushed
<1>3. First(q \o items[s]) = q[1]
  <2>1. /\ q \o items[s] \in Seq(Node) /\ Len(q \o items[s]) = Len(q) + Len(items[s])
        /\ \A i \in 1..Len(q) + Len(items[s]) :
             (q \o items[s])[i] = IF i <= Len(q) THEN q[i] ELSE items[s][i - Len(q)]
    BY <1>1, ConcatProperties
  <2>2. Len(q) \in Nat \ {0} /\ Len(items[s]) \in Nat
    BY <1>1, SeqFacts
  <2>a. \A m \in Nat \ {0}, n \in Nat : 1 \in 1..m + n /\ 1 <= m /\ ~(m + n = 0)
    OBVIOUS
  <2>3. 1 \in 1..Len(q) + Len(items[s]) /\ 1 <= Len(q) /\ ~(Len(q) + Len(items[s]) = 0)
    BY <2>2, <2>a
  <2>4. (q \o items[s])[1] = q[1]
    BY <2>1, <2>3
  <2> QED
    BY <2>1, <2>3, <2>4, SeqFacts
<1>4. /\ items'[s] = q \o items[s] /\ \A r \in Stack : r # s => items'[r] = items[r]
  BY <1>1, <1>2 DEF TypeOK
<1>5. \A u \in Thread : ~Holds(u, s)
  BY <1>1, <1>2, OpenHead
<1>6. \A r \in Stack : ~Holds(t, r)
  BY DEF Holds, At
<1>7. th'[t].pc \notin HolderPc /\ \A u \in Thread : u # t => th'[u] = th[u]
  BY <1>2, RestFacts DEF Ended, HolderPc
<1>8. First(items'[s]) = q[1]
  BY <1>3, <1>4
<1> HIDE DEF s, q
<1> QED
  BY <1>1, <1>2, <1>4, <1>5, <1>6, <1>7, <1>8, HeadsStore

(* So does a pop that succeeds.                                            *)
LEMMA TookHeads ==
  ASSUME TypeOK, ControlOK, HeadsOK, NEW t \in Thread, Took(t), At(t, "take"),
         th[t].at \in Stack, First(Tail(items[th[t].at])) = th[t].nx
  PROVE  HeadsOK'
<1> DEFINE s == th[t].at
<1>1. /\ ~head[s].spin /\ head' = [head EXCEPT ![s] = Unlocked(th[t].nx)]
      /\ items' = [items EXCEPT ![s] = Tail(items[s])] /\ Moved(t, "cut")
  BY DEF Took
<1>2. /\ items'[s] = Tail(items[s]) /\ \A r \in Stack : r # s => items'[r] = items[r]
  BY <1>1 DEF TypeOK
<1>3. \A u \in Thread : ~Holds(u, s)
  BY <1>1, OpenHead
<1>4. \A r \in Stack : ~Holds(t, r)
  BY DEF Holds, At
<1>5. th'[t].pc \notin HolderPc /\ \A u \in Thread : u # t => th'[u] = th[u]
  BY <1>1 DEF Moved, HolderPc
<1>6. First(items'[s]) = th[t].nx /\ s \in Stack
  BY <1>2
<1> HIDE DEF s
<1> QED
  BY <1>1, <1>2, <1>3, <1>4, <1>5, <1>6, HeadsStore

(* Clear and assign store a new head, which clears the bit they have set.  *)
LEMMA ReplaceStoreHeads ==
  ASSUME TypeOK, ControlOK, HeadsOK, NEW t \in Thread, ReplaceStore(t)
  PROVE  HeadsOK' /\ th[t].cur = First(items[th[t].at])
<1> DEFINE s == th[t].at
<1>1. /\ At(t, "store") /\ head' = [head EXCEPT ![s] = Unlocked(First(th[t].chain))]
      /\ items' = [items EXCEPT ![s] = th[t].chain]
      /\ th'[t].pc = "retire" /\ \A u \in Thread : u # t => th'[u] = th[u]
  BY ReplaceStoreDoes
<1>2. s \in Stack /\ Holds(t, s)
  BY <1>1, HoldsMine DEF At
<1>3. /\ items'[s] = th[t].chain /\ \A r \in Stack : r # s => items'[r] = items[r]
  BY <1>1, <1>2 DEF TypeOK
<1>4. \A u \in Thread : u # t => ~Holds(u, s)
  BY <1>2 DEF HeadsOK
<1>5. \A r \in Stack : Holds(t, r) => r = s
  BY <1>1 DEF Holds, At
<1>6. th'[t].pc \notin HolderPc /\ First(items'[s]) = First(th[t].chain)
  BY <1>1, <1>3 DEF HolderPc
<1>7. th[t].cur = First(items[s])
  BY <1>1 DEF HeadsOK, At
<1> HIDE DEF s
<1>8. HeadsOK'
  BY <1>1, <1>2, <1>3, <1>4, <1>5, <1>6, HeadsStore
<1> QED
  BY <1>7, <1>8 DEF s

(* The second store of swap clears the other one.                          *)
LEMMA SwapSecondHeads ==
  ASSUME TypeOK, ControlOK, HeadsOK, NEW t \in Thread, SwapSecond(t)
  PROVE  HeadsOK'
<1> DEFINE s == th[t].other
<1>1. /\ At(t, "store2") /\ head' = [head EXCEPT ![s] = Unlocked(th[t].cur)]
      /\ items' = items /\ Ended(t) /\ s \in Stack
  BY SwapSecondKeeps
<1>2. Holds(t, s)
  BY <1>1, HoldsMine DEF At
<1>3. \A u \in Thread : u # t => ~Holds(u, s)
  BY <1>1, <1>2 DEF HeadsOK
<1>4. \A r \in Stack : Holds(t, r) => r = s
  BY <1>1 DEF Holds, At
<1>5. th'[t].pc \notin HolderPc /\ \A u \in Thread : u # t => th'[u] = th[u]
  BY <1>1, RestFacts DEF Ended, HolderPc
<1>6. First(items'[s]) = th[t].cur
  BY <1>1 DEF HeadsOK, At
<1> HIDE DEF s
<1> QED
  BY <1>1, <1>3, <1>4, <1>5, <1>6, HeadsStore

(* The first store of swap clears one of its two bits.                     *)
LEMMA SwapFirstHeads ==
  ASSUME TypeOK, ControlOK, HeadsOK, NEW t \in Thread, SwapFirst(t)
  PROVE  HeadsOK'
<1> DEFINE s == th[t].at
           r == th[t].other
<1>1. /\ At(t, "store1") /\ s \in Stack /\ r \in Stack /\ s # r
      /\ head' = [head EXCEPT ![s] = Unlocked(th[t].nx)]
      /\ items' = [items EXCEPT ![s] = items[r], ![r] = items[s]]
      /\ Moved(t, "store2") /\ Kept(t)
  BY SwapFirstKeeps
<1>2. /\ items'[s] = items[r] /\ items'[r] = items[s]
      /\ \A p \in Stack : p # s /\ p # r => items'[p] = items[p]
  BY <1>1 DEF TypeOK
<1>3. /\ head'[s].node = th[t].nx /\ \A p \in Stack : p # s => head'[p] = head[p]
  BY <1>1, UnlockedFacts DEF TypeOK
<1>4. Holds(t, s) /\ Holds(t, r)
  BY <1>1, HoldsMine DEF At
<1>5. \A u \in Thread : u # t => ~Holds(u, s) /\ ~Holds(u, r)
  BY <1>1, <1>4 DEF HeadsOK
<1>6. th[t].nx = First(items[r]) /\ th[t].cur = First(items[s])
  BY <1>1 DEF HeadsOK, At
<1>7. /\ th'[t].pc = "store2" /\ th'[t].other = r /\ th'[t].cur = th[t].cur
      /\ \A u \in Thread : u # t => th'[u] = th[u]
  BY <1>1 DEF Moved, Kept
<1>8. \A p \in Stack : Holds(t, p)' <=> p = r
  BY <1>7 DEF Holds
<1>9. \A u \in Thread, p \in Stack : u # t => (Holds(u, p)' <=> Holds(u, p))
  BY <1>7, HoldsFrame
<1> HIDE DEF s, r
<1>10. \A u \in Thread, p \in Stack : Holds(u, p)' => head'[p].spin
  <2>1. TAKE u \in Thread, p \in Stack
  <2>2. CASE u = t
    BY <1>1, <1>3, <1>4, <1>8, <2>2 DEF HeadsOK
  <2>3. CASE u # t
    BY <1>3, <1>5, <1>9, <2>3 DEF HeadsOK
  <2> QED
    BY <2>2, <2>3
<1>11. \A u, v \in Thread, p \in Stack : Holds(u, p)' /\ Holds(v, p)' => u = v
  BY <1>1, <1>5, <1>8, <1>9 DEF HeadsOK
<1>12. \A p \in Stack : (\A u \in Thread : ~(At(u, "store2")' /\ th'[u].other = p)) =>
                          head'[p].node = First(items'[p])
  <2>1. SUFFICES ASSUME NEW p \in Stack,
                        \A u \in Thread : ~(At(u, "store2")' /\ th'[u].other = p)
                 PROVE  head'[p].node = First(items'[p])
    OBVIOUS
  <2>2. p # r
    BY <1>7, <2>1 DEF At
  <2>3. CASE p = s
    BY <1>2, <1>3, <1>6, <2>3
  <2>4. CASE p # s
    <3>1. \A u \in Thread : ~(At(u, "store2") /\ th[u].other = p)
      BY <1>1, <1>7, <2>1 DEF At
    <3>2. head[p].node = First(items[p])
      BY <3>1 DEF HeadsOK
    <3> QED
      BY <1>2, <1>3, <2>2, <2>4, <3>2
  <2> QED
    BY <2>3, <2>4
<1>13. ASSUME NEW u \in Thread
       PROVE /\ th'[u].pc = "store2" => th'[u].cur = First(items'[th'[u].other])
             /\ th'[u].pc \in {"store", "spin2", "mark2", "store1"} =>
                  th'[u].cur = First(items'[th'[u].at])
             /\ th'[u].pc = "store1" => th'[u].nx = First(items'[th'[u].other])
  <2>1. CASE u = t
    BY <1>2, <1>6, <1>7, <2>1
  <2>2. CASE u # t
    <3>1. th'[u] = th[u]
      BY <1>7, <2>2
    <3>2. /\ th[u].pc \in {"store", "spin2", "mark2", "store1"} =>
               th[u].at \in Stack /\ th[u].at # s /\ th[u].at # r
          /\ th[u].pc \in {"store1", "store2"} =>
               th[u].other \in Stack /\ th[u].other # s /\ th[u].other # r
      BY <1>5, <2>2, HoldsMine
    <3> QED
      BY <1>2, <3>1, <3>2 DEF HeadsOK
  <2> QED
    BY <2>1, <2>2
<1> QED
  BY <1>10, <1>11, <1>12, <1>13 DEF HeadsOK

(* Setting the bit of a head that did not have it.                         *)
LEMMA SpunHeads ==
  ASSUME TypeOK, ControlOK, HeadsOK, NEW t \in Thread, NEW s \in Stack,
         ~head[s].spin, head' = [head EXCEPT ![s].spin = TRUE], items' = items,
         \A u \in Thread : u # t => th'[u] = th[u],
         \A r \in Stack : Holds(t, r)' <=> Holds(t, r) \/ r = s,
         ~At(t, "store2"), th'[t].pc # "store2",
         th'[t].pc \in {"store", "spin2", "mark2", "store1"} =>
           th'[t].cur = First(items[th'[t].at]),
         th'[t].pc = "store1" => th'[t].nx = First(items[th'[t].other])
  PROVE  HeadsOK'
<1>1. /\ head'[s].spin /\ head'[s].node = head[s].node
      /\ \A r \in Stack : r # s => head'[r] = head[r]
  BY SpunFacts
<1>2. \A u \in Thread, r \in Stack : u # t => (Holds(u, r)' <=> Holds(u, r))
  BY HoldsFrame
<1>3. \A u \in Thread : ~Holds(u, s)
  BY OpenHead
<1>4. \A u \in Thread, r \in Stack : Holds(u, r)' => head'[r].spin
  BY <1>1, <1>2, <1>3 DEF HeadsOK
<1>5. \A u, v \in Thread, r \in Stack : Holds(u, r)' /\ Holds(v, r)' => u = v
  <2>1. SUFFICES ASSUME NEW u \in Thread, NEW v \in Thread, NEW r \in Stack,
                        Holds(u, r)', Holds(v, r)'
                 PROVE  u = v
    OBVIOUS
  <2>2. CASE r = s
    BY <1>2, <1>3, <2>1, <2>2
  <2>3. CASE r # s
    <3>1. Holds(u, r) /\ Holds(v, r)
      BY <1>2, <2>1, <2>3
    <3> QED
      BY <3>1 DEF HeadsOK
  <2> QED
    BY <2>2, <2>3
<1>6. \A r \in Stack : (\A u \in Thread : ~(At(u, "store2")' /\ th'[u].other = r)) =>
                         head'[r].node = First(items'[r])
  <2>1. SUFFICES ASSUME NEW r \in Stack,
                        \A u \in Thread : ~(At(u, "store2")' /\ th'[u].other = r)
                 PROVE  head'[r].node = First(items'[r])
    OBVIOUS
  <2>2. \A u \in Thread : ~(At(u, "store2") /\ th[u].other = r)
    BY <2>1 DEF At
  <2>3. head[r].node = First(items[r])
    BY <2>2 DEF HeadsOK
  <2>4. head'[r].node = head[r].node
    BY <1>1
  <2> QED
    BY <2>3, <2>4
<1>7. \A u \in Thread :
        /\ th'[u].pc = "store2" => th'[u].cur = First(items'[th'[u].other])
        /\ th'[u].pc \in {"store", "spin2", "mark2", "store1"} =>
             th'[u].cur = First(items'[th'[u].at])
        /\ th'[u].pc = "store1" => th'[u].nx = First(items'[th'[u].other])
  BY DEF HeadsOK
<1> QED
  BY <1>4, <1>5, <1>6, <1>7 DEF HeadsOK

(* What SpinCas does to the heads.                                         *)
LEMMA SpinCasHeads ==
  ASSUME TypeOK, ControlOK, HeadsOK, NEW t \in Thread, SpinCas(t)
  PROVE  HeadsOK'
<1> DEFINE w == th[t]
<1>1. /\ UNCHANGED <<next, life, waits, items>> /\ Kept(t) /\ Agree(w)
      /\ \/ head' = head /\ At(t, "mark1") /\ Moved(t, "spin1")
         \/ head' = head /\ At(t, "mark2") /\ Moved(t, "spin2")
         \/ /\ At(t, "mark1") /\ head[w.at] = Unlocked(w.cur)
            /\ head' = [head EXCEPT ![w.at].spin = TRUE]
            /\ Moved(t, "spin2") \/ Moved(t, "store")
         \/ /\ At(t, "mark2") /\ head[w.other] = Unlocked(w.nx)
            /\ head' = [head EXCEPT ![w.other].spin = TRUE]
            /\ Moved(t, "store1")
  BY SpinCasDoes DEF ControlOK
<1>2. CASE head' = head /\ At(t, "mark1") /\ Moved(t, "spin1")
  BY <1>1, <1>2, HeadsQuiet DEF Moved, At, HolderPc
<1>3. CASE head' = head /\ At(t, "mark2") /\ Moved(t, "spin2")
  <2>1. \A u \in Thread, s \in Stack : Holds(u, s)' <=> Holds(u, s)
    BY <1>3 DEF Moved, At, Holds
  <2>2. \A u \in Thread, s \in Stack :
          At(u, "store2")' /\ th'[u].other = s <=> At(u, "store2") /\ th[u].other = s
    BY <1>3 DEF Moved, At
  <2>3. \A s \in Stack : (\A u \in Thread : ~(At(u, "store2")' /\ th'[u].other = s)) =>
                           head'[s].node = First(items'[s])
    BY <1>1, <1>3, <2>2 DEF HeadsOK
  <2>4. \A u \in Thread :
          /\ th'[u].pc = "store2" => th'[u].cur = First(items'[th'[u].other])
          /\ th'[u].pc \in {"store", "spin2", "mark2", "store1"} =>
               th'[u].cur = First(items'[th'[u].at])
          /\ th'[u].pc = "store1" => th'[u].nx = First(items'[th'[u].other])
    BY <1>1, <1>3 DEF HeadsOK, Moved, Kept, At
  <2> QED
    BY <1>1, <1>3, <2>1, <2>3, <2>4 DEF HeadsOK
<1>4. CASE /\ At(t, "mark1") /\ head[w.at] = Unlocked(w.cur)
           /\ head' = [head EXCEPT ![w.at].spin = TRUE]
           /\ Moved(t, "spin2") \/ Moved(t, "store")
  <2>1. w.at \in Stack
    BY <1>4, InCall DEF At
  <2>2. ~head[w.at].spin /\ head[w.at].node = w.cur
    BY <1>4, <2>1, Parts
  <2>3. w.cur = First(items[w.at])
    BY <2>1, <2>2, OpenHead
  <2>4. /\ \A u \in Thread : u # t => th'[u] = th[u]
        /\ th'[t].pc \in {"spin2", "store"} /\ th'[t].at = w.at /\ th'[t].cur = w.cur
    BY <1>1, <1>4 DEF Moved, Kept
  <2>5. \A r \in Stack : Holds(t, r)' <=> Holds(t, r) \/ r = w.at
    BY <1>4, <2>4 DEF Holds, At
  <2>6. ~At(t, "store2") /\ th'[t].pc # "store2" /\ th'[t].pc # "store1"
    BY <1>4, <2>4 DEF At
  <2> QED
    BY <1>1, <1>4, <2>1, <2>2, <2>3, <2>4, <2>5, <2>6, SpunHeads
<1>5. CASE /\ At(t, "mark2") /\ head[w.other] = Unlocked(w.nx)
           /\ head' = [head EXCEPT ![w.other].spin = TRUE]
           /\ Moved(t, "store1")
  <2>1. w.other \in Stack
    BY <1>5, InCall DEF At
  <2>2. ~head[w.other].spin /\ head[w.other].node = w.nx
    BY <1>5, <2>1, Parts
  <2>3. w.nx = First(items[w.other]) /\ w.cur = First(items[w.at])
    BY <1>5, <2>1, <2>2, OpenHead DEF HeadsOK, At
  <2>4. /\ \A u \in Thread : u # t => th'[u] = th[u]
        /\ th'[t].pc = "store1" /\ th'[t].at = w.at /\ th'[t].cur = w.cur
        /\ th'[t].other = w.other /\ th'[t].nx = w.nx
    BY <1>1, <1>5 DEF Moved, Kept
  <2>5. \A r \in Stack : Holds(t, r)' <=> Holds(t, r) \/ r = w.other
    BY <1>5, <2>4 DEF Holds, At
  <2>6. ~At(t, "store2") /\ th'[t].pc # "store2"
    BY <1>5, <2>4 DEF At
  <2> QED
    BY <1>1, <1>5, <2>1, <2>2, <2>3, <2>4, <2>5, <2>6, SpunHeads
<1> QED
  BY <1>1, <1>2, <1>3, <1>4, <1>5

(* SpinLoad leaves the heads as they are.                                  *)
LEMMA SpinLoadHeads ==
  ASSUME TypeOK, ControlOK, HeadsOK, NEW t \in Thread, SpinLoad(t)
  PROVE  HeadsOK'
<1>1. /\ UNCHANGED <<head, next, life, waits, items>>
      /\ \/ At(t, "spin1") /\ Moved(t, "mark1")
         \/ At(t, "spin2") /\ Moved(t, "mark2") /\ th'[t].cur = th[t].cur
  BY SpinLoadDoes
<1>2. CASE At(t, "spin1") /\ Moved(t, "mark1")
  BY <1>1, <1>2, HeadsQuiet DEF Moved, At, HolderPc
<1>3. CASE At(t, "spin2") /\ Moved(t, "mark2") /\ th'[t].cur = th[t].cur
  <2>1. \A u \in Thread, s \in Stack : Holds(u, s)' <=> Holds(u, s)
    BY <1>3 DEF Moved, At, Holds
  <2>2. \A u \in Thread, s \in Stack :
          At(u, "store2")' /\ th'[u].other = s <=> At(u, "store2") /\ th[u].other = s
    BY <1>3 DEF Moved, At
  <2>3. \A s \in Stack : (\A u \in Thread : ~(At(u, "store2")' /\ th'[u].other = s)) =>
                           head'[s].node = First(items'[s])
    BY <1>1, <2>2 DEF HeadsOK
  <2>4. \A u \in Thread :
          /\ th'[u].pc = "store2" => th'[u].cur = First(items'[th'[u].other])
          /\ th'[u].pc \in {"store", "spin2", "mark2", "store1"} =>
               th'[u].cur = First(items'[th'[u].at])
          /\ th'[u].pc = "store1" => th'[u].nx = First(items'[th'[u].other])
    BY <1>1, <1>3 DEF HeadsOK, Moved, At
  <2> QED
    BY <1>1, <2>1, <2>3, <2>4 DEF HeadsOK
<1> QED
  BY <1>1, <1>2, <1>3

-----------------------------------------------------------------------------
(* Where the nodes are.                                                    *)

(* Links that differ elsewhere string a chain together as well.            *)
LEMMA StrungFrame ==
  ASSUME NEW q \in Seq(Node), NEW f, NEW g, \A n \in Range(q) : g[n] = f[n]
  PROVE  /\ Strung(q, f) => Strung(q, g)
         /\ Open(q, f) => Open(q, g)
<1>1. \A i \in 1..Len(q) : g[q[i]] = f[q[i]]
  BY SeqFacts
<1> QED
  BY <1>1 DEF Strung, Open

(* A node that was popped is a node.                                       *)
LEMMA PoppedFacts ==
  ASSUME TypeOK, ControlOK, NEW t \in Thread, th[t].op = "pop",
         At(t, "cut") \/ At(t, "value")
  PROVE  th[t].cur \in Node /\ Popped(t, th[t].cur)
<1>1. th[t].cur # Null
  BY DEF ControlOK, Agree, At
<1>2. th[t].cur \in Node
  BY <1>1, Fields DEF Ptr
<1> QED
  BY <1>2 DEF Popped

(* Links that agree with those in memory on the nodes of one place.        *)
Alike(f, kind, where, k, p) ==
  \A n \in Node : kind[n] = k /\ where[n] = p => f[n] = next[n]

(* The links of a stack, after a step that leaves them as they are.        *)
LEMMA StackLinks ==
  ASSUME TypeOK, ControlOK, NEW kind, NEW where, NEW gone \in [Node -> Seq(Node)],
         PlacesOK(kind, where, gone), LinksOK(gone), NEW f,
         NEW s \in Stack,
         Alike(f, kind, where, "stack", s)
  PROVE  Strung(items[s], f)
<1>1. items[s] \in Seq(Node) /\ Strung(items[s], next)
  BY Parts DEF LinksOK
<1>2. \A n \in Range(items[s]) : f[n] = next[n]
  BY <1>1, SeqFacts DEF PlacesOK, Placed, Alike
<1> QED
  BY <1>1, <1>2, StrungFrame

(* The same for the links of a chain on its way out.                       *)
LEMMA GoneLinks ==
  ASSUME TypeOK, ControlOK, NEW kind, NEW where, NEW gone \in [Node -> Seq(Node)],
         PlacesOK(kind, where, gone), LinksOK(gone), NEW f,
         NEW r \in Node,
         Alike(f, kind, where, "out", r)
  PROVE  Strung(gone[r], f)
<1>1. gone[r] \in Seq(Node) /\ Strung(gone[r], next)
  BY DEF LinksOK
<1>2. \A n \in Range(gone[r]) : f[n] = next[n]
  BY <1>1, SeqFacts DEF PlacesOK, Placed, Alike
<1> QED
  BY <1>1, <1>2, StrungFrame

(* The same for the links of a chain that no stack has yet.                *)
LEMMA ChainLinks ==
  ASSUME TypeOK, ControlOK, NEW kind, NEW where, NEW gone \in [Node -> Seq(Node)],
         PlacesOK(kind, where, gone), LinksOK(gone), NEW f,
         NEW t \in Thread,
         Alike(f, kind, where, "chain", t)
  PROVE  Open(th[t].chain, f) /\ (th[t].op = "assign" => Strung(th[t].chain, f))
<1>1. /\ th[t].chain \in Seq(Node) /\ Open(th[t].chain, next)
      /\ th[t].op = "assign" => Strung(th[t].chain, next)
  BY Fields DEF LinksOK
<1>2. \A n \in Range(th[t].chain) : f[n] = next[n]
  BY <1>1, SeqFacts DEF PlacesOK, Placed, Alike
<1> QED
  BY <1>1, <1>2, StrungFrame

(* The same for the link of a node that was popped and cut off.            *)
LEMMA HandLinks ==
  ASSUME TypeOK, ControlOK, NEW kind, NEW where, NEW gone \in [Node -> Seq(Node)],
         PlacesOK(kind, where, gone), LinksOK(gone), NEW f,
         NEW t \in Thread,
         Alike(f, kind, where, "hand", t)
  PROVE  Cut(th[t], f)
<1>1. SUFFICES ASSUME At(t, "value"), th[t].op = "pop" PROVE f[th[t].cur] = Null
  BY DEF Cut, At
<1>2. th[t].cur \in Node /\ Popped(t, th[t].cur)
  BY <1>1, PoppedFacts
<1>3. next[th[t].cur] = Null
  BY <1>1 DEF LinksOK, Cut, At
<1> QED
  BY <1>2, <1>3 DEF PlacesOK, Placed, Alike

(* The same for all the links.                                             *)
LEMMA LinksAll ==
  ASSUME TypeOK, ControlOK, NEW kind, NEW where, NEW gone \in [Node -> Seq(Node)],
         PlacesOK(kind, where, gone), LinksOK(gone), NEW f,
         \A n \in Node : kind[n] # "free" => f[n] = next[n]
  PROVE  /\ \A s \in Stack : Strung(items[s], f)
         /\ \A r \in Node : Strung(gone[r], f)
         /\ \A t \in Thread : /\ Open(th[t].chain, f)
                              /\ th[t].op = "assign" => Strung(th[t].chain, f)
                              /\ Cut(th[t], f)
<1>1. ASSUME NEW s \in Stack PROVE Strung(items[s], f)
  <2>1. Alike(f, kind, where, "stack", s)
    BY DEF Alike
  <2> QED
    BY <2>1, StackLinks
<1>2. ASSUME NEW r \in Node PROVE Strung(gone[r], f)
  <2>1. Alike(f, kind, where, "out", r)
    BY DEF Alike
  <2> QED
    BY <2>1, GoneLinks
<1>3. ASSUME NEW t \in Thread
      PROVE  Open(th[t].chain, f) /\ (th[t].op = "assign" => Strung(th[t].chain, f))
  <2>1. Alike(f, kind, where, "chain", t)
    BY DEF Alike
  <2> QED
    BY <2>1, ChainLinks
<1>4. ASSUME NEW t \in Thread PROVE Cut(th[t], f)
  <2>1. Alike(f, kind, where, "hand", t)
    BY DEF Alike
  <2> QED
    BY <2>1, HandLinks
<1> QED
  BY <1>1, <1>2, <1>3, <1>4

(* A step of a thread that moves no node.                                  *)
LEMMA PlacesStill ==
  ASSUME NEW kind, NEW where, NEW gone, PlacesOK(kind, where, gone),
         NEW t \in Thread, \A u \in Thread : u # t => th'[u] = th[u],
         items' = items, \A n \in Node : life'[n] = "free" <=> life[n] = "free",
         th'[t].chain = th[t].chain, \A n \in Node : Popped(t, n)' <=> Popped(t, n)
  PROVE  PlacesOK(kind, where, gone)'
<1>1. \A u \in Thread, n \in Node : Popped(u, n)' <=> Popped(u, n)
  BY DEF Popped, At
<1>2. \A u \in Thread : th'[u].chain = th[u].chain
  OBVIOUS
<1> QED
  BY <1>1, <1>2 DEF PlacesOK, Placed

(* A step of a thread that makes, pops, changes and finalizes no node.     *)
LEMMA NodesStill ==
  ASSUME NEW kind, NEW where, NEW gone,
         PlacesOK(kind, where, gone), LinksOK(gone), GoneOK(gone),
         NEW t \in Thread, \A u \in Thread : u # t => th'[u] = th[u],
         UNCHANGED <<items, life, next>>,
         th'[t].chain = th[t].chain,
         th'[t].op = "assign" => th[t].op = "assign" \/ th[t].chain = <<>>,
         ~(At(t, "cut") \/ (At(t, "value") /\ th[t].op = "pop")),
         ~(At(t, "cut")' \/ (At(t, "value")' /\ th'[t].op = "pop")),
         At(t, "retire") => th[t].cur = Null, ~At(t, "retire")'
  PROVE  PlacesOK(kind, where, gone)' /\ LinksOK(gone)' /\ GoneOK(gone)'
<1>1. PlacesOK(kind, where, gone)'
  <2>1. \A n \in Node : Popped(t, n)' <=> Popped(t, n)
    BY DEF Popped
  <2> QED
    BY <2>1, PlacesStill
<1>2. ASSUME NEW u \in Thread
      PROVE  /\ Open(th'[u].chain, next)
             /\ th'[u].op = "assign" => Strung(th'[u].chain, next)
             /\ Cut(th'[u], next)
  <2>1. CASE u = t
    BY <2>1, EmptyFacts DEF LinksOK, Cut, At
  <2>2. CASE u # t
    BY <2>2 DEF LinksOK, At
  <2> QED
    BY <2>1, <2>2
<1>3. LinksOK(gone)'
  BY <1>2 DEF LinksOK
<1>4. \A u \in Thread : At(u, "retire") /\ th[u].cur # Null =>
                          At(u, "retire")' /\ th'[u].cur = th[u].cur
  BY DEF At
<1>5. \A u \in Thread : At(u, "retire")' => At(u, "retire") /\ th'[u].cur = th[u].cur
  BY DEF At
<1>6. \A r \in Node :
        gone[r] # <<>> =>
          /\ gone[r][1] = r
          /\ life'[r] = "retired" \/ \E u \in Thread : At(u, "retire")' /\ th'[u].cur = r
  BY <1>4, Names DEF GoneOK
<1>7. GoneOK(gone)'
  BY <1>5, <1>6 DEF GoneOK
<1> QED
  BY <1>1, <1>3, <1>7
-----------------------------------------------------------------------------
(* What the sections can come to.                                          *)

(* What a section can come to after a step: what it could come to before,  *)
(* and what is in a stack now.                                             *)
Safe(safe, kind) ==
  [u \in Thread |-> (IF InCs(u) THEN safe[u] ELSE {})
                      \cup {n \in Node : kind[n] = "stack"}]

(* Threads that follow pointers, except iterators not made yet, are inside *)
(* a section.                                                              *)
LEMMA Inside ==
  ASSUME ControlOK, NEW t \in Thread
  PROVE  /\ th[t].pc \in {"next", "take", "cut", "value", "walk"} => InCs(t)
         /\ Careful /\ th[t].pc = "bare" => InCs(t)
  BY DEF ControlOK, Agree, InCs, At, Careful

(* A step that takes no node from under a section, sets next pointers of   *)
(* nodes it can come to only to null, and leaves its chains alone.         *)
Gentle(safe, kind, k2) ==
  /\ \A n \in Node : k2[n] = "stack" => kind[n] \in {"stack", "chain"}
  /\ \A n \in Node : kind[n] = "stack" => next'[n] = next[n]
  /\ \A u \in Thread : InCs(u) /\ InCs(u)' =>
       \A n \in safe[u] : next'[n] = next[n] \/ next'[n] = Null

(* What sections can come to, after a step: what they could come to        *)
(* before, and what is in a stack.                                         *)
LEMMA SafeStep ==
  ASSUME NEW safe \in [Thread -> SUBSET Node], NEW kind, NEW where, NEW k2,
         NEW w2, NEW s2,
         SafeOK(safe, kind, where), s2 = Safe(safe, k2), Gentle(safe, kind, k2),
         \A n \in Node : k2[n] = "stack" =>
           next'[n] = Null \/ (next'[n] \in Node /\ k2[next'[n]] = "stack"),
         \A u \in Thread : InCs(u) /\ InCs(u)' =>
           \A n \in safe[u] :
             /\ k2[n] \in {"stack", "hand", "out"}
             /\ k2[n] = "out" /\ life'[w2[n]] = "retired" => u \in waits'[w2[n]]
  PROVE  s2 \in [Thread -> SUBSET Node] /\ SafeOK(s2, k2, w2)'
<1>1. s2 \in [Thread -> SUBSET Node]
  BY DEF Safe
<1>2. ASSUME NEW u \in Thread, InCs(u)'
      PROVE  /\ \A n \in Node : k2[n] = "stack" => n \in s2[u]
             /\ \A n \in s2[u] :
                  /\ k2[n] \in {"stack", "hand", "out"}
                  /\ k2[n] = "out" /\ life'[w2[n]] = "retired" => u \in waits'[w2[n]]
                  /\ next'[n] \in s2[u] \cup {Null}
  <2>1. s2[u] = (IF InCs(u) THEN safe[u] ELSE {}) \cup {n \in Node : k2[n] = "stack"}
    BY DEF Safe
  <2>2. ASSUME NEW n \in Node, k2[n] = "stack"
        PROVE  n \in s2[u] /\ next'[n] \in s2[u] \cup {Null}
    BY <2>1, <2>2
  <2>3. ASSUME NEW n \in safe[u], InCs(u)
        PROVE  /\ k2[n] \in {"stack", "hand", "out"}
               /\ k2[n] = "out" /\ life'[w2[n]] = "retired" => u \in waits'[w2[n]]
               /\ next'[n] \in s2[u] \cup {Null}
    <3>1. next[n] \in safe[u] \cup {Null}
      BY <2>3 DEF SafeOK
    <3> QED
      BY <1>2, <2>1, <2>3, <3>1 DEF Gentle
  <2>4. ASSUME NEW n \in s2[u], k2[n] # "stack" PROVE n \in safe[u] /\ InCs(u)
    BY <2>1, <2>4
  <2>5. ASSUME NEW n \in s2[u]
        PROVE /\ k2[n] \in {"stack", "hand", "out"}
              /\ k2[n] = "out" /\ life'[w2[n]] = "retired" => u \in waits'[w2[n]]
              /\ next'[n] \in s2[u] \cup {Null}
    <3>1. CASE k2[n] = "stack"
      BY <1>1, <2>2, <3>1
    <3>2. CASE k2[n] # "stack"
      BY <2>3, <2>4, <3>2
    <3> QED
      BY <3>1, <3>2
  <2> QED
    BY <2>2, <2>5
<1> QED
  BY <1>1, <1>2 DEF SafeOK

(* The other threads stand where they stood.                               *)
LEMMA StandStep ==
  ASSUME TypeOK, ControlOK, ControlOK', NEW safe \in [Thread -> SUBSET Node],
         NEW kind, NEW where, NEW k2, NEW s2,
         SafeOK(safe, kind, where), PopsOK(safe, kind), ReadsOK(safe),
         s2 = Safe(safe, k2), Gentle(safe, kind, k2),
         NEW u \in Thread, th'[u] = th[u], InCs(u)' <=> InCs(u)
  PROVE  /\ Pops(th'[u], s2[u], next', k2)
         /\ Careful => Reads(th'[u], s2[u], next')
<1> DEFINE w == th[u]
<1>1. InCs(u) => safe[u] \subseteq s2[u]
  BY DEF Safe
<1>2. w.pc \in {"next", "take", "cut"} => InCs(u) /\ w.cur \in safe[u]
  BY Inside DEF PopsOK, Pops
<1>3. w.pc = "take" /\ k2[w.cur] = "stack" => w.nx = next'[w.cur]
  <2>1. SUFFICES ASSUME w.pc = "take", k2[w.cur] = "stack" PROVE w.nx = next'[w.cur]
    OBVIOUS
  <2>2. w.cur \in Node /\ kind[w.cur] \in {"stack", "hand", "out"}
    BY <1>2, <2>1 DEF SafeOK
  <2>3. kind[w.cur] = "stack"
    BY <2>1, <2>2 DEF Gentle
  <2> QED
    BY <2>1, <2>2, <2>3 DEF PopsOK, Pops, Gentle
<1>4. Pops(th'[u], s2[u], next', k2)
  BY <1>1, <1>2, <1>3 DEF Pops
<1>5. ASSUME Careful PROVE Reads(th'[u], s2[u], next')
  <2>1. Reads(w, safe[u], next)
    BY <1>5 DEF ReadsOK
  <2>2. w.pc \in {"value", "bare", "walk"} => InCs(u)
    BY <1>5, Inside
  <2>3. ASSUME w.pc \in {"bare", "walk"}, NEW i \in 1..Len(w.path)
        PROVE  /\ w.path[i] \in s2[u]
               /\ next'[w.path[i]] # Null =>
                    i < Len(w.path) /\ next'[w.path[i]] = w.path[i + 1]
    <3>1. /\ w.path[i] \in safe[u]
          /\ next[w.path[i]] # Null =>
               i < Len(w.path) /\ next[w.path[i]] = w.path[i + 1]
      BY <2>1, <2>3 DEF Reads
    <3>2. next'[w.path[i]] = next[w.path[i]] \/ next'[w.path[i]] = Null
      BY <2>2, <2>3, <3>1 DEF Gentle
    <3> QED
      BY <1>1, <2>2, <2>3, <3>1, <3>2
  <2>4. w.pc \in {"value", "bare", "walk"} => w.cur \in s2[u] \cup {Null}
    BY <1>1, <2>1, <2>2 DEF Reads
  <2>5. w.pc \in {"bare", "walk"} =>
          /\ w.cur # Null => w.cnt < Len(w.path) /\ w.cur = w.path[w.cnt + 1]
          /\ w.pc = "bare" => w.cnt = 0
    BY <2>1 DEF Reads
  <2> HIDE DEF w
  <2>6. Reads(w, s2[u], next')
    BY <2>3, <2>4, <2>5 DEF Reads
  <2> QED
    BY <2>6 DEF w
<1> QED
  BY <1>4, <1>5

(* The same, and where the threads stand, for a step of one thread.        *)
LEMMA ThreadSafe ==
  ASSUME TypeOK, ControlOK, ControlOK', NEW safe \in [Thread -> SUBSET Node],
         NEW kind, NEW where, NEW k2, NEW w2,
         SafeOK(safe, kind, where), PopsOK(safe, kind), ReadsOK(safe),
         Gentle(safe, kind, k2),
         \A n \in Node : k2[n] = "stack" =>
           next'[n] = Null \/ (next'[n] \in Node /\ k2[next'[n]] = "stack"),
         \A u \in Thread : InCs(u) /\ InCs(u)' =>
           \A n \in safe[u] :
             /\ k2[n] \in {"stack", "hand", "out"}
             /\ k2[n] = "out" /\ life'[w2[n]] = "retired" => u \in waits'[w2[n]],
         NEW t \in Thread, \A u \in Thread : u # t => th'[u] = th[u],
         Pops(th'[t], Safe(safe, k2)[t], next', k2),
         Careful => Reads(th'[t], Safe(safe, k2)[t], next')
  PROVE  \E s2 \in [Thread -> SUBSET Node] :
           SafeOK(s2, k2, w2)' /\ PopsOK(s2, k2)' /\ ReadsOK(s2)'
<1>1. PICK s2 : s2 = Safe(safe, k2)
  OBVIOUS
<1>2. s2 \in [Thread -> SUBSET Node] /\ SafeOK(s2, k2, w2)'
  BY <1>1, SafeStep
<1>3. \A u \in Thread : u # t => (InCs(u)' <=> InCs(u))
  BY DEF InCs, At
<1>4. ASSUME NEW u \in Thread
      PROVE  /\ Pops(th'[u], s2[u], next', k2)
             /\ Careful => Reads(th'[u], s2[u], next')
  <2>1. CASE u = t
    BY <1>1, <2>1
  <2>2. CASE u # t
    BY <1>1, <1>3, <2>2, StandStep
  <2> QED
    BY <2>1, <2>2
<1>5. PopsOK(s2, k2)'
  BY <1>4 DEF PopsOK
<1>6. ReadsOK(s2)'
  BY <1>4 DEF ReadsOK, Careful
<1> QED
  BY <1>2, <1>5, <1>6

(* The nodes of a stack lead to nodes of the stack.                        *)
LEMMA Leads ==
  ASSUME NEW k, NEW w, NEW its \in [Stack -> Seq(Node)], NEW f,
         \A n \in Node : k[n] = "stack" => w[n] \in Stack,
         \A n \in Node, s \in Stack : n \in Range(its[s]) <=> k[n] = "stack" /\ w[n] = s,
         \A s \in Stack : Strung(its[s], f)
  PROVE  \A n \in Node : k[n] = "stack" =>
           f[n] = Null \/ (f[n] \in Node /\ k[f[n]] = "stack")
<1>1. SUFFICES ASSUME NEW n \in Node, k[n] = "stack"
               PROVE  f[n] = Null \/ (f[n] \in Node /\ k[f[n]] = "stack")
  OBVIOUS
<1>2. PICK s \in Stack : n \in Range(its[s])
  BY <1>1
<1>3. its[s] \in Seq(Node) /\ Strung(its[s], f)
  OBVIOUS
<1>4. PICK i \in 1..Len(its[s]) : its[s][i] = n
  BY <1>2, <1>3, SeqFacts
<1>5. f[n] = IF i < Len(its[s]) THEN its[s][i + 1] ELSE Null
  BY <1>3, <1>4 DEF Strung
<1>6. CASE i < Len(its[s])
  <2>1. i + 1 \in 1..Len(its[s])
    BY <1>3, <1>6, SeqFacts
  <2>2. f[n] \in Node /\ f[n] \in Range(its[s])
    BY <1>3, <1>5, <1>6, <2>1, SeqFacts
  <2> QED
    BY <2>2
<1>7. CASE ~(i < Len(its[s]))
  BY <1>5, <1>7
<1> QED
  BY <1>6, <1>7

(* The same after a step that keeps places and links right.                *)
LEMMA LeadsNow ==
  ASSUME NEW kind, NEW where, NEW gone, items' \in [Stack -> Seq(Node)],
         PlacesOK(kind, where, gone)', LinksOK(gone)'
  PROVE  \A n \in Node : kind[n] = "stack" =>
           next'[n] = Null \/ (next'[n] \in Node /\ kind[next'[n]] = "stack")
<1>1. /\ \A n \in Node : kind[n] = "stack" => where[n] \in Stack
      /\ \A n \in Node, s \in Stack :
           n \in Range(items'[s]) <=> kind[n] = "stack" /\ where[n] = s
      /\ \A s \in Stack : Strung(items'[s], next')
  BY DEF PlacesOK, Placed, LinksOK
<1> QED
  BY <1>1, Leads

(* The invariant, and the functions it speaks of.                          *)
Now(kind, where, gone, safe) ==
  /\ TypeOK /\ ControlOK /\ HeadsOK
  /\ kind \in [Node -> Kind] /\ where \in [Node -> Thread \cup Stack \cup Node]
  /\ gone \in [Node -> Seq(Node)] /\ safe \in [Thread -> SUBSET Node]
  /\ NodesOK(kind, where, gone, safe)

(* The parts of the invariant.                                             *)
LEMMA NowParts ==
  ASSUME NEW kind, NEW where, NEW gone, NEW safe, Now(kind, where, gone, safe)
  PROVE  /\ TypeOK /\ ControlOK /\ HeadsOK
         /\ kind \in [Node -> Kind] /\ where \in [Node -> Thread \cup Stack \cup Node]
         /\ gone \in [Node -> Seq(Node)] /\ safe \in [Thread -> SUBSET Node]
         /\ PlacesOK(kind, where, gone) /\ LinksOK(gone) /\ GoneOK(gone)
         /\ SafeOK(safe, kind, where) /\ PopsOK(safe, kind) /\ ReadsOK(safe)
  BY DEF Now, NodesOK

(* A step of a thread, from what it makes of the nodes.                    *)
LEMMA ThreadNow ==
  ASSUME NEW kind, NEW where, NEW gone, NEW safe, Now(kind, where, gone, safe),
         TypeOK', ControlOK', HeadsOK',
         NEW k2 \in [Node -> Kind], NEW w2 \in [Node -> Thread \cup Stack \cup Node],
         NEW g2 \in [Node -> Seq(Node)],
         PlacesOK(k2, w2, g2)', LinksOK(g2)', GoneOK(g2)', Gentle(safe, kind, k2),
         \A u \in Thread : InCs(u) /\ InCs(u)' =>
           \A n \in safe[u] :
             /\ k2[n] \in {"stack", "hand", "out"}
             /\ k2[n] = "out" /\ life'[w2[n]] = "retired" => u \in waits'[w2[n]],
         NEW t \in Thread, \A u \in Thread : u # t => th'[u] = th[u],
         Pops(th'[t], Safe(safe, k2)[t], next', k2),
         Careful => Reads(th'[t], Safe(safe, k2)[t], next')
  PROVE  StackOK'
<1>1. \A n \in Node : k2[n] = "stack" =>
        next'[n] = Null \/ (next'[n] \in Node /\ k2[next'[n]] = "stack")
  BY LeadsNow DEF TypeOK
<1>2. PICK s2 \in [Thread -> SUBSET Node] :
        SafeOK(s2, k2, w2)' /\ PopsOK(s2, k2)' /\ ReadsOK(s2)'
  BY <1>1, NowParts, ThreadSafe
<1>3. NodesOK(k2, w2, g2, s2)'
  BY <1>2 DEF NodesOK
<1> QED
  BY <1>3 DEF StackOK

(* A node on its way out goes on being waited for.                         *)
LEMMA HoldsUp ==
  ASSUME TypeOK, NEW safe \in [Thread -> SUBSET Node], NEW kind, NEW where,
         SafeOK(safe, kind, where),
         NEW t \in Thread, NEW w2,
         waits' = waits \/ (waits' = Left(t) /\ ~InCs(t)'),
         NEW u \in Thread, InCs(u), InCs(u)', NEW n \in safe[u],
         kind[n] = "out", w2[n] = where[n], where[n] \in Node, life'[w2[n]] = "retired",
         life[w2[n]] = "retired"
  PROVE  u \in waits'[w2[n]]
<1>1. u \in waits[where[n]]
  BY DEF SafeOK
<1> QED
  BY <1>1, LeftFacts

(* A thread that follows no pointer stands nowhere.                        *)
Following == {"next", "take", "cut", "value", "bare", "walk"}

(* The invariant asks nothing of the place where it stands.                *)
LEMMA StandsNowhere ==
  ASSUME NEW w, w.pc \notin Following, NEW S, NEW f, NEW kind
  PROVE  Pops(w, S, f, kind) /\ Reads(w, S, f)
  BY DEF Following, Pops, Reads

(* A step that moves no node.                                              *)
LEMMA StillNow ==
  ASSUME NEW kind, NEW where, NEW gone, NEW safe, Now(kind, where, gone, safe),
         TypeOK', ControlOK', HeadsOK',
         NEW t \in Thread, \A u \in Thread : u # t => th'[u] = th[u],
         UNCHANGED <<items, life, next>>,
         th'[t].chain = th[t].chain,
         th'[t].op = "assign" => th[t].op = "assign" \/ th[t].chain = <<>>,
         ~(At(t, "cut") \/ (At(t, "value") /\ th[t].op = "pop")),
         ~(At(t, "cut")' \/ (At(t, "value")' /\ th'[t].op = "pop")),
         At(t, "retire") => th[t].cur = Null, ~At(t, "retire")',
         waits' = waits \/ (waits' = Left(t) /\ ~InCs(t)'),
         Pops(th'[t], Safe(safe, kind)[t], next, kind),
         Careful => Reads(th'[t], Safe(safe, kind)[t], next)
  PROVE  StackOK'
<1>1. /\ TypeOK /\ PlacesOK(kind, where, gone) /\ LinksOK(gone) /\ GoneOK(gone)
      /\ SafeOK(safe, kind, where) /\ kind \in [Node -> Kind]
      /\ where \in [Node -> Thread \cup Stack \cup Node]
      /\ gone \in [Node -> Seq(Node)] /\ safe \in [Thread -> SUBSET Node]
  BY NowParts
<1>2. PlacesOK(kind, where, gone)' /\ LinksOK(gone)' /\ GoneOK(gone)'
  BY <1>1, NodesStill
<1>3. Gentle(safe, kind, kind)
  BY DEF Gentle
<1>4. ASSUME NEW u \in Thread, InCs(u), InCs(u)', NEW n \in safe[u]
      PROVE  /\ kind[n] \in {"stack", "hand", "out"}
             /\ kind[n] = "out" /\ life'[where[n]] = "retired" => u \in waits'[where[n]]
  <2>1. kind[n] \in {"stack", "hand", "out"} /\ n \in Node
    BY <1>1, <1>4 DEF SafeOK
  <2>2. ASSUME kind[n] = "out", life'[where[n]] = "retired"
        PROVE  u \in waits'[where[n]]
    <3>1. where[n] \in Node /\ life[where[n]] = "retired"
      BY <1>1, <2>1, <2>2 DEF PlacesOK, Placed
    <3> QED
      BY <1>1, <1>4, <2>2, <3>1, HoldsUp
  <2> QED
    BY <2>1, <2>2
<1> QED
  BY <1>1, <1>2, <1>3, <1>4, ThreadNow

(* The same, for a thread that follows no pointer afterwards.              *)
LEMMA QuietNow ==
  ASSUME NEW kind, NEW where, NEW gone, NEW safe, Now(kind, where, gone, safe),
         TypeOK', ControlOK', HeadsOK',
         NEW t \in Thread, \A u \in Thread : u # t => th'[u] = th[u],
         UNCHANGED <<items, life, next>>,
         th'[t].chain = th[t].chain,
         th'[t].op = "assign" => th[t].op = "assign" \/ th[t].chain = <<>>,
         ~(At(t, "cut") \/ (At(t, "value") /\ th[t].op = "pop")),
         At(t, "retire") => th[t].cur = Null, ~At(t, "retire")',
         th'[t].pc \notin Following,
         waits' = waits \/ (waits' = Left(t) /\ ~InCs(t)')
  PROVE  StackOK'
<1>1. ~(At(t, "cut")' \/ (At(t, "value")' /\ th'[t].op = "pop"))
  BY DEF Following, At
<1>2. Pops(th'[t], Safe(safe, kind)[t], next, kind)
  BY StandsNowhere
<1>3. Reads(th'[t], Safe(safe, kind)[t], next)
  BY StandsNowhere
<1> QED
  BY <1>1, <1>2, <1>3, StillNow
-----------------------------------------------------------------------------
(* The steps that move no node.                                            *)

(* The start of a call that allocates nothing preserves the invariant.     *)
LEMMA StartedNow ==
  ASSUME NEW kind, NEW where, NEW gone, NEW safe, Now(kind, where, gone, safe),
         TypeOK', ControlOK', NEW t \in Thread, At(t, "idle"),
         NEW op, NEW s, NEW l \in {"pop", "top", "size", "spin1"},
         op # "assign", Started(t, op, s, l), th'[t].chain = <<>>,
         UNCHANGED <<head, next, life, waits, items>>
  PROVE  StackOK'
<1>1. TypeOK /\ ControlOK /\ HeadsOK
  BY NowParts
<1>2. th[t].chain = <<>>
  BY <1>1 DEF ControlOK, Agree, At
<1>3. /\ th'[t].pc = l /\ th'[t].op = op
      /\ \A u \in Thread : u # t => th'[u] = th[u]
  BY DEF Started
<1>4. HeadsOK'
  BY <1>1, <1>3, HeadsQuiet DEF At, HolderPc
<1>5. th'[t].pc \notin Following /\ ~At(t, "retire")' /\ ~At(t, "retire") /\ ~At(t, "cut")
      /\ ~At(t, "value")
  BY <1>3 DEF Following, At
<1> QED
  BY <1>2, <1>3, <1>4, <1>5, QuietNow

(* The end of a call that finalizes nothing preserves the invariant.       *)
LEMMA EndedNow ==
  ASSUME NEW kind, NEW where, NEW gone, NEW safe, Now(kind, where, gone, safe),
         TypeOK', ControlOK', HeadsOK', NEW t \in Thread, Ended(t), waits' = Left(t),
         th[t].chain = <<>>, ~At(t, "cut"), ~(At(t, "value") /\ th[t].op = "pop"),
         At(t, "retire") => th[t].cur = Null, UNCHANGED <<next, life, items>>
  PROVE  StackOK'
<1>1. /\ th'[t].pc = "idle" /\ th'[t].op = "none" /\ th'[t].chain = <<>>
      /\ \A u \in Thread : u # t => th'[u] = th[u]
  BY RestFacts DEF Ended
<1>2. th'[t].pc \notin Following /\ ~At(t, "retire")' /\ ~InCs(t)'
  BY <1>1 DEF Following, At, InCs
<1> QED
  BY <1>1, <1>2, QuietNow

(* The same, for a thread that has set no bit.                             *)
LEMMA EndedOpen ==
  ASSUME NEW kind, NEW where, NEW gone, NEW safe, Now(kind, where, gone, safe),
         TypeOK', ControlOK', NEW t \in Thread, Ended(t), waits' = Left(t),
         th[t].chain = <<>>, ~At(t, "cut"), ~(At(t, "value") /\ th[t].op = "pop"),
         At(t, "retire") => th[t].cur = Null, th[t].pc \notin HolderPc,
         UNCHANGED <<head, next, life, items>>
  PROVE  StackOK'
<1>1. th'[t].pc \notin HolderPc /\ \A u \in Thread : u # t => th'[u] = th[u]
  BY RestFacts DEF Ended, HolderPc
<1>2. HeadsOK'
  BY <1>1, NowParts, HeadsQuiet
<1> QED
  BY <1>2, EndedNow

(* Pop preserves the invariant.                                            *)
LEMMA PopNow ==
  ASSUME NEW kind, NEW where, NEW gone, NEW safe, Now(kind, where, gone, safe),
         NEW t \in Thread, NEW s \in Stack, Pop(t, s)
  PROVE  StackOK'
<1>1. /\ At(t, "idle") /\ Started(t, "pop", s, "pop") /\ th'[t].chain = <<>>
      /\ UNCHANGED <<head, next, life, waits, items>> /\ TypeOK' /\ ControlOK'
  BY NowParts, PopKeeps
<1> QED
  BY <1>1, StartedNow

(* Top preserves the invariant.                                            *)
LEMMA TopNow ==
  ASSUME NEW kind, NEW where, NEW gone, NEW safe, Now(kind, where, gone, safe),
         NEW t \in Thread, NEW s \in Stack, Top(t, s)
  PROVE  StackOK'
<1>1. /\ At(t, "idle") /\ Started(t, "top", s, "top") /\ th'[t].chain = <<>>
      /\ UNCHANGED <<head, next, life, waits, items>> /\ TypeOK' /\ ControlOK'
  BY NowParts, TopKeeps
<1> QED
  BY <1>1, StartedNow

(* Size preserves the invariant.                                           *)
LEMMA SizeNow ==
  ASSUME NEW kind, NEW where, NEW gone, NEW safe, Now(kind, where, gone, safe),
         NEW t \in Thread, NEW s \in Stack, Size(t, s)
  PROVE  StackOK'
<1>1. /\ At(t, "idle") /\ Started(t, "size", s, "size") /\ th'[t].chain = <<>>
      /\ UNCHANGED <<head, next, life, waits, items>> /\ TypeOK' /\ ControlOK'
  BY NowParts, SizeKeeps
<1> QED
  BY <1>1, StartedNow

(* Clear preserves the invariant.                                          *)
LEMMA ClearNow ==
  ASSUME NEW kind, NEW where, NEW gone, NEW safe, Now(kind, where, gone, safe),
         NEW t \in Thread, NEW s \in Stack, Clear(t, s)
  PROVE  StackOK'
<1>1. /\ At(t, "idle") /\ Started(t, "clear", s, "spin1") /\ th'[t].chain = <<>>
      /\ UNCHANGED <<head, next, life, waits, items>> /\ TypeOK' /\ ControlOK'
  BY NowParts, ClearKeeps
<1> QED
  BY <1>1, StartedNow

(* Swap preserves the invariant.                                           *)
LEMMA SwapNow ==
  ASSUME NEW kind, NEW where, NEW gone, NEW safe, Now(kind, where, gone, safe),
         NEW t \in Thread, NEW a \in Stack, NEW b \in Stack, Swap(t, a, b)
  PROVE  StackOK'
<1>1. /\ At(t, "idle") /\ Started(t, "swap", a, "spin1") /\ th'[t].chain = <<>>
      /\ UNCHANGED <<head, next, life, waits, items>> /\ TypeOK' /\ ControlOK'
  BY NowParts, SwapDoes, SwapKeeps
<1> QED
  BY <1>1, StartedNow

(* TopFinish preserves the invariant.                                      *)
LEMMA TopFinishNow ==
  ASSUME NEW kind, NEW where, NEW gone, NEW safe, Now(kind, where, gone, safe),
         NEW t \in Thread, TopFinish(t)
  PROVE  StackOK'
<1>1. /\ At(t, "value") /\ th[t].op = "top" /\ th[t].chain = <<>>
      /\ Ended(t) /\ waits' = Left(t) /\ UNCHANGED <<head, next, life, items>>
      /\ TypeOK' /\ ControlOK'
  BY NowParts, TopFinishKeeps
<1>2. ~At(t, "cut") /\ ~At(t, "retire") /\ th[t].pc \notin HolderPc
  BY <1>1 DEF At, HolderPc
<1> QED
  BY <1>1, <1>2, EndedOpen

(* SizeWild preserves the invariant.                                       *)
LEMMA SizeWildNow ==
  ASSUME NEW kind, NEW where, NEW gone, NEW safe, Now(kind, where, gone, safe),
         NEW t \in Thread, SizeWild(t)
  PROVE  StackOK'
<1>1. /\ At(t, "wild") /\ th[t].chain = <<>>
      /\ Ended(t) /\ waits' = Left(t) /\ UNCHANGED <<head, next, life, items>>
      /\ TypeOK' /\ ControlOK'
  BY NowParts, SizeWildKeeps
<1>2. ~At(t, "cut") /\ ~At(t, "value") /\ ~At(t, "retire") /\ th[t].pc \notin HolderPc
  BY <1>1 DEF At, HolderPc
<1> QED
  BY <1>1, <1>2, EndedOpen

(* WalkEnd preserves the invariant.                                        *)
LEMMA WalkEndNow ==
  ASSUME NEW kind, NEW where, NEW gone, NEW safe, Now(kind, where, gone, safe),
         NEW t \in Thread, WalkEnd(t)
  PROVE  StackOK'
<1>1. /\ At(t, "walk") /\ th[t].chain = <<>>
      /\ Ended(t) /\ waits' = Left(t) /\ UNCHANGED <<head, next, life, items>>
      /\ TypeOK' /\ ControlOK'
  BY NowParts, WalkEndKeeps
<1>2. ~At(t, "cut") /\ ~At(t, "value") /\ ~At(t, "retire") /\ th[t].pc \notin HolderPc
  BY <1>1 DEF At, HolderPc
<1> QED
  BY <1>1, <1>2, EndedOpen

(* SwapSecond preserves the invariant.                                     *)
LEMMA SwapSecondNow ==
  ASSUME NEW kind, NEW where, NEW gone, NEW safe, Now(kind, where, gone, safe),
         NEW t \in Thread, SwapSecond(t)
  PROVE  StackOK'
<1>1. /\ At(t, "store2") /\ th[t].chain = <<>>
      /\ Ended(t) /\ waits' = Left(t) /\ UNCHANGED <<next, life, items>>
      /\ TypeOK' /\ ControlOK' /\ HeadsOK'
  BY NowParts, SwapSecondKeeps, SwapSecondHeads
<1>2. ~At(t, "cut") /\ ~At(t, "value") /\ ~At(t, "retire")
  BY <1>1 DEF At
<1> QED
  BY <1>1, <1>2, EndedNow

(* A step to a label where no pointer is followed.                         *)
LEMMA MovedNow ==
  ASSUME NEW kind, NEW where, NEW gone, NEW safe, Now(kind, where, gone, safe),
         TypeOK', ControlOK', HeadsOK', NEW t \in Thread, NEW l,
         Moved(t, l), l \notin Following, l # "retire",
         th[t].pc \notin {"cut", "value", "retire"},
         UNCHANGED <<items, life, next, waits>>
  PROVE  StackOK'
<1>1. /\ \A u \in Thread : u # t => th'[u] = th[u]
      /\ th'[t].chain = th[t].chain /\ th'[t].op = th[t].op /\ th'[t].pc = l
  BY DEF Moved
<1>2. ~At(t, "cut") /\ ~At(t, "value") /\ ~At(t, "retire") /\ ~At(t, "retire")'
  BY <1>1 DEF At
<1> QED
  BY <1>1, <1>2, QuietNow

(* SpinLoad preserves the invariant.                                       *)
LEMMA SpinLoadNow ==
  ASSUME NEW kind, NEW where, NEW gone, NEW safe, Now(kind, where, gone, safe),
         NEW t \in Thread, SpinLoad(t)
  PROVE  StackOK'
<1>1. TypeOK' /\ ControlOK' /\ HeadsOK'
  BY NowParts, SpinLoadKeeps, SpinLoadHeads
<1>2. PICK l \in {"mark1", "mark2"} : Moved(t, l)
  BY NowParts, SpinLoadDoes
<1>3. /\ UNCHANGED <<items, life, next, waits>>
      /\ th[t].pc \notin {"cut", "value", "retire"}
  BY NowParts, SpinLoadDoes DEF At
<1>4. l \notin Following /\ l # "retire"
  BY DEF Following
<1> QED
  BY <1>1, <1>2, <1>3, <1>4, MovedNow

(* SpinCas preserves the invariant.                                        *)
LEMMA SpinCasNow ==
  ASSUME NEW kind, NEW where, NEW gone, NEW safe, Now(kind, where, gone, safe),
         NEW t \in Thread, SpinCas(t)
  PROVE  StackOK'
<1>1. TypeOK' /\ ControlOK' /\ HeadsOK'
  BY NowParts, SpinCasKeeps, SpinCasHeads
<1>2. PICK l \in {"spin1", "spin2", "store", "store1"} : Moved(t, l)
  BY NowParts, SpinCasDoes
<1>3. /\ UNCHANGED <<items, life, next, waits>>
      /\ th[t].pc \notin {"cut", "value", "retire"}
  BY NowParts, SpinCasDoes DEF At
<1>4. l \notin Following /\ l # "retire"
  BY DEF Following
<1> QED
  BY <1>1, <1>2, <1>3, <1>4, MovedNow
(* The first node of a stack is one that sections can come to.             *)
LEMMA FirstSafe ==
  ASSUME NEW kind, NEW where, NEW gone, NEW safe, Now(kind, where, gone, safe),
         NEW s \in Stack, First(items[s]) # Null, NEW t \in Thread
  PROVE  /\ First(items[s]) \in Safe(safe, kind)[t] /\ First(items[s]) \in Node
         /\ kind[First(items[s])] = "stack"
<1>1. /\ items[s] \in Seq(Node)
      /\ \A n \in Node : n \in Range(items[s]) => kind[n] = "stack"
  BY NowParts, Parts DEF PlacesOK, Placed
<1>2. items[s] # <<>>
  BY DEF First
<1>3. First(items[s]) \in Range(items[s]) /\ First(items[s]) \in Node
  BY <1>1, <1>2, SeqFacts
<1> QED
  BY <1>1, <1>3 DEF Safe

(* PopLoad preserves the invariant.                                        *)
LEMMA PopLoadNow ==
  ASSUME NEW kind, NEW where, NEW gone, NEW safe, Now(kind, where, gone, safe),
         NEW t \in Thread, PopLoad(t)
  PROVE  StackOK'
<1>1. TypeOK /\ ControlOK /\ HeadsOK
  BY NowParts
<1>2. /\ At(t, "pop") /\ ~head[th[t].at].spin
      /\ UNCHANGED <<head, next, life, items>>
      /\ \/ Ended(t) /\ waits' = Left(t)
         \/ /\ head[th[t].at].node # Null /\ waits' = waits
            /\ Moved(t, "next") /\ th'[t].cur = head[th[t].at].node
  BY <1>1, PopLoadDoes
<1>3. TypeOK' /\ ControlOK' /\ th[t].op = "pop" /\ th[t].chain = <<>>
  BY <1>1, PopLoadKeeps
<1>4. /\ ~At(t, "cut") /\ ~At(t, "value") /\ ~At(t, "retire") /\ th[t].pc \notin HolderPc
      /\ th[t].at \in Stack
  BY <1>1, <1>2, InCall DEF At, HolderPc
<1>5. CASE Ended(t) /\ waits' = Left(t)
  BY <1>2, <1>3, <1>4, <1>5, EndedOpen
<1>6. CASE /\ head[th[t].at].node # Null /\ waits' = waits
           /\ Moved(t, "next") /\ th'[t].cur = head[th[t].at].node
  <2>1. /\ \A u \in Thread : u # t => th'[u] = th[u]
        /\ th'[t].pc = "next" /\ th'[t].chain = th[t].chain /\ th'[t].op = th[t].op
    BY <1>6 DEF Moved
  <2>2. HeadsOK'
    BY <1>1, <1>2, <1>4, <2>1, HeadsQuiet DEF HolderPc
  <2>3. th'[t].cur = First(items[th[t].at]) /\ th'[t].cur # Null
    BY <1>1, <1>2, <1>4, <1>6, OpenHead
  <2>4. th'[t].cur \in Safe(safe, kind)[t]
    BY <1>4, <2>3, FirstSafe
  <2>5. /\ Pops(th'[t], Safe(safe, kind)[t], next, kind)
        /\ Reads(th'[t], Safe(safe, kind)[t], next)
    BY <2>1, <2>4 DEF Pops, Reads
  <2>6. ~At(t, "cut")' /\ ~At(t, "value")' /\ ~At(t, "retire")'
    BY <2>1 DEF At
  <2> QED
    BY <1>2, <1>3, <1>4, <1>6, <2>1, <2>2, <2>5, <2>6, StillNow
<1> QED
  BY <1>2, <1>5, <1>6

(* PopNext preserves the invariant.                                        *)
LEMMA PopNextNow ==
  ASSUME NEW kind, NEW where, NEW gone, NEW safe, Now(kind, where, gone, safe),
         NEW t \in Thread, PopNext(t)
  PROVE  StackOK'
<1>1. TypeOK /\ ControlOK /\ HeadsOK /\ PopsOK(safe, kind)
  BY NowParts
<1>2. /\ At(t, "next") /\ UNCHANGED <<head, next, life, waits, items>>
      /\ Moved(t, "take") /\ th'[t].cur = th[t].cur /\ th'[t].nx = next[th[t].cur]
  BY <1>1, PopNextDoes
<1>3. TypeOK' /\ ControlOK' /\ th[t].op = "pop"
  BY <1>1, PopNextKeeps
<1>4. /\ ~At(t, "cut") /\ ~At(t, "value") /\ ~At(t, "retire") /\ th[t].pc \notin HolderPc
      /\ InCs(t)
  BY <1>1, <1>2, Inside DEF At, HolderPc
<1>5. /\ \A u \in Thread : u # t => th'[u] = th[u]
      /\ th'[t].pc = "take" /\ th'[t].chain = th[t].chain /\ th'[t].op = th[t].op
  BY <1>2 DEF Moved
<1>6. HeadsOK'
  BY <1>1, <1>2, <1>4, <1>5, HeadsQuiet DEF HolderPc
<1>7. th[t].cur \in Safe(safe, kind)[t]
  BY <1>1, <1>2, <1>4 DEF PopsOK, Pops, At, Safe
<1>8. /\ Pops(th'[t], Safe(safe, kind)[t], next, kind)
      /\ Reads(th'[t], Safe(safe, kind)[t], next)
  BY <1>2, <1>5, <1>7 DEF Pops, Reads
<1>9. ~At(t, "cut")' /\ ~At(t, "value")' /\ ~At(t, "retire")'
  BY <1>5 DEF At
<1> QED
  BY <1>2, <1>3, <1>4, <1>5, <1>6, <1>8, <1>9, StillNow

(* TopLoad preserves the invariant.                                        *)
LEMMA TopLoadNow ==
  ASSUME NEW kind, NEW where, NEW gone, NEW safe, Now(kind, where, gone, safe),
         NEW t \in Thread, TopLoad(t)
  PROVE  StackOK'
<1>1. TypeOK /\ ControlOK /\ HeadsOK
  BY NowParts
<1>2. /\ At(t, "top") /\ UNCHANGED <<head, next, life, items>>
      /\ \/ Ended(t) /\ waits' = Left(t)
         \/ /\ head[th[t].at].node # Null /\ waits' = waits
            /\ Moved(t, "value") /\ th'[t].cur = head[th[t].at].node
  BY <1>1, TopLoadDoes
<1>3. /\ TypeOK' /\ ControlOK' /\ th[t].op = "top" /\ th[t].chain = <<>> /\ Readers # {}
      /\ th[t].at \in Stack
  BY <1>1, TopLoadKeeps
<1>4. /\ ~At(t, "cut") /\ ~At(t, "value") /\ ~At(t, "retire") /\ th[t].pc \notin HolderPc
  BY <1>2 DEF At, HolderPc
<1>5. CASE Ended(t) /\ waits' = Left(t)
  BY <1>2, <1>3, <1>4, <1>5, EndedOpen
<1>6. CASE /\ head[th[t].at].node # Null /\ waits' = waits
           /\ Moved(t, "value") /\ th'[t].cur = head[th[t].at].node
  <2>1. /\ \A u \in Thread : u # t => th'[u] = th[u]
        /\ th'[t].pc = "value" /\ th'[t].chain = th[t].chain /\ th'[t].op = th[t].op
    BY <1>6 DEF Moved
  <2>2. HeadsOK'
    BY <1>1, <1>2, <1>4, <2>1, HeadsQuiet DEF HolderPc
  <2>3. Pops(th'[t], Safe(safe, kind)[t], next, kind)
    BY <2>1 DEF Pops
  <2>4. ASSUME Careful PROVE Reads(th'[t], Safe(safe, kind)[t], next)
    <3>1. \A u \in Thread : ~At(u, "store2")
      BY <1>1, <1>3, <2>4 DEF Careful, ControlOK, Agree, At
    <3>2. th'[t].cur = First(items[th[t].at]) /\ th'[t].cur # Null
      BY <1>1, <1>3, <1>6, <3>1 DEF HeadsOK
    <3>3. th'[t].cur \in Safe(safe, kind)[t]
      BY <1>3, <3>2, FirstSafe
    <3> QED
      BY <2>1, <3>3 DEF Reads
  <2>5. ~At(t, "cut")' /\ ~(At(t, "value")' /\ th'[t].op = "pop") /\ ~At(t, "retire")'
    BY <1>3, <2>1 DEF At
  <2> QED
    BY <1>2, <1>3, <1>4, <1>6, <2>1, <2>2, <2>3, <2>4, <2>5, StillNow
<1> QED
  BY <1>2, <1>5, <1>6

(* What a walk over a stack finds when it begins.                          *)
LEMMA WalkBegins ==
  ASSUME NEW kind, NEW where, NEW gone, NEW safe, Now(kind, where, gone, safe),
         NEW t \in Thread, NEW s \in Stack,
         NEW w, w.pc \in {"bare", "walk"}, w.cur = First(items[s]),
         w.path = items[s], w.cnt = 0
  PROVE  Reads(w, Safe(safe, kind)[t], next)
<1> DEFINE q == items[s]
<1>1. /\ q \in Seq(Node) /\ Strung(q, next)
      /\ \A n \in Node : n \in Range(q) => kind[n] = "stack"
  BY NowParts, Parts DEF PlacesOK, Placed, LinksOK
<1>2. /\ Len(q) \in Nat /\ \A i \in 1..Len(q) : q[i] \in Node /\ q[i] \in Range(q)
      /\ q # <<>> => First(q) = q[1] /\ 1 \in 1..Len(q)
      /\ q = <<>> => First(q) = Null
  BY <1>1, SeqFacts
<1> HIDE DEF q
<1>3. ASSUME NEW i \in 1..Len(q)
      PROVE  /\ q[i] \in Safe(safe, kind)[t]
             /\ next[q[i]] # Null => i < Len(q) /\ next[q[i]] = q[i + 1]
  <2>1. q[i] \in Node /\ kind[q[i]] = "stack"
    BY <1>1, <1>2
  <2>2. q[i] \in Safe(safe, kind)[t]
    BY <2>1 DEF Safe
  <2>3. next[q[i]] = IF i < Len(q) THEN q[i + 1] ELSE Null
    BY <1>1 DEF Strung
  <2> QED
    BY <2>2, <2>3
<1>4. w.cur # Null => 0 < Len(q) /\ w.cur = q[1] /\ w.cur \in Safe(safe, kind)[t]
  BY <1>2, <1>3 DEF q
<1>5. w.cur # Null => w.cnt < Len(w.path) /\ w.cur = w.path[w.cnt + 1]
  BY <1>4 DEF q
<1>6. \A i \in 1..Len(w.path) :
        /\ w.path[i] \in Safe(safe, kind)[t]
        /\ next[w.path[i]] # Null => i < Len(w.path) /\ next[w.path[i]] = w.path[i + 1]
  BY <1>3 DEF q
<1> QED
  BY <1>4, <1>5, <1>6 DEF Reads

(* Begin preserves the invariant.                                          *)
LEMMA BeginNow ==
  ASSUME NEW kind, NEW where, NEW gone, NEW safe, Now(kind, where, gone, safe),
         NEW t \in Thread, NEW s \in Stack, Begin(t, s)
  PROVE  StackOK'
<1>1. TypeOK /\ ControlOK /\ HeadsOK
  BY NowParts
<1>2. /\ At(t, "idle") /\ Started(t, "walk", s, "bare") /\ th'[t].chain = <<>>
      /\ th'[t].cur = head[s].node /\ th'[t].path = items[s]
      /\ th'[t].cnt = 0 /\ Readers # {}
      /\ UNCHANGED <<head, next, life, waits, items>>
  BY <1>1, BeginDoes
<1>3. TypeOK' /\ ControlOK'
  BY <1>1, BeginKeeps
<1>4. /\ ~At(t, "cut") /\ ~At(t, "value") /\ ~At(t, "retire") /\ th[t].pc \notin HolderPc
      /\ th[t].chain = <<>>
  BY <1>1, <1>2 DEF At, HolderPc, ControlOK, Agree
<1>5. /\ \A u \in Thread : u # t => th'[u] = th[u]
      /\ th'[t].pc = "bare" /\ th'[t].op = "walk"
  BY <1>2 DEF Started
<1>6. HeadsOK'
  BY <1>1, <1>2, <1>4, <1>5, HeadsQuiet DEF HolderPc
<1>7. Pops(th'[t], Safe(safe, kind)[t], next, kind)
  BY <1>5 DEF Pops
<1>8. ASSUME Careful PROVE Reads(th'[t], Safe(safe, kind)[t], next)
  <2>1. \A u \in Thread : ~At(u, "store2")
    BY <1>1, <1>2, <1>8 DEF Careful, ControlOK, Agree, At
  <2>2. th'[t].cur = First(items[s])
    BY <1>1, <1>2, <2>1 DEF HeadsOK
  <2> QED
    BY <1>2, <1>5, <2>2, WalkBegins
<1>9. ~At(t, "cut")' /\ ~At(t, "value")' /\ ~At(t, "retire")'
  BY <1>5 DEF At
<1> QED
  BY <1>2, <1>3, <1>4, <1>5, <1>6, <1>7, <1>8, <1>9, StillNow

(* Guard preserves the invariant.                                          *)
LEMMA GuardNow ==
  ASSUME NEW kind, NEW where, NEW gone, NEW safe, Now(kind, where, gone, safe),
         NEW t \in Thread, Guard(t)
  PROVE  StackOK'
<1>1. TypeOK /\ ControlOK /\ HeadsOK /\ ReadsOK(safe)
  BY NowParts
<1>2. /\ At(t, "bare") /\ th[t].op = "walk" /\ th[t].chain = <<>>
      /\ Moved(t, "walk") /\ Kept(t) /\ UNCHANGED <<head, next, life, waits, items>>
      /\ TypeOK' /\ ControlOK'
  BY <1>1, GuardKeeps
<1>3. /\ ~At(t, "cut") /\ ~At(t, "value") /\ ~At(t, "retire") /\ th[t].pc \notin HolderPc
  BY <1>2 DEF At, HolderPc
<1>4. /\ \A u \in Thread : u # t => th'[u] = th[u]
      /\ th'[t].pc = "walk" /\ th'[t].op = "walk" /\ th'[t].chain = th[t].chain
      /\ th'[t].cur = th[t].cur /\ th'[t].cnt = th[t].cnt /\ th'[t].path = th[t].path
  BY <1>2 DEF Moved, Kept
<1>5. HeadsOK'
  BY <1>1, <1>2, <1>3, <1>4, HeadsQuiet DEF HolderPc
<1>6. Pops(th'[t], Safe(safe, kind)[t], next, kind)
  BY <1>4 DEF Pops
<1>7. ASSUME Careful PROVE Reads(th'[t], Safe(safe, kind)[t], next)
  <2>1. safe[t] \subseteq Safe(safe, kind)[t]
    BY <1>1, <1>2, <1>7, Inside DEF Safe, At
  <2>2. Reads(th[t], safe[t], next)
    BY <1>1, <1>7 DEF ReadsOK
  <2> QED
    BY <1>2, <1>4, <2>1, <2>2 DEF Reads, At
<1>8. ~At(t, "cut")' /\ ~At(t, "value")' /\ ~At(t, "retire")'
  BY <1>4 DEF At
<1> QED
  BY <1>2, <1>3, <1>4, <1>5, <1>6, <1>7, <1>8, StillNow

(* SizeLoad preserves the invariant.                                       *)
LEMMA SizeLoadNow ==
  ASSUME NEW kind, NEW where, NEW gone, NEW safe, Now(kind, where, gone, safe),
         NEW t \in Thread, SizeLoad(t)
  PROVE  StackOK'
<1>1. TypeOK /\ ControlOK /\ HeadsOK
  BY NowParts
<1>2. /\ At(t, "size") /\ UNCHANGED <<head, next, life, waits, items>>
      /\ \/ Moved(t, "wild") /\ Kept(t)
         \/ /\ ~head[th[t].at].spin
            /\ Moved(t, "walk") /\ th'[t].cur = head[th[t].at].node
            /\ th'[t].cnt = th[t].cnt /\ th'[t].path = items[th[t].at]
  BY <1>1, SizeLoadDoes
<1>3. TypeOK' /\ ControlOK' /\ th[t].op = "size" /\ th[t].at \in Stack
  BY <1>1, SizeLoadKeeps
<1>4. /\ ~At(t, "cut") /\ ~At(t, "value") /\ ~At(t, "retire") /\ th[t].pc \notin HolderPc
      /\ th[t].pc \notin {"cut", "value", "retire"} /\ th[t].cnt = 0
  BY <1>1, <1>2 DEF At, HolderPc, ControlOK, Agree
<1>5. CASE Moved(t, "wild") /\ Kept(t)
  <2>1. /\ \A u \in Thread : u # t => th'[u] = th[u]
        /\ th'[t].pc \notin HolderPc
    BY <1>5 DEF Moved, HolderPc
  <2>2. HeadsOK'
    BY <1>1, <1>2, <1>4, <2>1, HeadsQuiet
  <2>3. "wild" \notin Following
    BY DEF Following
  <2> QED
    BY <1>2, <1>3, <1>4, <1>5, <2>2, <2>3, MovedNow
<1>6. CASE /\ ~head[th[t].at].spin
           /\ Moved(t, "walk") /\ th'[t].cur = head[th[t].at].node
           /\ th'[t].cnt = th[t].cnt /\ th'[t].path = items[th[t].at]
  <2>1. /\ \A u \in Thread : u # t => th'[u] = th[u]
        /\ th'[t].pc = "walk" /\ th'[t].op = "size" /\ th'[t].chain = th[t].chain
    BY <1>3, <1>6 DEF Moved
  <2>2. HeadsOK'
    BY <1>1, <1>2, <1>4, <2>1, HeadsQuiet DEF HolderPc
  <2>3. Pops(th'[t], Safe(safe, kind)[t], next, kind)
    BY <2>1 DEF Pops
  <2>4. th'[t].cur = First(items[th[t].at])
    BY <1>1, <1>3, <1>6, OpenHead
  <2>5. Reads(th'[t], Safe(safe, kind)[t], next)
    BY <1>3, <1>4, <1>6, <2>1, <2>4, WalkBegins
  <2>6. ~At(t, "cut")' /\ ~At(t, "value")' /\ ~At(t, "retire")'
    BY <2>1 DEF At
  <2> QED
    BY <1>2, <1>3, <1>4, <2>1, <2>2, <2>3, <2>5, <2>6, StillNow
<1> QED
  BY <1>2, <1>5, <1>6

(* Walk preserves the invariant.                                           *)
LEMMA WalkNow ==
  ASSUME NEW kind, NEW where, NEW gone, NEW safe, Now(kind, where, gone, safe),
         NEW t \in Thread, Walk(t)
  PROVE  StackOK'
<1>1. /\ TypeOK /\ ControlOK /\ HeadsOK /\ SafeOK(safe, kind, where) /\ ReadsOK(safe)
      /\ safe \in [Thread -> SUBSET Node]
  BY NowParts
<1>2. /\ At(t, "walk") /\ th[t].cur \in Node
      /\ UNCHANGED <<head, next, life, waits, items>>
      /\ Moved(t, "walk") /\ th'[t].cur = next[th[t].cur]
      /\ th'[t].cnt = th[t].cnt + 1 /\ th'[t].path = th[t].path
  BY <1>1, WalkDoes
<1>3. TypeOK' /\ ControlOK'
  BY <1>1, WalkKeeps
<1>4. /\ ~At(t, "cut") /\ ~At(t, "value") /\ ~At(t, "retire") /\ th[t].pc \notin HolderPc
      /\ InCs(t)
  BY <1>1, <1>2, Inside DEF At, HolderPc
<1>5. /\ \A u \in Thread : u # t => th'[u] = th[u]
      /\ th'[t].pc = "walk" /\ th'[t].op = th[t].op /\ th'[t].chain = th[t].chain
  BY <1>2 DEF Moved
<1>6. HeadsOK'
  BY <1>1, <1>2, <1>4, <1>5, HeadsQuiet DEF HolderPc
<1>7. Pops(th'[t], Safe(safe, kind)[t], next, kind)
  BY <1>5 DEF Pops
<1>8. ASSUME Careful PROVE Reads(th'[t], Safe(safe, kind)[t], next)
  <2> DEFINE w == th[t]
             i == th[t].cnt + 1
  <2>1. safe[t] \subseteq Safe(safe, kind)[t]
    BY <1>1, <1>4 DEF Safe
  <2>2. Reads(w, safe[t], next) /\ w.pc = "walk"
    BY <1>1, <1>2, <1>8 DEF ReadsOK, At
  <2>3. w.cnt \in Nat /\ Len(w.path) \in Nat /\ w.cur # Null
    BY <1>1, <1>2, Fields, SeqFacts, Names
  <2>4. i \in 1..Len(w.path) /\ w.cur = w.path[i] /\ w.cur \in safe[t]
    <3>1. w.cnt < Len(w.path) /\ w.cur = w.path[i]
      BY <2>2, <2>3 DEF Reads
    <3>2. i \in 1..Len(w.path)
      BY <2>3, <3>1
    <3> QED
      BY <2>2, <3>1, <3>2 DEF Reads
  <2>5. /\ next[w.cur] # Null => i < Len(w.path) /\ next[w.cur] = w.path[i + 1]
        /\ next[w.cur] \in safe[t] \cup {Null}
    BY <1>1, <1>4, <2>2, <2>4 DEF Reads, SafeOK
  <2>6. \A j \in 1..Len(w.path) :
          /\ w.path[j] \in safe[t]
          /\ next[w.path[j]] # Null => j < Len(w.path) /\ next[w.path[j]] = w.path[j + 1]
    BY <2>2 DEF Reads
  <2>7. /\ th'[t].path = w.path /\ th'[t].cnt = i /\ th'[t].cur = next[w.cur]
    BY <1>2
  <2> HIDE DEF w, i
  <2> QED
    BY <1>5, <2>1, <2>5, <2>6, <2>7 DEF Reads
<1>9. ~At(t, "cut")' /\ ~At(t, "value")' /\ ~At(t, "retire")'
  BY <1>5 DEF At
<1> QED
  BY <1>2, <1>3, <1>4, <1>5, <1>6, <1>7, <1>8, <1>9, StillNow

-----------------------------------------------------------------------------
(* The steps that move nodes.                                              *)

(* Nothing starts or ends being on its way out.                            *)
LEMMA GoneStill ==
  ASSUME TypeOK, NEW gone, GoneOK(gone),
         \A n \in Node : life[n] # "free" => life'[n] = life[n],
         \A n \in Node : life'[n] = "retired" => life[n] = "retired",
         \A u \in Thread : /\ At(u, "retire")' => At(u, "retire") /\ th'[u].cur = th[u].cur
                           /\ At(u, "retire") => At(u, "retire")' /\ th'[u].cur = th[u].cur
  PROVE  GoneOK(gone)'
<1>1. ASSUME NEW r \in Node
      PROVE  /\ gone[r] # <<>> =>
                  /\ gone[r][1] = r
                  /\ \/ life'[r] = "retired"
                     \/ \E u \in Thread : At(u, "retire")' /\ th'[u].cur = r
             /\ life'[r] = "retired" => gone[r] # <<>>
  <2>1. /\ gone[r] # <<>> =>
             /\ gone[r][1] = r
             /\ life[r] = "retired" \/ \E u \in Thread : At(u, "retire") /\ th[u].cur = r
        /\ life[r] = "retired" => gone[r] # <<>>
    BY DEF GoneOK
  <2>2. \A u \in Thread : At(u, "retire") => At(u, "retire")' /\ th'[u].cur = th[u].cur
    OBVIOUS
  <2> QED
    BY <2>1, <2>2
<1>2. ASSUME NEW u \in Thread, At(u, "retire")', th'[u].cur # Null
      PROVE  gone[th'[u].cur] # <<>> /\ life'[th'[u].cur] = "live"
  <2>1. At(u, "retire") /\ th'[u].cur = th[u].cur /\ th[u].cur \in Node
    BY <1>2, Fields DEF Ptr
  <2>2. gone[th[u].cur] # <<>> /\ life[th[u].cur] = "live"
    BY <1>2, <2>1 DEF GoneOK
  <2> QED
    BY <2>1, <2>2
<1>3. ASSUME NEW u \in Thread, NEW v \in Thread, At(u, "retire")', At(v, "retire")',
             th'[u].cur = th'[v].cur, th'[u].cur # Null
      PROVE  u = v
  BY <1>3 DEF GoneOK
<1> QED
  BY <1>1, <1>2, <1>3 DEF GoneOK

(* Allocate preserves the invariant.                                       *)
LEMMA AllocateNow ==
  ASSUME NEW kind, NEW where, NEW gone, NEW safe, Now(kind, where, gone, safe),
         NEW t \in Thread, NEW op \in {"push", "assign"}, NEW s \in Stack,
         NEW l \in {"push", "spin1"}, NEW k \in Nat, NEW q, q \in Fresh(k),
         Allocate(t, op, s, l, q), At(t, "idle"), Started(t, op, s, l), th'[t].chain = q,
         TypeOK', ControlOK'
  PROVE  StackOK'
<1>1. /\ TypeOK /\ ControlOK /\ HeadsOK
      /\ kind \in [Node -> Kind] /\ where \in [Node -> Thread \cup Stack \cup Node]
      /\ gone \in [Node -> Seq(Node)] /\ safe \in [Thread -> SUBSET Node]
      /\ PlacesOK(kind, where, gone) /\ LinksOK(gone) /\ GoneOK(gone)
      /\ SafeOK(safe, kind, where)
  BY NowParts
<1>2. /\ op \in Op /\ l \in Label
  BY DEF Op, Label
<1>3. /\ Strung(q, next')
      /\ \A n \in Node : n \notin Range(q) => next'[n] = next[n] /\ life'[n] = life[n]
      /\ \A n \in Range(q) : life'[n] = "live"
      /\ UNCHANGED <<head, waits, items>>
  BY <1>1, <1>2, AllocateLinks
<1>4. \A n \in Range(q) : n \in Node /\ life[n] = "free" /\ kind[n] = "free"
  BY <1>1, FreshFacts DEF PlacesOK, Placed
<1>5. /\ \A u \in Thread : u # t => th'[u] = th[u]
      /\ th'[t].pc = l /\ th'[t].op = op /\ th[t].pc = "idle"
  BY DEF Started, At
<1>6. th[t].chain = <<>> /\ Range(th[t].chain) = {}
  BY <1>1, <1>5, EmptyFacts DEF ControlOK, Agree
<1>7. HeadsOK'
  BY <1>1, <1>3, <1>5, HeadsQuiet DEF HolderPc
<1>8. PICK k2 : k2 = [n \in Node |-> IF n \in Range(q) THEN "chain" ELSE kind[n]]
  OBVIOUS
<1>9. PICK w2 : w2 = [n \in Node |-> IF n \in Range(q) THEN t ELSE where[n]]
  OBVIOUS
<1>10. k2 \in [Node -> Kind] /\ w2 \in [Node -> Thread \cup Stack \cup Node]
  BY <1>1, <1>8, <1>9 DEF Kind
<1>11. \A n \in Node : /\ n \in Range(q) => k2[n] = "chain" /\ w2[n] = t
                       /\ n \notin Range(q) => k2[n] = kind[n] /\ w2[n] = where[n]
  BY <1>8, <1>9
<1>12. \A u \in Thread, n \in Node : u # t => (Popped(u, n)' <=> Popped(u, n))
  BY <1>5 DEF Popped, At
<1>13. \A n \in Node : ~Popped(t, n) /\ ~Popped(t, n)'
  BY <1>5 DEF Popped, At
<1>14. PlacesOK(k2, w2, gone)'
  <2>1. ASSUME NEW n \in Node, n \in Range(q)
        PROVE /\ k2[n] = "chain" /\ w2[n] = t /\ life'[n] # "free"
              /\ \A r \in Stack : n \notin Range(items'[r])
              /\ \A u \in Thread : /\ n \in Range(th'[u].chain) <=> u = t
                                   /\ ~Popped(u, n)'
              /\ \A r \in Node : n \notin Range(gone[r])
    <3>1. kind[n] = "free"
      BY <1>4, <2>1
    <3>2. /\ \A r \in Stack : n \notin Range(items[r])
          /\ \A u \in Thread : n \notin Range(th[u].chain) /\ ~Popped(u, n)
          /\ \A r \in Node : n \notin Range(gone[r])
      BY <1>1, <3>1 DEF PlacesOK, Placed
    <3>3. \A u \in Thread : n \in Range(th'[u].chain) <=> u = t
      BY <1>5, <2>1, <3>2
    <3>4. \A u \in Thread : ~Popped(u, n)'
      BY <1>12, <1>13, <3>2
    <3> QED
      BY <1>3, <1>11, <2>1, <3>2, <3>3, <3>4
  <2>2. ASSUME NEW n \in Node, n \notin Range(q)
        PROVE /\ k2[n] = kind[n] /\ w2[n] = where[n] /\ life'[n] = life[n]
              /\ \A u \in Thread : /\ n \in Range(th'[u].chain) <=> n \in Range(th[u].chain)
                                   /\ Popped(u, n)' <=> Popped(u, n)
    BY <1>3, <1>5, <1>6, <1>11, <1>12, <1>13, <2>2
  <2>3. ASSUME NEW n \in Node
        PROVE /\ k2[n] = "free" <=> life'[n] = "free"
              /\ k2[n] = "stack" => w2[n] \in Stack
              /\ k2[n] \in {"chain", "hand"} => w2[n] \in Thread
              /\ k2[n] = "out" => w2[n] \in Node
              /\ \A r \in Stack : n \in Range(items'[r]) <=> k2[n] = "stack" /\ w2[n] = r
              /\ \A u \in Thread :
                   /\ n \in Range(th'[u].chain) <=> k2[n] = "chain" /\ w2[n] = u
                   /\ Popped(u, n)' <=> k2[n] = "hand" /\ w2[n] = u
              /\ \A r \in Node : n \in Range(gone[r]) <=> k2[n] = "out" /\ w2[n] = r
    <3>1. CASE n \in Range(q)
      BY <2>1, <3>1
    <3>2. CASE n \notin Range(q)
      <4>1. /\ kind[n] = "free" <=> life[n] = "free"
            /\ kind[n] = "stack" => where[n] \in Stack
            /\ kind[n] \in {"chain", "hand"} => where[n] \in Thread
            /\ kind[n] = "out" => where[n] \in Node
            /\ \A r \in Stack : n \in Range(items[r]) <=> kind[n] = "stack" /\ where[n] = r
            /\ \A u \in Thread :
                 /\ n \in Range(th[u].chain) <=> kind[n] = "chain" /\ where[n] = u
                 /\ Popped(u, n) <=> kind[n] = "hand" /\ where[n] = u
            /\ \A r \in Node : n \in Range(gone[r]) <=> kind[n] = "out" /\ where[n] = r
        BY <1>1 DEF PlacesOK, Placed
      <4>2. items' = items
        BY <1>3
      <4> QED
        BY <2>2, <3>2, <4>1, <4>2
    <3> QED
      BY <3>1, <3>2
  <2> QED
    BY <2>3 DEF PlacesOK, Placed
<1>15. \A n \in Node : kind[n] # "free" => next'[n] = next[n]
  BY <1>3, <1>4
<1>16. LinksOK(gone)'
  <2>5. PICK f : f = next'
    OBVIOUS
  <2>6. \A n \in Node : kind[n] # "free" => f[n] = next[n]
    BY <1>15, <2>5
  <2>7. ASSUME NEW r \in Stack PROVE Strung(items[r], f)
    BY <1>1, <2>6, LinksAll
  <2>8. ASSUME NEW r \in Node PROVE Strung(gone[r], f)
    BY <1>1, <2>6, LinksAll
  <2>9. ASSUME NEW u \in Thread
        PROVE  /\ Open(th[u].chain, f) /\ Cut(th[u], f)
               /\ th[u].op = "assign" => Strung(th[u].chain, f)
    BY <1>1, <2>6, LinksAll
  <2>10. Open(q, f) /\ Strung(q, f) /\ Cut(th'[t], f)
    BY <1>3, <1>5, <2>5 DEF Strung, Open, Cut
  <2>11. ASSUME NEW u \in Thread
         PROVE  /\ Open(th'[u].chain, f) /\ Cut(th'[u], f)
                /\ th'[u].op = "assign" => Strung(th'[u].chain, f)
    BY <1>5, <2>9, <2>10
  <2> QED
    BY <1>3, <2>5, <2>7, <2>8, <2>11 DEF LinksOK
<1>17. \A n \in Node : life[n] # "free" => life'[n] = life[n]
  BY <1>3, <1>4
<1>18. \A n \in Node : life'[n] = "retired" => life[n] = "retired"
  BY <1>3
<1>19. \A u \in Thread :
         /\ At(u, "retire")' => At(u, "retire") /\ th'[u].cur = th[u].cur
         /\ At(u, "retire") => At(u, "retire")' /\ th'[u].cur = th[u].cur
  BY <1>5 DEF At
<1>20. GoneOK(gone)'
  BY <1>1, <1>17, <1>18, <1>19, GoneStill
<1>21. \A u \in Thread : InCs(u) => \A n \in safe[u] : n \in Node /\ kind[n] \in {"stack", "hand", "out"}
  BY <1>1 DEF SafeOK
<1>22. Gentle(safe, kind, k2)
  BY <1>11, <1>15, <1>21 DEF Gentle
<1>23. ASSUME NEW u \in Thread, InCs(u), InCs(u)', NEW n \in safe[u]
       PROVE  /\ k2[n] \in {"stack", "hand", "out"}
              /\ k2[n] = "out" /\ life'[w2[n]] = "retired" => u \in waits'[w2[n]]
  <2>1. /\ n \in Node /\ kind[n] \in {"stack", "hand", "out"}
        /\ k2[n] = kind[n] /\ w2[n] = where[n]
    BY <1>4, <1>11, <1>21, <1>23
  <2>2. ASSUME kind[n] = "out", life'[where[n]] = "retired" PROVE u \in waits'[where[n]]
    <3>1. where[n] \in Node /\ life[where[n]] = "retired"
      BY <1>1, <1>18, <2>1, <2>2 DEF PlacesOK, Placed
    <3> QED
      BY <1>1, <1>3, <1>23, <2>1, <2>2, <3>1, HoldsUp
  <2> QED
    BY <2>1, <2>2
<1>24. th'[t].pc \notin Following
  BY <1>5 DEF Following
<1>25. /\ Pops(th'[t], Safe(safe, k2)[t], next', k2)
       /\ Reads(th'[t], Safe(safe, k2)[t], next')
  BY <1>24, StandsNowhere
<1> QED
  BY <1>1, <1>5, <1>7, <1>10, <1>14, <1>16, <1>20, <1>22, <1>23, <1>25, ThreadNow
(* A node that stays where it is.                                          *)
LEMMA PlacedStill ==
  ASSUME NEW n \in Node, NEW k, NEW w, NEW gone, NEW g2, Placed(n, k, w, gone),
         life'[n] = "free" <=> life[n] = "free",
         \A s \in Stack : n \in Range(items'[s]) <=> n \in Range(items[s]),
         \A u \in Thread : /\ n \in Range(th'[u].chain) <=> n \in Range(th[u].chain)
                           /\ Popped(u, n)' <=> Popped(u, n),
         \A r \in Node : n \in Range(g2[r]) <=> n \in Range(gone[r])
  PROVE  Placed(n, k, w, g2)'
  BY DEF Placed

(* A step that sets the next pointer of a node that the thread has for     *)
(* itself, and of one that it has popped only to null.                     *)
LEMMA LinkNow ==
  ASSUME NEW kind, NEW where, NEW gone, NEW safe, Now(kind, where, gone, safe),
         TypeOK', ControlOK', HeadsOK',
         NEW t \in Thread, \A u \in Thread : u # t => th'[u] = th[u],
         UNCHANGED <<items, life, waits>>,
         NEW m \in Node, NEW v, next' = [next EXCEPT ![m] = v],
         where[m] = t, kind[m] = "chain" \/ (kind[m] = "hand" /\ v = Null),
         th'[t].chain = th[t].chain, \A n \in Node : Popped(t, n)' <=> Popped(t, n),
         ~At(t, "retire"), ~At(t, "retire")',
         Open(th'[t].chain, next'), Cut(th'[t], next'), th'[t].op # "assign",
         Pops(th'[t], Safe(safe, kind)[t], next', kind),
         Careful => Reads(th'[t], Safe(safe, kind)[t], next')
  PROVE  StackOK'
<1>1. /\ TypeOK /\ ControlOK
      /\ kind \in [Node -> Kind] /\ where \in [Node -> Thread \cup Stack \cup Node]
      /\ gone \in [Node -> Seq(Node)] /\ safe \in [Thread -> SUBSET Node]
      /\ PlacesOK(kind, where, gone) /\ LinksOK(gone) /\ GoneOK(gone)
      /\ SafeOK(safe, kind, where)
  BY NowParts
<1>2. PlacesOK(kind, where, gone)'
  BY <1>1, PlacesStill
<1>3. \A n \in Node : n # m => next'[n] = next[n]
  BY <1>1 DEF TypeOK
<1>4. next'[m] = v
  BY <1>1 DEF TypeOK
<1>5. LinksOK(gone)'
  <2>1. PICK f : f = next'
    OBVIOUS
  <2>2. ASSUME NEW s \in Stack PROVE Strung(items[s], f)
    <3>1. Alike(f, kind, where, "stack", s)
      BY <1>3, <2>1 DEF Alike
    <3> QED
      BY <1>1, <3>1, StackLinks
  <2>3. ASSUME NEW r \in Node PROVE Strung(gone[r], f)
    <3>1. Alike(f, kind, where, "out", r)
      BY <1>3, <2>1 DEF Alike
    <3> QED
      BY <1>1, <3>1, GoneLinks
  <2>4. ASSUME NEW u \in Thread, u # t
        PROVE  /\ Open(th[u].chain, f) /\ Cut(th[u], f)
               /\ th[u].op = "assign" => Strung(th[u].chain, f)
    <3>1. \A n \in Node : where[n] = u => f[n] = next[n]
      BY <1>3, <2>1, <2>4
    <3>2. Alike(f, kind, where, "chain", u) /\ Alike(f, kind, where, "hand", u)
      BY <3>1 DEF Alike
    <3>4. Open(th[u].chain, f) /\ (th[u].op = "assign" => Strung(th[u].chain, f))
      BY <1>1, <3>2, ChainLinks
    <3>5. Cut(th[u], f)
      BY <1>1, <3>2, HandLinks
    <3> QED
      BY <3>4, <3>5
  <2>5. ASSUME NEW u \in Thread
        PROVE  /\ Open(th'[u].chain, f) /\ Cut(th'[u], f)
               /\ th'[u].op = "assign" => Strung(th'[u].chain, f)
    <3>1. CASE u = t
      BY <2>1, <3>1
    <3>2. CASE u # t
      BY <2>4, <3>2
    <3> QED
      BY <3>1, <3>2
  <2> QED
    BY <2>1, <2>2, <2>3, <2>5 DEF LinksOK
<1>6. \A u \in Thread :
        /\ At(u, "retire")' => At(u, "retire") /\ th'[u].cur = th[u].cur
        /\ At(u, "retire") => At(u, "retire")' /\ th'[u].cur = th[u].cur
  BY DEF At
<1>7. GoneOK(gone)'
  BY <1>1, <1>6, GoneStill
<1>8. \A u \in Thread : InCs(u) =>
        \A n \in safe[u] : n \in Node /\ kind[n] \in {"stack", "hand", "out"}
  BY <1>1 DEF SafeOK
<1>9. Gentle(safe, kind, kind)
  BY <1>3, <1>4, <1>8 DEF Gentle
<1>10. ASSUME NEW u \in Thread, InCs(u), InCs(u)', NEW n \in safe[u]
       PROVE  /\ kind[n] \in {"stack", "hand", "out"}
              /\ kind[n] = "out" /\ life'[where[n]] = "retired" => u \in waits'[where[n]]
  <2>1. kind[n] \in {"stack", "hand", "out"} /\ n \in Node
    BY <1>8, <1>10
  <2>2. ASSUME kind[n] = "out", life'[where[n]] = "retired"
        PROVE  u \in waits'[where[n]]
    <3>1. where[n] \in Node /\ life[where[n]] = "retired"
      BY <1>1, <2>1, <2>2 DEF PlacesOK, Placed
    <3> QED
      BY <1>1, <1>10, <2>2, <3>1, HoldsUp
  <2> QED
    BY <2>1, <2>2
<1> QED
  BY <1>1, <1>2, <1>5, <1>7, <1>9, <1>10, ThreadNow

(* PushLoad preserves the invariant.                                       *)
LEMMA PushLoadNow ==
  ASSUME NEW kind, NEW where, NEW gone, NEW safe, Now(kind, where, gone, safe),
         NEW t \in Thread, PushLoad(t)
  PROVE  StackOK'
<1> DEFINE q == th[t].chain
           m == Last(q)
           v == head[th[t].at].node
<1>1. /\ TypeOK /\ ControlOK /\ HeadsOK /\ PlacesOK(kind, where, gone) /\ LinksOK(gone)
  BY NowParts
<1>2. /\ At(t, "push") /\ th[t].op = "push" /\ Moved(t, "publish") /\ Kept(t)
      /\ next' = [next EXCEPT ![m] = v]
      /\ UNCHANGED <<head, life, waits, items>>
      /\ TypeOK' /\ ControlOK'
  BY <1>1, PushLoadKeeps
<1>3. q \in Seq(Node) /\ q # <<>> /\ m \in Node /\ m \in Range(q)
  BY <1>1, <1>2, PushFacts
<1>4. kind[m] = "chain" /\ where[m] = t
  BY <1>1, <1>3 DEF PlacesOK, Placed
<1>5. /\ \A u \in Thread : u # t => th'[u] = th[u]
      /\ th'[t].pc = "publish" /\ th'[t].op = "push" /\ th'[t].chain = q
  BY <1>2 DEF Moved
<1>6. HeadsOK'
  BY <1>1, <1>2, <1>5, HeadsQuiet DEF HolderPc, At
<1>7. ~At(t, "retire") /\ ~At(t, "retire")' /\ \A n \in Node : Popped(t, n)' <=> Popped(t, n)
  BY <1>2, <1>5 DEF At, Popped
<1>8. Open(q, next')
  <2>1. Open(q, next) /\ IsInjective(q)
    BY <1>1 DEF LinksOK, Open
  <2>2. ASSUME NEW i \in 1..Len(q), i < Len(q) PROVE next'[q[i]] = q[i + 1]
    <3>1. Len(q) \in 1..Len(q) /\ m = q[Len(q)] /\ q[i] \in Node
      BY <1>3, SeqFacts
    <3>2. q[i] # m
      BY <1>3, <2>1, <2>2, <3>1, InjectiveFacts
    <3>3. next'[q[i]] = next[q[i]]
      BY <1>1, <1>2, <3>1, <3>2 DEF TypeOK
    <3> QED
      BY <2>1, <2>2, <3>3 DEF Open
  <2> QED
    BY <2>1, <2>2 DEF Open
<1>9. Cut(th'[t], next')
  BY <1>5 DEF Cut
<1>10. th'[t].pc \notin Following
  BY <1>5 DEF Following
<1>11. /\ Pops(th'[t], Safe(safe, kind)[t], next', kind)
       /\ Reads(th'[t], Safe(safe, kind)[t], next')
  BY <1>10, StandsNowhere
<1> HIDE DEF q, m, v
<1>12. Open(th'[t].chain, next') /\ th'[t].chain = th[t].chain
  BY <1>5, <1>8 DEF q
<1> QED
  BY <1>2, <1>3, <1>4, <1>5, <1>6, <1>7, <1>9, <1>11, <1>12, LinkNow

(* PopCut preserves the invariant.                                         *)
LEMMA PopCutNow ==
  ASSUME NEW kind, NEW where, NEW gone, NEW safe, Now(kind, where, gone, safe),
         NEW t \in Thread, PopCut(t)
  PROVE  StackOK'
<1> DEFINE m == th[t].cur
<1>1. /\ TypeOK /\ ControlOK /\ HeadsOK /\ PlacesOK(kind, where, gone) /\ LinksOK(gone)
      /\ SafeOK(safe, kind, where) /\ PopsOK(safe, kind)
  BY NowParts
<1>2. /\ At(t, "cut") /\ th[t].op = "pop" /\ m \in Node
      /\ next' = [next EXCEPT ![m] = Null]
      /\ Moved(t, "value") /\ Kept(t) /\ UNCHANGED <<head, life, waits, items>>
      /\ TypeOK' /\ ControlOK'
  BY <1>1, PopCutKeeps
<1>3. Popped(t, m)
  BY <1>2 DEF Popped
<1>4. kind[m] = "hand" /\ where[m] = t
  BY <1>1, <1>2, <1>3 DEF PlacesOK, Placed
<1>5. /\ \A u \in Thread : u # t => th'[u] = th[u]
      /\ th'[t].pc = "value" /\ th'[t].op = "pop" /\ th'[t].chain = th[t].chain
      /\ th'[t].cur = m
  BY <1>2 DEF Moved, Kept
<1>6. HeadsOK'
  BY <1>1, <1>2, <1>5, HeadsQuiet DEF HolderPc, At
<1>7. ~At(t, "retire") /\ ~At(t, "retire")' /\ \A n \in Node : Popped(t, n)' <=> Popped(t, n)
  BY <1>2, <1>5 DEF At, Popped
<1>8. th[t].chain = <<>>
  BY <1>1, <1>2 DEF ControlOK, Agree, At
<1>9. Open(th'[t].chain, next')
  BY <1>5, <1>8, EmptyFacts
<1>10. Cut(th'[t], next')
  BY <1>1, <1>2, <1>5 DEF Cut, TypeOK
<1>11. InCs(t) /\ m \in safe[t]
  BY <1>1, <1>2, Inside DEF PopsOK, Pops, At
<1>12. m \in Safe(safe, kind)[t]
  BY <1>11 DEF Safe
<1>13. /\ Pops(th'[t], Safe(safe, kind)[t], next', kind)
       /\ Reads(th'[t], Safe(safe, kind)[t], next')
  BY <1>5, <1>12 DEF Pops, Reads
<1>14. Null = Null /\ th'[t].op # "assign"
  BY <1>5
<1> HIDE DEF m
<1> QED
  BY <1>2, <1>4, <1>5, <1>6, <1>7, <1>9, <1>10, <1>13, <1>14, LinkNow
(* Nodes go from chains into stacks, and those that were in a stack, or    *)
(* came out of one, stay where readers may meet them.                      *)
Shift(kind, where, k2, w2) ==
  \A n \in Node :
    /\ k2[n] = "stack" => kind[n] \in {"stack", "chain"}
    /\ kind[n] \in {"stack", "hand", "out"} => k2[n] \in {"stack", "hand", "out"}
    /\ k2[n] = "out" => \/ kind[n] = "out" /\ w2[n] = where[n]
                        \/ life[w2[n]] # "retired"

(* A step of a thread that moves nodes, but sets no next pointer and       *)
(* finalizes nothing.                                                      *)
LEMMA MoveNow ==
  ASSUME NEW kind, NEW where, NEW gone, NEW safe, Now(kind, where, gone, safe),
         TypeOK', ControlOK', HeadsOK',
         NEW t \in Thread, \A u \in Thread : u # t => th'[u] = th[u],
         UNCHANGED <<next, life>>, waits' = waits \/ (waits' = Left(t) /\ ~InCs(t)'),
         NEW k2 \in [Node -> Kind], NEW w2 \in [Node -> Thread \cup Stack \cup Node],
         NEW g2 \in [Node -> Seq(Node)],
         PlacesOK(k2, w2, g2)', GoneOK(g2)',
         \A s \in Stack : Strung(items'[s], next), \A r \in Node : Strung(g2[r], next),
         Open(th'[t].chain, next), Cut(th'[t], next),
         th'[t].op = "assign" => Strung(th'[t].chain, next),
         Shift(kind, where, k2, w2),
         Pops(th'[t], Safe(safe, k2)[t], next, k2),
         Careful => Reads(th'[t], Safe(safe, k2)[t], next)
  PROVE  StackOK'
<1>1. /\ TypeOK /\ ControlOK
      /\ kind \in [Node -> Kind] /\ where \in [Node -> Thread \cup Stack \cup Node]
      /\ gone \in [Node -> Seq(Node)] /\ safe \in [Thread -> SUBSET Node]
      /\ PlacesOK(kind, where, gone) /\ LinksOK(gone) /\ SafeOK(safe, kind, where)
  BY NowParts
<1>2. LinksOK(g2)'
  <2>1. ASSUME NEW u \in Thread
        PROVE  /\ Open(th'[u].chain, next) /\ Cut(th'[u], next)
               /\ th'[u].op = "assign" => Strung(th'[u].chain, next)
    <3>1. CASE u = t
      BY <3>1
    <3>2. CASE u # t
      BY <1>1, <3>2 DEF LinksOK
    <3> QED
      BY <3>1, <3>2
  <2> QED
    BY <2>1 DEF LinksOK
<1>3. \A u \in Thread : InCs(u) =>
        \A n \in safe[u] : n \in Node /\ kind[n] \in {"stack", "hand", "out"}
  BY <1>1 DEF SafeOK
<1>4. Gentle(safe, kind, k2)
  BY DEF Gentle, Shift
<1>5. ASSUME NEW u \in Thread, InCs(u), InCs(u)', NEW n \in safe[u]
      PROVE  /\ k2[n] \in {"stack", "hand", "out"}
             /\ k2[n] = "out" /\ life'[w2[n]] = "retired" => u \in waits'[w2[n]]
  <2>1. /\ kind[n] \in {"stack", "hand", "out"} /\ n \in Node
        /\ k2[n] \in {"stack", "hand", "out"}
    BY <1>3, <1>5 DEF Shift
  <2>2. ASSUME k2[n] = "out", life'[w2[n]] = "retired"
        PROVE  u \in waits'[w2[n]]
    <3>1. kind[n] = "out" /\ w2[n] = where[n] /\ life[w2[n]] = "retired"
      BY <2>1, <2>2 DEF Shift
    <3>2. where[n] \in Node
      BY <1>1, <2>1, <3>1 DEF PlacesOK, Placed
    <3> QED
      BY <1>1, <1>5, <2>2, <3>1, <3>2, HoldsUp
  <2> QED
    BY <2>1, <2>2
<1> QED
  BY <1>1, <1>2, <1>4, <1>5, ThreadNow

(* PushCas preserves the invariant.                                        *)
LEMMA PushCasNow ==
  ASSUME NEW kind, NEW where, NEW gone, NEW safe, Now(kind, where, gone, safe),
         NEW t \in Thread, PushCas(t)
  PROVE  StackOK'
<1> DEFINE q == th[t].chain
           s == th[t].at
<1>1. /\ TypeOK /\ ControlOK /\ HeadsOK
      /\ kind \in [Node -> Kind] /\ where \in [Node -> Thread \cup Stack \cup Node]
      /\ gone \in [Node -> Seq(Node)] /\ safe \in [Thread -> SUBSET Node]
      /\ PlacesOK(kind, where, gone) /\ LinksOK(gone) /\ GoneOK(gone)
  BY NowParts
<1>2. /\ At(t, "publish") /\ th[t].op = "push" /\ UNCHANGED <<next, life>>
      /\ \/ Pushed(t)
         \/ Moved(t, "push") /\ Kept(t) /\ UNCHANGED <<head, waits, items>>
      /\ TypeOK' /\ ControlOK'
  BY <1>1, PushCasKeeps
<1>3. CASE Moved(t, "push") /\ UNCHANGED <<head, waits, items>>
  <2>1. /\ \A u \in Thread : u # t => th'[u] = th[u]
        /\ th'[t].pc \notin HolderPc /\ th[t].pc \notin HolderPc
        /\ th[t].pc \notin {"cut", "value", "retire"}
    BY <1>2, <1>3 DEF Moved, HolderPc, At
  <2>2. HeadsOK'
    BY <1>1, <1>3, <2>1, HeadsQuiet
  <2>3. "push" \notin Following
    BY DEF Following
  <2> QED
    BY <1>2, <1>3, <2>1, <2>2, <2>3, MovedNow
<1>4. CASE Pushed(t)
  <2>1. /\ q \in Seq(Node) /\ q # <<>> /\ s \in Stack /\ items[s] \in Seq(Node)
    BY <1>1, <1>2, PushFacts, Parts
  <2>2. /\ head[s].node = next[Last(q)] /\ ~head[s].spin
        /\ items' = [items EXCEPT ![s] = q \o items[s]]
        /\ Ended(t) /\ waits' = Left(t)
    BY <1>4 DEF Pushed
  <2>3. /\ \A n \in Node : n \in Range(q) <=> kind[n] = "chain" /\ where[n] = t
        /\ \A n \in Node : n \in Range(items[s]) <=> kind[n] = "stack" /\ where[n] = s
    BY <1>1, <2>1 DEF PlacesOK, Placed
  <2>4. Range(q) \subseteq Node /\ Range(items[s]) \subseteq Node
    BY <2>1, SeqFacts
  <2>5. Open(q, next) /\ Strung(items[s], next)
    BY <1>1, <2>1 DEF LinksOK
  <2>6. next[Last(q)] = First(items[s])
    BY <1>1, <2>1, <2>2, OpenHead
  <2>7. Range(q) \cap Range(items[s]) = {}
    BY <2>3, <2>4
  <2>8. /\ Strung(q \o items[s], next)
        /\ Range(q \o items[s]) = Range(q) \cup Range(items[s])
    BY <2>1, <2>5, <2>6, <2>7, ConcatFacts
  <2>9. /\ items'[s] = q \o items[s] /\ \A r \in Stack : r # s => items'[r] = items[r]
    BY <1>1, <2>1, <2>2 DEF TypeOK
  <2>10. HeadsOK'
    BY <1>1, <1>2, <1>4, PushedHeads
  <2>11. /\ th'[t].pc = "idle" /\ th'[t].op = "none" /\ th'[t].chain = <<>>
         /\ \A u \in Thread : u # t => th'[u] = th[u]
    BY <2>2, RestFacts DEF Ended
  <2>12. PICK k2 : k2 = [n \in Node |-> IF n \in Range(q) THEN "stack" ELSE kind[n]]
    OBVIOUS
  <2>13. PICK w2 : w2 = [n \in Node |-> IF n \in Range(q) THEN s ELSE where[n]]
    OBVIOUS
  <2>14. k2 \in [Node -> Kind] /\ w2 \in [Node -> Thread \cup Stack \cup Node]
    BY <1>1, <2>1, <2>12, <2>13 DEF Kind
  <2>15. \A n \in Node : /\ n \in Range(q) => k2[n] = "stack" /\ w2[n] = s
                         /\ n \notin Range(q) => k2[n] = kind[n] /\ w2[n] = where[n]
    BY <2>12, <2>13
  <2>16. \A u \in Thread, n \in Node : Popped(u, n)' <=> Popped(u, n)
    BY <1>2, <2>11 DEF Popped, At
  <2>17. \A u \in Thread, n \in Node :
           n \in Range(th'[u].chain) <=> n \in Range(th[u].chain) /\ u # t
    BY <2>11, EmptyFacts
  <2>18. \A r \in Stack, n \in Node :
           n \in Range(items'[r]) <=> n \in Range(items[r]) \/ (r = s /\ n \in Range(q))
    BY <2>8, <2>9
  <2>19. life' = life
    BY <1>2
  <2>20. ASSUME NEW n \in Node PROVE Placed(n, k2[n], w2[n], gone)'
    <3>1. Placed(n, kind[n], where[n], gone)
      BY <1>1 DEF PlacesOK
    <3>2. CASE n \in Range(q)
      <4>1. kind[n] = "chain" /\ where[n] = t /\ k2[n] = "stack" /\ w2[n] = s
        BY <2>3, <2>15, <3>2
      <4>2. /\ life[n] # "free" /\ \A r \in Stack : n \notin Range(items[r])
            /\ \A u \in Thread : /\ n \in Range(th[u].chain) <=> u = t
                                 /\ ~Popped(u, n)
            /\ \A r \in Node : n \notin Range(gone[r])
        BY <3>1, <4>1 DEF Placed
      <4> QED
        BY <2>1, <2>16, <2>17, <2>18, <2>19, <3>2, <4>1, <4>2 DEF Placed
    <3>3. CASE n \notin Range(q)
      <4>1. /\ k2[n] = kind[n] /\ w2[n] = where[n]
            /\ \A r \in Stack : n \in Range(items'[r]) <=> n \in Range(items[r])
        BY <2>15, <2>18, <3>3
      <4>2. \A u \in Thread : n \in Range(th'[u].chain) <=> n \in Range(th[u].chain)
        BY <2>17, <3>3
      <4> QED
        BY <2>16, <2>19, <3>1, <4>1, <4>2, PlacedStill
    <3> QED
      BY <3>2, <3>3
  <2>21. PlacesOK(k2, w2, gone)'
    BY <2>20 DEF PlacesOK
  <2>22. \A u \in Thread :
           /\ At(u, "retire")' => At(u, "retire") /\ th'[u].cur = th[u].cur
           /\ At(u, "retire") => At(u, "retire")' /\ th'[u].cur = th[u].cur
    BY <1>2, <2>11 DEF At
  <2>23. GoneOK(gone)'
    BY <1>1, <2>19, <2>22, GoneStill
  <2>24. \A r \in Stack : Strung(items'[r], next)
    BY <1>1, <2>8, <2>9 DEF LinksOK
  <2>25. \A r \in Node : Strung(gone[r], next)
    BY <1>1 DEF LinksOK
  <2>26. Open(th'[t].chain, next) /\ Cut(th'[t], next) /\ th'[t].op # "assign"
    BY <2>11, EmptyFacts DEF Cut
  <2>27. Shift(kind, where, k2, w2)
    BY <2>3, <2>15 DEF Shift
  <2>28. th'[t].pc \notin Following /\ ~InCs(t)'
    BY <2>11 DEF Following, InCs, At
  <2>29. /\ Pops(th'[t], Safe(safe, k2)[t], next, k2)
         /\ Reads(th'[t], Safe(safe, k2)[t], next)
    BY <2>28, StandsNowhere
  <2>30. waits' = Left(t) /\ ~InCs(t)' /\ th'[t].op # "assign" /\ UNCHANGED <<next, life>>
    BY <1>2, <2>2, <2>26, <2>28
  <2> HIDE DEF q, s
  <2> QED
    BY <1>1, <1>2, <2>10, <2>11, <2>14, <2>21, <2>23, <2>24, <2>25, <2>26, <2>27,
       <2>29, <2>30, MoveNow
<1> QED
  BY <1>2, <1>3, <1>4

(* PopCas preserves the invariant.                                         *)
LEMMA PopCasNow ==
  ASSUME NEW kind, NEW where, NEW gone, NEW safe, Now(kind, where, gone, safe),
         NEW t \in Thread, PopCas(t)
  PROVE  StackOK'
<1> DEFINE c == th[t].cur
           s == th[t].at
<1>1. /\ TypeOK /\ ControlOK /\ HeadsOK
      /\ kind \in [Node -> Kind] /\ where \in [Node -> Thread \cup Stack \cup Node]
      /\ gone \in [Node -> Seq(Node)] /\ safe \in [Thread -> SUBSET Node]
      /\ PlacesOK(kind, where, gone) /\ LinksOK(gone) /\ GoneOK(gone)
      /\ PopsOK(safe, kind)
  BY NowParts
<1>2. At(t, "take") /\ c # Null /\ s \in Stack /\ th[t].chain = <<>>
  BY <1>1 DEF PopCas, ControlOK, Agree, At
<1>3. ASSUME head[s].node = c, ~head[s].spin
      PROVE  items[s] \in Seq(Node) /\ items[s] # <<>> /\ First(items[s]) = c
  BY <1>1, <1>2, <1>3, OpenHead DEF First, TypeOK
<1>4. /\ th[t].op = "pop" /\ UNCHANGED <<next, life, waits>> /\ c \in Node
      /\ \/ Took(t)
         \/ Moved(t, "pop") /\ Kept(t) /\ UNCHANGED <<head, items>>
      /\ TypeOK' /\ ControlOK'
  BY <1>1, <1>2, <1>3, PopCasKeeps, Parts
<1>5. CASE Moved(t, "pop") /\ UNCHANGED <<head, items>>
  <2>1. /\ \A u \in Thread : u # t => th'[u] = th[u]
        /\ th'[t].pc \notin HolderPc /\ th[t].pc \notin HolderPc
        /\ th[t].pc \notin {"cut", "value", "retire"}
    BY <1>2, <1>5 DEF Moved, HolderPc, At
  <2>2. HeadsOK'
    BY <1>1, <1>5, <2>1, HeadsQuiet
  <2>3. "pop" \notin Following /\ "pop" # "retire"
    BY DEF Following
  <2> QED
    BY <1>4, <1>5, <2>1, <2>2, <2>3, MovedNow
<1>6. CASE Took(t)
  <2>1. /\ head[s].node = c /\ ~head[s].spin
        /\ items' = [items EXCEPT ![s] = Tail(items[s])]
        /\ \A u \in Thread : u # t => th'[u] = th[u]
        /\ th'[t].pc = "cut" /\ th'[t].op = "pop" /\ th'[t].chain = <<>> /\ th'[t].cur = c
    BY <1>2, <1>4, <1>6 DEF Took, Moved, Kept
  <2>2. /\ items[s] \in Seq(Node) /\ items[s] # <<>>
        /\ First(items[s]) = c /\ items[s][1] = c
    BY <1>3, <2>1 DEF First
  <2>3. Strung(items[s], next) /\ c \in Range(items[s])
    BY <1>1, <1>2, <2>2, SeqFacts DEF LinksOK
  <2>4. /\ Strung(Tail(items[s]), next) /\ Range(Tail(items[s])) = Range(items[s]) \ {c}
        /\ First(Tail(items[s])) = next[c]
    BY <2>2, <2>3, TailFacts
  <2>5. kind[c] = "stack" /\ where[c] = s
    BY <1>1, <1>2, <1>4, <2>3 DEF PlacesOK, Placed
  <2>6. InCs(t) /\ c \in safe[t] /\ th[t].nx = next[c]
    BY <1>1, <1>2, <2>5, Inside DEF PopsOK, Pops, At
  <2>7. HeadsOK'
    BY <1>1, <1>2, <1>6, <2>4, <2>6, TookHeads
  <2>8. /\ items'[s] = Tail(items[s])
        /\ \A r \in Stack : r # s => items'[r] = items[r]
    BY <1>1, <1>2, <2>1 DEF TypeOK
  <2>9. PICK k2 : k2 = [n \in Node |-> IF n = c THEN "hand" ELSE kind[n]]
    OBVIOUS
  <2>10. PICK w2 : w2 = [n \in Node |-> IF n = c THEN t ELSE where[n]]
    OBVIOUS
  <2>11. k2 \in [Node -> Kind] /\ w2 \in [Node -> Thread \cup Stack \cup Node]
    BY <1>1, <2>9, <2>10 DEF Kind
  <2>12. /\ k2[c] = "hand" /\ w2[c] = t
         /\ \A n \in Node : n # c => k2[n] = kind[n] /\ w2[n] = where[n]
    BY <1>4, <2>9, <2>10
  <2>13. \A u \in Thread, n \in Node : Popped(u, n)' <=> Popped(u, n) \/ (u = t /\ n = c)
    BY <1>2, <2>1 DEF Popped, At
  <2>14. \A u \in Thread : th'[u].chain = th[u].chain
    BY <1>2, <2>1
  <2>15. \A r \in Stack, n \in Node :
           n \in Range(items'[r]) <=> n \in Range(items[r]) /\ ~(r = s /\ n = c)
    BY <2>4, <2>8
  <2>16. life' = life
    BY <1>4
  <2>17. ASSUME NEW n \in Node PROVE Placed(n, k2[n], w2[n], gone)'
    <3>1. Placed(n, kind[n], where[n], gone)
      BY <1>1 DEF PlacesOK
    <3>2. CASE n = c
      <4>1. /\ life[n] # "free" /\ \A r \in Stack : n \in Range(items[r]) <=> r = s
            /\ \A u \in Thread : n \notin Range(th[u].chain) /\ ~Popped(u, n)
            /\ \A r \in Node : n \notin Range(gone[r])
        BY <2>5, <3>1, <3>2 DEF Placed
      <4> QED
        BY <2>12, <2>13, <2>14, <2>15, <2>16, <3>2, <4>1 DEF Placed
    <3>3. CASE n # c
      <4>1. /\ k2[n] = kind[n] /\ w2[n] = where[n]
            /\ \A r \in Stack : n \in Range(items'[r]) <=> n \in Range(items[r])
            /\ \A u \in Thread : Popped(u, n)' <=> Popped(u, n)
        BY <2>12, <2>13, <2>15, <3>3
      <4> QED
        BY <2>14, <2>16, <3>1, <4>1, PlacedStill
    <3> QED
      BY <3>2, <3>3
  <2>18. PlacesOK(k2, w2, gone)'
    BY <2>17 DEF PlacesOK
  <2>19. \A u \in Thread :
           /\ At(u, "retire")' => At(u, "retire") /\ th'[u].cur = th[u].cur
           /\ At(u, "retire") => At(u, "retire")' /\ th'[u].cur = th[u].cur
    BY <1>2, <2>1 DEF At
  <2>20. GoneOK(gone)'
    BY <1>1, <2>16, <2>19, GoneStill
  <2>21. \A r \in Stack : Strung(items'[r], next)
    BY <1>1, <2>4, <2>8 DEF LinksOK
  <2>22. \A r \in Node : Strung(gone[r], next)
    BY <1>1 DEF LinksOK
  <2>23. Open(th'[t].chain, next) /\ Cut(th'[t], next) /\ th'[t].op # "assign"
    BY <2>1, EmptyFacts DEF Cut
  <2>24. Shift(kind, where, k2, w2)
    BY <1>4, <2>5, <2>12 DEF Shift
  <2>25. c \in Safe(safe, k2)[t]
    BY <2>6 DEF Safe
  <2>26. /\ Pops(th'[t], Safe(safe, k2)[t], next, k2)
         /\ Reads(th'[t], Safe(safe, k2)[t], next)
    BY <2>1, <2>25 DEF Pops, Reads
  <2>27. waits' = waits /\ UNCHANGED <<next, life>>
    BY <1>4
  <2> HIDE DEF c, s
  <2> QED
    BY <1>1, <1>4, <2>1, <2>7, <2>11, <2>18, <2>20, <2>21, <2>22, <2>23, <2>24, <2>26,
       <2>27, MoveNow
<1> QED
  BY <1>4, <1>5, <1>6

(* SwapFirst preserves the invariant.                                      *)
LEMMA SwapFirstNow ==
  ASSUME NEW kind, NEW where, NEW gone, NEW safe, Now(kind, where, gone, safe),
         NEW t \in Thread, SwapFirst(t)
  PROVE  StackOK'
<1> DEFINE s == th[t].at
           r == th[t].other
<1>1. /\ TypeOK /\ ControlOK /\ HeadsOK
      /\ kind \in [Node -> Kind] /\ where \in [Node -> Thread \cup Stack \cup Node]
      /\ gone \in [Node -> Seq(Node)] /\ safe \in [Thread -> SUBSET Node]
      /\ PlacesOK(kind, where, gone) /\ LinksOK(gone) /\ GoneOK(gone)
  BY NowParts
<1>2. /\ At(t, "store1") /\ th[t].op = "swap" /\ th[t].chain = <<>>
      /\ s \in Stack /\ r \in Stack /\ s # r
      /\ items' = [items EXCEPT ![s] = items[r], ![r] = items[s]]
      /\ Moved(t, "store2") /\ UNCHANGED <<next, life, waits>>
      /\ TypeOK' /\ ControlOK'
  BY <1>1, SwapFirstKeeps
<1>3. HeadsOK'
  BY <1>1, SwapFirstHeads
<1>4. /\ \A u \in Thread : u # t => th'[u] = th[u]
      /\ th'[t].pc = "store2" /\ th'[t].op = "swap" /\ th'[t].chain = <<>>
  BY <1>2 DEF Moved
<1>5. /\ items'[s] = items[r] /\ items'[r] = items[s]
      /\ \A m \in Stack : m # s /\ m # r => items'[m] = items[m]
  BY <1>1, <1>2 DEF TypeOK
<1>6. PICK w2 : w2 = [n \in Node |-> IF kind[n] = "stack" /\ where[n] = s THEN r
                                    ELSE IF kind[n] = "stack" /\ where[n] = r THEN s
                                    ELSE where[n]]
  OBVIOUS
<1>7. w2 \in [Node -> Thread \cup Stack \cup Node]
  BY <1>1, <1>2, <1>6
<1>8. \A n \in Node :
        /\ kind[n] = "stack" /\ where[n] = s => w2[n] = r
        /\ kind[n] = "stack" /\ where[n] = r => w2[n] = s
        /\ ~(kind[n] = "stack" /\ where[n] \in {s, r}) => w2[n] = where[n]
  BY <1>2, <1>6
<1>9. \A u \in Thread, n \in Node : Popped(u, n)' <=> Popped(u, n)
  BY <1>2, <1>4 DEF Popped, At
<1>10. \A u \in Thread : th'[u].chain = th[u].chain
  BY <1>2, <1>4
<1>11. life' = life
  BY <1>2
<1>12. ASSUME NEW n \in Node PROVE Placed(n, kind[n], w2[n], gone)'
  <2>1. Placed(n, kind[n], where[n], gone)
    BY <1>1 DEF PlacesOK
  <2>2. ASSUME NEW m \in Stack
        PROVE  n \in Range(items'[m]) <=> kind[n] = "stack" /\ w2[n] = m
    <3>1. \A k \in Stack : n \in Range(items[k]) <=> kind[n] = "stack" /\ where[n] = k
      BY <2>1 DEF Placed
    <3>2. CASE m = s
      BY <1>2, <1>5, <1>8, <3>1, <3>2
    <3>3. CASE m = r
      BY <1>2, <1>5, <1>8, <3>1, <3>3
    <3>4. CASE m # s /\ m # r
      BY <1>2, <1>5, <1>8, <3>1, <3>4
    <3> QED
      BY <3>2, <3>3, <3>4
  <2>3. kind[n] # "stack" => w2[n] = where[n]
    BY <1>8
  <2>4. kind[n] = "stack" => w2[n] \in Stack
    BY <1>2, <1>8, <2>1 DEF Placed
  <2> QED
    BY <1>9, <1>10, <1>11, <2>1, <2>2, <2>3, <2>4 DEF Placed
<1>13. PlacesOK(kind, w2, gone)'
  BY <1>12 DEF PlacesOK
<1>14. \A u \in Thread :
         /\ At(u, "retire")' => At(u, "retire") /\ th'[u].cur = th[u].cur
         /\ At(u, "retire") => At(u, "retire")' /\ th'[u].cur = th[u].cur
  BY <1>2, <1>4 DEF At
<1>15. GoneOK(gone)'
  BY <1>1, <1>11, <1>14, GoneStill
<1>16. \A m \in Stack : Strung(items'[m], next)
  BY <1>1, <1>2, <1>5 DEF LinksOK
<1>17. \A m \in Node : Strung(gone[m], next)
  BY <1>1 DEF LinksOK
<1>18. Open(th'[t].chain, next) /\ Cut(th'[t], next) /\ th'[t].op # "assign"
  BY <1>4, EmptyFacts DEF Cut
<1>19. Shift(kind, where, kind, w2)
  BY <1>8 DEF Shift
<1>20. th'[t].pc \notin Following
  BY <1>4 DEF Following
<1>21. /\ Pops(th'[t], Safe(safe, kind)[t], next, kind)
       /\ Reads(th'[t], Safe(safe, kind)[t], next)
  BY <1>20, StandsNowhere
<1>22. waits' = waits /\ UNCHANGED <<next, life>>
  BY <1>2
<1> HIDE DEF s, r
<1> QED
  BY <1>1, <1>2, <1>3, <1>4, <1>7, <1>13, <1>15, <1>16, <1>17, <1>18, <1>19, <1>21,
     <1>22, MoveNow

(* Nothing hangs from a node that nobody has begun to finalize.            *)
Unfinalized(n, kind, where, gone) ==
  /\ gone[n] = <<>> /\ life[n] = "live"
  /\ \A u \in Thread : At(u, "retire") => th[u].cur # n
  /\ \A m \in Node : ~(kind[m] = "out" /\ where[m] = n)

(* Nobody has begun to finalize a node that is in a stack or in a hand.    *)
LEMMA StackedLive ==
  ASSUME TypeOK, NEW kind, NEW where, NEW gone \in [Node -> Seq(Node)],
         PlacesOK(kind, where, gone), GoneOK(gone),
         NEW n \in Node, kind[n] \in {"stack", "hand"}
  PROVE  Unfinalized(n, kind, where, gone)
<1>1. Placed(n, kind[n], where[n], gone)
  BY DEF PlacesOK
<1>2. ASSUME gone[n] # <<>> PROVE FALSE
  <2>1. gone[n] \in Seq(Node) /\ gone[n][1] = n
    BY <1>2 DEF GoneOK
  <2>2. n \in Range(gone[n])
    BY <1>2, <2>1, SeqFacts
  <2> QED
    BY <1>1, <2>2 DEF Placed
<1>3. life[n] = "live"
  BY <1>1, <1>2 DEF Placed, GoneOK, TypeOK
<1>4. \A u \in Thread : At(u, "retire") => th[u].cur # n
  BY <1>2, Names DEF GoneOK
<1>5. ASSUME NEW m \in Node, kind[m] = "out", where[m] = n PROVE FALSE
  <2>1. m \in Range(gone[n])
    BY <1>5 DEF PlacesOK, Placed
  <2> QED
    BY <1>2, <2>1, EmptyFacts
<1> QED
  BY <1>2, <1>3, <1>4, <1>5 DEF Unfinalized

(* ReplaceStore preserves the invariant.                                   *)
LEMMA ReplaceStoreNow ==
  ASSUME NEW kind, NEW where, NEW gone, NEW safe, Now(kind, where, gone, safe),
         NEW t \in Thread, ReplaceStore(t)
  PROVE  StackOK'
<1> DEFINE s == th[t].at
           q == th[t].chain
           c == th[t].cur
           old == items[s]
<1>1. /\ TypeOK /\ ControlOK /\ HeadsOK
      /\ kind \in [Node -> Kind] /\ where \in [Node -> Thread \cup Stack \cup Node]
      /\ gone \in [Node -> Seq(Node)] /\ safe \in [Thread -> SUBSET Node]
      /\ PlacesOK(kind, where, gone) /\ LinksOK(gone) /\ GoneOK(gone)
  BY NowParts
<1>2. /\ At(t, "store") /\ UNCHANGED <<next, life>> /\ waits' = Left(t)
      /\ items' = [items EXCEPT ![s] = q]
      /\ th'[t].pc = "retire" /\ th'[t].chain = <<>> /\ th'[t].cur = c
      /\ \A u \in Thread : u # t => th'[u] = th[u]
  BY <1>1, ReplaceStoreDoes
<1>3. /\ th[t].op \in {"clear", "assign"} /\ s \in Stack /\ q \in Seq(Node)
      /\ TypeOK' /\ ControlOK'
  BY <1>1, ReplaceStoreKeeps
<1>4. HeadsOK' /\ c = First(old)
  BY <1>1, ReplaceStoreHeads
<1>5. old \in Seq(Node) /\ Strung(old, next)
  BY <1>1, <1>3 DEF TypeOK, LinksOK
<1>6. Strung(q, next)
  BY <1>1, <1>3, EmptyFacts DEF LinksOK, ControlOK, Agree
<1>7. Range(old) \subseteq Node /\ Range(q) \subseteq Node
  BY <1>3, <1>5, SeqFacts
<1>8. /\ \A n \in Node : n \in Range(q) <=> kind[n] = "chain" /\ where[n] = t
      /\ \A n \in Node : n \in Range(old) <=> kind[n] = "stack" /\ where[n] = s
  BY <1>1, <1>3 DEF PlacesOK, Placed
<1>9. /\ old = <<>> => c = Null /\ Range(old) = {}
      /\ old # <<>> => c \in Node /\ c \in Range(old) /\ old[1] = c
  BY <1>4, <1>5, <1>7, SeqFacts
<1>10. c \in Node => /\ old # <<>> /\ old[1] = c /\ kind[c] = "stack"
                     /\ gone[c] = <<>> /\ life[c] = "live"
                     /\ \A u \in Thread : At(u, "retire") => th[u].cur # c
                     /\ \A m \in Node : ~(kind[m] = "out" /\ where[m] = c)
  <2>1. ASSUME c \in Node PROVE old # <<>> /\ old[1] = c /\ kind[c] = "stack"
    BY <1>8, <1>9, <2>1, Names
  <2>2. ASSUME c \in Node
        PROVE  /\ gone[c] = <<>> /\ life[c] = "live"
               /\ \A u \in Thread : At(u, "retire") => th[u].cur # c
               /\ \A m \in Node : ~(kind[m] = "out" /\ where[m] = c)
    <3>1. c \in Node /\ kind[c] \in {"stack", "hand"}
      BY <2>1, <2>2
    <3>2. Unfinalized(c, kind, where, gone)
      BY <1>1, <3>1, StackedLive
    <3> QED
      BY <3>2 DEF Unfinalized
  <2> QED
    BY <2>1, <2>2
<1>11. PICK k2 : k2 = [n \in Node |-> IF n \in Range(old) THEN "out"
                                      ELSE IF n \in Range(q) THEN "stack" ELSE kind[n]]
  OBVIOUS
<1>12. PICK w2 : w2 = [n \in Node |-> IF n \in Range(old) THEN c
                                      ELSE IF n \in Range(q) THEN s ELSE where[n]]
  OBVIOUS
<1>13. PICK g2 : g2 = [n \in Node |-> IF n = c THEN old ELSE gone[n]]
  OBVIOUS
<1>14. /\ k2 \in [Node -> Kind] /\ w2 \in [Node -> Thread \cup Stack \cup Node]
       /\ g2 \in [Node -> Seq(Node)]
  BY <1>1, <1>3, <1>5, <1>9, <1>11, <1>12, <1>13 DEF Kind
<1>15. \A n \in Node :
         /\ n \in Range(old) => k2[n] = "out" /\ w2[n] = c /\ n \notin Range(q)
         /\ n \in Range(q) => k2[n] = "stack" /\ w2[n] = s /\ n \notin Range(old)
         /\ n \notin Range(old) /\ n \notin Range(q) => k2[n] = kind[n] /\ w2[n] = where[n]
  BY <1>8, <1>11, <1>12
<1>16. /\ c \in Node => g2[c] = old
       /\ \A n \in Node : n # c => g2[n] = gone[n]
  BY <1>13
<1>17. /\ items'[s] = q
       /\ \A m \in Stack : m # s => items'[m] = items[m]
  BY <1>1, <1>2, <1>3 DEF TypeOK
<1>18. \A u \in Thread, n \in Node : Popped(u, n)' <=> Popped(u, n)
  BY <1>2 DEF Popped, At
<1>19. \A u \in Thread, n \in Node :
         n \in Range(th'[u].chain) <=> n \in Range(th[u].chain) /\ u # t
  BY <1>2, EmptyFacts
<1>20. life' = life
  BY <1>2
<1>21. ASSUME NEW n \in Node PROVE Placed(n, k2[n], w2[n], g2)'
  <2>1. Placed(n, kind[n], where[n], gone)
    BY <1>1 DEF PlacesOK
  <2>2. CASE n \in Range(old)
    <3>1. /\ k2[n] = "out" /\ w2[n] = c /\ n \notin Range(q) /\ c \in Node
          /\ kind[n] = "stack" /\ where[n] = s
      BY <1>8, <1>9, <1>15, <2>2
    <3>2. /\ life[n] # "free" /\ \A m \in Stack : n \in Range(items[m]) <=> m = s
          /\ \A u \in Thread : n \notin Range(th[u].chain) /\ ~Popped(u, n)
          /\ \A m \in Node : n \notin Range(gone[m])
      BY <2>1, <3>1 DEF Placed
    <3>3. \A m \in Stack : n \notin Range(items'[m])
      BY <1>17, <3>1, <3>2
    <3>4. \A m \in Node : n \in Range(g2[m]) <=> m = c
      BY <1>16, <2>2, <3>1, <3>2
    <3> QED
      BY <1>18, <1>19, <1>20, <3>1, <3>2, <3>3, <3>4 DEF Placed
  <2>3. CASE n \in Range(q)
    <3>1. /\ k2[n] = "stack" /\ w2[n] = s /\ n \notin Range(old)
          /\ kind[n] = "chain" /\ where[n] = t
      BY <1>8, <1>15, <2>3
    <3>2. /\ life[n] # "free" /\ \A m \in Stack : n \notin Range(items[m])
          /\ \A u \in Thread : (n \in Range(th[u].chain) <=> u = t) /\ ~Popped(u, n)
          /\ \A m \in Node : n \notin Range(gone[m])
      BY <2>1, <3>1 DEF Placed
    <3>3. \A m \in Stack : n \in Range(items'[m]) <=> m = s
      BY <1>17, <2>3, <3>2
    <3>4. \A m \in Node : n \notin Range(g2[m])
      BY <1>16, <3>1, <3>2
    <3> QED
      BY <1>3, <1>18, <1>19, <1>20, <3>1, <3>2, <3>3, <3>4 DEF Placed
  <2>4. CASE n \notin Range(old) /\ n \notin Range(q)
    <3>1. k2[n] = kind[n] /\ w2[n] = where[n]
      BY <1>15, <2>4
    <3>2. \A m \in Stack : n \in Range(items'[m]) <=> n \in Range(items[m])
      BY <1>17, <2>4
    <3>3. \A u \in Thread : n \in Range(th'[u].chain) <=> n \in Range(th[u].chain)
      BY <1>19, <2>4
    <3>4. \A m \in Node : n \in Range(g2[m]) <=> n \in Range(gone[m])
      BY <1>10, <1>16, <2>4, EmptyFacts
    <3> QED
      BY <1>18, <1>20, <2>1, <3>1, <3>2, <3>3, <3>4, PlacedStill
  <2> QED
    BY <2>2, <2>3, <2>4
<1>22. PlacesOK(k2, w2, g2)'
  BY <1>21 DEF PlacesOK
<1>23. At(t, "retire")' /\ ~At(t, "retire")
  BY <1>2 DEF At
<1>24. \A u \in Thread : u # t => /\ At(u, "retire")' <=> At(u, "retire")
                                  /\ th'[u].cur = th[u].cur
  BY <1>2 DEF At
<1>25. ASSUME NEW r \in Node
       PROVE  /\ g2[r] # <<>> =>
                   /\ g2[r][1] = r
                   /\ \/ life'[r] = "retired"
                      \/ \E u \in Thread : At(u, "retire")' /\ th'[u].cur = r
              /\ life'[r] = "retired" => g2[r] # <<>>
  <2>1. CASE r = c
    BY <1>2, <1>10, <1>16, <1>20, <1>23, <2>1
  <2>2. CASE r # c
    <3>1. g2[r] = gone[r] /\ life'[r] = life[r]
      BY <1>16, <1>20, <2>2
    <3>2. /\ gone[r] # <<>> =>
               /\ gone[r][1] = r
               /\ \/ life[r] = "retired"
                  \/ \E u \in Thread : At(u, "retire") /\ th[u].cur = r
          /\ life[r] = "retired" => gone[r] # <<>>
      BY <1>1 DEF GoneOK
    <3>3. (\E u \in Thread : At(u, "retire") /\ th[u].cur = r) =>
            \E u \in Thread : At(u, "retire")' /\ th'[u].cur = r
      BY <1>23, <1>24
    <3> QED
      BY <3>1, <3>2, <3>3
  <2> QED
    BY <2>1, <2>2
<1>26. ASSUME NEW u \in Thread, At(u, "retire")', th'[u].cur # Null
       PROVE  /\ g2[th'[u].cur] # <<>> /\ life'[th'[u].cur] = "live"
              /\ u # t => At(u, "retire") /\ th'[u].cur = th[u].cur /\ th'[u].cur # c
  <2>1. CASE u = t
    <3>1. c \in Node
      BY <1>2, <1>9, <1>26, <2>1
    <3> QED
      BY <1>2, <1>10, <1>16, <1>20, <2>1, <3>1
  <2>2. CASE u # t
    <3>1. At(u, "retire") /\ th'[u].cur = th[u].cur /\ th[u].cur \in Node
      BY <1>1, <1>24, <1>26, <2>2, Fields DEF Ptr
    <3>2. th[u].cur # c
      BY <1>10, <3>1
    <3> QED
      BY <1>1, <1>16, <1>20, <1>26, <2>2, <3>1, <3>2 DEF GoneOK
  <2> QED
    BY <2>1, <2>2
<1>27. ASSUME NEW u \in Thread, NEW v \in Thread, At(u, "retire")', At(v, "retire")',
              th'[u].cur = th'[v].cur, th'[u].cur # Null
       PROVE  u = v
  BY <1>1, <1>2, <1>26, <1>27 DEF GoneOK
<1>28. GoneOK(g2)'
  BY <1>25, <1>26, <1>27 DEF GoneOK
<1>29. \A m \in Stack : Strung(items'[m], next)
  BY <1>1, <1>6, <1>17 DEF LinksOK
<1>30. \A m \in Node : Strung(g2[m], next)
  BY <1>1, <1>5, <1>16 DEF LinksOK
<1>31. Open(th'[t].chain, next) /\ Cut(th'[t], next) /\ Strung(th'[t].chain, next)
  BY <1>2, EmptyFacts DEF Cut
<1>32. Shift(kind, where, k2, w2)
  <2>1. ASSUME NEW n \in Node, k2[n] = "out", ~(kind[n] = "out" /\ w2[n] = where[n])
        PROVE  life[w2[n]] # "retired"
    BY <1>9, <1>10, <1>15, <2>1
  <2>2. \A n \in Node :
          /\ k2[n] = "stack" => kind[n] \in {"stack", "chain"}
          /\ kind[n] \in {"stack", "hand", "out"} => k2[n] \in {"stack", "hand", "out"}
    BY <1>8, <1>15
  <2> QED
    BY <2>1, <2>2 DEF Shift
<1>33. th'[t].pc \notin Following /\ ~InCs(t)'
  BY <1>2 DEF Following, InCs, At
<1>34. /\ Pops(th'[t], Safe(safe, k2)[t], next, k2)
       /\ Reads(th'[t], Safe(safe, k2)[t], next)
  BY <1>33, StandsNowhere
<1>35. waits' = Left(t) /\ UNCHANGED <<next, life>>
  BY <1>2
<1> HIDE DEF s, q, c, old
<1> QED
  BY <1>1, <1>2, <1>3, <1>4, <1>14, <1>22, <1>28, <1>29, <1>30, <1>31, <1>32, <1>33,
     <1>34, <1>35, MoveNow

(* Nodes stay where readers may meet them, and those newly on their way    *)
(* out hang from n.                                                        *)
Laid(kind, where, k2, w2, n) ==
  \A m \in Node :
    /\ k2[m] = "stack" => kind[m] = "stack"
    /\ kind[m] \in {"stack", "hand", "out"} => k2[m] \in {"stack", "hand", "out"}
    /\ k2[m] = "out" => \/ w2[m] = n
                        \/ kind[m] = "out" /\ w2[m] = where[m] /\ where[m] \in Node

(* The end of a call that finalizes a node.                                *)
LEMMA FinalizedNow ==
  ASSUME NEW kind, NEW where, NEW gone, NEW safe, Now(kind, where, gone, safe),
         TypeOK', ControlOK', NEW t \in Thread, NEW n \in Node, Finalized(t, n),
         th[t].pc \notin HolderPc, th[t].chain = <<>>,
         NEW k2 \in [Node -> Kind], NEW w2 \in [Node -> Thread \cup Stack \cup Node],
         NEW g2 \in [Node -> Seq(Node)],
         PlacesOK(k2, w2, g2)', GoneOK(g2)', \A r \in Node : Strung(g2[r], next),
         Laid(kind, where, k2, w2, n)
  PROVE  StackOK'
<1>1. /\ TypeOK /\ ControlOK /\ HeadsOK
      /\ kind \in [Node -> Kind] /\ where \in [Node -> Thread \cup Stack \cup Node]
      /\ gone \in [Node -> Seq(Node)] /\ safe \in [Thread -> SUBSET Node]
      /\ PlacesOK(kind, where, gone) /\ LinksOK(gone) /\ SafeOK(safe, kind, where)
  BY NowParts
<1>2. /\ life' = [life EXCEPT ![n] = "retired"]
      /\ waits'[n] = {u \in Thread \ {t} : InCs(u)}
      /\ \A m \in Node : m # n => waits'[m] = waits[m] \ {t}
      /\ UNCHANGED <<head, next, items>>
      /\ \A u \in Thread : u # t => th'[u] = th[u]
      /\ th'[t].pc = "idle" /\ th'[t].op = "none" /\ th'[t].chain = <<>>
  BY RestFacts DEF Finalized, Ended
<1>3. HeadsOK'
  BY <1>1, <1>2, HeadsQuiet DEF HolderPc
<1>4. LinksOK(g2)'
  <2>1. ASSUME NEW u \in Thread
        PROVE  /\ Open(th'[u].chain, next) /\ Cut(th'[u], next)
               /\ th'[u].op = "assign" => Strung(th'[u].chain, next)
    <3>1. CASE u = t
      BY <1>2, <3>1, EmptyFacts DEF Cut
    <3>2. CASE u # t
      BY <1>1, <1>2, <3>2 DEF LinksOK
    <3> QED
      BY <3>1, <3>2
  <2>2. \A s \in Stack : Strung(items'[s], next)
    BY <1>1, <1>2 DEF LinksOK
  <2>3. next' = next
    BY <1>2
  <2> QED
    BY <2>1, <2>2, <2>3 DEF LinksOK
<1>5. \A u \in Thread : InCs(u) =>
        \A m \in safe[u] : m \in Node /\ kind[m] \in {"stack", "hand", "out"}
  BY <1>1 DEF SafeOK
<1>6. Gentle(safe, kind, k2)
  BY <1>2 DEF Gentle, Laid
<1>7. ASSUME NEW u \in Thread, InCs(u), InCs(u)', NEW m \in safe[u]
      PROVE  /\ k2[m] \in {"stack", "hand", "out"}
             /\ k2[m] = "out" /\ life'[w2[m]] = "retired" => u \in waits'[w2[m]]
  <2>1. /\ kind[m] \in {"stack", "hand", "out"} /\ m \in Node
        /\ k2[m] \in {"stack", "hand", "out"}
    BY <1>5, <1>7 DEF Laid
  <2>2. u # t
    BY <1>2, <1>7 DEF InCs, At
  <2>3. ASSUME k2[m] = "out", life'[w2[m]] = "retired"
        PROVE  u \in waits'[w2[m]]
    <3>1. CASE w2[m] = n
      BY <1>2, <1>7, <2>2, <3>1
    <3>2. CASE w2[m] # n
      <4>1. kind[m] = "out" /\ w2[m] = where[m] /\ where[m] \in Node
        BY <2>1, <2>3, <3>2 DEF Laid
      <4>2. life[where[m]] = "retired"
        BY <1>1, <1>2, <2>3, <3>2, <4>1 DEF TypeOK
      <4>3. u \in waits[where[m]]
        BY <1>1, <1>7, <2>1, <4>1, <4>2 DEF SafeOK
      <4> QED
        BY <1>2, <2>2, <3>2, <4>1, <4>3
    <3> QED
      BY <3>1, <3>2
  <2> QED
    BY <2>1, <2>3
<1>8. th'[t].pc \notin Following
  BY <1>2 DEF Following
<1>9. /\ Pops(th'[t], Safe(safe, k2)[t], next', k2)
      /\ Reads(th'[t], Safe(safe, k2)[t], next')
  BY <1>8, StandsNowhere
<1>10. \A u \in Thread : InCs(u) /\ InCs(u)' =>
         \A m \in safe[u] :
           /\ k2[m] \in {"stack", "hand", "out"}
           /\ k2[m] = "out" /\ life'[w2[m]] = "retired" => u \in waits'[w2[m]]
  BY <1>7
<1>11. \A u \in Thread : u # t => th'[u] = th[u]
  BY <1>2
<1> QED
  BY <1>3, <1>4, <1>6, <1>9, <1>10, <1>11, ThreadNow

(* PopFinish preserves the invariant.                                      *)
LEMMA PopFinishNow ==
  ASSUME NEW kind, NEW where, NEW gone, NEW safe, Now(kind, where, gone, safe),
         NEW t \in Thread, PopFinish(t)
  PROVE  StackOK'
<1> DEFINE c == th[t].cur
<1>1. /\ TypeOK /\ ControlOK
      /\ kind \in [Node -> Kind] /\ where \in [Node -> Thread \cup Stack \cup Node]
      /\ gone \in [Node -> Seq(Node)]
      /\ PlacesOK(kind, where, gone) /\ LinksOK(gone) /\ GoneOK(gone)
  BY NowParts
<1>2. /\ At(t, "value") /\ th[t].op = "pop" /\ c \in Node
      /\ th[t].chain = <<>> /\ Finalized(t, c)
      /\ TypeOK' /\ ControlOK'
  BY <1>1, PopFinishKeeps
<1>3. /\ life' = [life EXCEPT ![c] = "retired"] /\ UNCHANGED <<next, items>>
      /\ \A u \in Thread : u # t => th'[u] = th[u]
      /\ th'[t].pc = "idle" /\ th'[t].chain = <<>>
  BY <1>2, RestFacts DEF Finalized, Ended
<1>4. kind[c] = "hand" /\ where[c] = t
  BY <1>1, <1>2 DEF PlacesOK, Placed, Popped
<1>5. Unfinalized(c, kind, where, gone)
  BY <1>1, <1>2, <1>4, StackedLive
<1>6. /\ life'[c] = "retired" /\ \A m \in Node : m # c => life'[m] = life[m]
      /\ life[c] = "live"
  BY <1>1, <1>2, <1>3, <1>5 DEF TypeOK, Unfinalized
<1>7. next[c] = Null
  BY <1>1, <1>2 DEF LinksOK, Cut, At
<1>8. PICK one : one = <<c>>
  OBVIOUS
<1>9. one \in Seq(Node) /\ Len(one) = 1 /\ one[1] = c /\ one # <<>>
  BY <1>2, <1>8
<1>10. Range(one) = {c}
  BY <1>9, SeqFacts
<1>11. Strung(one, next)
  <2>1. \A i, j \in 1..Len(one) : one[i] = one[j] => i = j
    BY <1>9
  <2>2. IsInjective(one)
    BY <1>9, <2>1, InjectiveIf
  <2> QED
    BY <1>7, <1>9, <2>2 DEF Strung
<1>12. PICK k2 : k2 = [n \in Node |-> IF n = c THEN "out" ELSE kind[n]]
  OBVIOUS
<1>13. PICK w2 : w2 = [n \in Node |-> IF n = c THEN c ELSE where[n]]
  OBVIOUS
<1>14. PICK g2 : g2 = [n \in Node |-> IF n = c THEN one ELSE gone[n]]
  OBVIOUS
<1>15. /\ k2 \in [Node -> Kind] /\ w2 \in [Node -> Thread \cup Stack \cup Node]
       /\ g2 \in [Node -> Seq(Node)]
  BY <1>1, <1>2, <1>9, <1>12, <1>13, <1>14 DEF Kind
<1>16. /\ k2[c] = "out" /\ w2[c] = c /\ g2[c] = one
       /\ \A n \in Node : n # c => k2[n] = kind[n] /\ w2[n] = where[n] /\ g2[n] = gone[n]
  BY <1>2, <1>12, <1>13, <1>14
<1>17. \A u \in Thread, n \in Node : Popped(u, n)' <=> Popped(u, n) /\ ~(u = t /\ n = c)
  BY <1>2, <1>3 DEF Popped, At
<1>18. \A u \in Thread : th'[u].chain = th[u].chain
  BY <1>2, <1>3
<1>19. ASSUME NEW n \in Node PROVE Placed(n, k2[n], w2[n], g2)'
  <2>1. Placed(n, kind[n], where[n], gone)
    BY <1>1 DEF PlacesOK
  <2>2. CASE n = c
    <3>1. /\ \A s \in Stack : n \notin Range(items[s])
          /\ \A u \in Thread : n \notin Range(th[u].chain) /\ (Popped(u, n) <=> u = t)
          /\ \A m \in Node : n \notin Range(gone[m])
      BY <1>4, <2>1, <2>2 DEF Placed
    <3>2. \A m \in Node : n \in Range(g2[m]) <=> m = c
      BY <1>10, <1>16, <2>2, <3>1
    <3>3. \A u \in Thread : ~Popped(u, n)'
      BY <1>17, <2>2, <3>1
    <3>4. \A s \in Stack : n \notin Range(items'[s])
      BY <1>3, <3>1
    <3> QED
      BY <1>2, <1>6, <1>16, <1>18, <2>2, <3>1, <3>2, <3>3, <3>4 DEF Placed
  <2>3. CASE n # c
    <3>1. k2[n] = kind[n] /\ w2[n] = where[n] /\ life'[n] = life[n]
      BY <1>6, <1>16, <2>3
    <3>2. \A m \in Node : n \in Range(g2[m]) <=> n \in Range(gone[m])
      BY <1>5, <1>10, <1>16, <2>3, EmptyFacts DEF Unfinalized
    <3>3. \A u \in Thread : Popped(u, n)' <=> Popped(u, n)
      BY <1>17, <2>3
    <3>4. items' = items
      BY <1>3
    <3> QED
      BY <1>18, <2>1, <3>1, <3>2, <3>3, <3>4, PlacedStill
  <2> QED
    BY <2>2, <2>3
<1>20. PlacesOK(k2, w2, g2)'
  BY <1>19 DEF PlacesOK
<1>21. \A u \in Thread : /\ At(u, "retire")' <=> At(u, "retire")
                         /\ At(u, "retire") => th'[u].cur = th[u].cur /\ th[u].cur # c
  BY <1>2, <1>3, <1>5 DEF At, Unfinalized
<1>22. ASSUME NEW r \in Node
       PROVE  /\ g2[r] # <<>> =>
                   /\ g2[r][1] = r
                   /\ \/ life'[r] = "retired"
                      \/ \E u \in Thread : At(u, "retire")' /\ th'[u].cur = r
              /\ life'[r] = "retired" => g2[r] # <<>>
  <2>1. CASE r = c
    BY <1>6, <1>9, <1>16, <2>1
  <2>2. CASE r # c
    <3>1. g2[r] = gone[r] /\ life'[r] = life[r]
      BY <1>6, <1>16, <2>2
    <3>2. /\ gone[r] # <<>> =>
               /\ gone[r][1] = r
               /\ \/ life[r] = "retired"
                  \/ \E u \in Thread : At(u, "retire") /\ th[u].cur = r
          /\ life[r] = "retired" => gone[r] # <<>>
      BY <1>1 DEF GoneOK
    <3>3. (\E u \in Thread : At(u, "retire") /\ th[u].cur = r) =>
            \E u \in Thread : At(u, "retire")' /\ th'[u].cur = r
      BY <1>21
    <3> QED
      BY <3>1, <3>2, <3>3
  <2> QED
    BY <2>1, <2>2
<1>23. ASSUME NEW u \in Thread, At(u, "retire")', th'[u].cur # Null
       PROVE  g2[th'[u].cur] # <<>> /\ life'[th'[u].cur] = "live"
  <2>1. At(u, "retire") /\ th'[u].cur = th[u].cur /\ th[u].cur # c /\ th[u].cur \in Node
    BY <1>1, <1>21, <1>23, Fields DEF Ptr
  <2> QED
    BY <1>1, <1>6, <1>16, <1>23, <2>1 DEF GoneOK
<1>24. ASSUME NEW u \in Thread, NEW v \in Thread, At(u, "retire")', At(v, "retire")',
              th'[u].cur = th'[v].cur, th'[u].cur # Null
       PROVE  u = v
  BY <1>1, <1>21, <1>24 DEF GoneOK
<1>25. GoneOK(g2)'
  BY <1>22, <1>23, <1>24 DEF GoneOK
<1>26. \A r \in Node : Strung(g2[r], next)
  BY <1>1, <1>11, <1>16 DEF LinksOK
<1>27. ASSUME NEW n \in Node
       PROVE  /\ k2[n] = "stack" => kind[n] = "stack"
              /\ kind[n] \in {"stack", "hand", "out"} => k2[n] \in {"stack", "hand", "out"}
              /\ k2[n] = "out" => \/ w2[n] = c
                                  \/ kind[n] = "out" /\ w2[n] = where[n] /\ where[n] \in Node
  BY <1>1, <1>4, <1>16 DEF PlacesOK, Placed
<1>28. Laid(kind, where, k2, w2, c)
  BY <1>27 DEF Laid
<1>29. th[t].pc \notin HolderPc
  BY <1>2 DEF HolderPc, At
<1> HIDE DEF c
<1> QED
  BY <1>2, <1>15, <1>20, <1>25, <1>26, <1>28, <1>29, FinalizedNow

(* ReplaceFinish preserves the invariant.                                  *)
LEMMA ReplaceFinishNow ==
  ASSUME NEW kind, NEW where, NEW gone, NEW safe, Now(kind, where, gone, safe),
         NEW t \in Thread, ReplaceFinish(t)
  PROVE  StackOK'
<1> DEFINE c == th[t].cur
<1>1. /\ TypeOK /\ ControlOK
      /\ kind \in [Node -> Kind] /\ where \in [Node -> Thread \cup Stack \cup Node]
      /\ gone \in [Node -> Seq(Node)]
      /\ PlacesOK(kind, where, gone) /\ LinksOK(gone) /\ GoneOK(gone)
  BY NowParts
<1>2. /\ At(t, "retire") /\ th[t].chain = <<>>
      /\ \/ /\ c = Null /\ Ended(t) /\ waits' = Left(t)
            /\ UNCHANGED <<head, next, life, items>>
         \/ c \in Node /\ Finalized(t, c)
      /\ TypeOK' /\ ControlOK'
  BY <1>1, ReplaceFinishKeeps
<1>3. th[t].pc \notin HolderPc /\ ~At(t, "cut") /\ ~(At(t, "value") /\ th[t].op = "pop")
  BY <1>2 DEF HolderPc, At
<1>4. CASE c = Null /\ Ended(t) /\ waits' = Left(t) /\ UNCHANGED <<head, next, life, items>>
  BY <1>2, <1>3, <1>4, EndedOpen
<1>5. CASE c \in Node /\ Finalized(t, c)
  <2>1. /\ life' = [life EXCEPT ![c] = "retired"] /\ UNCHANGED <<next, items>>
        /\ \A u \in Thread : u # t => th'[u] = th[u]
        /\ th'[t].pc = "idle" /\ th'[t].chain = <<>>
    BY <1>5, RestFacts DEF Finalized, Ended
  <2>2. /\ gone[c] # <<>> /\ life[c] = "live"
        /\ \A u \in Thread : At(u, "retire") /\ th[u].cur = c => u = t
    BY <1>1, <1>2, <1>5, Names DEF GoneOK
  <2>3. life'[c] = "retired" /\ \A m \in Node : m # c => life'[m] = life[m]
    BY <1>1, <1>5, <2>1 DEF TypeOK
  <2>4. \A n \in Node : Popped(t, n)' <=> Popped(t, n)
    BY <1>2, <2>1 DEF Popped, At
  <2>5. \A n \in Node : life'[n] = "free" <=> life[n] = "free"
    BY <2>2, <2>3
  <2>6. items' = items /\ th'[t].chain = th[t].chain
    BY <1>2, <2>1
  <2>7. PlacesOK(kind, where, gone)'
    BY <1>1, <2>1, <2>4, <2>5, <2>6, PlacesStill
  <2>8. \A u \in Thread : /\ At(u, "retire")' <=> At(u, "retire") /\ u # t
                          /\ u # t => th'[u].cur = th[u].cur
    BY <1>2, <2>1 DEF At
  <2>9. ASSUME NEW r \in Node
        PROVE  /\ gone[r] # <<>> =>
                    /\ gone[r][1] = r
                    /\ \/ life'[r] = "retired"
                       \/ \E u \in Thread : At(u, "retire")' /\ th'[u].cur = r
               /\ life'[r] = "retired" => gone[r] # <<>>
    <3>1. /\ gone[r] # <<>> =>
               /\ gone[r][1] = r
               /\ \/ life[r] = "retired"
                  \/ \E u \in Thread : At(u, "retire") /\ th[u].cur = r
          /\ life[r] = "retired" => gone[r] # <<>>
      BY <1>1 DEF GoneOK
    <3>2. CASE r = c
      BY <2>2, <2>3, <3>1, <3>2
    <3>3. CASE r # c
      <4>1. (\E u \in Thread : At(u, "retire") /\ th[u].cur = r) =>
              \E u \in Thread : At(u, "retire")' /\ th'[u].cur = r
        BY <2>8, <3>3
      <4> QED
        BY <2>3, <3>1, <3>3, <4>1
    <3> QED
      BY <3>2, <3>3
  <2>10. ASSUME NEW u \in Thread, At(u, "retire")', th'[u].cur # Null
         PROVE  gone[th'[u].cur] # <<>> /\ life'[th'[u].cur] = "live"
    <3>1. /\ At(u, "retire") /\ th'[u].cur = th[u].cur /\ th[u].cur \in Node /\ u # t
      BY <1>1, <2>8, <2>10, Fields DEF Ptr
    <3>2. th[u].cur # c
      BY <2>2, <3>1
    <3> QED
      BY <1>1, <2>3, <2>10, <3>1, <3>2 DEF GoneOK
  <2>11. ASSUME NEW u \in Thread, NEW v \in Thread, At(u, "retire")', At(v, "retire")',
                th'[u].cur = th'[v].cur, th'[u].cur # Null
         PROVE  u = v
    BY <1>1, <2>8, <2>11 DEF GoneOK
  <2>12. GoneOK(gone)'
    BY <2>9, <2>10, <2>11 DEF GoneOK
  <2>13. \A r \in Node : Strung(gone[r], next)
    BY <1>1 DEF LinksOK
  <2>14. Laid(kind, where, kind, where, c)
    BY <1>1 DEF Laid, PlacesOK, Placed
  <2>15. c \in Node
    BY <1>5
  <2> HIDE DEF c
  <2> QED
    BY <1>1, <1>2, <1>3, <1>5, <2>7, <2>12, <2>13, <2>14, <2>15, FinalizedNow
<1> QED
  BY <1>2, <1>4, <1>5

(* PushRange preserves the invariant.                                      *)
LEMMA PushRangeNow ==
  ASSUME NEW kind, NEW where, NEW gone, NEW safe, Now(kind, where, gone, safe),
         NEW t \in Thread, NEW s \in Stack, PushRange(t, s)
  PROVE  StackOK'
<1>1. TypeOK /\ ControlOK
  BY NowParts
<1>2. TypeOK' /\ ControlOK'
  BY <1>1, PushRangeKeeps
<1>3. PICK k \in Nat : \E q \in Fresh(k) :
        /\ Allocate(t, "push", s, "push", q)
        /\ At(t, "idle") /\ Started(t, "push", s, "push") /\ th'[t].chain = q
  BY <1>1, PushRangeKeeps
<1>4. PICK q \in Fresh(k) :
        /\ Allocate(t, "push", s, "push", q)
        /\ At(t, "idle") /\ Started(t, "push", s, "push") /\ th'[t].chain = q
  BY <1>3
<1> QED
  BY <1>2, <1>4, AllocateNow

(* PushCopies preserves the invariant.                                     *)
LEMMA PushCopiesNow ==
  ASSUME NEW kind, NEW where, NEW gone, NEW safe, Now(kind, where, gone, safe),
         NEW t \in Thread, NEW s \in Stack, NEW n \in Copies, PushCopies(t, s, n)
  PROVE  StackOK'
<1>1. TypeOK /\ ControlOK
  BY NowParts
<1>2. TypeOK' /\ ControlOK'
  BY <1>1, PushCopiesKeeps
<1>3. PICK k \in Nat : \E q \in Fresh(k) :
        /\ Allocate(t, "push", s, "push", q)
        /\ At(t, "idle") /\ Started(t, "push", s, "push") /\ th'[t].chain = q
  BY <1>1, PushCopiesKeeps
<1>4. PICK q \in Fresh(k) :
        /\ Allocate(t, "push", s, "push", q)
        /\ At(t, "idle") /\ Started(t, "push", s, "push") /\ th'[t].chain = q
  BY <1>3
<1> QED
  BY <1>2, <1>4, AllocateNow

(* Assign preserves the invariant.                                         *)
LEMMA AssignNow ==
  ASSUME NEW kind, NEW where, NEW gone, NEW safe, Now(kind, where, gone, safe),
         NEW t \in Thread, NEW s \in Stack, Assign(t, s)
  PROVE  StackOK'
<1>1. TypeOK /\ ControlOK
  BY NowParts
<1>2. TypeOK' /\ ControlOK'
  BY <1>1, AssignKeeps
<1>3. PICK k \in Nat : \E q \in Fresh(k) :
        /\ Allocate(t, "assign", s, "spin1", q)
        /\ At(t, "idle") /\ Started(t, "assign", s, "spin1") /\ th'[t].chain = q
  BY <1>1, AssignKeeps
<1>4. PICK q \in Fresh(k) :
        /\ Allocate(t, "assign", s, "spin1", q)
        /\ At(t, "idle") /\ Started(t, "assign", s, "spin1") /\ th'[t].chain = q
  BY <1>3
<1> QED
  BY <1>2, <1>4, AllocateNow

(* What hangs from a node that was finalized: itself, and a chain that its *)
(* next pointer leads to, of which nothing was finalized.                  *)
Hanging(r, kind, where, gone) ==
  LET q == gone[r] IN
  /\ q # <<>> /\ q[1] = r /\ kind[r] = "out" /\ where[r] = r
  /\ Tail(q) \in Seq(Node) /\ Strung(Tail(q), next) /\ Range(Tail(q)) = Range(q) \ {r}
  /\ First(Tail(q)) = next[r]
  /\ Tail(q) = <<>> <=> next[r] = Null
  /\ next[r] \in Node =>
       /\ next[r] # r /\ Tail(q)[1] = next[r] /\ gone[next[r]] = <<>>
       /\ life[next[r]] = "live" /\ kind[next[r]] = "out"

(* What hangs from a node that was finalized.                              *)
LEMMA HangingFacts ==
  ASSUME TypeOK, NEW kind, NEW where, NEW gone \in [Node -> Seq(Node)],
         PlacesOK(kind, where, gone), LinksOK(gone), GoneOK(gone),
         NEW r \in Node, life[r] = "retired"
  PROVE  Hanging(r, kind, where, gone)
<1> DEFINE q == gone[r]
<1>1. q \in Seq(Node) /\ q # <<>> /\ q[1] = r /\ Strung(q, next)
  BY DEF GoneOK, LinksOK
<1>2. r \in Range(q)
  BY <1>1, SeqFacts
<1>3. kind[r] = "out" /\ where[r] = r
  BY <1>2 DEF PlacesOK, Placed
<1>4. /\ Tail(q) \in Seq(Node) /\ Strung(Tail(q), next) /\ Range(Tail(q)) = Range(q) \ {r}
      /\ First(Tail(q)) = next[r]
  BY <1>1, TailFacts
<1>5. Tail(q) = <<>> => next[r] = Null
  BY <1>4 DEF First
<1>6. ASSUME Tail(q) # <<>>
      PROVE  next[r] \in Node /\ next[r] = Tail(q)[1] /\ next[r] \in Range(Tail(q))
  BY <1>4, <1>6, SeqFacts
<1>7. ASSUME next[r] \in Node
      PROVE  /\ next[r] # r /\ Tail(q)[1] = next[r] /\ gone[next[r]] = <<>>
             /\ life[next[r]] = "live" /\ kind[next[r]] = "out"
  <2>1. /\ next[r] = Tail(q)[1] /\ next[r] \in Range(q) /\ next[r] # r
    BY <1>4, <1>5, <1>6, <1>7, Names
  <2>2. PICK m \in Node : m = next[r]
    BY <1>7
  <2>3. /\ kind[m] = "out" /\ where[m] = r /\ m # r /\ life[m] # "free"
        /\ m \in Range(gone[m]) => r = m
    <3>1. Placed(m, kind[m], where[m], gone)
      BY DEF PlacesOK
    <3>2. m \in Range(gone[r]) /\ m # r
      BY <2>1, <2>2
    <3> QED
      BY <3>1, <3>2 DEF Placed
  <2>4. gone[m] = <<>>
    <3>1. ASSUME gone[m] # <<>> PROVE FALSE
      <4>1. gone[m] \in Seq(Node) /\ gone[m][1] = m
        BY <3>1 DEF GoneOK
      <4>2. m \in Range(gone[m])
        BY <3>1, <4>1, SeqFacts
      <4> QED
        BY <2>3, <4>2
    <3> QED
      BY <3>1
  <2>5. life[m] = "live"
    BY <2>3, <2>4 DEF GoneOK, TypeOK
  <2> QED
    BY <2>1, <2>2, <2>3, <2>4, <2>5
<1>8. Tail(q) = <<>> <=> next[r] = Null
  BY <1>5, <1>6, Names
<1> QED
  BY <1>1, <1>3, <1>4, <1>7, <1>8 DEF Hanging

(* SafeDestroy preserves the invariant.                                    *)
LEMMA SafeDestroyNow ==
  ASSUME NEW kind, NEW where, NEW gone, NEW safe, Now(kind, where, gone, safe),
         NEW r \in Node, SafeDestroy(r)
  PROVE  StackOK'
<1> DEFINE m == next[r]
           q == gone[r]
<1>1. /\ TypeOK /\ ControlOK /\ HeadsOK
      /\ kind \in [Node -> Kind] /\ where \in [Node -> Thread \cup Stack \cup Node]
      /\ gone \in [Node -> Seq(Node)] /\ safe \in [Thread -> SUBSET Node]
      /\ PlacesOK(kind, where, gone) /\ LinksOK(gone) /\ GoneOK(gone)
      /\ SafeOK(safe, kind, where) /\ PopsOK(safe, kind) /\ ReadsOK(safe)
  BY NowParts
<1>2. /\ life[r] = "retired" /\ waits[r] = {} /\ UNCHANGED <<head, waits, th, items>>
      /\ \A n \in Node :
           life'[n] = IF n = r THEN "free" ELSE IF n = m THEN "retired" ELSE life[n]
      /\ next' = [next EXCEPT ![r] = Null]
      /\ TypeOK' /\ ControlOK'
  BY <1>1, SafeDestroyKeeps
<1>3. Hanging(r, kind, where, gone)
  BY <1>1, <1>2, HangingFacts
<1>4. /\ q # <<>> /\ q[1] = r /\ kind[r] = "out" /\ where[r] = r
      /\ Tail(q) \in Seq(Node) /\ Strung(Tail(q), next) /\ Range(Tail(q)) = Range(q) \ {r}
      /\ Tail(q) = <<>> <=> m = Null
      /\ m \in Node => /\ m # r /\ Tail(q)[1] = m /\ gone[m] = <<>>
                       /\ life[m] = "live" /\ kind[m] = "out"
      /\ q \in Seq(Node) /\ m \in Node \cup {Null}
  BY <1>1, <1>3 DEF Hanging, TypeOK, Ptr
<1>5. HeadsOK'
  BY <1>1, <1>2 DEF HeadsOK, Holds, At
<1>6. next'[r] = Null /\ \A n \in Node : n # r => next'[n] = next[n]
  BY <1>1, <1>2 DEF TypeOK
<1>7. PICK k2 : k2 = [n \in Node |-> IF n = r THEN "free" ELSE kind[n]]
  OBVIOUS
<1>8. PICK w2 : w2 = [n \in Node |-> IF n \in Range(Tail(q)) THEN m ELSE where[n]]
  OBVIOUS
<1>9. PICK g2 : g2 = [n \in Node |-> IF n = r THEN <<>>
                                     ELSE IF n = m THEN Tail(q) ELSE gone[n]]
  OBVIOUS
<1>10. Range(Tail(q)) # {} => m \in Node
  BY <1>4, EmptyFacts
<1>11. /\ k2 \in [Node -> Kind] /\ w2 \in [Node -> Thread \cup Stack \cup Node]
       /\ g2 \in [Node -> Seq(Node)]
  BY <1>1, <1>4, <1>7, <1>8, <1>9, <1>10, EmptyFacts DEF Kind
<1>12. /\ k2[r] = "free" /\ \A n \in Node : n # r => k2[n] = kind[n]
       /\ \A n \in Node : /\ n \in Range(Tail(q)) => w2[n] = m
                          /\ n \notin Range(Tail(q)) => w2[n] = where[n]
       /\ g2[r] = <<>> /\ (m \in Node => g2[m] = Tail(q))
       /\ \A n \in Node : n # r /\ n # m => g2[n] = gone[n]
  BY <1>4, <1>7, <1>8, <1>9
<1>13. \A n \in Node : n \in Range(Tail(q)) <=> n # r /\ kind[n] = "out" /\ where[n] = r
  BY <1>1, <1>4 DEF PlacesOK, Placed
<1>14. \A n \in Node : m \in Node => ~(kind[n] = "out" /\ where[n] = m)
  BY <1>1, <1>4, EmptyFacts DEF PlacesOK, Placed
<1>15. ASSUME NEW n \in Node PROVE Placed(n, k2[n], w2[n], g2)'
  <2>1. Placed(n, kind[n], where[n], gone)
    BY <1>1 DEF PlacesOK
  <2>2. /\ items' = items /\ \A u \in Thread : th'[u].chain = th[u].chain
        /\ \A u \in Thread : Popped(u, n)' <=> Popped(u, n)
    BY <1>2 DEF Popped, At
  <2>3. CASE n = r
    <3>1. /\ \A s \in Stack : n \notin Range(items[s])
          /\ \A u \in Thread : n \notin Range(th[u].chain) /\ ~Popped(u, n)
          /\ \A p \in Node : n \in Range(gone[p]) <=> p = r
      BY <1>4, <2>1, <2>3 DEF Placed
    <3>2. \A p \in Node : n \notin Range(g2[p])
      BY <1>4, <1>12, <2>3, <3>1, EmptyFacts
    <3> QED
      BY <1>2, <1>12, <2>2, <2>3, <3>1, <3>2 DEF Placed
  <2>4. CASE n # r /\ n \in Range(Tail(q))
    <3>1. kind[n] = "out" /\ where[n] = r /\ k2[n] = "out" /\ w2[n] = m /\ m \in Node
      BY <1>10, <1>12, <1>13, <2>4
    <3>2. /\ \A s \in Stack : n \notin Range(items[s])
          /\ \A u \in Thread : n \notin Range(th[u].chain) /\ ~Popped(u, n)
          /\ \A p \in Node : n \in Range(gone[p]) <=> p = r
          /\ life[n] # "free"
      BY <2>1, <3>1 DEF Placed
    <3>3. \A p \in Node : n \in Range(g2[p]) <=> p = m
      BY <1>4, <1>12, <2>4, <3>1, <3>2, EmptyFacts
    <3>4. life'[n] # "free"
      BY <1>2, <2>4, <3>2
    <3> QED
      BY <2>2, <3>1, <3>2, <3>3, <3>4 DEF Placed
  <2>5. CASE n # r /\ n \notin Range(Tail(q))
    <3>1. k2[n] = kind[n] /\ w2[n] = where[n]
      BY <1>12, <2>5
    <3>2. n \notin Range(q) /\ (m \in Node => n \notin Range(gone[m]))
      BY <1>4, <2>5, EmptyFacts
    <3>3. \A p \in Node : n \in Range(g2[p]) <=> n \in Range(gone[p])
      BY <1>12, <2>5, <3>2, EmptyFacts
    <3>4. life'[n] = "free" <=> life[n] = "free"
      BY <1>2, <1>4, <2>5
    <3> QED
      BY <2>1, <2>2, <3>1, <3>3, <3>4, PlacedStill
  <2> QED
    BY <2>3, <2>4, <2>5
<1>16. PlacesOK(k2, w2, g2)'
  BY <1>15 DEF PlacesOK
<1>17. PICK f : f = next'
  OBVIOUS
<1>18. \A n \in Node : n # r => f[n] = next[n]
  BY <1>6, <1>17
<1>19. \A k, p : ~(k = "out" /\ p = r) => Alike(f, kind, where, k, p)
  BY <1>4, <1>18 DEF Alike
<1>20. \A s \in Stack : Strung(items[s], f)
  BY <1>1, <1>19, StackLinks
<1>21. \A u \in Thread : Open(th[u].chain, f) /\ (th[u].op = "assign" => Strung(th[u].chain, f))
  BY <1>1, <1>19, ChainLinks
<1>22. \A u \in Thread : Cut(th[u], f)
  BY <1>1, <1>19, HandLinks
<1>23. \A p \in Node : p # r => Strung(gone[p], f)
  BY <1>1, <1>19, GoneLinks
<1>24. Strung(Tail(q), f)
  <2>1. \A n \in Range(Tail(q)) : f[n] = next[n]
    BY <1>4, <1>18, SeqFacts
  <2> QED
    BY <1>4, <2>1, StrungFrame
<1>25. \A p \in Node : Strung(g2[p], f)
  BY <1>12, <1>23, <1>24, EmptyFacts
<1>26. LinksOK(g2)'
  BY <1>2, <1>17, <1>20, <1>21, <1>22, <1>25 DEF LinksOK
<1>27. ASSUME NEW u \in Thread, At(u, "retire"), th[u].cur # Null
       PROVE  g2[th[u].cur] = gone[th[u].cur] /\ life'[th[u].cur] = life[th[u].cur]
  <2>1. th[u].cur \in Node /\ gone[th[u].cur] # <<>> /\ life[th[u].cur] = "live"
    BY <1>1, <1>27, Fields DEF GoneOK, Ptr
  <2>2. th[u].cur # r /\ th[u].cur # m
    BY <1>2, <1>4, <2>1
  <2> QED
    BY <1>2, <1>12, <2>1, <2>2
<1>28. ASSUME NEW p \in Node
       PROVE  /\ g2[p] # <<>> =>
                   /\ g2[p][1] = p
                   /\ \/ life'[p] = "retired"
                      \/ \E u \in Thread : At(u, "retire") /\ th[u].cur = p
              /\ life'[p] = "retired" => g2[p] # <<>>
  <2>1. CASE p = r
    BY <1>2, <1>12, <2>1
  <2>2. CASE p # r /\ p = m
    <3>1. m \in Node /\ m # r /\ m # Null
      BY <2>2, Names
    <3>2. g2[m] = Tail(q) /\ Tail(q) # <<>> /\ Tail(q)[1] = m /\ life'[m] = "retired"
      BY <1>2, <1>4, <1>12, <3>1
    <3> QED
      BY <2>2, <3>2
  <2>3. CASE p # r /\ p # m
    <3>1. g2[p] = gone[p] /\ life'[p] = life[p]
      BY <1>2, <1>12, <2>3
    <3> QED
      BY <1>1, <3>1 DEF GoneOK
  <2> QED
    BY <2>1, <2>2, <2>3
<1>29. \A u \in Thread : (At(u, "retire")' <=> At(u, "retire")) /\ th'[u] = th[u]
  BY <1>2 DEF At
<1>30. GoneOK(g2)'
  <2>1. \A u \in Thread : At(u, "retire") /\ th[u].cur # Null =>
          g2[th[u].cur] # <<>> /\ life'[th[u].cur] = "live"
    BY <1>1, <1>27 DEF GoneOK
  <2>2. \A u, v \in Thread :
          At(u, "retire") /\ At(v, "retire") /\ th[u].cur = th[v].cur
            /\ th[u].cur # Null => u = v
    BY <1>1 DEF GoneOK
  <2> QED
    BY <1>28, <1>29, <2>1, <2>2 DEF GoneOK
<1>31. \A u \in Thread : InCs(u) =>
         \A n \in safe[u] : n \in Node /\ kind[n] \in {"stack", "hand", "out"}
  BY <1>1 DEF SafeOK
<1>32. Gentle(safe, kind, k2)
  BY <1>4, <1>6, <1>12, <1>31 DEF Gentle
<1>33. \A n \in Node : k2[n] = "stack" =>
         next'[n] = Null \/ (next'[n] \in Node /\ k2[next'[n]] = "stack")
  BY <1>2, <1>16, <1>26, LeadsNow DEF TypeOK
<1>34. ASSUME NEW u \in Thread, InCs(u), NEW n \in safe[u]
       PROVE  ~(kind[n] = "out" /\ where[n] = r)
  BY <1>1, <1>2, <1>34 DEF SafeOK
<1>35. ASSUME NEW u \in Thread, InCs(u), NEW n \in safe[u]
       PROVE  /\ k2[n] \in {"stack", "hand", "out"}
              /\ k2[n] = "out" /\ life'[w2[n]] = "retired" => u \in waits'[w2[n]]
  <2>1. n \in Node /\ kind[n] \in {"stack", "hand", "out"} /\ n # r
    BY <1>4, <1>31, <1>34, <1>35
  <2>2. k2[n] = kind[n]
    BY <1>12, <2>1
  <2>3. ASSUME kind[n] = "out", life'[w2[n]] = "retired"
        PROVE  u \in waits[w2[n]]
    <3>1. where[n] # r /\ where[n] \in Node /\ where[n] # m
      BY <1>1, <1>14, <1>34, <1>35, <2>1, <2>3 DEF PlacesOK, Placed
    <3>2. w2[n] = where[n]
      BY <1>12, <1>13, <2>1, <3>1
    <3>3. life[where[n]] = "retired"
      BY <1>2, <2>3, <3>1, <3>2
    <3> QED
      BY <1>1, <1>35, <2>1, <2>3, <3>2, <3>3 DEF SafeOK
  <2> QED
    BY <1>2, <2>1, <2>2, <2>3
<1>36. PICK s2 : s2 = Safe(safe, k2)
  OBVIOUS
<1>37. \A u \in Thread : InCs(u) /\ InCs(u)' =>
         \A n \in safe[u] :
           /\ k2[n] \in {"stack", "hand", "out"}
           /\ k2[n] = "out" /\ life'[w2[n]] = "retired" => u \in waits'[w2[n]]
  BY <1>35
<1>38. s2 \in [Thread -> SUBSET Node] /\ SafeOK(s2, k2, w2)'
  BY <1>1, <1>32, <1>33, <1>36, <1>37, SafeStep
<1>39. ASSUME NEW u \in Thread
       PROVE  /\ Pops(th'[u], s2[u], next', k2)
              /\ Careful => Reads(th'[u], s2[u], next')
  <2>1. th'[u] = th[u] /\ (InCs(u)' <=> InCs(u))
    BY <1>2 DEF InCs, At
  <2> QED
    BY <1>1, <1>2, <1>32, <1>36, <2>1, StandStep
<1>40. PopsOK(s2, k2)' /\ ReadsOK(s2)'
  BY <1>39 DEF PopsOK, ReadsOK, Careful
<1>41. NodesOK(k2, w2, g2, s2)'
  BY <1>16, <1>26, <1>30, <1>38, <1>40 DEF NodesOK
<1> QED
  BY <1>2, <1>5, <1>11, <1>38, <1>41 DEF StackOK

(* A node is in at most one of the stacks at first.                        *)
LEMMA InitialFacts ==
  /\ \A s \in Stack : Initial[s] \in Seq(Node) /\ IsInjective(Initial[s])
  /\ \A n \in Node, s, r \in Stack :
       n \in Range(Initial[s]) /\ n \in Range(Initial[r]) => s = r
  BY StackAssumption

(* The invariant holds at first.                                           *)
LEMMA InitNow ==
  ASSUME Init
  PROVE  StackOK
<1> DEFINE In(n) == {s \in Stack : n \in Range(Initial[s])}
<1>1. /\ items = Initial
      /\ head = [s \in Stack |-> Unlocked(First(Initial[s]))]
      /\ next = [n \in Node |->
                   IF In(n) = {} THEN Null
                   ELSE Succ(Initial[CHOOSE s \in In(n) : TRUE], n)]
      /\ life = [n \in Node |-> IF In(n) = {} THEN "free" ELSE "live"]
      /\ waits = [n \in Node |-> {}]
      /\ th = [t \in Thread |-> Rest]
  BY DEF Init
<1>2. PICK kind : kind = [n \in Node |-> IF In(n) = {} THEN "free" ELSE "stack"]
  OBVIOUS
<1>3. PICK where : where = [n \in Node |-> IF In(n) = {} THEN n ELSE CHOOSE s \in In(n) : TRUE]
  OBVIOUS
<1>4. PICK gone : gone = [n \in Node |-> <<>>]
  OBVIOUS
<1>5. PICK safe : safe = [t \in Thread |-> {}]
  OBVIOUS
<1>6. ASSUME NEW n \in Node, NEW s \in Stack, n \in Range(Initial[s])
      PROVE  kind[n] = "stack" /\ where[n] = s /\ next[n] = Succ(Initial[s], n)
  <2>1. s \in In(n) /\ In(n) # {}
    BY <1>6
  <2>2. \A r \in In(n) : r = s
    BY <1>6, InitialFacts
  <2>3. (CHOOSE r \in In(n) : TRUE) = s
    BY <2>1, <2>2
  <2> QED
    BY <1>1, <1>2, <1>3, <2>1, <2>3
<1>7. ASSUME NEW n \in Node, \A s \in Stack : n \notin Range(Initial[s])
      PROVE  kind[n] = "free" /\ where[n] = n /\ next[n] = Null /\ life[n] = "free"
  <2>1. In(n) = {}
    BY <1>7
  <2> QED
    BY <1>1, <1>2, <1>3, <2>1
<1>8. ASSUME NEW n \in Node, NEW s \in Stack, n \in Range(Initial[s])
      PROVE  life[n] = "live"
  <2>1. In(n) # {}
    BY <1>8
  <2> QED
    BY <1>1, <2>1
<1> HIDE DEF In
<1>9. ASSUME NEW s \in Stack PROVE Strung(Initial[s], next)
  <2>1. Initial[s] \in Seq(Node) /\ IsInjective(Initial[s])
    BY InitialFacts
  <2>2. ASSUME NEW i \in 1..Len(Initial[s])
        PROVE  next[Initial[s][i]] =
                 IF i < Len(Initial[s]) THEN Initial[s][i + 1] ELSE Null
    <3>1. Initial[s][i] \in Node /\ Initial[s][i] \in Range(Initial[s])
      BY <2>1, SeqFacts
    <3>2. next[Initial[s][i]] = Succ(Initial[s], Initial[s][i])
      BY <1>6, <3>1
    <3> QED
      BY <2>1, <3>2, SuccFacts
  <2> QED
    BY <2>1, <2>2 DEF Strung
<1>10. ASSUME NEW n \in Node PROVE next[n] \in Ptr
  <2>1. CASE \A s \in Stack : n \notin Range(Initial[s])
    BY <1>7, <2>1, Names
  <2>2. ASSUME NEW s \in Stack, n \in Range(Initial[s]) PROVE next[n] \in Ptr
    <3>1. Initial[s] \in Seq(Node) /\ Len(Initial[s]) \in Nat
      BY InitialFacts, SeqFacts
    <3>2. PICK i \in 1..Len(Initial[s]) : Initial[s][i] = n
      BY <2>2, <3>1, SeqFacts
    <3>3. next[n] = IF i < Len(Initial[s]) THEN Initial[s][i + 1] ELSE Null
      BY <1>9, <3>2 DEF Strung
    <3>4. i < Len(Initial[s]) => i + 1 \in 1..Len(Initial[s])
      BY <3>1
    <3>5. i < Len(Initial[s]) => Initial[s][i + 1] \in Node
      BY <3>1, <3>4, SeqFacts
    <3> QED
      BY <3>3, <3>5, Names
  <2> QED
    BY <2>1, <2>2
<1>11. /\ kind \in [Node -> Kind] /\ gone \in [Node -> Seq(Node)]
       /\ safe \in [Thread -> SUBSET Node]
  BY <1>2, <1>4, <1>5, EmptyFacts DEF Kind
<1>12. where \in [Node -> Thread \cup Stack \cup Node]
  <2>1. \A n \in Node : where[n] \in Stack \cup Node
    BY <1>6, <1>7
  <2> QED
    BY <1>3, <2>1
<1>13. TypeOK
  <2>1. head \in [Stack -> [node : Ptr, spin : BOOLEAN]]
    BY <1>1, InitialFacts, FirstFacts, UnlockedFacts
  <2>2. /\ life \in [Node -> {"free", "live", "retired"}]
        /\ waits \in [Node -> SUBSET Thread]
    BY <1>1
  <2>3. next \in [Node -> Ptr]
    BY <1>1, <1>10
  <2>4. th \in [Thread -> Local]
    BY <1>1, RestFacts
  <2>5. items \in [Stack -> Seq(Node)]
    BY <1>1, StackAssumption
  <2> QED
    BY <2>1, <2>2, <2>3, <2>4, <2>5 DEF TypeOK
<1>14. \A t \in Thread :
         /\ th[t] = Rest /\ th[t].pc = "idle" /\ th[t].op = "none" /\ th[t].chain = <<>>
         /\ ~InCs(t) /\ ~At(t, "retire") /\ \A n \in Node : ~Popped(t, n)
  BY <1>1, RestFacts DEF InCs, At, Popped
<1>15. ControlOK
  BY <1>14, RestFacts DEF ControlOK
<1>16. HeadsOK
  <2>1. \A s \in Stack : head[s].node = First(items[s])
    BY <1>1, UnlockedFacts
  <2> QED
    BY <1>14, <2>1 DEF HeadsOK, Holds, At
<1>17. ASSUME NEW n \in Node PROVE Placed(n, kind[n], where[n], gone)
  <2>1. \A r \in Node : n \notin Range(gone[r])
    BY <1>4, EmptyFacts
  <2>2. \A t \in Thread : n \notin Range(th[t].chain) /\ ~Popped(t, n)
    BY <1>14, EmptyFacts
  <2>3. CASE \A s \in Stack : n \notin Range(Initial[s])
    <3>1. kind[n] = "free" /\ life[n] = "free"
      BY <1>7, <2>3
    <3> QED
      BY <1>1, <2>1, <2>2, <2>3, <3>1 DEF Placed
  <2>4. ASSUME NEW s \in Stack, n \in Range(Initial[s])
        PROVE  Placed(n, kind[n], where[n], gone)
    <3>1. kind[n] = "stack" /\ where[n] = s /\ life[n] = "live"
      BY <1>6, <1>8, <2>4
    <3>2. \A r \in Stack : n \in Range(items[r]) <=> r = s
      BY <1>1, <2>4, InitialFacts
    <3> QED
      BY <2>1, <2>2, <3>1, <3>2 DEF Placed
  <2> QED
    BY <2>3, <2>4
<1>18. PlacesOK(kind, where, gone)
  BY <1>17 DEF PlacesOK
<1>19. LinksOK(gone)
  BY <1>1, <1>4, <1>9, <1>14, EmptyFacts DEF LinksOK, Cut
<1>20. \A n \in Node : life[n] # "retired"
  BY <1>1
<1>21. GoneOK(gone)
  BY <1>4, <1>14, <1>20 DEF GoneOK
<1>22. SafeOK(safe, kind, where)
  BY <1>14 DEF SafeOK
<1>23. \A t \in Thread : th[t].pc \notin Following
  BY <1>14 DEF Following
<1>24. PopsOK(safe, kind) /\ ReadsOK(safe)
  BY <1>23, StandsNowhere DEF PopsOK, ReadsOK
<1>25. NodesOK(kind, where, gone, safe)
  BY <1>18, <1>19, <1>21, <1>22, <1>24 DEF NodesOK
<1> QED
  BY <1>11, <1>12, <1>13, <1>15, <1>16, <1>25 DEF StackOK

(* Every step preserves the invariant.                                     *)
LEMMA NextNow ==
  ASSUME StackOK, [Next]_vars
  PROVE  StackOK'
<1>1. /\ TypeOK /\ ControlOK /\ HeadsOK
      /\ \E kind \in [Node -> Kind], where \in [Node -> Thread \cup Stack \cup Node],
            gone \in [Node -> Seq(Node)], safe \in [Thread -> SUBSET Node] :
           NodesOK(kind, where, gone, safe)
  BY DEF StackOK
<1>2. PICK kind \in [Node -> Kind], where \in [Node -> Thread \cup Stack \cup Node],
           gone \in [Node -> Seq(Node)], safe \in [Thread -> SUBSET Node] :
        NodesOK(kind, where, gone, safe)
  BY <1>1
<1>3. Now(kind, where, gone, safe)
  BY <1>1, <1>2 DEF Now
<1>4. CASE UNCHANGED vars
  <2>1. UNCHANGED <<head, next, life, waits, th, items>>
    BY <1>4 DEF vars
  <2>2. TypeOK' /\ ControlOK' /\ HeadsOK'
    BY <1>1, <2>1 DEF TypeOK, ControlOK, HeadsOK, Holds, At
  <2>3. PlacesOK(kind, where, gone)'
    BY <1>2, <2>1 DEF NodesOK, PlacesOK, Placed, Popped, At
  <2>4. LinksOK(gone)' /\ GoneOK(gone)'
    BY <1>2, <2>1 DEF NodesOK, LinksOK, GoneOK, At
  <2>5. SafeOK(safe, kind, where)' /\ PopsOK(safe, kind)' /\ ReadsOK(safe)'
    BY <1>2, <2>1 DEF NodesOK, SafeOK, InCs, At, PopsOK, ReadsOK, Careful
  <2>6. NodesOK(kind, where, gone, safe)'
    BY <2>3, <2>4, <2>5 DEF NodesOK
  <2> QED
    BY <2>2, <2>6 DEF StackOK
<1>5. ASSUME NEW t \in Thread, ThreadStep(t) PROVE StackOK'
  <2>1. CASE PushLoad(t)
    BY <1>3, <2>1, PushLoadNow
  <2>2. CASE PushCas(t)
    BY <1>3, <2>2, PushCasNow
  <2>3. CASE PopLoad(t)
    BY <1>3, <2>3, PopLoadNow
  <2>4. CASE PopNext(t)
    BY <1>3, <2>4, PopNextNow
  <2>5. CASE PopCas(t)
    BY <1>3, <2>5, PopCasNow
  <2>6. CASE PopCut(t)
    BY <1>3, <2>6, PopCutNow
  <2>7. CASE PopFinish(t)
    BY <1>3, <2>7, PopFinishNow
  <2>8. CASE TopLoad(t)
    BY <1>3, <2>8, TopLoadNow
  <2>9. CASE TopFinish(t)
    BY <1>3, <2>9, TopFinishNow
  <2>10. CASE Guard(t)
    BY <1>3, <2>10, GuardNow
  <2>11. CASE SizeLoad(t)
    BY <1>3, <2>11, SizeLoadNow
  <2>12. CASE Walk(t)
    BY <1>3, <2>12, WalkNow
  <2>13. CASE WalkEnd(t)
    BY <1>3, <2>13, WalkEndNow
  <2>14. CASE SpinLoad(t)
    BY <1>3, <2>14, SpinLoadNow
  <2>15. CASE SpinCas(t)
    BY <1>3, <2>15, SpinCasNow
  <2>16. CASE SwapFirst(t)
    BY <1>3, <2>16, SwapFirstNow
  <2>17. CASE SwapSecond(t)
    BY <1>3, <2>17, SwapSecondNow
  <2>18. CASE ReplaceStore(t)
    BY <1>3, <2>18, ReplaceStoreNow
  <2>19. CASE ReplaceFinish(t)
    BY <1>3, <2>19, ReplaceFinishNow
  <2> QED
    BY <1>5, <2>1, <2>2, <2>3, <2>4, <2>5, <2>6, <2>7, <2>8, <2>9, <2>10, <2>11, <2>12,
       <2>13, <2>14, <2>15, <2>16, <2>17, <2>18, <2>19 DEF ThreadStep
<1>6. ASSUME NEW t \in Thread, ThreadCall(t) PROVE StackOK'
  <2>1. CASE SizeWild(t)
    BY <1>3, <2>1, SizeWildNow
  <2>2. ASSUME NEW s \in Stack, PushRange(t, s) PROVE StackOK'
    BY <1>3, <2>2, PushRangeNow
  <2>3. ASSUME NEW s \in Stack, NEW n \in Copies, PushCopies(t, s, n) PROVE StackOK'
    BY <1>3, <2>3, PushCopiesNow
  <2>4. ASSUME NEW s \in Stack, Pop(t, s) PROVE StackOK'
    BY <1>3, <2>4, PopNow
  <2>5. ASSUME NEW s \in Stack, Top(t, s) PROVE StackOK'
    BY <1>3, <2>5, TopNow
  <2>6. ASSUME NEW s \in Stack, Begin(t, s) PROVE StackOK'
    BY <1>3, <2>6, BeginNow
  <2>7. ASSUME NEW s \in Stack, Size(t, s) PROVE StackOK'
    BY <1>3, <2>7, SizeNow
  <2>8. ASSUME NEW s \in Stack, Clear(t, s) PROVE StackOK'
    BY <1>3, <2>8, ClearNow
  <2>9. ASSUME NEW s \in Stack, Assign(t, s) PROVE StackOK'
    BY <1>3, <2>9, AssignNow
  <2>10. ASSUME NEW a \in Stack, NEW b \in Stack, Swap(t, a, b) PROVE StackOK'
    BY <1>3, <2>10, SwapNow
  <2> QED
    BY <1>6, <2>1, <2>2, <2>3, <2>4, <2>5, <2>6, <2>7, <2>8, <2>9, <2>10 DEF ThreadCall
<1>7. ASSUME NEW n \in Node, SafeDestroy(n) PROVE StackOK'
  BY <1>3, <1>7, SafeDestroyNow
<1> QED
  BY <1>4, <1>5, <1>6, <1>7 DEF Next

(* Whatever calls of whatever threads interleave, the types are right, the *)
(* heads without the spin bit point to the first node of their stack, one  *)
(* thread at most has set the bit of a stack, and each node is in one      *)
(* place, from which sections that can still come to it keep its           *)
(* finalization away.                                                      *)
THEOREM Invariance == Spec => []StackOK
<1>1. Init => StackOK
  BY InitNow
<1>2. StackOK /\ [Next]_vars => StackOK'
  BY NextNow
<1> QED
  BY <1>1, <1>2, PTL DEF Spec

(* Every variable has its type, in every state that the threads can reach. *)
THEOREM TypeCorrect == Spec => []TypeOK
<1>1. StackOK => TypeOK
  BY DEF StackOK
<1> QED
  BY <1>1, Invariance, PTL

(* From the root of a stack, following the next pointers, one meets the    *)
(* nodes that are in it, in the order in which they were put there, each   *)
(* once: push, pop, clear, assign and swap lose no node, whichever CAS     *)
(* comes first (stack.hpp, push and pop).                                  *)
THEOREM ChainsLinked == Spec => []Linked
<1>1. ASSUME StackOK PROVE Linked
  <2>1. TypeOK /\ ControlOK /\ HeadsOK
    BY <1>1 DEF StackOK
  <2>2. \A s \in Stack : Strung(items[s], next)
    BY <1>1 DEF StackOK, NodesOK, LinksOK
  <2>3. ASSUME NEW s \in Stack PROVE Root(s) = First(items[s])
    <3>1. CASE \E t \in Thread : At(t, "store2") /\ th[t].other = s
      <4>1. PICK t \in Thread :
              /\ t = CHOOSE u \in Thread : At(u, "store2") /\ th[u].other = s
              /\ At(t, "store2") /\ th[t].other = s
        BY <3>1
      <4>2. th[t].cur = First(items[s])
        BY <2>1, <4>1 DEF HeadsOK, At
      <4> QED
        BY <3>1, <4>1, <4>2 DEF Root
    <3>2. CASE ~\E t \in Thread : At(t, "store2") /\ th[t].other = s
      BY <2>1, <3>2 DEF HeadsOK, Root
    <3> QED
      BY <3>1, <3>2
  <2>4. ASSUME NEW s \in Stack, NEW i \in DOMAIN items[s]
        PROVE  next[items[s][i]] = IF i < Len(items[s]) THEN items[s][i + 1] ELSE Null
    <3>1. i \in 1..Len(items[s])
      BY <2>1, <2>4, SeqFacts DEF TypeOK
    <3> QED
      BY <2>2, <3>1 DEF Strung
  <2> QED
    BY <2>3, <2>4 DEF Linked
<1> QED
  BY <1>1, Invariance, PTL

(* Nobody follows the pointer to a node that was destroyed: a thread at    *)
(* next, cut, value or walk holds a node whose memory is still there. The  *)
(* clients must see to two things, and the theorem fails without them:     *)
(* iterators are made inside a section, and stacks that others read are    *)
(* not swapped: between the two stores of a swap one head still leads to a *)
(* node of the other stack, which may be popped from there and destroyed.  *)
THEOREM ReadersSafe ==
  ASSUME Careful
  PROVE  Spec => []NoUseAfterDestroy
<1>1. ASSUME StackOK PROVE NoUseAfterDestroy
  <2>1. TypeOK /\ ControlOK
    BY <1>1 DEF StackOK
  <2>2. PICK kind \in [Node -> Kind], where \in [Node -> Thread \cup Stack \cup Node],
             gone \in [Node -> Seq(Node)], safe \in [Thread -> SUBSET Node] :
          NodesOK(kind, where, gone, safe)
    BY <1>1 DEF StackOK
  <2>3. ASSUME NEW t \in Thread,
               th[t].pc \in {"next", "cut", "value", "walk"}, th[t].cur # Null
        PROVE  life[th[t].cur] # "free"
    <3>1. th[t].cur \in Node
      BY <2>1, <2>3, Fields DEF Ptr
    <3>2. CASE Popped(t, th[t].cur)
      BY <2>2, <3>1, <3>2 DEF NodesOK, PlacesOK, Placed
    <3>3. CASE ~Popped(t, th[t].cur)
      <4>1. InCs(t)
        BY <2>1, <2>3, Inside
      <4>2. th[t].cur \in safe[t]
        BY <2>2, <2>3 DEF NodesOK, PopsOK, Pops, ReadsOK, Reads
      <4>3. kind[th[t].cur] \in {"stack", "hand", "out"}
        BY <2>2, <4>1, <4>2 DEF NodesOK, SafeOK
      <4> QED
        BY <2>2, <3>1, <4>3 DEF NodesOK, PlacesOK, Placed
    <3> QED
      BY <3>2, <3>3
  <2> QED
    BY <2>3 DEF NoUseAfterDestroy
<1> QED
  BY <1>1, Invariance, PTL

(* A walk of size or of an iterator goes along the nodes that were in the  *)
(* stack when it began, in their order, and skips none, whatever is pushed *)
(* and popped meanwhile.                                                   *)
THEOREM WalksInOrder ==
  ASSUME Careful
  PROVE  Spec => []WalkInOrder
<1>1. ASSUME StackOK PROVE WalkInOrder
  BY <1>1 DEF StackOK, NodesOK, ReadsOK, Reads, WalkInOrder
<1> QED
  BY <1>1, Invariance, PTL

(* Sets of numbers have a least one.                                       *)
LEMMA LeastNat ==
  ASSUME NEW S \in SUBSET Nat, S # {}
  PROVE  \E m \in S : \A n \in S : m <= n
<1>1. IsWellFoundedOn({p \in Nat \X Nat : p[1] < p[2]}, Nat)
  BY NatLessThanWellFounded DEF OpToRel
<1>2. PICK m \in S : \A n \in S :
               <<n, m>> \notin {p \in Nat \X Nat : p[1] < p[2]}
  BY <1>1, WFMin
<1>3. ASSUME NEW n \in S, n < m PROVE FALSE
  BY <1>2, <1>3
<1> QED
  BY <1>3

(* What lies below a node that was finalized is the chain that hangs from  *)
(* it.                                                                     *)
LEMMA BelowHangs ==
  ASSUME NEW n \in Node, NEW q \in Seq(Node), Strung(q, next), First(q) = next[n]
  PROVE  Below(n) = Range(q)
<1>1. /\ Len(q) \in Nat /\ Range(q) \subseteq Node
      /\ \A i \in 1..Len(q) : q[i] \in Node /\ q[i] \in Range(q)
      /\ \A m : m \in Range(q) <=> \E i \in 1..Len(q) : q[i] = m
  BY SeqFacts
<1>2. \A i \in 1..Len(q) : next[q[i]] = IF i < Len(q) THEN q[i + 1] ELSE Null
  BY DEF Strung
<1>3. next[n] \in Range(q) \cup {Null}
  BY SeqFacts
<1>4. Closed(Range(q))
  <2>1. ASSUME NEW m \in Range(q) PROVE next[m] \in Range(q) \cup {Null}
    <3>1. PICK i \in 1..Len(q) : q[i] = m
      BY <1>1
    <3>2. i < Len(q) => i + 1 \in 1..Len(q)
      BY <1>1
    <3> QED
      BY <1>1, <1>2, <3>1, <3>2
  <2> QED
    BY <2>1 DEF Closed
<1>5. Below(n) \subseteq Range(q)
  BY <1>1, <1>3, <1>4 DEF Below
<1>6. ASSUME NEW S \in SUBSET Node, next[n] \in S \cup {Null}, Closed(S),
             NEW j \in 1..Len(q), q[j] \notin S
      PROVE  FALSE
  <2> DEFINE Bad == {i \in 1..Len(q) : q[i] \notin S}
  <2>1. Bad \in SUBSET Nat /\ j \in Bad
    BY <1>1, <1>6
  <2>2. PICK k \in Bad : \A i \in Bad : k <= i
    <3> HIDE DEF Bad
    <3> QED
      BY <2>1, LeastNat
  <2>3. k \in 1..Len(q) /\ q[k] \notin S /\ q[k] \in Node
    BY <1>1, <2>2
  <2>4. CASE k = 1
    <3>1. q # <<>>
      BY <2>3
    <3>2. q[1] = next[n]
      BY <3>1 DEF First
    <3> QED
      BY <1>6, <2>3, <2>4, <3>2, Names
  <2>5. CASE 1 < k
    <3>1. /\ k - 1 \in 1..Len(q) /\ k - 1 < Len(q) /\ ~(k <= k - 1) /\ (k - 1) + 1 = k
      BY <1>1, <2>3, <2>5
    <3>2. q[k - 1] \in S
      BY <2>2, <3>1
    <3>3. next[q[k - 1]] = q[k]
      BY <1>2, <3>1
    <3> QED
      BY <1>6, <2>3, <3>2, <3>3, Names DEF Closed
  <2> QED
    BY <1>1, <2>3, <2>4, <2>5
<1>7. Range(q) \subseteq Below(n)
  <2>1. ASSUME NEW m \in Range(q) PROVE m \in Below(n)
    <3>1. PICK j \in 1..Len(q) : q[j] = m
      BY <1>1
    <3>2. m \in Node
      BY <1>1
    <3>3. \A S \in SUBSET Node : next[n] \in S \cup {Null} /\ Closed(S) => m \in S
      BY <1>6, <3>1
    <3> QED
      BY <3>2, <3>3 DEF Below
  <2> QED
    BY <2>1
<1> QED
  BY <1>5, <1>7

(* What hangs from a node on its way out: itself and what lies below it.   *)
HangsFrom(n, r, kind, where) ==
  r = n \/ n \in Below(r) <=> kind[n] = "out" /\ where[n] = r

(* The chain of a node on its way out is the node and what lies below it.  *)
LEMMA OutFacts ==
  ASSUME TypeOK, NEW kind, NEW where, NEW gone \in [Node -> Seq(Node)],
         PlacesOK(kind, where, gone), LinksOK(gone), GoneOK(gone),
         NEW r \in Node, gone[r] # <<>>, NEW n \in Node
  PROVE  HangsFrom(n, r, kind, where)
<1> DEFINE q == gone[r]
<1>1. q \in Seq(Node) /\ q # <<>> /\ q[1] = r /\ Strung(q, next)
  BY DEF GoneOK, LinksOK
<1>2. r \in Range(q)
  BY <1>1, SeqFacts
<1>3. /\ Tail(q) \in Seq(Node) /\ Strung(Tail(q), next) /\ Range(Tail(q)) = Range(q) \ {r}
      /\ First(Tail(q)) = next[r]
  BY <1>1, TailFacts
<1>4. Below(r) = Range(Tail(q))
  BY <1>3, BelowHangs
<1>5. n \in Range(q) <=> kind[n] = "out" /\ where[n] = r
  BY DEF PlacesOK, Placed
<1> QED
  BY <1>2, <1>3, <1>4, <1>5 DEF HangsFrom

(* The places that NodesAccounted counts for a node are the one place that *)
(* the invariant gives it.                                                 *)
LEMMA PlacesAre ==
  ASSUME TypeOK, NEW kind, NEW where, NEW gone \in [Node -> Seq(Node)],
         PlacesOK(kind, where, gone), LinksOK(gone), GoneOK(gone), NEW n \in Node, NEW p
  PROVE  p \in Places(n) <=>
           \/ \E s \in Stack : \E i \in 1..Len(items[s]) : items[s][i] = n /\ p = <<s, i>>
           \/ \E t \in Thread : n \in Range(th[t].chain) /\ p = <<t, "in">>
           \/ \E t \in Thread : Popped(t, n) /\ p = <<t, "out">>
           \/ \E t \in Thread : /\ At(t, "retire") /\ th[t].cur = where[n]
                                /\ where[n] \in Node /\ kind[n] = "out" /\ p = <<t, "out">>
           \/ /\ where[n] \in Node /\ life[where[n]] = "retired"
              /\ kind[n] = "out" /\ p = <<where[n], "out">>
<1>1. \A s \in Stack : DOMAIN items[s] = 1..Len(items[s])
  BY SeqFacts DEF TypeOK
<1>2. ASSUME NEW t \in Thread, At(t, "retire"), th[t].cur # Null
      PROVE  /\ th[t].cur \in Node
             /\ th[t].cur = n \/ n \in Below(th[t].cur) <=>
                  kind[n] = "out" /\ where[n] = th[t].cur
  <2>1. th[t].cur \in Node /\ gone[th[t].cur] # <<>>
    BY <1>2, Fields DEF GoneOK, Ptr
  <2>2. HangsFrom(n, th[t].cur, kind, where)
    BY <2>1, OutFacts
  <2> QED
    BY <2>1, <2>2 DEF HangsFrom
<1>3. ASSUME NEW r \in Node, life[r] = "retired"
      PROVE  r = n \/ n \in Below(r) <=> kind[n] = "out" /\ where[n] = r
  <2>1. gone[r] # <<>>
    BY <1>3 DEF GoneOK
  <2>2. HangsFrom(n, r, kind, where)
    BY <2>1, OutFacts
  <2> QED
    BY <2>1, <2>2 DEF HangsFrom
<1>4. p \in UNION {{<<s, i>> : i \in {j \in DOMAIN items[s] : items[s][j] = n}} : s \in Stack}
        <=> \E s \in Stack : \E i \in 1..Len(items[s]) : items[s][i] = n /\ p = <<s, i>>
  BY <1>1
<1>5. p \in {<<t, "in">> : t \in {u \in Thread : n \in Range(th[u].chain)}}
        <=> \E t \in Thread : n \in Range(th[t].chain) /\ p = <<t, "in">>
  OBVIOUS
<1>6. p \in {<<t, "out">> : t \in {u \in Thread :
               /\ th[u].cur = n
               /\ At(u, "cut") \/ At(u, "retire") \/ (At(u, "value") /\ th[u].op = "pop")}}
        <=> \E t \in Thread : /\ Popped(t, n) \/ (At(t, "retire") /\ th[t].cur = n)
                              /\ p = <<t, "out">>
  BY DEF Popped
<1>7. p \in {<<t, "out">> : t \in {u \in Thread :
               At(u, "retire") /\ th[u].cur # Null /\ n \in Below(th[u].cur)}}
        <=> \E t \in Thread : /\ At(t, "retire") /\ th[t].cur # Null
                              /\ n \in Below(th[t].cur) /\ p = <<t, "out">>
  OBVIOUS
<1>8. p \in {<<m, "out">> : m \in {r \in Node :
               life[r] = "retired" /\ (r = n \/ n \in Below(r))}}
        <=> \E r \in Node : /\ life[r] = "retired" /\ (r = n \/ n \in Below(r))
                            /\ p = <<r, "out">>
  OBVIOUS
<1>9. (\E r \in Node : life[r] = "retired" /\ (r = n \/ n \in Below(r)) /\ p = <<r, "out">>)
        <=> /\ where[n] \in Node /\ life[where[n]] = "retired"
            /\ kind[n] = "out" /\ p = <<where[n], "out">>
  BY <1>3
<1>10. (\E t \in Thread : At(t, "retire") /\ th[t].cur = n /\ p = <<t, "out">>)
         \/ (\E t \in Thread : /\ At(t, "retire") /\ th[t].cur # Null
                               /\ n \in Below(th[t].cur) /\ p = <<t, "out">>)
         <=> \E t \in Thread : /\ At(t, "retire") /\ th[t].cur = where[n]
                               /\ where[n] \in Node /\ kind[n] = "out" /\ p = <<t, "out">>
  <2>1. \A t \in Thread : At(t, "retire") =>
          (th[t].cur = n \/ (th[t].cur # Null /\ n \in Below(th[t].cur))
             <=> th[t].cur = where[n] /\ where[n] \in Node /\ kind[n] = "out")
    BY <1>2, Names
  <2> QED
    BY <2>1
<1> QED
  BY <1>4, <1>5, <1>6, <1>7, <1>8, <1>9, <1>10 DEF Places

(* Each node that was allocated and not destroyed is in exactly one place: *)
(* in a stack at one position, in the chain of a call, in the hand of a    *)
(* pop, or on its way out with the node it hangs from. None leaks, and     *)
(* none is finalized twice.                                                *)
THEOREM Accounted == Spec => []NodesAccounted
<1>1. ASSUME StackOK PROVE NodesAccounted
  <2>1. TypeOK /\ ControlOK
    BY <1>1 DEF StackOK
  <2>2. PICK kind \in [Node -> Kind], where \in [Node -> Thread \cup Stack \cup Node],
             gone \in [Node -> Seq(Node)], safe \in [Thread -> SUBSET Node] :
          NodesOK(kind, where, gone, safe)
    BY <1>1 DEF StackOK
  <2>3. PlacesOK(kind, where, gone) /\ LinksOK(gone) /\ GoneOK(gone)
    BY <2>2 DEF NodesOK
  <2>4. ASSUME NEW n \in Node
        PROVE  IF life[n] = "free" THEN Places(n) = {}
               ELSE \E p \in Places(n) : Places(n) = {p}
    <3>1. Placed(n, kind[n], where[n], gone)
      BY <2>3 DEF PlacesOK
    <3>2. \A p : p \in Places(n) <=>
            \/ \E s \in Stack : \E i \in 1..Len(items[s]) : items[s][i] = n /\ p = <<s, i>>
            \/ \E t \in Thread : n \in Range(th[t].chain) /\ p = <<t, "in">>
            \/ \E t \in Thread : Popped(t, n) /\ p = <<t, "out">>
            \/ \E t \in Thread : /\ At(t, "retire") /\ th[t].cur = where[n]
                                 /\ where[n] \in Node /\ kind[n] = "out" /\ p = <<t, "out">>
            \/ /\ where[n] \in Node /\ life[where[n]] = "retired"
               /\ kind[n] = "out" /\ p = <<where[n], "out">>
      BY <2>1, <2>3, PlacesAre
    <3>3. \A s \in Stack : (\E i \in 1..Len(items[s]) : items[s][i] = n)
                             <=> kind[n] = "stack" /\ where[n] = s
      BY <2>1, <3>1, SeqFacts DEF TypeOK, Placed
    <3>4. \A t \in Thread : /\ n \in Range(th[t].chain) <=> kind[n] = "chain" /\ where[n] = t
                            /\ Popped(t, n) <=> kind[n] = "hand" /\ where[n] = t
      BY <3>1 DEF Placed
    <3>5. kind[n] # "free" => life[n] # "free"
      BY <3>1 DEF Placed
    <3>6. CASE kind[n] = "free"
      <4>1. life[n] = "free" /\ \A p : p \notin Places(n)
        BY <3>1, <3>2, <3>3, <3>4, <3>6 DEF Placed
      <4> QED
        BY <4>1
    <3>7. CASE kind[n] = "stack"
      <4>1. PICK s \in Stack : s = where[n]
        BY <3>1, <3>7 DEF Placed
      <4>2. PICK i \in 1..Len(items[s]) : items[s][i] = n
        BY <3>3, <3>7, <4>1
      <4>3. \A j \in 1..Len(items[s]) : items[s][j] = n => j = i
        BY <2>1, <2>3, <4>2, InjectiveFacts DEF LinksOK, Strung, TypeOK
      <4>4. \A p : p \in Places(n) <=> p = <<s, i>>
        BY <3>2, <3>3, <3>4, <3>7, <4>1, <4>2, <4>3
      <4>5. Places(n) = {<<s, i>>}
        BY <4>4
      <4> QED
        BY <3>7, <3>5, <4>5
    <3>8. CASE kind[n] = "chain"
      <4>1. where[n] \in Thread
        BY <3>1, <3>8 DEF Placed
      <4>2. \A p : p \in Places(n) <=> p = <<where[n], "in">>
        BY <3>2, <3>3, <3>4, <3>8, <4>1
      <4>3. Places(n) = {<<where[n], "in">>}
        BY <4>2
      <4> QED
        BY <3>8, <3>5, <4>3
    <3>9. CASE kind[n] = "hand"
      <4>1. where[n] \in Thread
        BY <3>1, <3>9 DEF Placed
      <4>2. \A p : p \in Places(n) <=> p = <<where[n], "out">>
        BY <3>2, <3>3, <3>4, <3>9, <4>1
      <4>3. Places(n) = {<<where[n], "out">>}
        BY <4>2
      <4> QED
        BY <3>9, <3>5, <4>3
    <3>10. CASE kind[n] = "out"
      <4>1. PICK r \in Node : r = where[n] /\ n \in Range(gone[r])
        BY <3>1, <3>10 DEF Placed
      <4>2. gone[r] # <<>>
        BY <4>1, EmptyFacts
      <4>3. CASE life[r] = "retired"
        <5>1. \A t \in Thread : At(t, "retire") => th[t].cur # r
          <6>1. ASSUME NEW t \in Thread, At(t, "retire"), th[t].cur = r PROVE FALSE
            BY <2>3, <4>3, <6>1, Names DEF GoneOK
          <6> QED
            BY <6>1
        <5>2. \A p : p \in Places(n) <=> p = <<r, "out">>
          BY <3>2, <3>3, <3>4, <3>10, <4>1, <4>3, <5>1
        <5>3. Places(n) = {<<r, "out">>}
          BY <5>2
        <5> QED
          BY <3>10, <3>5, <5>3
      <4>4. CASE life[r] # "retired"
        <5>1. PICK t \in Thread : At(t, "retire") /\ th[t].cur = r
          BY <2>3, <4>2, <4>4 DEF GoneOK
        <5>2. \A u \in Thread : At(u, "retire") /\ th[u].cur = r => u = t
          BY <2>3, <5>1, Names DEF GoneOK
        <5>3. \A p : p \in Places(n) <=> p = <<t, "out">>
          BY <3>2, <3>3, <3>4, <3>10, <4>1, <4>4, <5>1, <5>2
        <5>4. Places(n) = {<<t, "out">>}
          BY <5>3
        <5> QED
          BY <3>10, <3>5, <5>4
      <4> QED
        BY <4>3, <4>4
    <3> QED
      BY <2>2, <3>6, <3>7, <3>8, <3>9, <3>10 DEF Kind
  <2> QED
    BY <2>4 DEF NodesAccounted
<1> QED
  BY <1>1, Invariance, PTL

-----------------------------------------------------------------------------
(* Stack implements AbstractStack.                                         *)

(* What a thread holds in its hand.                                        *)
Hand(w) == IF w.pc = "cut" \/ (w.pc = "value" /\ w.op = "pop") THEN w.cur ELSE Null
(* What each thread holds.                                                 *)
Hands == [t \in Thread |-> Hand(th[t])]

(* The steps of the abstract stacks, with the hands named.                 *)
LEMMA PromiseIs ==
  /\ Promise!vars = <<items, Hands>>
  /\ ([Promise!Next]_(Promise!vars)
        <=> Promise!Next \/ (items' = items /\ Hands' = Hands))
  BY DEF Promise!vars, Hands, Hand, At

(* The stacks begin as promised.                                           *)
LEMMA PromiseInit ==
  ASSUME Init
  PROVE  Promise!Init
<1>1. items = Initial /\ th = [t \in Thread |-> Rest]
  BY DEF Init
<1>2. \A t \in Thread : ~At(t, "cut") /\ ~At(t, "value")
  BY <1>1, RestFacts DEF At
<1>3. [t \in Thread |-> IF At(t, "cut") \/ (At(t, "value") /\ th[t].op = "pop")
                           THEN th[t].cur ELSE Null] = [t \in Thread |-> Null]
  BY <1>2
<1>4. /\ items \in [Stack -> Seq(Node)]
      /\ \A s \in Stack : IsInjective(items[s])
      /\ \A s, r \in Stack : s # r => Range(items[s]) \cap Range(items[r]) = {}
  BY <1>1, StackAssumption
<1> QED
  BY <1>3, <1>4 DEF Promise!Init, Promise!IsInjective, Promise!Range, IsInjective, Range

(* Chains stay as long as the calls make them.                             *)
ChainsShort == \A t \in Thread : Len(th[t].chain) <= MaxChain

(* A step of a thread keeps chains short if it keeps its own chain short.  *)
LEMMA ShortStep ==
  ASSUME ChainsShort, NEW t \in Thread, \A u \in Thread : u # t => th'[u] = th[u],
         Len(th'[t].chain) <= MaxChain
  PROVE  ChainsShort'
<1>1. ASSUME NEW u \in Thread PROVE Len(th'[u].chain) <= MaxChain
  <2>1. CASE u = t
    BY <2>1
  <2>2. CASE u # t
    BY <2>2 DEF ChainsShort
  <2> QED
    BY <2>1, <2>2
<1> QED
  BY <1>1 DEF ChainsShort

(* A step that changes no stack and no hand.                               *)
Silent(t) ==
  /\ items' = items /\ Hand(th'[t]) = Hand(th[t])
  /\ \A u \in Thread : u # t => th'[u] = th[u]
  /\ th'[t].chain \in {<<>>, th[t].chain}

(* Such a step is a stutter of the abstract stacks.                        *)
LEMMA SilentStep ==
  ASSUME ChainsShort, NEW t \in Thread, Silent(t)
  PROVE  [Promise!Next]_(Promise!vars) /\ ChainsShort'
<1>1. \A u \in Thread : Hand(th'[u]) = Hand(th[u])
  BY DEF Silent
<1>2. Hands' = Hands
  BY <1>1 DEF Hands
<1>3. Len(th'[t].chain) <= MaxChain
  BY EmptyFacts, StackAssumption DEF Silent, ChainsShort
<1>4. ChainsShort'
  BY <1>3, ShortStep DEF Silent
<1> QED
  BY <1>2, <1>4, PromiseIs DEF Silent

(* A step to another label is silent, away from the labels of a hand.      *)
LEMMA SilentMoved ==
  ASSUME NEW t \in Thread, NEW l, Moved(t, l), items' = items,
         l \notin {"cut", "value"}, ~At(t, "cut"), ~At(t, "value")
  PROVE  Silent(t)
  BY DEF Silent, Moved, Hand, At

(* So is the end of a call that has nothing in its hand.                   *)
LEMMA SilentEnded ==
  ASSUME NEW t \in Thread, Ended(t), items' = items,
         ~At(t, "cut"), ~(At(t, "value") /\ th[t].op = "pop")
  PROVE  Silent(t)
  BY RestFacts DEF Silent, Ended, Hand, At

(* So is the start of a call that allocates nothing.                       *)
LEMMA SilentStarted ==
  ASSUME NEW t \in Thread, NEW op, NEW s, NEW l, Started(t, op, s, l), items' = items,
         l \notin {"cut", "value"}, At(t, "idle"), th'[t].chain = <<>>
  PROVE  Silent(t)
  BY DEF Silent, Started, Hand, At

(* The steps of the calls that change no stack and no hand.                *)
LEMMA StepsSilent ==
  ASSUME TypeOK, ControlOK, NEW t \in Thread,
         \/ PushLoad(t) \/ PopLoad(t) \/ PopNext(t) \/ PopCut(t) \/ TopLoad(t)
         \/ TopFinish(t) \/ Guard(t) \/ SizeLoad(t) \/ Walk(t) \/ WalkEnd(t)
         \/ SpinLoad(t) \/ SpinCas(t) \/ SwapSecond(t) \/ ReplaceFinish(t) \/ SizeWild(t)
  PROVE  Silent(t)
<1>1. CASE PushLoad(t)
  BY <1>1, PushLoadKeeps, SilentMoved DEF At
<1>2. CASE PopLoad(t)
  BY <1>2, PopLoadDoes, SilentMoved, SilentEnded DEF At
<1>3. CASE PopNext(t)
  BY <1>3, PopNextDoes, SilentMoved DEF At
<1>4. CASE PopCut(t)
  BY <1>4, PopCutKeeps DEF Silent, Moved, Kept, Hand, At
<1>5. CASE TopLoad(t)
  <2>1. CASE Ended(t)
    BY <1>5, <2>1, TopLoadDoes, SilentEnded DEF At
  <2>2. CASE Moved(t, "value")
    BY <1>5, <2>2, TopLoadDoes, TopLoadKeeps DEF Silent, Moved, Hand, At
  <2> QED
    BY <1>5, <2>1, <2>2, TopLoadDoes
<1>6. CASE TopFinish(t)
  BY <1>6, TopFinishKeeps, SilentEnded DEF At
<1>7. CASE Guard(t)
  BY <1>7, GuardKeeps, SilentMoved DEF At
<1>8. CASE SizeLoad(t)
  BY <1>8, SizeLoadDoes, SilentMoved DEF At
<1>9. CASE Walk(t)
  BY <1>9, WalkDoes, SilentMoved DEF At
<1>10. CASE WalkEnd(t)
  BY <1>10, WalkEndKeeps, SilentEnded DEF At
<1>11. CASE SpinLoad(t)
  BY <1>11, SpinLoadDoes, SilentMoved DEF At
<1>12. CASE SpinCas(t)
  BY <1>12, SpinCasDoes, SilentMoved DEF At
<1>13. CASE SwapSecond(t)
  BY <1>13, SwapSecondKeeps, SilentEnded DEF At
<1>14. CASE ReplaceFinish(t)
  BY <1>14, ReplaceFinishKeeps, SilentEnded DEF At, Finalized
<1>15. CASE SizeWild(t)
  BY <1>15, SizeWildKeeps, SilentEnded DEF At
<1> QED
  BY <1>1, <1>2, <1>3, <1>4, <1>5, <1>6, <1>7, <1>8, <1>9, <1>10, <1>11, <1>12, <1>13,
     <1>14, <1>15

(* The starts of the calls that allocate nothing.                          *)
LEMMA CallsSilent ==
  ASSUME TypeOK, ControlOK, NEW t \in Thread, NEW s \in Stack, NEW r \in Stack,
         \/ Pop(t, s) \/ Top(t, s) \/ Begin(t, s) \/ Size(t, s) \/ Clear(t, s)
         \/ Swap(t, s, r)
  PROVE  Silent(t)
<1>1. CASE Pop(t, s)
  BY <1>1, PopKeeps, SilentStarted
<1>2. CASE Top(t, s)
  BY <1>2, TopKeeps, SilentStarted
<1>3. CASE Begin(t, s)
  BY <1>3, BeginDoes, SilentStarted
<1>4. CASE Size(t, s)
  BY <1>4, SizeKeeps, SilentStarted
<1>5. CASE Clear(t, s)
  BY <1>5, ClearKeeps, SilentStarted
<1>6. CASE Swap(t, s, r)
  BY <1>6, SwapDoes, SilentStarted
<1> QED
  BY <1>1, <1>2, <1>3, <1>4, <1>5, <1>6

(* A call that allocates changes no stack and no hand either.              *)
LEMMA AllocateStep ==
  ASSUME ChainsShort, NEW t \in Thread, NEW op, NEW s, NEW l, Started(t, op, s, l),
         items' = items, l \notin {"cut", "value"}, At(t, "idle"),
         Len(th'[t].chain) <= MaxChain
  PROVE  [Promise!Next]_(Promise!vars) /\ ChainsShort'
<1>1. \A u \in Thread : Hand(th'[u]) = Hand(th[u])
  BY DEF Started, Hand, At
<1>2. Hands' = Hands
  BY <1>1 DEF Hands
<1>3. ChainsShort'
  BY ShortStep DEF Started
<1> QED
  BY <1>2, <1>3, PromiseIs

(* What is promised of a chain that goes in.                               *)
LEMMA ChainIsPromised ==
  ASSUME TypeOK, NEW kind, NEW where, NEW gone, PlacesOK(kind, where, gone),
         LinksOK(gone), ChainsShort, NEW t \in Thread
  PROVE  th[t].chain \in Promise!Chains /\ Promise!Disjoint(th[t].chain)
<1> DEFINE q == th[t].chain
<1>1. q \in Seq(Node) /\ IsInjective(q)
  BY Fields DEF LinksOK, Open
<1>2. Len(q) \in 0..MaxChain /\ q \in [1..Len(q) -> Node]
  BY <1>1, SeqFacts, StackAssumption DEF ChainsShort
<1>3. q \in {p \in [1..Len(q) -> Node] : IsInjective(p)}
  BY <1>1, <1>2
<1>4. q \in Promise!Chains
  BY <1>2, <1>3 DEF Promise!Chains, Promise!IsInjective, IsInjective
<1>5. ASSUME NEW s \in Stack, NEW n \in Range(q), n \in Range(items[s]) PROVE FALSE
  <2>1. n \in Node
    BY <1>1, <1>5, SeqFacts
  <2> QED
    BY <1>5, <2>1 DEF PlacesOK, Placed
<1>6. Promise!Disjoint(q)
  BY <1>5 DEF Promise!Disjoint, Promise!Range, Range
<1> QED
  BY <1>4, <1>6

(* PushCas implements Push when it succeeds, and a stutter otherwise.      *)
LEMMA PushCasPromised ==
  ASSUME NEW kind, NEW where, NEW gone, NEW safe, Now(kind, where, gone, safe),
         ChainsShort, NEW t \in Thread, PushCas(t)
  PROVE  [Promise!Next]_(Promise!vars) /\ ChainsShort'
<1>1. /\ TypeOK /\ ControlOK /\ PlacesOK(kind, where, gone) /\ LinksOK(gone)
  BY NowParts
<1>2. /\ At(t, "publish") /\ th[t].op = "push"
      /\ \/ Pushed(t)
         \/ Moved(t, "push") /\ UNCHANGED items
  BY <1>1, PushCasKeeps
<1>3. CASE Moved(t, "push") /\ UNCHANGED items
  BY <1>2, <1>3, SilentMoved, SilentStep DEF At
<1>4. CASE Pushed(t)
  <2>1. /\ th[t].chain \in Promise!Chains /\ Promise!Disjoint(th[t].chain)
        /\ th[t].chain # <<>> /\ th[t].at \in Stack
    BY <1>1, <1>2, ChainIsPromised, PushFacts
  <2>2. /\ items' = [items EXCEPT ![th[t].at] = th[t].chain \o items[th[t].at]]
        /\ \A u \in Thread : u # t => th'[u] = th[u]
        /\ th'[t].pc = "idle" /\ th'[t].chain = <<>>
    BY <1>4, RestFacts DEF Pushed, Ended
  <2>3. \A u \in Thread : Hand(th'[u]) = Hand(th[u])
    BY <1>2, <2>2 DEF Hand, At
  <2>4. Hands' = Hands
    BY <2>3 DEF Hands
  <2>5. Promise!Push(th[t].at)
    BY <2>1, <2>2, <2>4 DEF Promise!Push, Hands, Hand, At
  <2>6. Promise!Next
    BY <2>1, <2>5 DEF Promise!Next
  <2>7. ChainsShort'
    BY <2>2, EmptyFacts, StackAssumption, ShortStep
  <2> QED
    BY <2>6, <2>7, PromiseIs
<1> QED
  BY <1>2, <1>3, <1>4

(* PopCas implements Pop when it succeeds, and a stutter otherwise.        *)
LEMMA PopCasPromised ==
  ASSUME NEW kind, NEW where, NEW gone, NEW safe, Now(kind, where, gone, safe),
         ChainsShort, NEW t \in Thread, PopCas(t)
  PROVE  [Promise!Next]_(Promise!vars) /\ ChainsShort'
<1> DEFINE c == th[t].cur
           s == th[t].at
<1>1. TypeOK /\ ControlOK /\ HeadsOK
  BY NowParts
<1>2. At(t, "take") /\ c # Null /\ s \in Stack /\ th[t].chain = <<>>
  BY <1>1 DEF PopCas, ControlOK, Agree, At
<1>3. ASSUME head[s].node = c, ~head[s].spin
      PROVE  items[s] # <<>> /\ First(items[s]) = c
  BY <1>1, <1>2, <1>3, OpenHead DEF First
<1>4. /\ th[t].op = "pop" /\ c \in Node
      /\ \/ Took(t)
         \/ Moved(t, "pop") /\ UNCHANGED items
  BY <1>1, <1>2, <1>3, PopCasKeeps, Parts
<1>5. CASE Moved(t, "pop") /\ UNCHANGED items
  BY <1>2, <1>5, SilentMoved, SilentStep DEF At
<1>6. CASE Took(t)
  <2>1. /\ head[s].node = c /\ ~head[s].spin
        /\ items' = [items EXCEPT ![s] = Tail(items[s])]
        /\ \A u \in Thread : u # t => th'[u] = th[u]
        /\ th'[t].pc = "cut" /\ th'[t].chain = <<>> /\ th'[t].cur = c
    BY <1>2, <1>6 DEF Took, Moved, Kept
  <2>2. items[s] # <<>> /\ Head(items[s]) = c /\ items[s] \in Seq(Node)
    BY <1>1, <1>2, <1>3, <2>1 DEF First, TypeOK
  <2>3. Hand(th[t]) = Null /\ Hand(th'[t]) = c
    BY <1>2, <2>1 DEF Hand, At
  <2>4. Hands[t] = Null /\ Hands' = [Hands EXCEPT ![t] = c]
    BY <2>1, <2>3 DEF Hands
  <2>5. PICK r \in Stack : r = s
    BY <1>2
  <2>6. Promise!Pop(t, r)
    BY <2>1, <2>2, <2>4, <2>5 DEF Promise!Pop, Hands, Hand, At
  <2>7. Promise!Next
    BY <2>6 DEF Promise!Next
  <2>8. ChainsShort'
    BY <2>1, EmptyFacts, StackAssumption, ShortStep
  <2> QED
    BY <2>7, <2>8, PromiseIs
<1> QED
  BY <1>4, <1>5, <1>6

(* PopFinish implements Return.                                            *)
LEMMA PopFinishPromised ==
  ASSUME TypeOK, ControlOK, ChainsShort, NEW t \in Thread, PopFinish(t)
  PROVE  [Promise!Next]_(Promise!vars) /\ ChainsShort'
<1>1. /\ items' = items /\ \A u \in Thread : u # t => th'[u] = th[u]
      /\ th'[t].pc = "idle" /\ th'[t].chain = <<>>
  BY PopFinishKeeps, RestFacts DEF Finalized, Ended
<1>2. Hand(th'[t]) = Null
  BY <1>1 DEF Hand
<1>3. Hands' = [Hands EXCEPT ![t] = Null]
  BY <1>1, <1>2 DEF Hands
<1>4. Promise!Return(t)
  BY <1>1, <1>3 DEF Promise!Return, Hands, Hand, At
<1>5. Promise!Next
  BY <1>4 DEF Promise!Next
<1>6. ChainsShort'
  BY <1>1, EmptyFacts, StackAssumption, ShortStep
<1> QED
  BY <1>5, <1>6, PromiseIs

(* The first store of swap implements Swap.                                *)
LEMMA SwapFirstPromised ==
  ASSUME TypeOK, ControlOK, ChainsShort, NEW t \in Thread, SwapFirst(t)
  PROVE  [Promise!Next]_(Promise!vars) /\ ChainsShort'
<1>1. /\ At(t, "store1") /\ th[t].at \in Stack /\ th[t].other \in Stack
      /\ items' = [items EXCEPT ![th[t].at] = items[th[t].other],
                                ![th[t].other] = items[th[t].at]]
      /\ th[t].chain = <<>> /\ Moved(t, "store2")
  BY SwapFirstKeeps
<1>2. /\ \A u \in Thread : u # t => th'[u] = th[u]
      /\ th'[t].pc = "store2" /\ th'[t].chain = <<>>
  BY <1>1 DEF Moved
<1>3. \A u \in Thread : Hand(th'[u]) = Hand(th[u])
  BY <1>1, <1>2 DEF Hand, At
<1>4. Hands' = Hands
  BY <1>3 DEF Hands
<1>5. Promise!Swap(th[t].at, th[t].other)
  BY <1>1, <1>4 DEF Promise!Swap, Hands, Hand, At
<1>6. Promise!Next
  BY <1>1, <1>5 DEF Promise!Next
<1>7. ChainsShort'
  BY <1>2, EmptyFacts, StackAssumption, ShortStep
<1> QED
  BY <1>6, <1>7, PromiseIs

(* The store of clear and assign implements Replace.                       *)
LEMMA ReplaceStorePromised ==
  ASSUME NEW kind, NEW where, NEW gone, NEW safe, Now(kind, where, gone, safe),
         ChainsShort, NEW t \in Thread, ReplaceStore(t)
  PROVE  [Promise!Next]_(Promise!vars) /\ ChainsShort'
<1>1. /\ TypeOK /\ ControlOK /\ PlacesOK(kind, where, gone) /\ LinksOK(gone)
  BY NowParts
<1>2. /\ At(t, "store") /\ items' = [items EXCEPT ![th[t].at] = th[t].chain]
      /\ th'[t].pc = "retire" /\ th'[t].chain = <<>>
      /\ \A u \in Thread : u # t => th'[u] = th[u]
  BY <1>1, ReplaceStoreDoes
<1>3. th[t].at \in Stack
  BY <1>1, ReplaceStoreKeeps
<1>4. th[t].chain \in Promise!Chains /\ Promise!Disjoint(th[t].chain)
  BY <1>1, ChainIsPromised
<1>5. \A u \in Thread : Hand(th'[u]) = Hand(th[u])
  BY <1>2 DEF Hand, At
<1>6. Hands' = Hands
  BY <1>5 DEF Hands
<1>7. Promise!Replace(th[t].at)
  BY <1>2, <1>4, <1>6 DEF Promise!Replace, Hands, Hand, At
<1>8. Promise!Next
  BY <1>3, <1>7 DEF Promise!Next
<1>9. ChainsShort'
  BY <1>2, EmptyFacts, StackAssumption, ShortStep
<1> QED
  BY <1>8, <1>9, PromiseIs

(* Every step implements a step of the abstract stacks, or a stutter.      *)
LEMMA NextPromised ==
  ASSUME StackOK, ChainsShort, [Next]_vars
  PROVE  [Promise!Next]_(Promise!vars) /\ ChainsShort'
<1>1. /\ TypeOK /\ ControlOK /\ HeadsOK
      /\ \E kind \in [Node -> Kind], where \in [Node -> Thread \cup Stack \cup Node],
            gone \in [Node -> Seq(Node)], safe \in [Thread -> SUBSET Node] :
           NodesOK(kind, where, gone, safe)
  BY DEF StackOK
<1>2. PICK kind \in [Node -> Kind], where \in [Node -> Thread \cup Stack \cup Node],
           gone \in [Node -> Seq(Node)], safe \in [Thread -> SUBSET Node] :
        NodesOK(kind, where, gone, safe)
  BY <1>1
<1>3. Now(kind, where, gone, safe)
  BY <1>1, <1>2 DEF Now
<1>4. CASE UNCHANGED vars
  <2>1. items' = items /\ th' = th
    BY <1>4 DEF vars
  <2>2. Hands' = Hands /\ ChainsShort'
    BY <2>1 DEF Hands, ChainsShort
  <2> QED
    BY <2>1, <2>2, PromiseIs
<1>5. ASSUME NEW t \in Thread, ThreadStep(t)
      PROVE  [Promise!Next]_(Promise!vars) /\ ChainsShort'
  <2>1. CASE PushCas(t)
    BY <1>3, <2>1, PushCasPromised
  <2>2. CASE PopCas(t)
    BY <1>3, <2>2, PopCasPromised
  <2>3. CASE PopFinish(t)
    BY <1>1, <2>3, PopFinishPromised
  <2>4. CASE SwapFirst(t)
    BY <1>1, <2>4, SwapFirstPromised
  <2>5. CASE ReplaceStore(t)
    BY <1>3, <2>5, ReplaceStorePromised
  <2>6. CASE \/ PushLoad(t) \/ PopLoad(t) \/ PopNext(t) \/ PopCut(t) \/ TopLoad(t)
             \/ TopFinish(t) \/ Guard(t) \/ SizeLoad(t) \/ Walk(t) \/ WalkEnd(t)
             \/ SpinLoad(t) \/ SpinCas(t) \/ SwapSecond(t) \/ ReplaceFinish(t)
    BY <1>1, <2>6, StepsSilent, SilentStep
  <2> QED
    BY <1>5, <2>1, <2>2, <2>3, <2>4, <2>5, <2>6 DEF ThreadStep
<1>6. ASSUME NEW t \in Thread, ThreadCall(t)
      PROVE  [Promise!Next]_(Promise!vars) /\ ChainsShort'
  <2>1. CASE SizeWild(t)
    BY <1>1, <2>1, StepsSilent, SilentStep
  <2>2. ASSUME NEW s \in Stack, NEW r \in Stack,
               \/ Pop(t, s) \/ Top(t, s) \/ Begin(t, s) \/ Size(t, s) \/ Clear(t, s)
               \/ Swap(t, s, r)
        PROVE  [Promise!Next]_(Promise!vars) /\ ChainsShort'
    BY <1>1, <2>2, CallsSilent, SilentStep
  <2>3. ASSUME NEW s \in Stack, NEW op \in {"push", "assign"}, NEW l \in {"push", "spin1"},
               NEW k \in Nat, NEW q \in Fresh(k), k <= MaxChain,
               Allocate(t, op, s, l, q), Started(t, op, s, l), th'[t].chain = q
        PROVE  [Promise!Next]_(Promise!vars) /\ ChainsShort'
    <3>1. items' = items /\ At(t, "idle") /\ Len(q) = k
      BY <2>3, FreshFacts DEF Allocate
    <3> QED
      BY <2>3, <3>1, AllocateStep
  <2>4. ASSUME NEW s \in Stack, PushRange(t, s)
        PROVE  [Promise!Next]_(Promise!vars) /\ ChainsShort'
    <3>1. PICK k \in Nat : \E q \in Fresh(k) :
            /\ Allocate(t, "push", s, "push", q) /\ k <= MaxChain
            /\ Started(t, "push", s, "push") /\ th'[t].chain = q
      BY <1>1, <2>4, PushRangeKeeps
    <3>2. PICK q \in Fresh(k) :
            /\ Allocate(t, "push", s, "push", q) /\ k <= MaxChain
            /\ Started(t, "push", s, "push") /\ th'[t].chain = q
      BY <3>1
    <3> QED
      BY <2>3, <3>2
  <2>5. ASSUME NEW s \in Stack, NEW n \in Copies, PushCopies(t, s, n)
        PROVE  [Promise!Next]_(Promise!vars) /\ ChainsShort'
    <3>1. PICK k \in Nat : \E q \in Fresh(k) :
            /\ Allocate(t, "push", s, "push", q) /\ k <= MaxChain
            /\ Started(t, "push", s, "push") /\ th'[t].chain = q
      BY <1>1, <2>5, PushCopiesKeeps
    <3>2. PICK q \in Fresh(k) :
            /\ Allocate(t, "push", s, "push", q) /\ k <= MaxChain
            /\ Started(t, "push", s, "push") /\ th'[t].chain = q
      BY <3>1
    <3> QED
      BY <2>3, <3>2
  <2>6. ASSUME NEW s \in Stack, Assign(t, s)
        PROVE  [Promise!Next]_(Promise!vars) /\ ChainsShort'
    <3>1. PICK k \in Nat : \E q \in Fresh(k) :
            /\ Allocate(t, "assign", s, "spin1", q) /\ k <= MaxChain
            /\ Started(t, "assign", s, "spin1") /\ th'[t].chain = q
      BY <1>1, <2>6, AssignKeeps
    <3>2. PICK q \in Fresh(k) :
            /\ Allocate(t, "assign", s, "spin1", q) /\ k <= MaxChain
            /\ Started(t, "assign", s, "spin1") /\ th'[t].chain = q
      BY <3>1
    <3> QED
      BY <2>3, <3>2
  <2> QED
    BY <1>6, <2>1, <2>2, <2>4, <2>5, <2>6 DEF ThreadCall
<1>7. ASSUME NEW n \in Node, SafeDestroy(n)
      PROVE  [Promise!Next]_(Promise!vars) /\ ChainsShort'
  <2>1. items' = items /\ th' = th
    BY <1>7 DEF SafeDestroy
  <2>2. Hands' = Hands /\ ChainsShort'
    BY <2>1 DEF Hands, ChainsShort
  <2> QED
    BY <2>1, <2>2, PromiseIs
<1> QED
  BY <1>4, <1>5, <1>6, <1>7 DEF Next

(* The stacks implement AbstractStack: a push, a pop, a swap, and a clear  *)
(* or an assign take effect in one step each, the CAS or the store that    *)
(* publishes them, and every other step of the code changes nothing that a *)
(* client can tell.                                                        *)
THEOREM StacksAsPromised == Spec => ImplementsStack
<1>1. Init => Promise!Init /\ ChainsShort
  <2>1. ASSUME Init PROVE ChainsShort
    BY <2>1, RestFacts, EmptyFacts, StackAssumption DEF Init, ChainsShort
  <2> QED
    BY <2>1, PromiseInit
<1>2. StackOK /\ ChainsShort /\ [Next]_vars => [Promise!Next]_(Promise!vars) /\ ChainsShort'
  BY NextPromised
<1> QED
  BY <1>1, <1>2, Invariance, PTL DEF Spec, ImplementsStack, Promise!Spec
=============================================================================
