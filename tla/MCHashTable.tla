---------------------------- MODULE MCHashTable -----------------------------
(* Instances of HashTable for TLC.                                         *)
EXTENDS HashTable, TLC

(* Model values that name the threads and keys of the instances.           *)
CONSTANTS t1, t2, t3, k1, k2

(* Both keys hash to the same slot, and a vector that is full is followed  *)
(* by one with a slot more.                                                *)
SameHash == [k \in Key |-> 0]
OneStep == [k \in Key |-> 1]
Sizes == <<2, 3>>

Puts2 == {<<"insert", k1>>, <<"insert", k2>>}

(* Two that insert and erase; one that erases what another inserts, and    *)
(* one that looks for it; updates; and clear and assign beside readers.    *)
Workloads ==
  {t1 :> Puts2 \cup {<<"erase", k2>>} @@
   t2 :> {<<"insert", k1>>, <<"erase", k1>>} @@
   t3 :> {},
   t1 :> Puts2 @@ t2 :> {<<"erase", k1>>} @@ t3 :> {<<"find", k1>>},
   t1 :> Puts2 \cup {<<"update", k1>>} @@
   t2 :> {<<"update", k1>>, <<"erase", k1>>} @@
   t3 :> {},
   t1 :> Puts2 \cup {<<"erase", k1>>, <<"clear", Null>>, <<"assign", k1>>} @@
   t2 :> {<<"find", k1>>, <<"walk", Null>>} @@
   t3 :> {}}

(* Two insert, also keys that collide.                                     *)
TwoInserters ==
  {t1 :> Puts2 @@ t2 :> {<<"insert", k1>>}}

(* For clear among other calls, when Alone leaves it out: a value that is  *)
(* looked for, and a key that is inserted.                                 *)
ClearAndFind ==
  {t1 :> Puts2 \cup {<<"clear", Null>>} @@ t2 :> {<<"find", k1>>}}
ClearAndInsert ==
  {t1 :> {<<"insert", k1>>, <<"clear", Null>>} @@ t2 :> {<<"insert", k2>>}}
=============================================================================
