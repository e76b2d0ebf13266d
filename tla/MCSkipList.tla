----------------------------- MODULE MCSkipList -----------------------------
(* Instances of SkipList for TLC.                                          *)
EXTENDS SkipList, TLC

(* Model values that name the threads of the instances.                    *)
CONSTANTS t1, t2, t3

Role(start, top, calls1, calls2, calls3) ==
  LET calls == t1 :> calls1 @@ t2 :> calls2 @@ t3 :> calls3
  IN  [start |-> start, top |-> top, calls |-> calls, apart |-> Apart(calls)]

Ins(k) == <<"insert", k>>
Del(k) == <<"erase", k>>
Get(k) == <<"find", k>>

Walk == <<"walk", Null>>
Clear == <<"clear", Null>>
Give(op, S) == <<op, S>>

(* Keys that several threads insert and erase, where no node is linked at  *)
(* more than one level.                                                    *)
OneLevel ==
  {Role(<<0, 1, 0>>, 1, <<Ins(1), Del(2)>>, <<Del(1), Ins(2)>>, <<Ins(1)>>),
   Role(<<1, 1, 0>>, 1, <<Ins(1), Del(1)>>, <<Get(1)>>, <<Del(1)>>),
   Role(<<1, 1, 0>>, 1, <<Del(1), Ins(3)>>, <<Del(2)>>, <<Del(1)>>),
   Role(<<0, 1, 0>>, 1, <<Ins(1), Del(1)>>, <<Ins(3), Del(2)>>, <<Del(2)>>),
   Role(<<0, 0, 1>>, 1, <<Ins(1), Del(1)>>, <<Ins(2)>>, <<Del(3)>>)}

(* Two levels: nobody looks for a key while it is being erased, unless no  *)
(* greater key is there; in one case one inserts what another erases, and  *)
(* nothing comes after.                                                    *)
TwoLevels ==
  {Role(<<2, 0, 1>>, 2, <<Ins(2)>>, <<Del(1)>>, <<Get(3)>>),
   Role(<<2, 2, 0>>, 2, <<Del(1)>>, <<Del(2), Ins(3)>>, <<>>),
   Role(<<2, 0, 0>>, 2, <<Ins(2)>>, <<Del(1), Ins(3)>>, <<>>),
   Role(<<2, 0, 2>>, 2, <<Ins(2), Del(2)>>, <<Del(1), Del(3)>>, <<>>),
   Role(<<2, 2, 1>>, 2, <<Del(2)>>, <<Del(1), Get(3)>>, <<>>),
   Role(<<0, 2, 0>>, 2, <<Ins(3)>>, <<Ins(1), Del(2)>>, <<>>),
   Role(<<0, 2, 0>>, 2, <<Ins(3)>>, <<Ins(3)>>, <<>>),
   Role(<<0, 0, 2>>, 2, <<Ins(1)>>, <<Del(3), Del(1)>>, <<>>),
   Role(<<2, 0, 0>>, 2, <<Del(1)>>, <<Del(1)>>, <<>>)}

(* Walks beside inserts and erases, and the calls that replace the list    *)
(* beside those that look, assign by itself.                               *)
Replaced ==
  {Role(<<1, 1, 1>>, 1, <<Ins(2), Del(1)>>, <<Walk>>, <<Del(2)>>),
   Role(<<1, 0, 1>>, 1, <<Clear, Ins(1), Give("move", {2})>>, <<Walk, Get(1)>>,
        <<Get(2)>>),
   Role(<<1, 0, 1>>, 1, <<Ins(2), Give("assign", {1, 3}), Del(1)>>, <<>>, <<>>)}

Workloads == OneLevel \cup TwoLevels \cup Replaced

(* One inserts the key that another erases: the length is lost.            *)
Met == {Role(<<0, 0, 0>>, 1, <<Ins(1)>>, <<Del(1)>>, <<>>)}

(* Two erase the same key, linked at two levels.                           *)
SameVictim == {Role(<<2, 1, 0>>, 2, <<Del(1)>>, <<Del(1)>>, <<>>)}

(* One thread, which assigns a list with a node linked at two levels.      *)
Assigned ==
  {Role(<<0, 0, 0>>, 2, <<Give("assign", {1, 2}), Del(1), Ins(3), Ins(3)>>,
        <<>>, <<>>)}
=============================================================================
