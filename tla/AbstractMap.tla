---------------------------- MODULE AbstractMap -----------------------------
(* What the hash table and the skip list promise: a map from keys to       *)
(* values.  A call inserts, replaces or erases the value of its own key    *)
(* and of no other, at one instant, at most once; assign replaces the map  *)
(* at one instant, and clear empties it, by and by or at once.  What a     *)
(* call answers is for the detailed specifications to say.                 *)
CONSTANTS Thread, Key, Value, None

VARIABLES
  map,  \* the value of each key, None if it is absent
  call  \* the operation each thread is in, its key and its outcome

vars == <<map, call>>

NoCall == [op |-> "none", key |-> None, res |-> "none"]
Pending(op) == [op : op, key : Key \cup {None}, res : {"pending"}]

(* A constructor may have filled the map.                                  *)
Init ==
  /\ map \in [Key -> Value \cup {None}]
  /\ call = [t \in Thread |-> NoCall]

In(t, op) == call[t].op = op /\ call[t].res = "pending"
Puts(t) == In(t, "insert") \/ In(t, "update")
Set(k, v) == map' = [map EXCEPT ![k] = v]

Invoke(t) ==
  /\ call[t] = NoCall
  /\ call'[t] \in Pending({"insert", "update", "erase", "clear", "assign"})
  /\ call' = [call EXCEPT ![t] = call'[t]]
  /\ UNCHANGED map

(* The key was absent.  The insert takes effect here, even one of the skip *)
(* list that meets an erase of its key later, and then answers false.      *)
Insert(t) ==
  LET k == call[t].key IN
  /\ Puts(t) /\ map[k] = None
  /\ \E v \in Value : Set(k, v)
  /\ call' = [call EXCEPT ![t].res = "new"]

(* The key was present: its value is replaced.                             *)
Replace(t) ==
  LET k == call[t].key IN
  /\ Puts(t) /\ map[k] # None
  /\ \E v \in Value : Set(k, v)
  /\ call' = [call EXCEPT ![t] = NoCall]

Erase(t) ==
  LET k == call[t].key IN
  /\ In(t, "erase") /\ map[k] # None
  /\ Set(k, None)
  /\ call' = [call EXCEPT ![t].res = "erased"]

Assign(t) ==
  /\ In(t, "assign")
  /\ map' \in [Key -> Value \cup {None}]
  /\ call' = [call EXCEPT ![t] = NoCall]

Clear(t) ==
  /\ In(t, "clear")
  /\ \E gone \in SUBSET Key :
       map' = [k \in Key |-> IF k \in gone THEN None ELSE map[k]]
  /\ UNCHANGED call

(* A call that has taken effect, or found nothing to do, or was thrown     *)
(* out of, returns.  Whether there was nothing to do is for the detailed   *)
(* specifications to say: that instant may be known only later.            *)
Return(t) ==
  /\ call[t] # NoCall
  /\ In(t, "clear") => \A k \in Key : map[k] = None
  /\ call' = [call EXCEPT ![t] = NoCall]
  /\ UNCHANGED map

Next ==
  /\ vars' # vars
  /\ \E t \in Thread :
       \/ Invoke(t) \/ Return(t)
       \/ Insert(t) \/ Replace(t) \/ Erase(t) \/ Assign(t) \/ Clear(t)

Spec == Init /\ [][Next]_vars
=============================================================================
