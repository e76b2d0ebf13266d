------------------------------ MODULE XrcuInv -------------------------------
(* The inductive invariants of Xrcu, in parts.  GraceInv says why a grace  *)
(* period is long enough; it holds when counter stores are seen at once    *)
(* (~StoreBuffer).  The others hold in either mode.                        *)
EXTENDS Xrcu

(* The two mutexes are held where the code holds them, and a thread that   *)
(* waits for a grace period or is on its way out is outside any section.   *)
MutexInv ==
  \A t \in Thread :
    /\ gp = t <=> pc[t] \in Locked \cup {"fork2", "fork3"}
    /\ td = t <=> pc[t] \in Polling \cup {"fork3"}
    /\ pc[t] \in Waiting \cup {"enter", "destroy", "gone"} =>
         ctr[t].nest = 0
    /\ seen[t] = ctr[t]

(* Only a grace period takes threads off root, and a pass in progress has  *)
(* the threads it has yet to look at on the list it walks.                 *)
ListInv ==
  /\ \A t \in Thread :
       /\ list[t] \in {"out", "qs"} =>
            gp # NoThread /\ pc[gp] \in Polling \cup Yielding
       /\ t \in Readers \/ pc[t] = "enter" \/ fins[t] # <<>> => Linked(t)
       /\ pc[t] \in {"gone", "dead"} => fins[t] = <<>>
       /\ pc[t] = "dead" => ~Linked(t)
  /\ todo # {} => td # NoThread /\ pc[td] \in Polling
  /\ td # NoThread =>
       \A r \in todo : list[r] = IF pc[td] = "poll1" THEN "root" ELSE "out"

(* A thread is owed only the ends of sections that are still open.         *)
OwedInv ==
  \A t \in Thread : \A r \in owed[t] : r \in Readers /\ pc[t] \in Waiting

(* The heart of the two phases.  Before the flip, a section the grace      *)
(* period waits for is on root, or on out with the current phase; after    *)
(* it, on out with the other phase, where only its end can move it.        *)
PhaseInv ==
  \A t \in Thread : \A r \in owed[t] :
    /\ pc[t] \in {"poll1", "yield1"} =>
         list[r] = "root" \/ (list[r] = "out" /\ ctr[r].phase = gphase)
    /\ pc[t] \in {"poll2", "yield2"} =>
         list[r] = "out" /\ ctr[r].phase # gphase

(* Objects wait in one place of one list.                                  *)
PendInv ==
  /\ \A t \in Thread : \A i \in DOMAIN fins[t] : obj[fins[t][i]] = "retired"
  /\ \A t, u \in Thread : \A i \in DOMAIN fins[t], j \in DOMAIN fins[u] :
       fins[t][i] = fins[u][j] => t = u /\ i = j

(* A reference lives inside a section; if its object is waiting to be      *)
(* destroyed, whoever will do so has still to wait, or waits for the       *)
(* section.                                                                *)
RefInv ==
  \A r \in Thread : \A o \in refs[r] :
    /\ r \in Readers
    /\ obj[o] # "free"
    /\ \A t \in Thread :
         o \in Range(fins[t]) =>
           pc[t] # "destroy" /\ (pc[t] \in Waiting => r \in owed[t])

GraceInv ==
  TypeOK /\ MutexInv /\ ListInv /\ OwedInv /\ PhaseInv /\ PendInv /\ RefInv

(* Why a thread is in registry::sync: the direct call is the one made from *)
(* rest, and a flush always says so first.                                 *)
OpInv ==
  \A t \in Thread :
    /\ pc[t] \in {"idle", "enter", "gone", "dead"} \cup Forking => op[t] = "sync"
    /\ pc[t] = "flush" => op[t] # "sync"

(* When a flush is owed: the limit is reached, or must_flush set, only     *)
(* inside a section, and a direct sync begins outside with neither.        *)
FlushInv ==
  \A t \in Thread :
    /\ pc[t] \in {"idle", "enter"} \cup Forking =>
         (must[t] => InCs(t)) /\ (Len(fins[t]) < MaxFins \/ must[t])
    /\ pc[t] \in Waiting \cup {"enter", "destroy", "gone"} => ctr[t].nest = 0
    /\ pc[t] \in Waiting /\ op[t] = "sync" => ~must[t] /\ Len(fins[t]) < MaxFins
    /\ pc[t] \in {"gone", "dead"} => fins[t] = <<>>
    /\ pc[t] = "dead" => ~must[t]

(* What was finalized is still on a list; without forks, which leave the   *)
(* lists of the other threads behind.                                      *)
HeldInv ==
  /\ \A o \in Object : obj[o] = "retired" => \E t \in Thread : o \in Range(fins[t])
  /\ \A t \in Thread : pc[t] \notin Forking
=============================================================================
