------------------------------ MODULE Custody ------------------------------
(***************************************************************************)
(* What the reuse circuit promises, with no transactions, locks, clocks or *)
(* sessions: where each object is, for whom it is set aside, and how many  *)
(* points each person has.  Module Reservations implements it.             *)
(*                                                                         *)
(*   "absent"    not received yet                                          *)
(*   "offered"   in the inventory, for anyone to reserve                   *)
(*   "held"      set aside for one person                                  *)
(*   "stranded"  set aside for nobody: its hold ended while it could not   *)
(*               go back to the catalogue, and nothing brings it back      *)
(*   "gone"      handed over                                               *)
(***************************************************************************)
EXTENDS Integers

CONSTANTS Users, Items, Owner,
          REGISTRATION_POINTS, ACCEPTED_OBJECT_POINTS, PICKUP_POINTS

VARIABLES place,     \* where each object is
          holders,   \* the people it is set aside for
          balance    \* the points of each person

Places == {"absent", "offered", "held", "stranded", "gone"}

Init ==
  /\ place = [i \in Items |-> "absent"]
  /\ holders = [i \in Items |-> {}]
  /\ balance \in [Users -> {0, REGISTRATION_POINTS}]

Receive(i) ==
  /\ place[i] = "absent"
  /\ place' = [place EXCEPT ![i] = "offered"]
  /\ balance' = [balance EXCEPT ![Owner[i]] = @ + ACCEPTED_OBJECT_POINTS]
  /\ UNCHANGED holders

\* Holding an object takes enough points for one pickup, and spends none.
Hold(i, u) ==
  /\ place[i] = "offered"
  /\ u # Owner[i]
  /\ balance[u] >= PICKUP_POINTS
  /\ place' = [place EXCEPT ![i] = "held"]
  /\ holders' = [holders EXCEPT ![i] = {u}]
  /\ UNCHANGED balance

LetGo(i) ==
  /\ place[i] = "held"
  /\ \E p \in {"offered", "stranded"} : place' = [place EXCEPT ![i] = p]
  /\ holders' = [holders EXCEPT ![i] = {}]
  /\ UNCHANGED balance

\* Handing over and paying are one step, by the one who held the object.
Collect(i, u) ==
  /\ place[i] = "held"
  /\ holders[i] = {u}
  /\ balance[u] >= PICKUP_POINTS
  /\ place' = [place EXCEPT ![i] = "gone"]
  /\ holders' = [holders EXCEPT ![i] = {}]
  /\ balance' = [balance EXCEPT ![u] = @ - PICKUP_POINTS]

Next ==
  \E i \in Items :
    \/ Receive(i)
    \/ LetGo(i)
    \/ \E u \in Users : Hold(i, u) \/ Collect(i, u)

Spec == Init /\ [][Next]_<<place, holders, balance>>
=============================================================================
