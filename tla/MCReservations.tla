--------------------------- MODULE MCReservations ---------------------------
(***************************************************************************)
(* Small instances of Reservations for TLC.  Donor gives every object and  *)
(* the other users reserve, or each object has an owner of its own.        *)
(***************************************************************************)
EXTENDS Reservations, TLC

CONSTANT Donor

MCSubjects == Users \cup Items \cup Reservations
MCOwner == [i \in Items |-> Donor]

\* Nobody gives two objects: the people can receive and collect each other's.
MCOwnerOfOne ==
  CHOOSE owner \in [Items -> Users] :
    \A i, j \in Items : owner[i] = owner[j] => i = j

\* Everybody was invited by the staff, so nobody has points for registering.
StaffOnly == Init /\ movements = {}

StaffOnlySpec == StaffOnly /\ [][Next]_vars /\ Fairness

Symmetry ==
  Permutations(Reservations) \cup Permutations(Workers)
    \cup Permutations(Users \ {Donor})

\* VolatileItems tells one object from the others
PointsSymmetry ==
  Permutations(Reservations) \cup Permutations(Workers)
    \cup Permutations(Items \ VolatileItems)
=============================================================================
