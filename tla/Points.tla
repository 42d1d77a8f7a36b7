------------------------------- MODULE Points -------------------------------
(***************************************************************************)
(* The append-only ledger of point movements (points/models.py and         *)
(* points/services.py).  A movement carries the reason it was recorded     *)
(* for; create_point_movement rejects an amount that is not the one fixed  *)
(* for the reason, so the amount is a function of the reason, and the      *)
(* balance the code sums from the amounts is a function of how many        *)
(* movements of each reason a person has.                                  *)
(*                                                                         *)
(* The textual reference of a movement ('account-registration:<user>',     *)
(* 'object-accepted:<item>', 'reservation-pickup:<reservation>') is the    *)
(* pair of its reason and the row it is about.                             *)
(***************************************************************************)
EXTENDS Integers, FiniteSets

CONSTANTS Users,                  \* accounts
          Subjects,               \* the rows a movement may be about
          REGISTRATION_POINTS,
          ACCEPTED_OBJECT_POINTS,
          PICKUP_POINTS

ASSUME PointsAssumption ==
  /\ IsFiniteSet(Users)
  /\ REGISTRATION_POINTS \in Nat
  /\ ACCEPTED_OBJECT_POINTS \in Nat
  /\ PICKUP_POINTS \in Nat \ {0}

VARIABLE movements                \* every movement ever recorded

Reasons == {"registration", "object_accepted", "object_picked_up"}

Movement == [user : Users, reason : Reasons, about : Subjects]

ExpectedAmount(reason) ==
  CASE reason = "registration"     -> REGISTRATION_POINTS
    [] reason = "object_accepted"  -> ACCEPTED_OBJECT_POINTS
    [] reason = "object_picked_up" -> -PICKUP_POINTS

MovementsOf(u, reason) == {m \in movements : m.user = u /\ m.reason = reason}

\* Variant: what was spent is not taken off.
PointsEarned(u) ==
  REGISTRATION_POINTS * Cardinality(MovementsOf(u, "registration"))
    + ACCEPTED_OBJECT_POINTS * Cardinality(MovementsOf(u, "object_accepted"))

PointsBalance(u) ==
  REGISTRATION_POINTS * Cardinality(MovementsOf(u, "registration"))
    + ACCEPTED_OBJECT_POINTS * Cardinality(MovementsOf(u, "object_accepted"))
    - PICKUP_POINTS * Cardinality(MovementsOf(u, "object_picked_up"))

HasSufficientPoints(u) == PointsBalance(u) >= PICKUP_POINTS

(***************************************************************************)
(* create_point_movement.  A reference that is already taken by the same   *)
(* movement is a repeat and changes nothing, one taken by another person's *)
(* movement is an error; a new movement must leave a balance that is not   *)
(* negative.                                                               *)
(***************************************************************************)
CreatePointMovement(u, reason, about) ==
  LET movement == [user |-> u, reason |-> reason, about |-> about]
  IN  /\ \A m \in movements :
           m.reason = reason /\ m.about = about => m = movement
      /\ \/ movement \in movements
         \/ PointsBalance(u) + ExpectedAmount(reason) >= 0
      /\ movements' = movements \cup {movement}
=============================================================================
