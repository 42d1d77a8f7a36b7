--------------------------- MODULE Custody_proofs ---------------------------
(***************************************************************************)
(* Proof that Reservations implements Custody when staff write no status   *)
(* by hand, for any number of people, objects, rows and sessions.          *)
(***************************************************************************)
EXTENDS Reservations_proofs

(***************************************************************************)
(* What the mapping needs beside CustodyInv: an object is in a status the  *)
(* circuit gives it, and its owner is not paid before it is received.      *)
(***************************************************************************)

Circulating ==
  \A i \in Items :
    /\ itemStatus[i] \in {"absent", "available", "reserved", "delivered"}
    /\ itemStatus[i] = "absent" =>
         \A m \in movements : ~(m.reason = "object_accepted" /\ m.about = i)

CircuitInv == CustodyInv /\ Circulating

\* Nothing has circulated in the initial state.
LEMMA InitCirculating == Init => Circulating
  BY DEF Init, Circulating

\* When staff write to no object, every step keeps objects in the statuses of
\* the circuit and pays nobody for an object that stays out of it.
LEMMA StepCirculating ==
  ASSUME StaffStatuses = {}, CustodyInv, Circulating, [Next]_vars
  PROVE  Circulating'
<1> USE DEF CustodyInv, SafetyInv
<1>1. ASSUME NEW s \in Sessions, CreateReservation(s)
      PROVE  Circulating'
  <2>1. /\ askItem[s] \in Items
        /\ itemStatus' = [itemStatus EXCEPT ![askItem[s]] = "reserved"]
        /\ movements' = movements
    BY <1>1 DEF CreateReservation, RowsExist
  <2> QED
    BY <2>1 DEF Circulating, TypeOK
<1>2. ASSUME NEW s \in Sessions, CancelReservation(s) \/ ExpireReservation(s)
      PROVE  Circulating'
  <2>1. /\ \/ itemStatus' = itemStatus
           \/ itemStatus' =
                [itemStatus EXCEPT ![resItem[resOf[s]]] = "available"]
        /\ movements' = movements
    BY <1>2 DEF CancelReservation, ExpireReservation, CloseUncollected
  <2> QED
    BY <2>1 DEF Circulating, TypeOK
<1>3. ASSUME NEW s \in Sessions, CompletePickup(s)
      PROVE  Circulating'
  <2>1. itemStatus' = [itemStatus EXCEPT ![resItem[resOf[s]]] = "delivered"]
    BY <1>3 DEF CompletePickup
  <2>2. \A m \in movements' : m.reason = "object_accepted" => m \in movements
    BY <1>3 DEF CompletePickup, CreatePointMovement
  <2> QED
    BY <2>1, <2>2 DEF Circulating, TypeOK
<1>4. ASSUME NEW s \in Sessions, ReceiveItem(s)
      PROVE  Circulating'
  <2> DEFINE i == askItem[s]
  <2>1. itemStatus' = [itemStatus EXCEPT ![i] = "available"]
    BY <1>4 DEF ReceiveItem
  <2>2. \A m \in movements' : m.about # i => m \in movements
    BY <1>4 DEF ReceiveItem, CreatePointMovement
  <2> QED
    BY <2>1, <2>2 DEF Circulating, TypeOK
<1>5. CASE (\E s \in Sessions : SessionOnly(s)) \/ Surroundings
  <2>1. UNCHANGED <<itemStatus, movements>>
    BY <1>5, OtherStepsItems, SessionOnlyData, SurroundingsUnchanged
    DEF dataVars
  <2> QED
    BY <2>1 DEF Circulating
<1> QED
  BY <1>1, <1>2, <1>3, <1>4, <1>5, StepCases DEF AnyStep

(***************************************************************************)
(* The balance.                                                            *)
(***************************************************************************)

\* A balance is a whole number.
LEMMA BalanceType ==
  ASSUME IsFiniteSet(movements), NEW u
  PROVE  PointsBalance(u) \in Int
<1>1. \A x : Cardinality(MovementsOf(u, x)) \in Int
  BY FS_Subset, FS_CardinalityType DEF MovementsOf
<1> QED
  BY <1>1, TimesNext, PointsAssumption DEF PointsBalance

\* A movement that is not a repeat changes the balance of its person by the
\* amount of its reason, and nobody else's.
LEMMA BalanceMoves ==
  ASSUME IsFiniteSet(movements), NEW w, NEW reason \in Reasons, NEW about,
         CreatePointMovement(w, reason, about),
         [user |-> w, reason |-> reason, about |-> about] \notin movements,
         NEW u
  PROVE  PointsBalance(u)' =
           IF u = w THEN PointsBalance(u) + ExpectedAmount(reason)
                    ELSE PointsBalance(u)
<1> DEFINE n(x) == Cardinality(MovementsOf(u, x))
<1>1. \A x : /\ n(x) \in Int
             /\ n(x)' = IF u = w /\ x = reason THEN n(x) + 1 ELSE n(x)
  BY MovementCounts
<1> HIDE DEF n
<1>2. /\ REGISTRATION_POINTS \in Int /\ ACCEPTED_OBJECT_POINTS \in Int
      /\ PICKUP_POINTS \in Int
  BY PointsAssumption
<1> DEFINE earned == REGISTRATION_POINTS * n("registration")
           given  == ACCEPTED_OBJECT_POINTS * n("object_accepted")
           spent  == PICKUP_POINTS * n("object_picked_up")
<1>3. earned \in Int /\ given \in Int /\ spent \in Int
  BY <1>1, <1>2, TimesNext
<1>4. PointsBalance(u) = earned + given - spent
  BY DEF PointsBalance, n
<1>5. PointsBalance(u)' = earned' + given' - spent'
  BY DEF PointsBalance, n
<1>6. /\ earned' = IF u = w /\ reason = "registration"
                   THEN earned + REGISTRATION_POINTS ELSE earned
      /\ given' = IF u = w /\ reason = "object_accepted"
                  THEN given + ACCEPTED_OBJECT_POINTS ELSE given
      /\ spent' = IF u = w /\ reason = "object_picked_up"
                  THEN spent + PICKUP_POINTS ELSE spent
  BY <1>1, <1>2, TimesNext
<1> HIDE DEF earned, given, spent
<1> QED
  BY <1>2, <1>3, <1>4, <1>5, <1>6 DEF Reasons, ExpectedAmount

(***************************************************************************)
(* Where the objects are, seen from outside.                               *)
(***************************************************************************)

\* What an object's place and holders are computed from.
Active(i) == {r \in Reservations : status[r] = "active" /\ resItem[r] = i}

\* An object whose status and active reservations stay as they are stays where
\* it is.
LEMMA StaysThere ==
  ASSUME NEW i \in Items,
         itemStatus'[i] = itemStatus[i],
         Active(i)' = Active(i),
         \A r \in Active(i) : resUser'[r] = resUser[r]
  PROVE  placeOf'[i] = placeOf[i] /\ holdersOf'[i] = holdersOf[i]
<1>1. HasActive(i)' <=> HasActive(i)
  BY DEF HasActive, Active
<1>2. placeOf'[i] = placeOf[i]
  BY <1>1 DEF placeOf
<1>3. holdersOf[i] = {resUser[r] : r \in Active(i)}
  BY DEF holdersOf, Active
<1>4. holdersOf'[i] = {resUser'[r] : r \in Active(i)'}
  BY DEF holdersOf, Active
<1> QED
  BY <1>2, <1>3, <1>4

\* An object with no active reservation has no holder.
LEMMA NoHolder ==
  ASSUME NEW i \in Items, Active(i) = {}
  PROVE  holdersOf[i] = {} /\ ~HasActive(i)
  BY DEF holdersOf, HasActive, Active

\* An object with one active reservation is held by its person.
LEMMA OneHolder ==
  ASSUME NEW i \in Items, NEW r, Active(i) = {r}
  PROVE  holdersOf[i] = {resUser[r]} /\ HasActive(i)
  BY DEF holdersOf, HasActive, Active

(***************************************************************************)
(* Each transaction is one step of Custody.                                *)
(***************************************************************************)

\* Nothing is seen of a step that writes neither objects, rows nor movements.
LEMMA Unseen ==
  ASSUME UNCHANGED <<itemStatus, status, resItem, resUser, movements>>
  PROVE  UNCHANGED <<placeOf, holdersOf, balanceOf>>
<1>1. placeOf' = placeOf
  BY DEF placeOf, HasActive
<1>2. holdersOf' = holdersOf
  BY DEF holdersOf
<1>3. balanceOf' = balanceOf
  BY DEF balanceOf, PointsBalance, MovementsOf
<1> QED
  BY <1>1, <1>2, <1>3

\* A reception is Receive: the owner is paid for the first time.
LEMMA ReceiveImplements ==
  ASSUME CircuitInv, NEW s \in Sessions, ReceiveItem(s),
         NEW i, i = askItem[s]
  PROVE  i \in Items /\ C!Receive(i)
<1> USE DEF CircuitInv, CustodyInv, SafetyInv
<1>1. /\ i \in Items
      /\ itemStatus[i] = "absent"
      /\ itemStatus' = [itemStatus EXCEPT ![i] = "available"]
      /\ UNCHANGED <<status, resItem, resUser>>
  BY DEF ReceiveItem, RowsExist, TestedStaysTrue, resVars
<1>2. placeOf' = [placeOf EXCEPT ![i] = "offered"] /\ placeOf[i] = "absent"
  BY <1>1 DEF placeOf, HasActive, TypeOK
<1>3. holdersOf' = holdersOf
  BY <1>1 DEF holdersOf
<1>4. balanceOf' = [balanceOf EXCEPT ![Owner[i]] = @ + ACCEPTED_OBJECT_POINTS]
  <2>1. /\ CreatePointMovement(Owner[i], "object_accepted", i)
        /\ [user |-> Owner[i], reason |-> "object_accepted", about |-> i]
             \notin movements
    BY <1>1 DEF ReceiveItem, Circulating
  <2>2. \A u \in Users :
          PointsBalance(u)' = IF u = Owner[i]
                              THEN PointsBalance(u) + ACCEPTED_OBJECT_POINTS
                              ELSE PointsBalance(u)
    BY <2>1, BalanceMoves DEF Reasons, ExpectedAmount
  <2> QED
    BY <2>2, ReservationsAssumption DEF balanceOf
<1> QED
  BY <1>1, <1>2, <1>3, <1>4 DEF C!Receive

\* The transaction that reserves is Hold, though the object was found in the
\* catalogue in an earlier step.
LEMMA ReserveImplements ==
  ASSUME CircuitInv, NEW s \in Sessions, CreateReservation(s),
         NEW i, i = askItem[s], NEW u, u = askUser[s]
  PROVE  C!Hold(i, u)
<1> USE DEF CircuitInv, CustodyInv, SafetyInv
<1>1. i \in Items /\ u \in Users /\ u # Owner[i]
  BY DEF CreateReservation, RowsExist
<1>2. /\ itemStatus[i] = "available" /\ ~HasActive(i)
      /\ HasSufficientPoints(u)
      /\ itemStatus' = [itemStatus EXCEPT ![i] = "reserved"]
      /\ movements' = movements
  BY DEF CreateReservation, MayReserve
<1>3. PICK r \in Reservations :
        /\ status[r] = "none"
        /\ status' = [status EXCEPT ![r] = "active"]
        /\ resItem' = [resItem EXCEPT ![r] = i]
        /\ resUser' = [resUser EXCEPT ![r] = u]
  BY DEF CreateReservation
<1>4. Active(i) = {}
  BY <1>2 DEF HasActive, Active
<1>5. Active(i)' = {r} /\ resUser'[r] = u
  BY <1>3, <1>4 DEF Active, TypeOK
<1>6. /\ placeOf[i] = "offered" /\ placeOf'[i] = "held"
      /\ holdersOf'[i] = {u}
  <2>1. HasActive(i)' /\ holdersOf'[i] = {u}
    BY <1>1, <1>5 DEF HasActive, Active, holdersOf
  <2> QED
    BY <1>1, <1>2, <2>1 DEF placeOf, TypeOK
<1>7. \A j \in Items : j # i =>
        placeOf'[j] = placeOf[j] /\ holdersOf'[j] = holdersOf[j]
  <2> SUFFICES ASSUME NEW j \in Items, j # i
               PROVE  placeOf'[j] = placeOf[j] /\ holdersOf'[j] = holdersOf[j]
    OBVIOUS
  <2>1. itemStatus'[j] = itemStatus[j]
    BY <1>2 DEF TypeOK
  <2>2. Active(j)' = Active(j)
    BY <1>3 DEF Active, TypeOK
  <2>3. \A q \in Active(j) : resUser'[q] = resUser[q]
    BY <1>3 DEF Active, TypeOK
  <2> QED
    BY <2>1, <2>2, <2>3, StaysThere
<1>8. /\ placeOf' = [placeOf EXCEPT ![i] = "held"]
      /\ holdersOf' = [holdersOf EXCEPT ![i] = {u}]
  <2>1. placeOf' = [placeOf EXCEPT ![i] = "held"]
    BY <1>1, <1>6, <1>7 DEF placeOf
  <2>2. holdersOf' = [holdersOf EXCEPT ![i] = {u}]
    BY <1>1, <1>6, <1>7 DEF holdersOf
  <2> QED
    BY <2>1, <2>2
<1>9. balanceOf' = balanceOf /\ balanceOf[u] >= PICKUP_POINTS
  BY <1>1, <1>2
  DEF balanceOf, HasSufficientPoints, PointsBalance, MovementsOf
<1> QED
  BY <1>1, <1>6, <1>8, <1>9 DEF C!Hold

\* What closing its active reservation does to an object.
LEMMA CloseSeen ==
  ASSUME CircuitInv, NEW s \in Sessions,
         \/ CancelReservation(s) \/ ExpireReservation(s) \/ CompletePickup(s),
         NEW c, c = resOf[s], NEW i, i = resItem[c]
  PROVE  /\ i \in Items
         /\ itemStatus[i] = "reserved"
         /\ placeOf[i] = "held"
         /\ holdersOf[i] = {resUser[c]}
         /\ ~HasActive(i)'
         /\ holdersOf' = [holdersOf EXCEPT ![i] = {}]
         /\ \A j \in Items : j # i => placeOf'[j] = placeOf[j]
<1> USE DEF CircuitInv, CustodyInv, SafetyInv
<1>1. /\ c \in Reservations /\ i \in Items /\ status[c] = "active"
      /\ status'[c] # "active"
      /\ \A q \in Reservations : q # c => status'[q] = status[q]
      /\ UNCHANGED <<resItem, resUser>>
  BY ClosesActive
<1>2. itemStatus[i] = "reserved"
  BY <1>1 DEF ActiveHoldsItem
<1>3. \A j \in Items : j # i => itemStatus'[j] = itemStatus[j]
  <2>1. \/ itemStatus' = itemStatus
        \/ itemStatus' = [itemStatus EXCEPT ![i] = "available"]
        \/ itemStatus' = [itemStatus EXCEPT ![i] = "delivered"]
    BY DEF CancelReservation, ExpireReservation, CompletePickup,
       CloseUncollected
  <2> QED
    BY <2>1 DEF TypeOK
<1>4. Active(i) = {c}
  BY <1>1 DEF Active, OneActivePerItem
<1>5. Active(i)' = {}
  BY <1>1, <1>4 DEF Active
<1>6. \A j \in Items : j # i => Active(j)' = Active(j)
  BY <1>1 DEF Active
<1>7. /\ holdersOf[i] = {resUser[c]} /\ HasActive(i)
      /\ holdersOf'[i] = {} /\ ~HasActive(i)'
  BY <1>1, <1>4, <1>5, OneHolder DEF holdersOf, HasActive, Active
<1>8. placeOf[i] = "held"
  BY <1>1, <1>2, <1>7 DEF placeOf
<1>9. \A j \in Items : j # i =>
         placeOf'[j] = placeOf[j] /\ holdersOf'[j] = holdersOf[j]
  BY <1>1, <1>3, <1>6, StaysThere
<1>10. holdersOf' = [holdersOf EXCEPT ![i] = {}]
  BY <1>7, <1>9 DEF holdersOf
<1> QED
  BY <1>1, <1>2, <1>7, <1>8, <1>9, <1>10

\* A cancellation and an expiry are LetGo.
LEMMA CloseImplements ==
  ASSUME CircuitInv, NEW s \in Sessions,
         CancelReservation(s) \/ ExpireReservation(s),
         NEW i, i = resItem[resOf[s]]
  PROVE  C!LetGo(i)
<1>1. /\ i \in Items /\ itemStatus[i] = "reserved"
      /\ placeOf[i] = "held" /\ ~HasActive(i)'
      /\ holdersOf' = [holdersOf EXCEPT ![i] = {}]
      /\ \A j \in Items : j # i => placeOf'[j] = placeOf[j]
  BY CloseSeen
<1>2. /\ itemStatus'[i] \in {"available", "reserved"}
      /\ movements' = movements
  BY <1>1
  DEF CancelReservation, ExpireReservation, CloseUncollected, CircuitInv,
      CustodyInv, SafetyInv, TypeOK
<1>3. placeOf'[i] \in {"offered", "stranded"}
  BY <1>1, <1>2 DEF placeOf
<1>4. placeOf' = [placeOf EXCEPT ![i] = placeOf'[i]]
  BY <1>1 DEF placeOf
<1>5. balanceOf' = balanceOf
  BY <1>2 DEF balanceOf, PointsBalance, MovementsOf
<1> QED
  BY <1>1, <1>3, <1>4, <1>5 DEF C!LetGo

\* The last step of a pickup is Collect, by the person who holds the object,
\* who still has the points.
LEMMA PickupImplements ==
  ASSUME CircuitInv, NEW s \in Sessions, CompletePickup(s),
         NEW c, c = resOf[s], NEW i, i = resItem[c], NEW u, u = resUser[c]
  PROVE  u \in Users /\ C!Collect(i, u)
<1> USE DEF CircuitInv, CustodyInv, SafetyInv
<1>1. /\ i \in Items /\ placeOf[i] = "held" /\ holdersOf[i] = {u}
      /\ holdersOf' = [holdersOf EXCEPT ![i] = {}]
      /\ \A j \in Items : j # i => placeOf'[j] = placeOf[j]
  BY CloseSeen
<1>2. c \in Reservations /\ status[c] = "active" /\ u \in Users
  BY ClosesActive DEF RowsExist
<1>3. HasSufficientPoints(u)
  BY DEF CompletePickup, TestedStaysTrue
<1>4. itemStatus'[i] = "delivered"
  BY <1>1 DEF CompletePickup, TypeOK
<1>5. CreatePointMovement(u, "object_picked_up", c)
  BY DEF CompletePickup
<1>6. [user |-> u, reason |-> "object_picked_up", about |-> c] \notin movements
  BY <1>2 DEF PaidIffCollected
<1>7. placeOf' = [placeOf EXCEPT ![i] = "gone"]
  BY <1>1, <1>4 DEF placeOf
<1>8. \A v \in Users :
        PointsBalance(v)' = IF v = u THEN PointsBalance(v) - PICKUP_POINTS
                                     ELSE PointsBalance(v)
  BY <1>5, <1>6, BalanceMoves, BalanceType, PointsAssumption
  DEF Reasons, ExpectedAmount
<1>9. balanceOf' = [balanceOf EXCEPT ![u] = @ - PICKUP_POINTS]
  BY <1>2, <1>8 DEF balanceOf
<1>10. balanceOf[u] >= PICKUP_POINTS
  BY <1>2, <1>3 DEF balanceOf, HasSufficientPoints
<1>11. C!Collect(i, u)
  BY <1>1, <1>7, <1>9, <1>10 DEF C!Collect
<1> QED
  BY <1>2, <1>11

(***************************************************************************)
(* The refinement.                                                         *)
(***************************************************************************)

\* The initial states are initial states of Custody.
LEMMA InitImplements == Init => C!Init
<1> SUFFICES ASSUME Init PROVE C!Init
  OBVIOUS
<1>1. placeOf = [i \in Items |-> "absent"]
  BY DEF Init, placeOf
<1>2. holdersOf = [i \in Items |-> {}]
  BY DEF Init, holdersOf
<1>3. PICK R \in SUBSET Users :
        movements = {[user |-> u, reason |-> "registration", about |-> u] :
                       u \in R}
  BY DEF Init
<1>4. \A u \in Users : PointsBalance(u) \in {0, REGISTRATION_POINTS}
  <2> SUFFICES ASSUME NEW u \in Users
               PROVE  PointsBalance(u) \in {0, REGISTRATION_POINTS}
    OBVIOUS
  <2>1. /\ MovementsOf(u, "object_accepted") = {}
        /\ MovementsOf(u, "object_picked_up") = {}
    BY <1>3 DEF MovementsOf
  <2>2. \/ MovementsOf(u, "registration") = {}
        \/ \E m : MovementsOf(u, "registration") = {m}
    <3>1. CASE u \in R
      <4> DEFINE m == [user |-> u, reason |-> "registration", about |-> u]
      <4>1. MovementsOf(u, "registration") = {m}
        BY <1>3, <3>1 DEF MovementsOf
      <4> QED
        BY <4>1
    <3>2. CASE u \notin R
      BY <1>3, <3>2 DEF MovementsOf
    <3> QED
      BY <3>1, <3>2
  <2>3. Cardinality(MovementsOf(u, "registration")) \in {0, 1}
    BY <2>2, FS_EmptySet, FS_Singleton
  <2>4. /\ Cardinality(MovementsOf(u, "object_accepted")) = 0
        /\ Cardinality(MovementsOf(u, "object_picked_up")) = 0
    BY <2>1, FS_EmptySet
  <2> QED
    BY <2>3, <2>4, PointsAssumption DEF PointsBalance
<1>5. balanceOf \in [Users -> {0, REGISTRATION_POINTS}]
  BY <1>4 DEF balanceOf
<1> QED
  BY <1>1, <1>2, <1>5 DEF C!Init

\* When staff write to no object, every step is a step of Custody or is not
\* seen.
LEMMA StepImplements ==
  ASSUME StaffStatuses = {}, CircuitInv, [Next]_vars
  PROVE  [C!Next]_<<placeOf, holdersOf, balanceOf>>
<1> USE DEF CircuitInv, CustodyInv, SafetyInv
<1>1. ASSUME NEW s \in Sessions, CreateReservation(s)
      PROVE  C!Next
  <2>1. askItem[s] \in Items /\ askUser[s] \in Users
    BY <1>1 DEF CreateReservation, RowsExist
  <2> QED
    BY <1>1, <2>1, ReserveImplements DEF C!Next
<1>2. ASSUME NEW s \in Sessions, CancelReservation(s) \/ ExpireReservation(s)
      PROVE  C!Next
  BY <1>2, ClosesActive, CloseImplements DEF C!Next
<1>3. ASSUME NEW s \in Sessions, CompletePickup(s)
      PROVE  C!Next
  <2>1. resItem[resOf[s]] \in Items
    BY <1>3, ClosesActive
  <2>2. /\ resUser[resOf[s]] \in Users
        /\ C!Collect(resItem[resOf[s]], resUser[resOf[s]])
    BY <1>3, PickupImplements
  <2> QED
    BY <2>1, <2>2 DEF C!Next
<1>4. ASSUME NEW s \in Sessions, ReceiveItem(s)
      PROVE  C!Next
  BY <1>4, ReceiveImplements DEF C!Next
<1>5. CASE (\E s \in Sessions : SessionOnly(s)) \/ Surroundings
  <2>1. UNCHANGED <<itemStatus, status, resItem, resUser, movements>>
    BY <1>5, OtherStepsItems, OtherStepsRows, SessionOnlyData,
       SurroundingsUnchanged DEF dataVars, resVars
  <2> QED
    BY <2>1, Unseen
<1> QED
  BY <1>1, <1>2, <1>3, <1>4, <1>5, StepCases DEF AnyStep

\* When staff write to no object by hand, the interleaved transactions of
\* every number of workers and commands implement the indivisible steps of
\* Custody.
THEOREM CircuitImplementsCustody ==
  StaffStatuses = {} => (Spec => CustodySpec)
<1> SUFFICES ASSUME StaffStatuses = {} PROVE Spec => CustodySpec
  OBVIOUS
<1>1. Init => CircuitInv
  BY InitCustody, InitCirculating DEF CircuitInv
<1>2. CircuitInv /\ [Next]_vars => CircuitInv'
  BY StepCustody, StepCirculating DEF CircuitInv
<1>3. Init => C!Init
  BY InitImplements
<1>4. CircuitInv /\ [Next]_vars => [C!Next]_<<placeOf, holdersOf, balanceOf>>
  BY StepImplements
<1> QED
  BY <1>1, <1>2, <1>3, <1>4, PTL DEF Spec, CustodySpec, C!Spec
=============================================================================
