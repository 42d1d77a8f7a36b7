------------------------ MODULE Reservations_proofs ------------------------
(***************************************************************************)
(* Proofs about Reservations, for every set of people, objects, rows and   *)
(* sessions, every duration and every amount of points.                    *)
(***************************************************************************)
EXTENDS Reservations, FiniteSetTheorems, WellFoundedInduction, TLAPS

\* The database part of the state: a step that leaves it alone is a lock
\* acquisition, a rollback or the reading of a list.
dataVars == <<movements, stockVars, resVars, clock>>

(***************************************************************************)
(* The inductive invariant.                                                *)
(***************************************************************************)

Closing          == {"returning", "keeping"}
HoldsReservation == {"cancelling", "locked", "collecting", "charging",
                     "expiring", "returning", "keeping"}
HoldsItem        == {"collecting", "charging", "returning", "keeping"}
OnReservation    == HoldsReservation \cup {"scanned"}

\* What the rows and the sessions refer to exists.
RowsExist ==
  /\ \A r \in Reservations :
       status[r] # "none" => resItem[r] \in Items /\ resUser[r] \in Users
  /\ \A s \in Sessions :
       /\ pc[s] \in OnReservation =>
            resOf[s] \in Reservations /\ status[resOf[s]] # "none"
       /\ pc[s] = "reserving" =>
            /\ askItem[s] \in Items
            /\ askUser[s] \in Users
            /\ askUser[s] # Owner[askItem[s]]
       /\ pc[s] = "receiving" => askItem[s] \in Items
       /\ \A r \in batch[s] : status[r] # "none"

\* Two sessions never hold the lock of the same row.
Apart(s, t) ==
  /\ pc[s] \in HoldsReservation /\ pc[t] \in HoldsReservation =>
       resOf[s] # resOf[t]
  /\ pc[s] = "reserving" /\ pc[t] = "reserving" => askItem[s] # askItem[t]
  /\ pc[s] = "reserving" /\ pc[t] \in HoldsItem =>
       askItem[s] # resItem[resOf[t]]
  /\ pc[s] \in HoldsItem /\ pc[t] \in HoldsItem =>
       resItem[resOf[s]] # resItem[resOf[t]]
  /\ pc[s] = "receiving" /\ pc[t] = "receiving" => askItem[s] # askItem[t]
  /\ HeldUser(s) # None => HeldUser(s) # HeldUser(t)

LocksExclusive == \A s, t \in Sessions : s # t => Apart(s, t)

\* The expiry of a reservation, from its lock to its COMMIT.
Expiring(s) ==
  pc[s] = "expiring" \/ (pc[s] \in Closing /\ s \in Commands)

\* A row that is not inserted yet has a valid QR identifier, and only what is
\* due is being expired, by a command.
RowsFresh ==
  /\ \A r \in Reservations : status[r] = "none" => ~qrInvalidated[r]
  /\ \A s \in Sessions :
       /\ Expiring(s) => expiresAt[resOf[s]] <= clock
       /\ pc[s] = "cancelling" => s \in Workers

\* Unless the publication or the centre was edited since, a session that is
\* about to close a reservation has decided rightly what becomes of the object.
DecidedRightly ==
  \A s \in Sessions :
    /\ s \in overtaken => pc[s] \in Closing
    /\ pc[s] \in Closing /\ s \notin overtaken =>
         LET i == resItem[resOf[s]]
         IN  pc[s] = "returning" <=> itemStatus[i] = "reserved" /\ CatalogReady(i)

\* What is reserved, or was, has come in.
InInventory ==
  \A r \in Reservations :
    status[r] # "none" => itemStatus[resItem[r]] # "absent"

\* Points for an object go to whoever gave it.
AwardsToOwners ==
  \A m \in movements :
    m.reason = "object_accepted" => m.user = Owner[m.about]

\* A session that works for an operator knows which.
OperatorsKnown ==
  \A s \in Sessions :
    pc[s] \in {"receiving", "scanned", "locked", "collecting", "charging"} =>
      askUser[s] \in Operators

\* What holds whatever staff write to an object ...
SafetyInv ==
  /\ TypeOK
  /\ RowsExist
  /\ RowsFresh
  /\ LocksExclusive
  /\ TestedStaysTrue
  /\ OneActivePerItem
  /\ ReservationsSound
  /\ InInventory
  /\ DecidedRightly
  /\ AwardsToOwners
  /\ OperatorsKnown
  /\ PaidIffCollected
  /\ NeverOverdrawn
  /\ IsFiniteSet(movements)

\* ... and what holds when they write to none.
CustodyInv == SafetyInv /\ ActiveHoldsItem /\ DeliveredOnce

(***************************************************************************)
(* Type correctness.                                                       *)
(***************************************************************************)

\* The initial state of the database has its type.
LEMMA InitType == Init => TypeOK
  BY ReservationsAssumption
  DEF Init, TypeOK, Movement, Reasons, ItemStatuses, Outlets, ResStatuses,
      Steps

\* A session that ends its transaction keeps the session state typed.
LEMMA FinishType ==
  ASSUME TypeOK, NEW s \in Sessions, Finish(s)
  PROVE  /\ pc' \in [Sessions -> Steps]
         /\ resOf' \in [Sessions -> Reservations \cup {None}]
         /\ askItem' \in [Sessions -> Items \cup {None}]
         /\ askUser' \in [Sessions -> Users \cup {None}]
         /\ batch' \in [Sessions -> SUBSET Reservations]
         /\ overtaken' \subseteq Sessions
  BY DEF TypeOK, Finish, Steps

\* A session that takes a lock keeps the session state typed.
LEMMA GoOnType ==
  ASSUME TypeOK, NEW s \in Sessions, NEW step \in Steps,
         NEW r \in Reservations \cup {None}, GoOn(s, step, r)
  PROVE  /\ pc' \in [Sessions -> Steps]
         /\ resOf' \in [Sessions -> Reservations \cup {None}]
         /\ askItem' \in [Sessions -> Items \cup {None}]
         /\ askUser' \in [Sessions -> Users \cup {None}]
         /\ batch' \in [Sessions -> SUBSET Reservations]
         /\ overtaken' \subseteq Sessions
  BY DEF TypeOK, GoOn

\* Closing a reservation uncollected keeps the database typed.
LEMMA CloseType ==
  ASSUME TypeOK, NEW s \in Sessions, NEW o \in {"cancelled", "expired"},
         CloseUncollected(s, o)
  PROVE  /\ movements' \subseteq Movement
         /\ itemStatus' \in [Items -> ItemStatuses]
         /\ approved' \in [Items -> BOOLEAN]
         /\ outlet' \in [Items -> Outlets]
         /\ status' \in [Reservations -> ResStatuses]
         /\ resItem' \in [Reservations -> Items \cup {None}]
         /\ resUser' \in [Reservations -> Users \cup {None}]
         /\ expiresAt' \in [Reservations -> 0 .. MaxClock + Duration]
         /\ qrInvalidated' \in [Reservations -> BOOLEAN]
         /\ clock' \in 0 .. MaxClock
  BY DEF TypeOK, CloseUncollected, ItemStatuses, ResStatuses

\* A step that writes nothing keeps the database typed.
LEMMA DataUnchangedType ==
  ASSUME TypeOK, UNCHANGED dataVars
  PROVE  /\ movements' \subseteq Movement
         /\ itemStatus' \in [Items -> ItemStatuses]
         /\ approved' \in [Items -> BOOLEAN]
         /\ outlet' \in [Items -> Outlets]
         /\ status' \in [Reservations -> ResStatuses]
         /\ resItem' \in [Reservations -> Items \cup {None}]
         /\ resUser' \in [Reservations -> Users \cup {None}]
         /\ expiresAt' \in [Reservations -> 0 .. MaxClock + Duration]
         /\ qrInvalidated' \in [Reservations -> BOOLEAN]
         /\ clock' \in 0 .. MaxClock
  BY DEF TypeOK, dataVars, stockVars, resVars

\* Every step keeps every variable in its type.
LEMMA StepType == TypeOK /\ RowsExist /\ [Next]_vars => TypeOK'
<1> SUFFICES ASSUME TypeOK, RowsExist, [Next]_vars PROVE TypeOK'
  OBVIOUS
<1> USE ReservationsAssumption
<1>1. CASE UNCHANGED vars
  BY <1>1 DEF vars, TypeOK, stockVars, resVars, sessionVars
<1>2. ASSUME NEW s \in Sessions, SessionStep(s) PROVE TypeOK'
  <2>12. CASE ReceiveItem(s)
    <3>1. askItem[s] \in Items
      BY <2>12 DEF ReceiveItem, RowsExist
    <3>2. movements' \subseteq Movement
      BY <2>12, <3>1
      DEF ReceiveItem, CreatePointMovement, TypeOK, Movement, Reasons
    <3> QED
      BY <2>12, <3>1, <3>2, FinishType
      DEF ReceiveItem, TypeOK, ItemStatuses, resVars
  <2>13. CASE LockItemToClose(s)
    <3>1. PICK step \in Closing : GoOn(s, step, resOf[s])
      BY <2>13 DEF LockItemToClose, Closing
    <3>2. UNCHANGED dataVars
      BY <2>13 DEF LockItemToClose, dataVars
    <3>3. step \in Steps /\ resOf[s] \in Reservations \cup {None}
      BY <3>1 DEF Closing, Steps, TypeOK
    <3> QED
      BY <3>1, <3>2, <3>3, GoOnType, DataUnchangedType DEF TypeOK
  <2>1. CASE CreateReservation(s)
    <3>1. askItem[s] \in Items /\ askUser[s] \in Users
      BY <2>1 DEF CreateReservation, RowsExist
    <3>2. clock + Duration \in 0 .. MaxClock + Duration
      BY DEF TypeOK
    <3> QED
      BY <2>1, <3>1, <3>2, FinishType
      DEF CreateReservation, TypeOK, ResStatuses, ItemStatuses
  <2>2. CASE CancelReservation(s)
    BY <2>2, FinishType, CloseType DEF CancelReservation, TypeOK
  <2>3. ASSUME NEW r \in Reservations, LockToExpire(s, r) PROVE TypeOK'
    BY <2>3, GoOnType, DataUnchangedType
    DEF LockToExpire, TypeOK, dataVars, Steps
  <2>4. ASSUME NEW r \in Reservations, SkipClosed(s, r) PROVE TypeOK'
    BY <2>4, DataUnchangedType DEF SkipClosed, TypeOK, dataVars
  <2>5. CASE ExpireReservation(s)
    BY <2>5, CloseType DEF ExpireReservation, TypeOK, Steps
  <2>6. CASE EndSweep(s)
    BY <2>6, FinishType, DataUnchangedType DEF EndSweep, TypeOK, dataVars
  <2>7. CASE LockScanned(s)
    BY <2>7, GoOnType, DataUnchangedType
    DEF LockScanned, TypeOK, dataVars, Steps
  <2>8. CASE LockItemToCollect(s)
    BY <2>8, GoOnType, DataUnchangedType
    DEF LockItemToCollect, TypeOK, dataVars, Steps
  <2>9. CASE LockPayer(s)
    BY <2>9, GoOnType, DataUnchangedType
    DEF LockPayer, TypeOK, dataVars, Steps
  <2>10. CASE CompletePickup(s)
    <3>1. resOf[s] \in Reservations /\ resUser[resOf[s]] \in Users
      BY <2>10 DEF CompletePickup, RowsExist, OnReservation, HoldsReservation
    <3>2. movements' \subseteq Movement
      BY <2>10, <3>1
      DEF CompletePickup, CreatePointMovement, TypeOK, Movement, Reasons
    <3> QED
      BY <2>10, <3>1, <3>2, FinishType
      DEF CompletePickup, TypeOK, ItemStatuses, ResStatuses
  <2>11. CASE Refuse(s)
    BY <2>11, FinishType, DataUnchangedType DEF Refuse, TypeOK, dataVars
  <2>14. CASE Victim(s)
    BY <2>14, FinishType, DataUnchangedType DEF Victim, TypeOK, dataVars
  <2> QED
    BY <1>2, <2>1, <2>2, <2>3, <2>4, <2>5, <2>6, <2>7, <2>8, <2>9, <2>10,
       <2>11, <2>12, <2>13, <2>14 DEF SessionStep
<1>3. ASSUME NEW s \in Sessions, Request(s) PROVE TypeOK'
  <2>1. ASSUME NEW i \in Items, NEW u \in Users, LockItemToReserve(s, i, u)
        PROVE TypeOK'
    BY <2>1, DataUnchangedType DEF LockItemToReserve, TypeOK, dataVars, Steps
  <2>2. ASSUME NEW r \in Reservations, LockToCancel(s, r) PROVE TypeOK'
    BY <2>2, GoOnType, DataUnchangedType
    DEF LockToCancel, TypeOK, dataVars, Steps
  <2>3. ASSUME NEW r \in Reservations, NEW o \in Operators, ScanToken(s, r, o)
        PROVE  TypeOK'
    BY <2>3, DataUnchangedType DEF ScanToken, TypeOK, dataVars, Steps
  <2>4. CASE ListDue(s)
    BY <2>4, DataUnchangedType DEF ListDue, TypeOK, dataVars, Steps
  <2>5. ASSUME NEW i \in Items, NEW o \in Operators, LockToReceive(s, i, o)
        PROVE  TypeOK'
    BY <2>5, DataUnchangedType DEF LockToReceive, TypeOK, dataVars, Steps
  <2> QED
    BY <1>3, <2>1, <2>2, <2>3, <2>4, <2>5 DEF Request
<1>4. ASSUME NEW s \in Sessions, Crash(s) PROVE TypeOK'
  BY <1>4, FinishType, DataUnchangedType DEF Crash, TypeOK, dataVars
<1>5. CASE Environment
  <2>2. ASSUME NEW i \in VolatileItems, EditPublication(i) PROVE TypeOK'
    BY <2>2 DEF EditPublication, ClosingOn, TypeOK, resVars
  <2>3. ASSUME NEW i \in VolatileItems, NEW o \in Outlets, EditCenter(i, o)
        PROVE TypeOK'
    BY <2>3 DEF EditCenter, ClosingOn, TypeOK, resVars
  <2>4. ASSUME NEW i \in Items, NEW st \in StaffStatuses, EditItemStatus(i, st)
        PROVE TypeOK'
    BY <2>4 DEF EditItemStatus, TypeOK, resVars, sessionVars
  <2>5. CASE Tick
    BY <2>5 DEF Tick, TypeOK, stockVars, resVars, sessionVars
  <2> QED
    BY <1>5, <2>2, <2>3, <2>4, <2>5 DEF Environment
<1> QED
  BY <1>1, <1>2, <1>3, <1>4, <1>5 DEF Next, Proceed

(***************************************************************************)
(* Every step of the system is one of these; the lemmas about steps below  *)
(* share this case split.                                                  *)
(***************************************************************************)

\* Steps of session s that touch nothing but the session itself.
SessionOnly(s) ==
  \/ LockItemToClose(s)
  \/ \E r \in Reservations : LockToExpire(s, r) \/ SkipClosed(s, r)
  \/ EndSweep(s)
  \/ LockScanned(s)
  \/ LockItemToCollect(s)
  \/ LockPayer(s)
  \/ Refuse(s)
  \/ Victim(s)
  \/ Crash(s)
  \/ Request(s)

\* Staff edits and the clock: no reservation, movement or session changes.
Surroundings ==
  \/ \E i \in VolatileItems : EditPublication(i)
  \/ \E i \in VolatileItems, o \in Outlets : EditCenter(i, o)
  \/ \E i \in Items, st \in StaffStatuses : EditItemStatus(i, st)
  \/ Tick
  \/ UNCHANGED vars

\* Any step of session s.
AnyStep(s) ==
  \/ SessionOnly(s)
  \/ ReceiveItem(s)
  \/ CreateReservation(s)
  \/ CancelReservation(s)
  \/ ExpireReservation(s)
  \/ CompletePickup(s)

\* Every step is one of these: a session that takes a lock, rolls back or
\* reads a list; one of the five transactions that write; or an edit of the
\* surroundings.
LEMMA StepCases ==
  ASSUME [Next]_vars
  PROVE  (\E s \in Sessions : AnyStep(s)) \/ Surroundings
  BY DEF Next, Proceed, SessionStep, Environment, SessionOnly, Surroundings,
     AnyStep

\* A session that only takes a lock, rolls back or reads writes nothing.
LEMMA SessionOnlyData ==
  ASSUME NEW s \in Sessions, SessionOnly(s)
  PROVE  UNCHANGED dataVars
  BY DEF SessionOnly, Request, LockToExpire, SkipClosed, EndSweep, LockScanned,
     LockItemToCollect, LockPayer, Refuse, Crash, LockItemToReserve,
     LockToCancel, ScanToken, ListDue, LockItemToClose, Victim, LockToReceive,
     dataVars

\* Where the sessions are; what they have been overtaken by is history.
whereVars == <<pc, resOf, askItem, askUser, batch>>

\* Staff edits and the clock leave the ledger, the reservations and the
\* sessions alone.
LEMMA SurroundingsUnchanged ==
  ASSUME TypeOK, Surroundings
  PROVE  UNCHANGED <<movements, resVars, whereVars>> /\ clock' >= clock
  BY DEF TypeOK, Surroundings, EditPublication, EditCenter, EditItemStatus,
     Tick, vars, stockVars, resVars, sessionVars, whereVars

\* A step of one session leaves the others where they are.
LEMMA OthersStay ==
  ASSUME TypeOK, NEW s \in Sessions, NEW t \in Sessions, s # t, AnyStep(s)
  PROVE  /\ pc'[t] = pc[t]
         /\ resOf'[t] = resOf[t]
         /\ askItem'[t] = askItem[t]
         /\ askUser'[t] = askUser[t]
         /\ batch'[t] = batch[t]
         /\ t \in overtaken' <=> t \in overtaken
<1>1. ASSUME SessionOnly(s)
      PROVE  /\ pc'[t] = pc[t]
             /\ resOf'[t] = resOf[t]
             /\ askItem'[t] = askItem[t]
             /\ askUser'[t] = askUser[t]
             /\ batch'[t] = batch[t]
             /\ t \in overtaken' <=> t \in overtaken
  BY <1>1
  DEF TypeOK, SessionOnly, Request, LockToExpire, SkipClosed, EndSweep,
      LockScanned, LockItemToCollect, LockPayer, Refuse, Crash,
      LockItemToReserve, LockToCancel, ScanToken, ListDue, LockItemToClose,
      Victim, LockToReceive, Finish, GoOn
<1> QED
  BY <1>1
  DEF AnyStep, TypeOK, ReceiveItem, CreateReservation, CancelReservation,
      ExpireReservation, CompletePickup, Finish

\* A row of the reservation table keeps its object and its person, and is
\* never deleted.
LEMMA RowsStable ==
  ASSUME TypeOK, RowsExist, [Next]_vars, NEW r \in Reservations,
         status[r] # "none"
  PROVE  /\ status'[r] # "none"
         /\ resItem'[r] = resItem[r]
         /\ resUser'[r] = resUser[r]
<1>1. CASE \E s \in Sessions : SessionOnly(s)
  BY <1>1, SessionOnlyData DEF dataVars, resVars
<1>2. ASSUME NEW s \in Sessions, CreateReservation(s)
      PROVE  /\ status'[r] # "none"
             /\ resItem'[r] = resItem[r]
             /\ resUser'[r] = resUser[r]
  BY <1>2 DEF CreateReservation, TypeOK
<1>3. ASSUME NEW s \in Sessions, CancelReservation(s)
      PROVE  /\ status'[r] # "none"
             /\ resItem'[r] = resItem[r]
             /\ resUser'[r] = resUser[r]
  BY <1>3 DEF CancelReservation, CloseUncollected, TypeOK
<1>4. ASSUME NEW s \in Sessions, ExpireReservation(s)
      PROVE  /\ status'[r] # "none"
             /\ resItem'[r] = resItem[r]
             /\ resUser'[r] = resUser[r]
  BY <1>4 DEF ExpireReservation, CloseUncollected, TypeOK
<1>5. ASSUME NEW s \in Sessions, CompletePickup(s)
      PROVE  /\ status'[r] # "none"
             /\ resItem'[r] = resItem[r]
             /\ resUser'[r] = resUser[r]
  BY <1>5 DEF CompletePickup, TypeOK
<1>6. CASE \E s \in Sessions : ReceiveItem(s)
  BY <1>6 DEF ReceiveItem, resVars
<1>7. CASE Surroundings
  BY <1>7, SurroundingsUnchanged DEF resVars
<1> QED
  BY <1>1, <1>2, <1>3, <1>4, <1>5, <1>6, <1>7, StepCases DEF AnyStep

\* What the session that steps refers to afterwards exists.
LEMMA StepRowsSession ==
  ASSUME TypeOK, RowsExist, NEW s \in Sessions, AnyStep(s)
  PROVE  /\ pc'[s] \in OnReservation =>
              resOf'[s] \in Reservations /\ status[resOf'[s]] # "none"
         /\ pc'[s] = "reserving" =>
              /\ askItem'[s] \in Items
              /\ askUser'[s] \in Users
              /\ askUser'[s] # Owner[askItem'[s]]
         /\ pc'[s] = "receiving" => askItem'[s] \in Items
         /\ \A r \in batch'[s] : r \in Reservations /\ status[r] # "none"
<1> USE DEF TypeOK, RowsExist, OnReservation, HoldsReservation
<1> DEFINE Goal ==
      /\ pc'[s] \in OnReservation =>
           resOf'[s] \in Reservations /\ status[resOf'[s]] # "none"
      /\ pc'[s] = "reserving" =>
           /\ askItem'[s] \in Items
           /\ askUser'[s] \in Users
           /\ askUser'[s] # Owner[askItem'[s]]
      /\ pc'[s] = "receiving" => askItem'[s] \in Items
      /\ \A r \in batch'[s] : r \in Reservations /\ status[r] # "none"
<1>1. Finish(s) => Goal
  BY DEF Finish
<1>2. ASSUME NEW r \in Reservations, LockToExpire(s, r) \/ SkipClosed(s, r)
      PROVE  Goal
  BY <1>2 DEF LockToExpire, SkipClosed, GoOn, Due
<1>3. ASSUME LockScanned(s) PROVE Goal
  BY <1>3 DEF LockScanned, GoOn
<1>4. ASSUME LockItemToCollect(s) PROVE Goal
  BY <1>4 DEF LockItemToCollect, GoOn
<1>5. ASSUME LockPayer(s) PROVE Goal
  BY <1>5 DEF LockPayer, GoOn
<1>6. ASSUME NEW i \in Items, NEW u \in Users, LockItemToReserve(s, i, u)
      PROVE  Goal
  BY <1>6 DEF LockItemToReserve
<1>7. ASSUME NEW r \in Reservations, LockToCancel(s, r)
      PROVE  Goal
  BY <1>7 DEF LockToCancel, GoOn
<1>11. ASSUME NEW r \in Reservations, NEW o \in Operators, ScanToken(s, r, o)
       PROVE  Goal
  BY <1>11 DEF ScanToken, TokenValid
<1>12. ASSUME NEW i \in Items, NEW o \in Operators, LockToReceive(s, i, o)
       PROVE  Goal
  BY <1>12 DEF LockToReceive
<1>13. ASSUME LockItemToClose(s) PROVE Goal
  BY <1>13 DEF LockItemToClose, GoOn
<1>8. ASSUME ListDue(s) PROVE Goal
  BY <1>8 DEF ListDue, Due
<1>9. ASSUME ExpireReservation(s) PROVE Goal
  BY <1>9 DEF ExpireReservation
<1>10. ASSUME \/ EndSweep(s) \/ Refuse(s) \/ Victim(s) \/ Crash(s)
              \/ CreateReservation(s) \/ CancelReservation(s)
              \/ CompletePickup(s) \/ ReceiveItem(s)
       PROVE  Goal
  BY <1>1, <1>10 DEF EndSweep, Refuse, Victim, Crash, CreateReservation,
     CancelReservation, CompletePickup, ReceiveItem
<1> HIDE DEF Goal
<1>14. Goal
  BY <1>2, <1>3, <1>4, <1>5, <1>6, <1>7, <1>8, <1>9, <1>10, <1>11, <1>12,
     <1>13 DEF SessionOnly, Request, AnyStep
<1> QED
  BY <1>14 DEF Goal

\* What the rows and the sessions refer to goes on existing.
LEMMA StepRows == TypeOK /\ RowsExist /\ [Next]_vars => RowsExist'
<1> SUFFICES ASSUME TypeOK, RowsExist, [Next]_vars PROVE RowsExist'
  OBVIOUS
<1>0. TypeOK'
  BY StepType
<1>1. ASSUME NEW r \in Reservations, status'[r] # "none"
      PROVE  resItem'[r] \in Items /\ resUser'[r] \in Users
  <2>1. CASE status[r] # "none"
    BY <2>1, RowsStable DEF RowsExist
  <2>2. CASE status[r] = "none"
    <3>1. ASSUME NEW s \in Sessions, CreateReservation(s)
          PROVE  resItem'[r] \in Items /\ resUser'[r] \in Users
      BY <1>1, <2>2, <3>1 DEF CreateReservation, TypeOK, RowsExist
    <3>2. ASSUME NEW s \in Sessions,
                 \/ CancelReservation(s) \/ ExpireReservation(s)
                 \/ CompletePickup(s)
          PROVE  status'[r] = "none"
      BY <2>2, <3>2 DEF CancelReservation, ExpireReservation, CompletePickup,
         CloseUncollected, TypeOK, RowsExist, OnReservation, HoldsReservation
    <3>3. CASE \/ \E s \in Sessions : SessionOnly(s) \/ ReceiveItem(s)
               \/ Surroundings
      BY <1>1, <2>2, <3>3, SessionOnlyData, SurroundingsUnchanged
      DEF dataVars, resVars, ReceiveItem
    <3> QED
      BY <1>1, <2>2, <3>1, <3>2, <3>3, StepCases DEF AnyStep
  <2> QED
    BY <2>1, <2>2
<1>2. ASSUME NEW t \in Sessions
      PROVE  /\ pc'[t] \in OnReservation =>
                  resOf'[t] \in Reservations /\ status[resOf'[t]] # "none"
             /\ pc'[t] = "reserving" =>
                  /\ askItem'[t] \in Items
                  /\ askUser'[t] \in Users
                  /\ askUser'[t] # Owner[askItem'[t]]
             /\ pc'[t] = "receiving" => askItem'[t] \in Items
             /\ \A r \in batch'[t] : r \in Reservations /\ status[r] # "none"
  <2>1. CASE Surroundings
    BY <2>1, SurroundingsUnchanged DEF whereVars, RowsExist, TypeOK
  <2>2. ASSUME NEW s \in Sessions, AnyStep(s), s = t
        PROVE  /\ pc'[t] \in OnReservation =>
                    resOf'[t] \in Reservations /\ status[resOf'[t]] # "none"
               /\ pc'[t] = "reserving" =>
                    /\ askItem'[t] \in Items
                    /\ askUser'[t] \in Users
                    /\ askUser'[t] # Owner[askItem'[t]]
               /\ pc'[t] = "receiving" => askItem'[t] \in Items
               /\ \A r \in batch'[t] : r \in Reservations /\ status[r] # "none"
    BY <2>2, StepRowsSession
  <2>3. ASSUME NEW s \in Sessions, AnyStep(s), s # t
        PROVE  /\ pc'[t] = pc[t]
               /\ resOf'[t] = resOf[t]
               /\ askItem'[t] = askItem[t]
               /\ askUser'[t] = askUser[t]
               /\ batch'[t] = batch[t]
    BY <2>3, OthersStay
  <2> QED
    BY <2>1, <2>2, <2>3, StepCases DEF RowsExist, TypeOK
<1>3. ASSUME NEW r \in Reservations, status[r] # "none"
      PROVE  status'[r] # "none"
  BY <1>3, RowsStable
<1> QED
  BY <1>1, <1>2, <1>3 DEF RowsExist

(***************************************************************************)
(* Row locks exclude each other.                                           *)
(***************************************************************************)

\* A session that stays where it is keeps its locks, and their rows.
LEMMA SameLocks ==
  ASSUME TypeOK, RowsExist, [Next]_vars, NEW t \in Sessions,
         pc'[t] = pc[t], resOf'[t] = resOf[t], askItem'[t] = askItem[t]
  PROVE  /\ HeldUser(t)' = HeldUser(t)
         /\ pc[t] \in HoldsReservation =>
              /\ resItem'[resOf[t]] = resItem[resOf[t]]
              /\ resUser'[resOf[t]] = resUser[resOf[t]]
<1>1. pc[t] \in HoldsReservation =>
        /\ resItem'[resOf[t]] = resItem[resOf[t]]
        /\ resUser'[resOf[t]] = resUser[resOf[t]]
  BY RowsStable DEF RowsExist, OnReservation
<1> QED
  BY <1>1 DEF HeldUser, HoldsReservation

\* The locks of a session that only keeps or releases what it holds.
LEMMA KeepsApart ==
  ASSUME TypeOK, RowsExist, LocksExclusive, [Next]_vars,
         NEW s \in Sessions, NEW t \in Sessions, s # t,
         pc'[t] = pc[t], resOf'[t] = resOf[t], askItem'[t] = askItem[t],
         \/ pc'[s] \in {"idle", "sweeping", "scanned"}
         \/ pc'[s] = pc[s] /\ resOf'[s] = resOf[s] /\ askItem'[s] = askItem[s]
  PROVE  Apart(s, t)' /\ Apart(t, s)'
<1>1. /\ HeldUser(t)' = HeldUser(t)
      /\ pc[t] \in HoldsReservation =>
           resItem'[resOf[t]] = resItem[resOf[t]]
  BY SameLocks
<1>2. Apart(s, t) /\ Apart(t, s)
  BY DEF LocksExclusive
<1>3. CASE pc'[s] \in {"idle", "sweeping", "scanned"}
  <2>1. HeldUser(s)' = None
    BY <1>3 DEF HeldUser
  <2> QED
    BY <1>1, <1>2, <1>3, <2>1 DEF Apart, HoldsReservation, HoldsItem
<1>4. CASE pc'[s] = pc[s] /\ resOf'[s] = resOf[s] /\ askItem'[s] = askItem[s]
  <2>1. /\ HeldUser(s)' = HeldUser(s)
        /\ pc[s] \in HoldsReservation =>
             resItem'[resOf[s]] = resItem[resOf[s]]
    BY <1>4, SameLocks
  <2> QED
    BY <1>1, <1>2, <1>4, <2>1 DEF Apart, HoldsReservation, HoldsItem
<1> QED
  BY <1>3, <1>4

\* The eight steps that take a lock find it free.
LEMMA TakesApart ==
  ASSUME TypeOK, RowsExist, LocksExclusive, [Next]_vars,
         NEW s \in Sessions, NEW t \in Sessions, s # t,
         \/ \E r \in Reservations : LockToExpire(s, r) \/ LockToCancel(s, r)
         \/ \E i \in Items, u \in Users : LockItemToReserve(s, i, u)
         \/ \E i \in Items, o \in Operators : LockToReceive(s, i, o)
         \/ LockScanned(s)
         \/ LockItemToCollect(s)
         \/ LockItemToClose(s)
         \/ LockPayer(s)
  PROVE  Apart(s, t)' /\ Apart(t, s)'
<1>1. Apart(s, t) /\ Apart(t, s)
  BY DEF LocksExclusive
<1>2. UNCHANGED resVars
  BY DEF LockToExpire, LockToCancel, LockItemToReserve, LockScanned,
     LockItemToCollect, LockPayer, LockToReceive, LockItemToClose
<1>3. pc'[t] = pc[t] /\ resOf'[t] = resOf[t] /\ askItem'[t] = askItem[t]
  BY OthersStay DEF AnyStep, SessionOnly, Request
<1>4. HeldUser(t)' = HeldUser(t)
  BY <1>3, SameLocks
<1>5. pc'[s] \notin {"charging", "receiving"} => HeldUser(s)' = None
  BY DEF HeldUser
<1> USE <1>1, <1>2, <1>3, <1>4, <1>5
    DEF Apart, HoldsReservation, HoldsItem, resVars, TypeOK, GoOn
<1>6. ASSUME NEW r \in Reservations, LockToExpire(s, r)
      PROVE  Apart(s, t)' /\ Apart(t, s)'
  BY <1>6 DEF LockToExpire, ReservationFree
<1>7. ASSUME NEW r \in Reservations, LockToCancel(s, r)
      PROVE  Apart(s, t)' /\ Apart(t, s)'
  BY <1>7 DEF LockToCancel, ReservationFree
<1>8. ASSUME NEW i \in Items, NEW u \in Users, LockItemToReserve(s, i, u)
      PROVE  Apart(s, t)' /\ Apart(t, s)'
  BY <1>8 DEF LockItemToReserve, ItemFree
<1>9. ASSUME NEW i \in Items, NEW o \in Operators, LockToReceive(s, i, o)
      PROVE  Apart(s, t)' /\ Apart(t, s)'
  <2>1. /\ pc'[s] = "receiving" /\ askItem'[s] = i
        /\ PublicationFree(i) /\ UserFree(Owner[i])
    BY <1>9 DEF LockToReceive
  <2>2. HeldUser(s)' = Owner[i]
    BY <2>1 DEF HeldUser
  <2>3. HeldUser(t) # Owner[i] /\ (pc[t] = "receiving" => askItem[t] # i)
    BY <2>1 DEF PublicationFree, UserFree
  <2> QED
    BY <2>1, <2>2, <2>3
<1>10. CASE LockScanned(s)
  BY <1>10 DEF LockScanned, ReservationFree
<1>11. CASE LockItemToCollect(s)
  BY <1>11 DEF LockItemToCollect, ItemFree
<1>12. CASE LockItemToClose(s)
  BY <1>12 DEF LockItemToClose, ItemFree
<1>13. CASE LockPayer(s)
  <2>1. /\ pc[s] = "collecting" /\ pc'[s] = "charging" /\ resOf'[s] = resOf[s]
        /\ UserFree(resUser[resOf[s]])
    BY <1>13 DEF LockPayer
  <2>2. HeldUser(s)' = resUser[resOf[s]] /\ HeldUser(t) # resUser[resOf[s]]
    BY <2>1 DEF HeldUser, UserFree
  <2> QED
    BY <2>1, <2>2
<1> QED
  BY <1>6, <1>7, <1>8, <1>9, <1>10, <1>11, <1>12, <1>13

\* No step gives two sessions the lock of one row.
LEMMA StepLocks ==
  TypeOK /\ RowsExist /\ LocksExclusive /\ [Next]_vars => LocksExclusive'
<1> SUFFICES ASSUME TypeOK, RowsExist, LocksExclusive, [Next]_vars
             PROVE  LocksExclusive'
  OBVIOUS
<1> DEFINE Stays(t) == /\ pc'[t] = pc[t]
                       /\ resOf'[t] = resOf[t]
                       /\ askItem'[t] = askItem[t]
<1>1. ASSUME \A t \in Sessions : Stays(t)
      PROVE  LocksExclusive'
  BY <1>1, KeepsApart DEF LocksExclusive
<1>2. ASSUME NEW s \in Sessions, AnyStep(s)
      PROVE  LocksExclusive'
  <2>1. \A t \in Sessions : t # s => Stays(t)
    BY <1>2, OthersStay
  <2>2. ASSUME NEW t \in Sessions, NEW o \in Sessions, t # o, t # s, o # s
        PROVE  Apart(t, o)'
    BY <2>1, <2>2, KeepsApart
  <2>3. ASSUME NEW t \in Sessions, t # s
        PROVE  Apart(s, t)' /\ Apart(t, s)'
    <3>1. CASE \/ \E r \in Reservations :
                    LockToExpire(s, r) \/ LockToCancel(s, r)
               \/ \E i \in Items, u \in Users : LockItemToReserve(s, i, u)
               \/ \E i \in Items, o \in Operators : LockToReceive(s, i, o)
               \/ LockScanned(s) \/ LockItemToCollect(s)
               \/ LockItemToClose(s) \/ LockPayer(s)
      BY <2>3, <3>1, TakesApart
    <3>2. CASE \/ \E r \in Reservations : SkipClosed(s, r)
               \/ \E r \in Reservations, o \in Operators : ScanToken(s, r, o)
               \/ EndSweep(s) \/ Refuse(s) \/ Victim(s) \/ Crash(s)
               \/ ListDue(s) \/ ReceiveItem(s)
               \/ CreateReservation(s) \/ CancelReservation(s)
               \/ ExpireReservation(s) \/ CompletePickup(s)
      <4>1. pc'[s] \in {"idle", "sweeping", "scanned"}
        BY <3>2
        DEF TypeOK, SkipClosed, ScanToken, EndSweep, Refuse, Victim, Crash,
            ListDue, ReceiveItem, CreateReservation, CancelReservation,
            ExpireReservation, CompletePickup, Finish
      <4> QED
        BY <4>1, <2>1, <2>3, KeepsApart
    <3> QED
      BY <1>2, <3>1, <3>2 DEF AnyStep, SessionOnly, Request
  <2> QED
    BY <2>2, <2>3 DEF LocksExclusive
<1>3. CASE Surroundings
  BY <1>1, <1>3, SurroundingsUnchanged DEF whereVars
<1> QED
  BY <1>2, <1>3, StepCases

(***************************************************************************)
(* Points: a movement of one person does not change another's balance.     *)
(***************************************************************************)

\* A movement of one person leaves the balance of another as it was.
LEMMA OthersBalance ==
  ASSUME NEW u \in Users, NEW w, NEW reason, NEW about, u # w,
         CreatePointMovement(w, reason, about)
  PROVE  /\ \A x : MovementsOf(u, x)' = MovementsOf(u, x)
         /\ HasSufficientPoints(u)' <=> HasSufficientPoints(u)
<1>1. \A x : MovementsOf(u, x)' = MovementsOf(u, x)
  BY DEF CreatePointMovement, MovementsOf
<1> QED
  BY <1>1 DEF HasSufficientPoints, PointsBalance

\* While the ledger stays as it is, so do the balances.
LEMMA SameBalance ==
  ASSUME UNCHANGED movements
  PROVE  \A u : HasSufficientPoints(u)' <=> HasSufficientPoints(u)
  BY DEF HasSufficientPoints, PointsBalance, MovementsOf

(***************************************************************************)
(* What is tested under a lock stays true.                                 *)
(***************************************************************************)

Tested(s) ==
  /\ pc[s] = "receiving" => itemStatus[askItem[s]] = "absent"
  /\ pc[s] = "reserving" =>
       itemStatus[askItem[s]] = "available" /\ ~HasActive(askItem[s])
  /\ pc[s] \in {"cancelling", "expiring", "collecting", "charging",
               "returning", "keeping"} => status[resOf[s]] = "active"
  /\ pc[s] \in {"collecting", "charging", "returning"} =>
       itemStatus[resItem[resOf[s]]] = "reserved"
  /\ pc[s] = "charging" => HasSufficientPoints(resUser[resOf[s]])

\* TestedStaysTrue, one session at a time.
LEMMA TestedDef == TestedStaysTrue <=> \A s \in Sessions : Tested(s)
  BY DEF TestedStaysTrue, Tested

\* The session that takes a lock has just tested what it needs.
LEMMA TestsItself ==
  ASSUME TypeOK, TestedStaysTrue, NEW s \in Sessions, SessionOnly(s)
  PROVE  Tested(s)'
<1>1. UNCHANGED dataVars
  BY SessionOnlyData
<1>2. /\ \A u : HasSufficientPoints(u)' <=> HasSufficientPoints(u)
      /\ \A i : HasActive(i)' <=> HasActive(i)
  BY <1>1, SameBalance DEF HasActive, dataVars, resVars
<1>3. Tested(s)
  BY TestedDef
<1> USE <1>1, <1>2, <1>3
    DEF Tested, TypeOK, dataVars, resVars, stockVars, GoOn, Finish
<1>4. ASSUME NEW r \in Reservations, LockToExpire(s, r) \/ SkipClosed(s, r)
      PROVE  Tested(s)'
  BY <1>4 DEF LockToExpire, SkipClosed, Due
<1>5. ASSUME NEW i \in Items, NEW u \in Users, LockItemToReserve(s, i, u)
      PROVE  Tested(s)'
  BY <1>5 DEF LockItemToReserve, InPublicCatalog
<1>6. ASSUME NEW r \in Reservations, LockToCancel(s, r)
      PROVE  Tested(s)'
  BY <1>6 DEF LockToCancel
<1>11. ASSUME NEW r \in Reservations, NEW o \in Operators, ScanToken(s, r, o)
       PROVE  Tested(s)'
  BY <1>11 DEF ScanToken
<1>12. ASSUME NEW i \in Items, NEW o \in Operators, LockToReceive(s, i, o)
       PROVE  Tested(s)'
  BY <1>12 DEF LockToReceive
<1>13. CASE LockItemToClose(s)
  BY <1>13 DEF LockItemToClose
<1>7. CASE LockScanned(s) \/ ListDue(s)
  BY <1>7 DEF LockScanned, ListDue
<1>8. CASE LockItemToCollect(s)
  BY <1>8 DEF LockItemToCollect, MayCollect, TokenValid
<1>9. CASE LockPayer(s)
  BY <1>9 DEF LockPayer, MayCharge
<1>10. CASE EndSweep(s) \/ Refuse(s) \/ Victim(s) \/ Crash(s)
  BY <1>10 DEF EndSweep, Refuse, Victim, Crash
<1> QED
  BY <1>4, <1>5, <1>6, <1>7, <1>8, <1>9, <1>10, <1>11, <1>12, <1>13
  DEF SessionOnly, Request

\* A session that writes leaves alone what the others have tested: it holds
\* the locks of the rows it writes to.
LEMMA WritesApart ==
  ASSUME TypeOK, RowsExist, LocksExclusive, TestedStaysTrue,
         NEW s \in Sessions, NEW t \in Sessions, s # t,
         \/ ReceiveItem(s) \/ CreateReservation(s) \/ CancelReservation(s)
         \/ ExpireReservation(s) \/ CompletePickup(s)
  PROVE  Tested(t)'
<1>1. Tested(t) /\ Tested(s) /\ Apart(s, t) /\ Apart(t, s)
  BY TestedDef DEF LocksExclusive
<1>2. /\ pc'[t] = pc[t] /\ resOf'[t] = resOf[t] /\ askItem'[t] = askItem[t]
  BY OthersStay DEF AnyStep
<1>3. /\ pc[t] \in HoldsReservation =>
           resOf[t] \in Reservations /\ status[resOf[t]] # "none"
      /\ pc[t] \in {"reserving", "receiving"} => askItem[t] \in Items
  BY DEF RowsExist, OnReservation
<1> USE <1>1, <1>2, <1>3
    DEF Tested, TypeOK, Apart, HoldsReservation, HoldsItem, HasActive
<1>4. CASE CreateReservation(s)
  <2>1. \A u : HasSufficientPoints(u)' <=> HasSufficientPoints(u)
    BY <1>4, SameBalance DEF CreateReservation
  <2>2. PICK r \in Reservations :
          /\ status[r] = "none"
          /\ status' = [status EXCEPT ![r] = "active"]
          /\ resItem' = [resItem EXCEPT ![r] = askItem[s]]
          /\ resUser' = [resUser EXCEPT ![r] = askUser[s]]
    BY <1>4 DEF CreateReservation
  <2>3. itemStatus' = [itemStatus EXCEPT ![askItem[s]] = "reserved"]
    BY <1>4 DEF CreateReservation
  <2>4. pc[s] = "reserving"
    BY <1>4 DEF CreateReservation
  <2>5. CASE pc[t] \in {"reserving", "receiving"}
    BY <2>2, <2>3, <2>4, <2>5
  <2>6. CASE pc[t] \in HoldsReservation
    BY <2>1, <2>2, <2>3, <2>4, <2>6
  <2> QED
    BY <2>5, <2>6
<1>5. CASE CancelReservation(s) \/ ExpireReservation(s)
  <2>1. \A u : HasSufficientPoints(u)' <=> HasSufficientPoints(u)
    BY <1>5, SameBalance
    DEF CancelReservation, ExpireReservation, CloseUncollected
  <2>2. /\ pc[s] \in {"returning", "keeping"}
        /\ resOf[s] \in Reservations
        /\ pc[s] = "returning" => itemStatus[resItem[resOf[s]]] = "reserved"
    BY <1>5 DEF CancelReservation, ExpireReservation, RowsExist, OnReservation
  <2>3. /\ resItem' = resItem /\ resUser' = resUser
        /\ \E o \in {"cancelled", "expired"} :
             status' = [status EXCEPT ![resOf[s]] = o]
        /\ \A i \in Items : i # resItem[resOf[s]] =>
             itemStatus'[i] = itemStatus[i]
        /\ pc[s] = "keeping" => itemStatus' = itemStatus
    BY <1>5, <2>2 DEF CancelReservation, ExpireReservation, CloseUncollected
  <2>4. CASE pc[t] \in {"reserving", "receiving"}
    BY <2>2, <2>3, <2>4
  <2>5. CASE pc[t] \in HoldsReservation
    <3>1. pc[t] \in HoldsItem =>
            /\ resItem[resOf[t]] # resItem[resOf[s]]
            /\ resItem[resOf[t]] \in Items
      BY <2>2, <2>5 DEF RowsExist
    <3> QED
      BY <2>1, <2>2, <2>3, <2>5, <3>1
  <2> QED
    BY <2>4, <2>5
<1>6. CASE CompletePickup(s)
  <2>1. /\ pc[s] = "charging" /\ resOf[s] \in Reservations
        /\ resItem[resOf[s]] \in Items
    BY <1>6 DEF CompletePickup, RowsExist, OnReservation
  <2>2. /\ resItem' = resItem /\ resUser' = resUser
        /\ status' = [status EXCEPT ![resOf[s]] = "completed"]
        /\ itemStatus' = [itemStatus EXCEPT ![resItem[resOf[s]]] = "delivered"]
        /\ CreatePointMovement(resUser[resOf[s]], "object_picked_up", resOf[s])
    BY <1>6 DEF CompletePickup
  <2>3. pc[t] = "charging" =>
          HasSufficientPoints(resUser[resOf[t]])' <=>
            HasSufficientPoints(resUser[resOf[t]])
    <3>1. SUFFICES ASSUME pc[t] = "charging"
                   PROVE  HasSufficientPoints(resUser[resOf[t]])'
      BY <2>1
    <3>2. /\ resUser[resOf[t]] # resUser[resOf[s]]
          /\ resUser[resOf[t]] \in Users
          /\ HasSufficientPoints(resUser[resOf[t]])
      BY <2>1, <3>1, ReservationsAssumption DEF RowsExist, HeldUser
    <3>3. resUser'[resOf'[t]] = resUser[resOf[t]]
      BY <2>2
    <3>4. \A u \in Users : u # resUser[resOf[s]] =>
            (HasSufficientPoints(u)' <=> HasSufficientPoints(u))
      BY <2>2, OthersBalance
    <3> QED
      BY <3>2, <3>3, <3>4 DEF HasSufficientPoints, PointsBalance, MovementsOf
  <2>6. itemStatus[resItem[resOf[s]]] = "reserved"
    BY <2>1
  <2>4. CASE pc[t] \in {"reserving", "receiving"}
    BY <2>1, <2>2, <2>4, <2>6
  <2>5. CASE pc[t] \in HoldsReservation
    BY <2>1, <2>2, <2>3, <2>5 DEF RowsExist
  <2> QED
    BY <2>4, <2>5
<1>7. CASE ReceiveItem(s)
  <2>1. /\ pc[s] = "receiving" /\ askItem[s] \in Items
        /\ itemStatus[askItem[s]] = "absent"
        /\ HeldUser(s) = Owner[askItem[s]] /\ Owner[askItem[s]] \in Users
    BY <1>7, ReservationsAssumption DEF ReceiveItem, RowsExist, HeldUser
  <2>2. /\ UNCHANGED resVars
        /\ itemStatus' = [itemStatus EXCEPT ![askItem[s]] = "available"]
        /\ CreatePointMovement(Owner[askItem[s]], "object_accepted", askItem[s])
    BY <1>7 DEF ReceiveItem
  <2>3. ASSUME pc[t] = "charging"
        PROVE  HasSufficientPoints(resUser[resOf[t]])'
    <3>1. /\ resUser[resOf[t]] # Owner[askItem[s]]
          /\ resUser[resOf[t]] \in Users
          /\ HasSufficientPoints(resUser[resOf[t]])
      BY <2>1, <2>3, ReservationsAssumption DEF RowsExist, HeldUser
    <3>2. resUser'[resOf'[t]] = resUser[resOf[t]]
      BY <2>2 DEF resVars
    <3>3. \A u \in Users : u # Owner[askItem[s]] =>
            (HasSufficientPoints(u)' <=> HasSufficientPoints(u))
      BY <2>2, OthersBalance
    <3> QED
      BY <3>1, <3>2, <3>3 DEF HasSufficientPoints, PointsBalance, MovementsOf
  <2>4. CASE pc[t] \in {"reserving", "receiving"}
    BY <2>1, <2>2, <2>4 DEF resVars
  <2>5. CASE pc[t] \in HoldsReservation
    BY <2>1, <2>2, <2>3, <2>5 DEF RowsExist, resVars
  <2> QED
    BY <2>4, <2>5
<1> QED
  BY <1>4, <1>5, <1>6, <1>7

\* Staff and the clock disturb no session: an object that one has tested is
\* locked.
LEMMA OutsideApart ==
  ASSUME TypeOK, RowsExist, TestedStaysTrue, NEW t \in Sessions, Surroundings
  PROVE  Tested(t)'
<1>1. Tested(t)
  BY TestedDef
<1>2. UNCHANGED <<resVars, whereVars>>
  BY SurroundingsUnchanged
<1>3. \A i : HasActive(i)' <=> HasActive(i)
  BY <1>2 DEF HasActive, resVars
<1>4. pc[t] \in OnReservation =>
        /\ resOf[t] \in Reservations
        /\ resItem[resOf[t]] \in Items
  BY DEF RowsExist
<1>5. pc[t] \in {"reserving", "receiving"} => askItem[t] \in Items
  BY DEF RowsExist
<1>6. \A u : HasSufficientPoints(u)' <=> HasSufficientPoints(u)
  BY SurroundingsUnchanged, SameBalance
<1> USE <1>1, <1>2, <1>3, <1>4, <1>5, <1>6
    DEF Tested, OnReservation, HoldsReservation, resVars, whereVars
<1>7. ASSUME NEW i \in Items, NEW st \in StaffStatuses, EditItemStatus(i, st)
      PROVE  Tested(t)'
  <2>1. /\ ItemFree(i) /\ itemStatus[i] # "absent"
        /\ itemStatus' = [itemStatus EXCEPT ![i] = st]
    BY <1>7 DEF EditItemStatus
  <2> QED
    BY <2>1 DEF ItemFree, TypeOK
<1>8. CASE UNCHANGED itemStatus
  BY <1>8
<1> QED
  BY <1>7, <1>8
  DEF Surroundings, EditPublication, EditCenter, Tick, vars, stockVars

\* Every step keeps what each session has tested under its locks.
LEMMA StepTested ==
  TypeOK /\ RowsExist /\ LocksExclusive /\ TestedStaysTrue /\ [Next]_vars
    => TestedStaysTrue'
<1> SUFFICES ASSUME TypeOK, RowsExist, LocksExclusive, TestedStaysTrue,
                    [Next]_vars, NEW t \in Sessions
             PROVE  Tested(t)'
  BY DEF TestedStaysTrue, Tested
<1>1. ASSUME NEW s \in Sessions, SessionOnly(s)
      PROVE  Tested(t)'
  <2>1. CASE s = t
    BY <1>1, <2>1, TestsItself
  <2>2. CASE s # t
    <3>1. UNCHANGED dataVars /\ Tested(t)
      BY <1>1, SessionOnlyData, TestedDef
    <3>2. /\ \A u : HasSufficientPoints(u)' <=> HasSufficientPoints(u)
          /\ \A i : HasActive(i)' <=> HasActive(i)
      BY <3>1, SameBalance DEF HasActive, dataVars, resVars
    <3>3. pc'[t] = pc[t] /\ resOf'[t] = resOf[t] /\ askItem'[t] = askItem[t]
      BY <1>1, <2>2, OthersStay DEF AnyStep
    <3> QED
      BY <3>1, <3>2, <3>3 DEF Tested, dataVars, resVars, stockVars
  <2> QED
    BY <2>1, <2>2
<1>2. ASSUME NEW s \in Sessions,
             \/ ReceiveItem(s) \/ CreateReservation(s) \/ CancelReservation(s)
             \/ ExpireReservation(s) \/ CompletePickup(s)
      PROVE  Tested(t)'
  <2>1. CASE s = t
    <3>1. pc'[s] \in {"idle", "sweeping"}
      BY <1>2 DEF TypeOK, ReceiveItem, CreateReservation, CancelReservation,
         ExpireReservation, CompletePickup, Finish
    <3> QED
      BY <2>1, <3>1 DEF Tested
  <2>2. CASE s # t
    BY <1>2, <2>2, WritesApart
  <2> QED
    BY <2>1, <2>2
<1>3. CASE Surroundings
  BY <1>3, OutsideApart
<1> QED
  BY <1>1, <1>2, <1>3, StepCases DEF AnyStep

(***************************************************************************)
(* The life of a reservation: inserted ACTIVE, closed once.                *)
(***************************************************************************)

\* The writing session works on a row it has found ACTIVE, and closes it.
LEMMA ClosesActive ==
  ASSUME TypeOK, RowsExist, TestedStaysTrue, NEW s \in Sessions,
         \/ CancelReservation(s) \/ ExpireReservation(s) \/ CompletePickup(s)
  PROVE  /\ resOf[s] \in Reservations
         /\ resItem[resOf[s]] \in Items
         /\ status[resOf[s]] = "active"
         /\ status'[resOf[s]] \in {"cancelled", "expired", "completed"}
         /\ qrInvalidated'[resOf[s]] = TRUE
         /\ status'[resOf[s]] = "expired" => Expiring(s)
         /\ \A q \in Reservations : q # resOf[s] =>
              status'[q] = status[q] /\ qrInvalidated'[q] = qrInvalidated[q]
         /\ UNCHANGED <<resItem, resUser, expiresAt, clock>>
<1>1. /\ pc[s] \in {"returning", "keeping", "charging"}
      /\ ExpireReservation(s) => Expiring(s)
  BY DEF CancelReservation, ExpireReservation, CompletePickup, Expiring, Closing
<1>2. /\ resOf[s] \in Reservations
      /\ resItem[resOf[s]] \in Items
      /\ status[resOf[s]] = "active"
  BY <1>1 DEF RowsExist, OnReservation, HoldsReservation, TestedStaysTrue
<1> QED
  BY <1>1, <1>2
  DEF CancelReservation, ExpireReservation, CompletePickup, CloseUncollected,
      TypeOK

\* A new row belongs to a person who did not give the object.
LEMMA CreatesActive ==
  ASSUME TypeOK, RowsExist, NEW s \in Sessions, CreateReservation(s)
  PROVE  \E r \in Reservations :
           /\ status[r] = "none"
           /\ status'[r] = "active"
           /\ resItem'[r] = askItem[s]
           /\ resUser'[r] # Owner[askItem[s]]
           /\ \A q \in Reservations : q # r =>
                /\ status'[q] = status[q]
                /\ resItem'[q] = resItem[q]
                /\ resUser'[q] = resUser[q]
                /\ expiresAt'[q] = expiresAt[q]
           /\ ~HasActive(askItem[s])
           /\ UNCHANGED <<qrInvalidated, clock>>
  BY DEF CreateReservation, TypeOK, RowsExist, MayReserve

\* Every other step leaves the reservation table alone.
LEMMA OtherStepsRows ==
  ASSUME TypeOK,
         \/ \E s \in Sessions : SessionOnly(s) \/ ReceiveItem(s)
         \/ Surroundings
  PROVE  UNCHANGED resVars /\ clock' >= clock
<1>1. CASE \E s \in Sessions : SessionOnly(s)
  BY <1>1, SessionOnlyData DEF dataVars, TypeOK
<1>2. CASE \E s \in Sessions : ReceiveItem(s)
  BY <1>2 DEF ReceiveItem, TypeOK
<1>3. CASE Surroundings
  BY <1>3, SurroundingsUnchanged
<1> QED
  BY <1>1, <1>2, <1>3

\* No step leaves two active reservations of one object: the one that
\* inserts found none under the lock of the object.
LEMMA StepOneActive ==
  TypeOK /\ RowsExist /\ TestedStaysTrue /\ OneActivePerItem /\ [Next]_vars
    => OneActivePerItem'
<1> SUFFICES ASSUME TypeOK, RowsExist, TestedStaysTrue, OneActivePerItem,
                    [Next]_vars
             PROVE  OneActivePerItem'
  OBVIOUS
<1>1. ASSUME NEW s \in Sessions, CreateReservation(s)
      PROVE  OneActivePerItem'
  <2>1. PICK r \in Reservations :
          /\ status[r] = "none"
          /\ status'[r] = "active"
          /\ resItem'[r] = askItem[s]
          /\ resUser'[r] # Owner[askItem[s]]
          /\ \A q \in Reservations : q # r =>
               /\ status'[q] = status[q]
               /\ resItem'[q] = resItem[q]
               /\ resUser'[q] = resUser[q]
               /\ expiresAt'[q] = expiresAt[q]
    BY <1>1, CreatesActive
  <2>2. ~HasActive(askItem[s])
    BY <1>1, CreatesActive
  <2> QED
    BY <2>1, <2>2 DEF OneActivePerItem, HasActive
<1>2. ASSUME NEW s \in Sessions,
             \/ CancelReservation(s) \/ ExpireReservation(s)
             \/ CompletePickup(s)
      PROVE  OneActivePerItem'
  <2>1. /\ resOf[s] \in Reservations
        /\ status[resOf[s]] = "active"
        /\ status'[resOf[s]] \in {"cancelled", "expired", "completed"}
        /\ qrInvalidated'[resOf[s]] = TRUE
        /\ status'[resOf[s]] = "expired" => Expiring(s)
        /\ \A q \in Reservations : q # resOf[s] =>
             status'[q] = status[q] /\ qrInvalidated'[q] = qrInvalidated[q]
        /\ UNCHANGED <<resItem, resUser, expiresAt, clock>>
    BY <1>2, ClosesActive
  <2> QED
    BY <2>1 DEF OneActivePerItem
<1>3. CASE \/ \E s \in Sessions : SessionOnly(s) \/ ReceiveItem(s)
           \/ Surroundings
  BY <1>3, OtherStepsRows DEF OneActivePerItem, resVars
<1> QED
  BY <1>1, <1>2, <1>3, StepCases DEF AnyStep

\* Rows not inserted yet stay fresh, and what is being expired stays due.
LEMMA StepFresh ==
  TypeOK /\ RowsExist /\ TestedStaysTrue /\ RowsFresh /\ [Next]_vars
    => RowsFresh'
<1> SUFFICES ASSUME TypeOK, RowsExist, TestedStaysTrue, RowsFresh, [Next]_vars
             PROVE  RowsFresh'
  OBVIOUS
<1>0. TypeOK'
  BY StepType
<1>1. ASSUME NEW r \in Reservations, status'[r] = "none"
      PROVE  ~qrInvalidated'[r]
  <2>1. status[r] = "none"
    BY <1>1, RowsStable
  <2>2. ~qrInvalidated[r]
    BY <2>1 DEF RowsFresh
  <2>3. ASSUME NEW s \in Sessions, CreateReservation(s)
        PROVE  qrInvalidated' = qrInvalidated
    BY <2>3, CreatesActive
  <2>4. ASSUME NEW s \in Sessions,
               \/ CancelReservation(s) \/ ExpireReservation(s)
               \/ CompletePickup(s)
        PROVE  qrInvalidated'[r] = qrInvalidated[r]
    BY <2>1, <2>4, ClosesActive
  <2>5. CASE \/ \E s \in Sessions : SessionOnly(s) \/ ReceiveItem(s)
             \/ Surroundings
    BY <2>2, <2>5, OtherStepsRows DEF resVars
  <2> QED
    BY <2>2, <2>3, <2>4, <2>5, StepCases DEF AnyStep
\* The time a row expires at does not change, and the clock does not go back.
<1>2. ASSUME NEW r \in Reservations, status[r] # "none", expiresAt[r] <= clock
      PROVE  expiresAt'[r] <= clock'
  <2>1. expiresAt'[r] = expiresAt[r] /\ clock' >= clock
    <3>1. ASSUME NEW s \in Sessions, CreateReservation(s)
          PROVE  expiresAt'[r] = expiresAt[r] /\ clock' = clock
      BY <1>2, <3>1, CreatesActive
    <3>2. ASSUME NEW s \in Sessions,
                 \/ CancelReservation(s) \/ ExpireReservation(s)
                 \/ CompletePickup(s)
          PROVE  expiresAt'[r] = expiresAt[r] /\ clock' = clock
      BY <3>2, ClosesActive
    <3>3. CASE \/ \E s \in Sessions : SessionOnly(s) \/ ReceiveItem(s)
               \/ Surroundings
      BY <3>3, OtherStepsRows DEF resVars
    <3> QED
      BY <3>1, <3>2, <3>3, StepCases DEF AnyStep, TypeOK
  <2>2. /\ expiresAt[r] \in Int /\ expiresAt'[r] \in Int
        /\ clock \in Int /\ clock' \in Int
    BY <1>0 DEF TypeOK
  <2> QED
    BY <1>2, <2>1, <2>2
<1>3. ASSUME NEW t \in Sessions
      PROVE  /\ Expiring(t)' =>
                  /\ resOf'[t] \in Reservations /\ status[resOf'[t]] # "none"
                  /\ expiresAt[resOf'[t]] <= clock
             /\ pc'[t] = "cancelling" => t \in Workers
  <2>1. /\ Expiring(t) =>
             /\ resOf[t] \in Reservations /\ status[resOf[t]] # "none"
             /\ expiresAt[resOf[t]] <= clock
        /\ pc[t] = "cancelling" => t \in Workers
    BY DEF RowsFresh, RowsExist, Expiring, Closing, OnReservation,
       HoldsReservation
  <2>2. CASE pc'[t] = pc[t] /\ resOf'[t] = resOf[t]
    BY <2>1, <2>2 DEF Expiring
  <2>3. CASE Surroundings
    BY <2>2, <2>3, SurroundingsUnchanged DEF whereVars
  <2>4. ASSUME NEW s \in Sessions, AnyStep(s), s # t
        PROVE  pc'[t] = pc[t] /\ resOf'[t] = resOf[t]
    BY <2>4, OthersStay
  <2>5. CASE LockItemToClose(t)
    <3>1. /\ pc[t] \in {"cancelling", "expiring"} /\ resOf'[t] = resOf[t]
          /\ pc'[t] \in Closing
      BY <2>5 DEF LockItemToClose, GoOn, TypeOK, Closing
    <3> QED
      BY <2>1, <3>1, ReservationsAssumption DEF Expiring, Closing
  <2>6. ASSUME NEW r \in Reservations, LockToExpire(t, r)
        PROVE  /\ pc'[t] = "expiring" /\ resOf'[t] = r
               /\ status[r] # "none" /\ expiresAt[r] <= clock
    BY <2>6 DEF LockToExpire, GoOn, Due, TypeOK
  <2>7. ASSUME NEW r \in Reservations, LockToCancel(t, r)
        PROVE  pc'[t] = "cancelling" /\ t \in Workers
    BY <2>7 DEF LockToCancel, GoOn, TypeOK
  <2>8. CASE \/ \E r \in Reservations : SkipClosed(t, r)
             \/ \E r \in Reservations, o \in Operators : ScanToken(t, r, o)
             \/ \E i \in Items, u \in Users : LockItemToReserve(t, i, u)
             \/ \E i \in Items, o \in Operators : LockToReceive(t, i, o)
             \/ LockScanned(t) \/ LockItemToCollect(t) \/ LockPayer(t)
             \/ EndSweep(t) \/ Refuse(t) \/ Victim(t) \/ Crash(t)
             \/ ListDue(t) \/ ReceiveItem(t)
             \/ CreateReservation(t) \/ CancelReservation(t)
             \/ ExpireReservation(t) \/ CompletePickup(t)
    <3>1. pc'[t] \in {"idle", "receiving", "reserving", "scanned", "locked",
                     "collecting", "charging", "sweeping"}
      BY <2>8
      DEF TypeOK, SkipClosed, ScanToken, LockItemToReserve, LockToReceive,
          LockScanned, LockItemToCollect, LockPayer, EndSweep, Refuse, Victim,
          Crash, ListDue, ReceiveItem, CreateReservation, CancelReservation,
          ExpireReservation, CompletePickup, Finish, GoOn
    <3> QED
      BY <3>1 DEF Expiring, Closing
  <2>9. CASE AnyStep(t)
    BY <2>5, <2>6, <2>7, <2>8, <2>9
    DEF AnyStep, SessionOnly, Request, Expiring, Closing
  <2> QED
    BY <2>2, <2>3, <2>4, <2>9, StepCases
<1> QED
  BY <1>1, <1>2, <1>3 DEF RowsFresh

\* Every step keeps the reservation rows sound.
LEMMA StepSound ==
  /\ TypeOK /\ RowsExist /\ TestedStaysTrue /\ RowsFresh /\ ReservationsSound
  /\ [Next]_vars
  => ReservationsSound'
<1> SUFFICES ASSUME TypeOK, RowsExist, TestedStaysTrue, RowsFresh,
                    ReservationsSound, [Next]_vars
             PROVE  ReservationsSound'
  OBVIOUS
<1>1. ASSUME NEW s \in Sessions, CreateReservation(s)
      PROVE  ReservationsSound'
  <2>1. PICK r \in Reservations :
          /\ status[r] = "none"
          /\ status'[r] = "active"
          /\ resItem'[r] = askItem[s]
          /\ resUser'[r] # Owner[askItem[s]]
          /\ \A q \in Reservations : q # r =>
               /\ status'[q] = status[q]
               /\ resItem'[q] = resItem[q]
               /\ resUser'[q] = resUser[q]
               /\ expiresAt'[q] = expiresAt[q]
    BY <1>1, CreatesActive
  <2>2. UNCHANGED <<qrInvalidated, clock>>
    BY <1>1, CreatesActive
  <2> QED
    BY <2>1, <2>2 DEF ReservationsSound, RowsFresh, TypeOK
<1>2. ASSUME NEW s \in Sessions,
             \/ CancelReservation(s) \/ ExpireReservation(s)
             \/ CompletePickup(s)
      PROVE  ReservationsSound'
  <2>1. /\ resOf[s] \in Reservations
        /\ status[resOf[s]] = "active"
        /\ status'[resOf[s]] \in {"cancelled", "expired", "completed"}
        /\ qrInvalidated'[resOf[s]] = TRUE
        /\ status'[resOf[s]] = "expired" => Expiring(s)
        /\ \A q \in Reservations : q # resOf[s] =>
             status'[q] = status[q] /\ qrInvalidated'[q] = qrInvalidated[q]
        /\ UNCHANGED <<resItem, resUser, expiresAt, clock>>
    BY <1>2, ClosesActive
  <2> QED
    BY <2>1 DEF ReservationsSound, RowsFresh, TypeOK
<1>3. CASE \/ \E s \in Sessions : SessionOnly(s) \/ ReceiveItem(s)
           \/ Surroundings
  <2>1. UNCHANGED resVars /\ clock' >= clock
    BY <1>3, OtherStepsRows
  <2>2. clock' \in Int
    BY StepType DEF TypeOK
  <2> QED
    BY <2>1, <2>2, OtherStepsRows DEF ReservationsSound, resVars, TypeOK
<1> QED
  BY <1>1, <1>2, <1>3, StepCases DEF AnyStep

\* An object that has come in stays in.
LEMMA StepInventory ==
  TypeOK /\ RowsExist /\ TestedStaysTrue /\ InInventory /\ [Next]_vars
    => InInventory'
<1> SUFFICES ASSUME TypeOK, RowsExist, TestedStaysTrue, InInventory,
                    [Next]_vars, NEW r \in Reservations, status'[r] # "none"
             PROVE  itemStatus'[resItem'[r]] # "absent"
  BY DEF InInventory
<1>1. status[r] # "none" =>
        resItem[r] \in Items /\ itemStatus[resItem[r]] # "absent"
  BY DEF InInventory, RowsExist
<1>2. ASSUME NEW s \in Sessions, CreateReservation(s)
      PROVE  itemStatus'[resItem'[r]] # "absent"
  <2>1. \/ resItem'[r] = askItem[s]
        \/ status[r] # "none" /\ resItem'[r] = resItem[r]
    BY <1>2, CreatesActive
  <2>2. /\ askItem[s] \in Items
        /\ itemStatus' = [itemStatus EXCEPT ![askItem[s]] = "reserved"]
    BY <1>2 DEF CreateReservation, RowsExist
  <2> QED
    BY <1>1, <2>1, <2>2 DEF TypeOK
<1>3. ASSUME NEW s \in Sessions,
             \/ CancelReservation(s) \/ ExpireReservation(s)
             \/ CompletePickup(s)
      PROVE  itemStatus'[resItem'[r]] # "absent"
  <2>1. status[r] # "none" /\ resItem'[r] = resItem[r]
    BY <1>3, ClosesActive
  <2> QED
    BY <1>1, <1>3, <2>1
    DEF CancelReservation, ExpireReservation, CloseUncollected, CompletePickup,
        TypeOK
<1>4. CASE \/ \E s \in Sessions : SessionOnly(s) \/ ReceiveItem(s)
           \/ Surroundings
  <2>1. status[r] # "none" /\ resItem'[r] = resItem[r]
    BY <1>4, OtherStepsRows DEF resVars
  <2>2. ASSUME NEW s \in Sessions, ReceiveItem(s)
        PROVE  itemStatus'[resItem[r]] # "absent"
    BY <1>1, <2>1, <2>2 DEF ReceiveItem, TypeOK
  <2>3. ASSUME NEW s \in Sessions, SessionOnly(s)
        PROVE  itemStatus' = itemStatus
    BY <2>3, SessionOnlyData DEF dataVars, stockVars
  <2>4. CASE Surroundings
    BY <1>1, <2>1, <2>4, ReservationsAssumption
    DEF Surroundings, EditPublication, EditCenter, EditItemStatus, Tick, vars,
        stockVars, TypeOK
  <2> QED
    BY <1>1, <1>4, <2>1, <2>2, <2>3, <2>4
<1> QED
  BY <1>2, <1>3, <1>4, StepCases DEF AnyStep

\* A session locks the object and decides what becomes of it in one step, and
\* no other session writes to the object before it commits.
LEMMA StepDecided ==
  /\ TypeOK /\ RowsExist /\ LocksExclusive /\ TestedStaysTrue
  /\ InInventory /\ DecidedRightly /\ [Next]_vars
  => DecidedRightly'
<1> SUFFICES ASSUME TypeOK, RowsExist, LocksExclusive, TestedStaysTrue, InInventory,
                    DecidedRightly, [Next]_vars, NEW t \in Sessions
             PROVE  /\ t \in overtaken' => pc'[t] \in Closing
                    /\ pc'[t] \in Closing /\ t \notin overtaken' =>
                         (pc'[t] = "returning" <=>
                            /\ itemStatus'[resItem'[resOf'[t]]] = "reserved"
                            /\ approved'[resItem'[resOf'[t]]]
                            /\ outlet'[resItem'[resOf'[t]]] = "open")
  BY DEF DecidedRightly, CatalogReady
<1> DEFINE Goal == /\ t \in overtaken' => pc'[t] \in Closing
                   /\ pc'[t] \in Closing /\ t \notin overtaken' =>
                        (pc'[t] = "returning" <=>
                           /\ itemStatus'[resItem'[resOf'[t]]] = "reserved"
                           /\ approved'[resItem'[resOf'[t]]]
                            /\ outlet'[resItem'[resOf'[t]]] = "open")
<1>1. /\ t \in overtaken => pc[t] \in Closing
      /\ pc[t] \in Closing /\ t \notin overtaken =>
           (pc[t] = "returning" <=>
              /\ itemStatus[resItem[resOf[t]]] = "reserved"
              /\ CatalogReady(resItem[resOf[t]]))
      /\ pc[t] \in Closing =>
           /\ pc[t] \in HoldsReservation \cap HoldsItem
           /\ resOf[t] \in Reservations /\ status[resOf[t]] # "none"
           /\ resItem[resOf[t]] \in Items
  BY DEF DecidedRightly, RowsExist, Closing, OnReservation, HoldsReservation,
     HoldsItem
\* A step that leaves t and what it has read alone.
<1>2. ASSUME pc'[t] = pc[t], resOf'[t] = resOf[t],
             t \in overtaken' <=> t \in overtaken,
             pc[t] \in Closing =>
               LET i == resItem[resOf[t]]
               IN  /\ itemStatus'[i] = itemStatus[i]
                   /\ approved'[i] = approved[i] /\ outlet'[i] = outlet[i]
      PROVE  Goal
  <2>1. pc[t] \in Closing => resItem'[resOf[t]] = resItem[resOf[t]]
    BY <1>1, RowsStable
  <2> QED
    BY <1>1, <1>2, <2>1 DEF CatalogReady
<1>3. CASE AnyStep(t)
  <2>1. CASE LockItemToClose(t)
    <3> DEFINE i == resItem[resOf[t]]
    <3>1. /\ pc'[t] = IF itemStatus[i] = "reserved" /\ CatalogReady(i)
                      THEN "returning" ELSE "keeping"
          /\ resOf'[t] = resOf[t] /\ overtaken' = overtaken
          /\ UNCHANGED <<stockVars, resVars>> /\ pc[t] \notin Closing
      BY <2>1 DEF LockItemToClose, GoOn, TypeOK, Closing
    <3> QED
      BY <1>1, <3>1 DEF Closing, CatalogReady, stockVars, resVars
  <2>2. CASE ~LockItemToClose(t)
    <3>1. /\ pc'[t] \notin Closing
          /\ t \in overtaken' => t \in overtaken /\ pc'[t] = pc[t]
      <4>1. CASE \/ EndSweep(t) \/ Refuse(t) \/ Victim(t) \/ Crash(t)
                 \/ ReceiveItem(t) \/ CreateReservation(t)
                 \/ CancelReservation(t) \/ CompletePickup(t)
        BY <4>1 DEF EndSweep, Refuse, Victim, Crash, ReceiveItem,
           CreateReservation, CancelReservation, CompletePickup, Finish,
           Closing, TypeOK
      <4>2. CASE ExpireReservation(t)
        BY <4>2 DEF ExpireReservation, Closing, TypeOK
      <4>3. CASE SessionOnly(t) /\ ~(EndSweep(t) \/ Refuse(t) \/ Victim(t)
                                        \/ Crash(t))
        BY <1>1, <2>2, <4>3
        DEF SessionOnly, Request, LockToExpire, SkipClosed, LockScanned,
            LockItemToCollect, LockPayer, LockItemToReserve, LockToCancel,
            ScanToken, ListDue, LockToReceive, GoOn, Closing, TypeOK
      <4> QED
        BY <1>3, <4>1, <4>2, <4>3 DEF AnyStep
    <3> QED
      BY <1>1, <3>1
  <2> QED
    BY <2>1, <2>2
<1>4. ASSUME NEW s \in Sessions, AnyStep(s), s # t
      PROVE  Goal
  <2>1. /\ pc'[t] = pc[t] /\ resOf'[t] = resOf[t]
        /\ t \in overtaken' <=> t \in overtaken
    BY <1>4, OthersStay
  <2>2. UNCHANGED <<approved, outlet>>
    BY <1>4, SessionOnlyData
    DEF AnyStep, dataVars, stockVars, ReceiveItem, CreateReservation,
        CancelReservation, ExpireReservation, CloseUncollected, CompletePickup
  <2>3. ASSUME pc[t] \in Closing
        PROVE  itemStatus'[resItem[resOf[t]]] = itemStatus[resItem[resOf[t]]]
    <3>1. Apart(s, t) /\ Apart(t, s)
      BY <1>4 DEF LocksExclusive
    <3>2. CASE SessionOnly(s)
      BY <3>2, SessionOnlyData DEF dataVars, stockVars
    <3>3. CASE ReceiveItem(s)
      <4>1. /\ itemStatus[askItem[s]] = "absent" /\ pc[s] = "receiving"
            /\ itemStatus' = [itemStatus EXCEPT ![askItem[s]] = "available"]
        BY <3>3 DEF ReceiveItem, TestedStaysTrue
      <4> QED
        BY <4>1, <1>1, <2>3 DEF InInventory, TypeOK
    <3>4. CASE CreateReservation(s)
      <4>1. /\ pc[s] = "reserving"
            /\ itemStatus' = [itemStatus EXCEPT ![askItem[s]] = "reserved"]
        BY <3>4 DEF CreateReservation
      <4> QED
        BY <4>1, <1>1, <2>3, <3>1 DEF Apart, TypeOK
    <3>5. CASE CancelReservation(s) \/ ExpireReservation(s) \/ CompletePickup(s)
      <4>1. /\ pc[s] \in HoldsItem
            /\ \A i \in Items : i # resItem[resOf[s]] =>
                 itemStatus'[i] = itemStatus[i]
        BY <3>5 DEF CancelReservation, ExpireReservation, CompletePickup,
           CloseUncollected, HoldsItem, TypeOK
      <4> QED
        BY <4>1, <1>1, <2>3, <3>1 DEF Apart
    <3> QED
      BY <1>4, <3>2, <3>3, <3>4, <3>5 DEF AnyStep
  <2> QED
    BY <1>2, <2>1, <2>2, <2>3
<1>5. CASE Surroundings
  <2>1. UNCHANGED <<resVars, whereVars>>
    BY <1>5, SurroundingsUnchanged
  <2>2. ASSUME NEW i \in VolatileItems,
               EditPublication(i) \/ \E o \in Outlets : EditCenter(i, o)
        PROVE  Goal
    <3>1. /\ overtaken' = overtaken \cup ClosingOn(i)
          /\ UNCHANGED itemStatus
          /\ \A j \in Items : j # i =>
               approved'[j] = approved[j] /\ outlet'[j] = outlet[j]
      BY <2>2 DEF EditPublication, EditCenter, TypeOK
    <3>2. CASE t \in ClosingOn(i)
      BY <2>1, <3>1, <3>2 DEF ClosingOn, Closing, whereVars
    <3>3. CASE t \notin ClosingOn(i)
      <4>1. pc[t] \in Closing => resItem[resOf[t]] # i
        BY <3>3 DEF ClosingOn, Closing
      <4> QED
        BY <1>1, <1>2, <2>1, <3>1, <3>3, <4>1 DEF whereVars
    <3> QED
      BY <3>2, <3>3
  <2>3. ASSUME NEW i \in Items, NEW st \in StaffStatuses, EditItemStatus(i, st)
        PROVE  Goal
    <3>1. /\ ItemFree(i) /\ UNCHANGED <<approved, outlet, overtaken>>
          /\ itemStatus' = [itemStatus EXCEPT ![i] = st]
      BY <2>3 DEF EditItemStatus, sessionVars
    <3>2. pc[t] \in Closing => resItem[resOf[t]] # i
      BY <3>1 DEF ItemFree, Closing
    <3> QED
      BY <1>1, <1>2, <2>1, <3>1, <3>2 DEF whereVars, TypeOK
  <2>4. CASE Tick \/ UNCHANGED vars
    BY <1>2, <2>1, <2>4 DEF Tick, vars, stockVars, sessionVars, whereVars
  <2> QED
    BY <1>5, <2>2, <2>3, <2>4 DEF Surroundings
<1> QED
  BY <1>3, <1>4, <1>5, StepCases

\* What a step may never do to a closed reservation.
LEMMA StepClosed ==
  /\ TypeOK /\ RowsExist /\ TestedStaysTrue /\ [Next]_vars
  => \A r \in Reservations :
       status[r] \in {"expired", "cancelled", "completed"} =>
         UNCHANGED <<status[r], resItem[r], resUser[r], qrInvalidated[r]>>
<1> SUFFICES ASSUME TypeOK, RowsExist, TestedStaysTrue, [Next]_vars,
                    NEW r \in Reservations,
                    status[r] \in {"expired", "cancelled", "completed"}
             PROVE  UNCHANGED <<status[r], resItem[r], resUser[r],
                                qrInvalidated[r]>>
  OBVIOUS
<1>1. ASSUME NEW s \in Sessions, CreateReservation(s)
      PROVE  UNCHANGED <<status[r], resItem[r], resUser[r], qrInvalidated[r]>>
  BY <1>1, CreatesActive
<1>2. ASSUME NEW s \in Sessions,
             \/ CancelReservation(s) \/ ExpireReservation(s)
             \/ CompletePickup(s)
      PROVE  UNCHANGED <<status[r], resItem[r], resUser[r], qrInvalidated[r]>>
  BY <1>2, ClosesActive
<1>3. CASE \/ \E s \in Sessions : SessionOnly(s) \/ ReceiveItem(s)
           \/ Surroundings
  BY <1>3, OtherStepsRows DEF resVars
<1> QED
  BY <1>1, <1>2, <1>3, StepCases DEF AnyStep

(***************************************************************************)
(* The ledger.                                                             *)
(***************************************************************************)

\* Recording a movement adds one to one of the counts a balance is made of,
\* or is a repeat.
LEMMA MovementCounts ==
  ASSUME IsFiniteSet(movements), NEW w, NEW reason, NEW about,
         CreatePointMovement(w, reason, about), NEW u, NEW x
  PROVE  /\ IsFiniteSet(movements')
         /\ Cardinality(MovementsOf(u, x)) \in Nat
         /\ Cardinality(MovementsOf(u, x))' =
              IF /\ u = w /\ x = reason
                 /\ [user |-> w, reason |-> reason, about |-> about]
                      \notin movements
              THEN Cardinality(MovementsOf(u, x)) + 1
              ELSE Cardinality(MovementsOf(u, x))
<1> DEFINE m == [user |-> w, reason |-> reason, about |-> about]
<1>1. movements' = movements \cup {m}
  BY DEF CreatePointMovement
<1>2. IsFiniteSet(movements')
  BY <1>1, FS_AddElement
<1>3. IsFiniteSet(MovementsOf(u, x))
  BY FS_Subset DEF MovementsOf
<1>4. CASE u = w /\ x = reason /\ m \notin movements
  <2>1. MovementsOf(u, x)' = MovementsOf(u, x) \cup {m}
    BY <1>1, <1>4 DEF MovementsOf
  <2>2. m \notin MovementsOf(u, x)
    BY <1>4 DEF MovementsOf
  <2> QED
    BY <1>2, <1>3, <1>4, <2>1, <2>2, FS_AddElement, FS_CardinalityType
<1>5. CASE ~(u = w /\ x = reason /\ m \notin movements)
  <2>1. MovementsOf(u, x)' = MovementsOf(u, x)
    BY <1>1, <1>5 DEF MovementsOf
  <2> QED
    BY <1>2, <1>3, <1>5, <2>1, FS_CardinalityType
<1> QED
  BY <1>4, <1>5

\* Every step keeps the ledger finite, so that it can be counted.
LEMMA StepFinite ==
  IsFiniteSet(movements) /\ [Next]_vars => IsFiniteSet(movements')
<1> SUFFICES ASSUME IsFiniteSet(movements), [Next]_vars
             PROVE  IsFiniteSet(movements')
  OBVIOUS
<1>1. ASSUME UNCHANGED movements
      PROVE  IsFiniteSet(movements')
  BY <1>1
<1>2. ASSUME NEW w, NEW reason, NEW about, CreatePointMovement(w, reason, about)
      PROVE  IsFiniteSet(movements')
  BY <1>2, MovementCounts
<1> QED
  BY <1>1, <1>2, StepCases, SessionOnlyData
  DEF AnyStep, dataVars, CreateReservation, CancelReservation, ExpireReservation,
      CloseUncollected, CompletePickup, ReceiveItem, Surroundings,
      EditPublication, EditCenter, EditItemStatus, Tick, vars

\* Every step keeps the charges in the ledger those of the completed pickups.
LEMMA StepPaid ==
  TypeOK /\ RowsExist /\ TestedStaysTrue /\ PaidIffCollected /\ [Next]_vars
    => PaidIffCollected'
<1> SUFFICES ASSUME TypeOK, RowsExist, TestedStaysTrue, PaidIffCollected,
                    [Next]_vars, NEW r \in Reservations
             PROVE  {m \in movements' : m.reason = "object_picked_up"
                                          /\ m.about = r} =
                      IF status'[r] = "completed"
                      THEN {[user |-> resUser'[r],
                             reason |-> "object_picked_up", about |-> r]}
                      ELSE {}
  BY DEF PaidIffCollected
<1> DEFINE Charges == {m \in movements : m.reason = "object_picked_up"
                                           /\ m.about = r}
           Goal == Charges' =
                     IF status'[r] = "completed"
                     THEN {[user |-> resUser'[r],
                            reason |-> "object_picked_up", about |-> r]}
                     ELSE {}
<1>0. Charges = IF status[r] = "completed"
                THEN {[user |-> resUser[r],
                       reason |-> "object_picked_up", about |-> r]}
                ELSE {}
  BY DEF PaidIffCollected
<1>1. ASSUME NEW s \in Sessions, CreateReservation(s)
      PROVE  Goal
  <2>1. movements' = movements
    BY <1>1 DEF CreateReservation
  <2>2. \/ status[r] = "none" /\ status'[r] = "active"
        \/ status'[r] = status[r] /\ resUser'[r] = resUser[r]
    BY <1>1, CreatesActive
  <2> QED
    BY <1>0, <2>1, <2>2
<1>2. ASSUME NEW s \in Sessions, CancelReservation(s) \/ ExpireReservation(s)
      PROVE  Goal
  <2>1. movements' = movements /\ resUser' = resUser
    BY <1>2 DEF CancelReservation, ExpireReservation, CloseUncollected
  <2>2. \/ status'[r] = status[r]
        \/ status[r] = "active" /\ status'[r] \in {"cancelled", "expired"}
    BY <1>2, ClosesActive
    DEF CancelReservation, ExpireReservation, CloseUncollected, TypeOK
  <2> QED
    BY <1>0, <2>1, <2>2
<1>3. ASSUME NEW s \in Sessions, CompletePickup(s)
      PROVE  Goal
  <2> DEFINE charge == [user |-> resUser[resOf[s]],
                        reason |-> "object_picked_up", about |-> resOf[s]]
  <2>1. movements' = movements \cup {charge} /\ resUser' = resUser
    BY <1>3 DEF CompletePickup, CreatePointMovement
  <2>2. CASE r = resOf[s]
    <3>1. status[r] = "active" /\ status'[r] = "completed"
      BY <1>3, <2>2, ClosesActive DEF CompletePickup, TypeOK
    <3>2. Charges = {}
      BY <1>0, <3>1
    <3>3. Charges' = {charge}
      BY <2>1, <2>2, <3>2
    <3> QED
      BY <2>1, <2>2, <3>1, <3>3
  <2>3. CASE r # resOf[s]
    <3>1. status'[r] = status[r]
      BY <1>3, <2>3, ClosesActive
    <3>2. Charges' = Charges
      BY <2>1, <2>3
    <3> QED
      BY <1>0, <2>1, <3>1, <3>2
  <2> QED
    BY <2>2, <2>3
<1>4. ASSUME NEW s \in Sessions, ReceiveItem(s)
      PROVE  Goal
  <2>1. Charges' = Charges
    BY <1>4 DEF ReceiveItem, CreatePointMovement
  <2>2. UNCHANGED resVars
    BY <1>4 DEF ReceiveItem
  <2> QED
    BY <1>0, <2>1, <2>2 DEF resVars
<1>5. CASE (\E s \in Sessions : SessionOnly(s)) \/ Surroundings
  <2>1. movements' = movements /\ UNCHANGED resVars
    BY <1>5, SessionOnlyData, SurroundingsUnchanged DEF dataVars
  <2> QED
    BY <1>0, <2>1 DEF resVars
<1> QED
  BY <1>1, <1>2, <1>3, <1>4, <1>5, StepCases DEF AnyStep

\* One more factor adds its multiplicand, for the solver.
LEMMA TimesNext == \A a, n \in Int : a * (n + 1) = a * n + a /\ a * n \in Int
  OBVIOUS

\* A product of natural numbers is one, for the solver.
LEMMA TimesNat == \A a, n \in Nat : a * n \in Nat
  OBVIOUS

\* Points are only spent by a person who was found to have them, and only
\* registered and awarded otherwise.
LEMMA StepOverdrawn ==
  /\ TypeOK /\ RowsExist /\ TestedStaysTrue /\ PaidIffCollected
  /\ NeverOverdrawn /\ IsFiniteSet(movements) /\ [Next]_vars
  => NeverOverdrawn'
<1> SUFFICES ASSUME TypeOK, RowsExist, TestedStaysTrue, PaidIffCollected,
                    NeverOverdrawn, IsFiniteSet(movements), [Next]_vars,
                    NEW u \in Users
             PROVE  PICKUP_POINTS *
                      Cardinality(MovementsOf(u, "object_picked_up"))' <=
                    REGISTRATION_POINTS *
                      Cardinality(MovementsOf(u, "registration"))'
                    + ACCEPTED_OBJECT_POINTS *
                        Cardinality(MovementsOf(u, "object_accepted"))'
  BY DEF NeverOverdrawn
<1> DEFINE n(x) == Cardinality(MovementsOf(u, x))
           Goal == PICKUP_POINTS * n("object_picked_up")' <=
                     REGISTRATION_POINTS * n("registration")'
                       + ACCEPTED_OBJECT_POINTS * n("object_accepted")'
<1>0. /\ PICKUP_POINTS * n("object_picked_up") <=
           REGISTRATION_POINTS * n("registration")
             + ACCEPTED_OBJECT_POINTS * n("object_accepted")
      /\ PICKUP_POINTS \in Int /\ REGISTRATION_POINTS \in Int
      /\ ACCEPTED_OBJECT_POINTS \in Nat
  BY PointsAssumption DEF NeverOverdrawn
<1>1. CASE UNCHANGED movements
  BY <1>0, <1>1 DEF MovementsOf
<1>2. ASSUME NEW s \in Sessions, ReceiveItem(s)
      PROVE  Goal
  <2> DEFINE i == askItem[s]
  <2>1. CreatePointMovement(Owner[i], "object_accepted", i)
    BY <1>2 DEF ReceiveItem
  <2>2. /\ n("object_picked_up")' = n("object_picked_up")
        /\ n("registration")' = n("registration")
        /\ n("object_accepted") \in Nat
        /\ n("object_picked_up") \in Nat
        /\ n("registration") \in Nat
        /\ \/ n("object_accepted")' = n("object_accepted")
           \/ n("object_accepted")' = n("object_accepted") + 1
    <3>1. ASSUME NEW x
          PROVE  /\ n(x) \in Nat
                 /\ n(x)' = n(x) \/ n(x)' = n(x) + 1
                 /\ x # "object_accepted" => n(x)' = n(x)
      <4>1. /\ Cardinality(MovementsOf(u, x)) \in Nat
            /\ Cardinality(MovementsOf(u, x))' =
                 IF /\ u = Owner[i] /\ x = "object_accepted"
                    /\ [user |-> Owner[i], reason |-> "object_accepted",
                        about |-> i] \notin movements
                 THEN Cardinality(MovementsOf(u, x)) + 1
                 ELSE Cardinality(MovementsOf(u, x))
        BY <2>1, MovementCounts
      <4> QED
        BY <4>1
    <3> QED
      BY <3>1
  <2> HIDE DEF n
  <2>3. ACCEPTED_OBJECT_POINTS * (n("object_accepted") + 1)
          = ACCEPTED_OBJECT_POINTS * n("object_accepted")
              + ACCEPTED_OBJECT_POINTS
    BY <1>0, <2>2, TimesNext
  <2>4. /\ PICKUP_POINTS * n("object_picked_up") \in Int
        /\ REGISTRATION_POINTS * n("registration") \in Int
        /\ ACCEPTED_OBJECT_POINTS * n("object_accepted") \in Int
    BY <1>0, <2>2, TimesNext
  <2> QED
    BY <1>0, <2>2, <2>3, <2>4
<1>3. ASSUME NEW s \in Sessions, CompletePickup(s)
      PROVE  Goal
  <2>1. /\ CreatePointMovement(resUser[resOf[s]], "object_picked_up", resOf[s])
        /\ pc[s] = "charging"
    BY <1>3 DEF CompletePickup
  <2>2. /\ n("object_accepted")' = n("object_accepted")
        /\ n("registration")' = n("registration")
        /\ n("object_accepted") \in Nat
        /\ n("object_picked_up") \in Nat
        /\ n("registration") \in Nat
        /\ \/ n("object_picked_up")' = n("object_picked_up")
           \/ /\ n("object_picked_up")' = n("object_picked_up") + 1
              /\ u = resUser[resOf[s]]
    <3>1. ASSUME NEW x
          PROVE  /\ n(x) \in Nat
                 /\ \/ n(x)' = n(x)
                    \/ n(x)' = n(x) + 1 /\ u = resUser[resOf[s]]
                 /\ x # "object_picked_up" => n(x)' = n(x)
      <4>1. /\ Cardinality(MovementsOf(u, x)) \in Nat
            /\ Cardinality(MovementsOf(u, x))' =
                 IF /\ u = resUser[resOf[s]] /\ x = "object_picked_up"
                    /\ [user |-> resUser[resOf[s]],
                        reason |-> "object_picked_up", about |-> resOf[s]]
                          \notin movements
                 THEN Cardinality(MovementsOf(u, x)) + 1
                 ELSE Cardinality(MovementsOf(u, x))
        BY <2>1, MovementCounts
      <4> QED
        BY <4>1
    <3> QED
      BY <3>1
  <2>3. u = resUser[resOf[s]] =>
          REGISTRATION_POINTS * n("registration")
            + ACCEPTED_OBJECT_POINTS * n("object_accepted")
            - PICKUP_POINTS * n("object_picked_up") >= PICKUP_POINTS
    BY <2>1 DEF TestedStaysTrue, HasSufficientPoints, PointsBalance
  <2> HIDE DEF n
  <2>4. PICKUP_POINTS * (n("object_picked_up") + 1)
          = PICKUP_POINTS * n("object_picked_up") + PICKUP_POINTS
    BY <1>0, <2>2, TimesNext
  <2>5. /\ PICKUP_POINTS * n("object_picked_up") \in Int
        /\ REGISTRATION_POINTS * n("registration") \in Int
        /\ ACCEPTED_OBJECT_POINTS * n("object_accepted") \in Int
    BY <1>0, <2>2, TimesNext
  <2> QED
    BY <1>0, <2>2, <2>3, <2>4, <2>5
<1> QED
  BY <1>1, <1>2, <1>3, StepCases, SessionOnlyData, SurroundingsUnchanged
  DEF AnyStep, dataVars, CreateReservation, CancelReservation, ExpireReservation,
      CloseUncollected

\* An award names whoever gave the object.
LEMMA StepAwards ==
  AwardsToOwners /\ [Next]_vars => AwardsToOwners'
<1> SUFFICES ASSUME AwardsToOwners, [Next]_vars PROVE AwardsToOwners'
  OBVIOUS
<1>1. CASE UNCHANGED movements
  BY <1>1 DEF AwardsToOwners
<1>2. ASSUME NEW s \in Sessions, ReceiveItem(s) PROVE AwardsToOwners'
  BY <1>2 DEF ReceiveItem, CreatePointMovement, AwardsToOwners
<1>3. ASSUME NEW s \in Sessions, CompletePickup(s) PROVE AwardsToOwners'
  BY <1>3 DEF CompletePickup, CreatePointMovement, AwardsToOwners
<1> QED
  BY <1>1, <1>2, <1>3, StepCases, SessionOnlyData
  DEF AnyStep, dataVars, CreateReservation, CancelReservation,
      ExpireReservation, CloseUncollected, Surroundings, EditPublication,
      EditCenter, EditItemStatus, Tick, vars

\* A session keeps its operator from the request to COMMIT.
LEMMA StepOperators ==
  TypeOK /\ OperatorsKnown /\ [Next]_vars => OperatorsKnown'
<1> SUFFICES ASSUME TypeOK, OperatorsKnown, [Next]_vars, NEW t \in Sessions,
                    pc'[t] \in {"receiving", "scanned", "locked", "collecting",
                               "charging"}
             PROVE  askUser'[t] \in Operators
  BY DEF OperatorsKnown
<1>1. CASE pc'[t] = pc[t] /\ askUser'[t] = askUser[t]
  BY <1>1 DEF OperatorsKnown
<1>2. CASE Surroundings
  BY <1>1, <1>2, SurroundingsUnchanged DEF whereVars
<1>3. ASSUME NEW s \in Sessions, AnyStep(s), s # t
      PROVE  askUser'[t] \in Operators
  BY <1>1, <1>3, OthersStay
<1>4. CASE AnyStep(t)
  <2>1. CASE LockScanned(t) \/ LockItemToCollect(t) \/ LockPayer(t)
    BY <2>1
    DEF LockScanned, LockItemToCollect, LockPayer, GoOn, OperatorsKnown
  <2>2. CASE \/ \E r \in Reservations, o \in Operators : ScanToken(t, r, o)
             \/ \E i \in Items, o \in Operators : LockToReceive(t, i, o)
    BY <2>2 DEF ScanToken, LockToReceive, TypeOK
  <2>3. CASE \E r \in Reservations : SkipClosed(t, r)
    BY <1>1, <2>3 DEF SkipClosed
  <2>4. CASE \/ \E r \in Reservations : LockToExpire(t, r) \/ LockToCancel(t, r)
             \/ \E i \in Items, u \in Users : LockItemToReserve(t, i, u)
             \/ LockItemToClose(t) \/ ListDue(t) \/ ExpireReservation(t)
    BY <2>4
    DEF LockToExpire, LockToCancel, LockItemToReserve, LockItemToClose, ListDue,
        ExpireReservation, GoOn, TypeOK
  <2>5. CASE \/ EndSweep(t) \/ Refuse(t) \/ Victim(t) \/ Crash(t)
             \/ ReceiveItem(t) \/ CreateReservation(t)
             \/ CancelReservation(t) \/ CompletePickup(t)
    BY <2>5 DEF EndSweep, Refuse, Victim, Crash, ReceiveItem,
       CreateReservation, CancelReservation, CompletePickup, Finish, TypeOK
  <2> QED
    BY <1>4, <2>1, <2>2, <2>3, <2>4, <2>5 DEF AnyStep, SessionOnly, Request
<1> QED
  BY <1>2, <1>3, <1>4, StepCases

(***************************************************************************)
(* The safety invariant.                                                   *)
(***************************************************************************)

\* The initial state satisfies the inductive invariant.
LEMMA InitSafety == Init => SafetyInv
<1> SUFFICES ASSUME Init PROVE SafetyInv
  OBVIOUS
<1>1. TypeOK
  BY InitType
<1>2. /\ RowsExist /\ RowsFresh /\ LocksExclusive /\ TestedStaysTrue
      /\ OneActivePerItem /\ ReservationsSound
  BY DEF Init, RowsExist, RowsFresh, LocksExclusive, Apart, TestedStaysTrue,
     OneActivePerItem, ReservationsSound, OnReservation, HoldsReservation,
     HoldsItem, Expiring, Closing, HeldUser
<1>7. InInventory /\ DecidedRightly /\ OperatorsKnown
  BY DEF Init, InInventory, DecidedRightly, OperatorsKnown, Closing
<1>3. PICK R \in SUBSET Users :
        movements = {[user |-> u, reason |-> "registration", about |-> u] :
                       u \in R}
  BY DEF Init
<1>4. PaidIffCollected /\ AwardsToOwners
  BY <1>3 DEF Init, PaidIffCollected, AwardsToOwners
<1>5. IsFiniteSet(movements)
  <2>1. IsFiniteSet(R)
    BY PointsAssumption, FS_Subset
  <2> DEFINE f == [u \in R |->
                     [user |-> u, reason |-> "registration", about |-> u]]
  <2>2. f \in Surjection(R, movements)
    BY <1>3 DEF Surjection
  <2> QED
    BY <2>1, <2>2, FS_Surjection
<1>6. NeverOverdrawn
  <2> SUFFICES ASSUME NEW u \in Users
               PROVE  PICKUP_POINTS *
                        Cardinality(MovementsOf(u, "object_picked_up")) <=
                      REGISTRATION_POINTS *
                        Cardinality(MovementsOf(u, "registration"))
                      + ACCEPTED_OBJECT_POINTS *
                          Cardinality(MovementsOf(u, "object_accepted"))
    BY DEF NeverOverdrawn
  <2>1. MovementsOf(u, "object_picked_up") = {}
    BY <1>3 DEF MovementsOf
  <2>2. Cardinality(MovementsOf(u, "object_picked_up")) = 0
    BY <2>1, FS_EmptySet
  <2>3. \A x : Cardinality(MovementsOf(u, x)) \in Nat
    BY <1>5, FS_Subset, FS_CardinalityType DEF MovementsOf
  <2>4. /\ REGISTRATION_POINTS *
             Cardinality(MovementsOf(u, "registration")) \in Nat
        /\ ACCEPTED_OBJECT_POINTS *
             Cardinality(MovementsOf(u, "object_accepted")) \in Nat
    BY <2>3, TimesNat, PointsAssumption
  <2>5. PICKUP_POINTS * 0 = 0
    BY PointsAssumption
  <2> QED
    BY <2>2, <2>4, <2>5
<1> QED
  BY <1>1, <1>2, <1>4, <1>5, <1>6, <1>7 DEF SafetyInv

\* The inductive invariant is kept by every step.
LEMMA StepSafety == SafetyInv /\ [Next]_vars => SafetyInv'
  BY StepType, StepRows, StepFresh, StepLocks, StepTested, StepOneActive,
     StepSound, StepInventory, StepDecided, StepAwards, StepOperators,
     StepPaid, StepOverdrawn, StepFinite
  DEF SafetyInv

(***************************************************************************)
(* Custody: what holds when staff do not write to objects by hand.         *)
(***************************************************************************)

\* What a step does to the status of the objects.
LEMMA OtherStepsItems ==
  ASSUME StaffStatuses = {},
         (\E s \in Sessions : SessionOnly(s)) \/ Surroundings
  PROVE  UNCHANGED itemStatus
<1>1. ASSUME NEW s \in Sessions, SessionOnly(s)
      PROVE  UNCHANGED itemStatus
  BY <1>1, SessionOnlyData DEF dataVars, stockVars
<1> QED
  BY <1>1 DEF Surroundings, EditPublication, EditCenter, Tick, vars, stockVars

\* When staff write to no object, an active reservation keeps its object
\* RESERVED: a step that takes it out of RESERVED closes the reservation.
LEMMA StepHolds ==
  /\ StaffStatuses = {}
  /\ TypeOK /\ RowsExist /\ TestedStaysTrue /\ OneActivePerItem
  /\ ActiveHoldsItem /\ [Next]_vars
  => ActiveHoldsItem'
<1> SUFFICES ASSUME StaffStatuses = {}, TypeOK, RowsExist, TestedStaysTrue,
                    OneActivePerItem, ActiveHoldsItem, [Next]_vars,
                    NEW q \in Reservations, status'[q] = "active"
             PROVE  itemStatus'[resItem'[q]] = "reserved"
  BY DEF ActiveHoldsItem
<1>1. status[q] = "active" =>
        resItem[q] \in Items /\ itemStatus[resItem[q]] = "reserved"
  BY DEF RowsExist, ActiveHoldsItem
<1>2. ASSUME NEW s \in Sessions, CreateReservation(s)
      PROVE  itemStatus'[resItem'[q]] = "reserved"
  <2>1. /\ askItem[s] \in Items
        /\ itemStatus' = [itemStatus EXCEPT ![askItem[s]] = "reserved"]
    BY <1>2 DEF CreateReservation, RowsExist
  <2>2. \/ resItem'[q] = askItem[s]
        \/ status[q] = "active" /\ resItem'[q] = resItem[q]
    BY <1>2, CreatesActive
  <2> QED
    BY <1>1, <2>1, <2>2 DEF TypeOK
<1>3. ASSUME NEW s \in Sessions,
             \/ CancelReservation(s) \/ ExpireReservation(s)
             \/ CompletePickup(s)
      PROVE  itemStatus'[resItem'[q]] = "reserved"
  <2>1. /\ resOf[s] \in Reservations /\ status[resOf[s]] = "active"
        /\ status'[resOf[s]] # "active"
        /\ resItem' = resItem
        /\ q # resOf[s] => status[q] = "active"
    BY <1>3, ClosesActive
  <2>2. status[q] = "active" /\ resItem[q] # resItem[resOf[s]]
    BY <2>1 DEF OneActivePerItem
  <2>3. itemStatus'[resItem[q]] = itemStatus[resItem[q]]
    BY <1>1, <1>3, <2>2
    DEF CancelReservation, ExpireReservation, CompletePickup,
        CloseUncollected, TypeOK
  <2> QED
    BY <1>1, <2>1, <2>2, <2>3
<1>4. ASSUME NEW s \in Sessions, ReceiveItem(s)
      PROVE  itemStatus'[resItem'[q]] = "reserved"
  BY <1>1, <1>4 DEF ReceiveItem, TestedStaysTrue, resVars, TypeOK
<1>5. CASE (\E s \in Sessions : SessionOnly(s)) \/ Surroundings
  BY <1>1, <1>5, OtherStepsItems, OtherStepsRows DEF resVars
<1> QED
  BY <1>2, <1>3, <1>4, <1>5, StepCases DEF AnyStep

\* When staff write to no object, only a pickup delivers one, and completes its
\* reservation in the same step.
LEMMA StepDelivered ==
  /\ StaffStatuses = {}
  /\ TypeOK /\ RowsExist /\ TestedStaysTrue /\ DeliveredOnce /\ [Next]_vars
  => DeliveredOnce'
<1> SUFFICES ASSUME StaffStatuses = {}, TypeOK, RowsExist, TestedStaysTrue,
                    DeliveredOnce, [Next]_vars
             PROVE  DeliveredOnce'
  OBVIOUS
<1> DEFINE Completed(i, r) == status[r] = "completed" /\ resItem[r] = i
<1>1. ASSUME \A i \in Items : itemStatus'[i] = "delivered" <=>
                                itemStatus[i] = "delivered",
             \A i \in Items, r \in Reservations :
               Completed(i, r)' <=> Completed(i, r),
             \A r \in Reservations : status'[r] = "completed" =>
               resItem'[r] \in Items
      PROVE  DeliveredOnce'
  BY <1>1 DEF DeliveredOnce
<1>2. \A r \in Reservations : status'[r] = "completed" => resItem'[r] \in Items
  BY StepRows DEF RowsExist
<1>3. ASSUME NEW s \in Sessions, CreateReservation(s)
      PROVE  DeliveredOnce'
  <2>1. /\ itemStatus[askItem[s]] = "available"
        /\ itemStatus' = [itemStatus EXCEPT ![askItem[s]] = "reserved"]
    BY <1>3 DEF CreateReservation, TestedStaysTrue
  <2>2. \A r \in Reservations :
          \/ status'[r] = status[r] /\ resItem'[r] = resItem[r]
          \/ status[r] = "none" /\ status'[r] = "active"
    BY <1>3, CreatesActive
  <2> QED
    BY <1>1, <1>2, <2>1, <2>2 DEF TypeOK
<1>4. ASSUME NEW s \in Sessions, CancelReservation(s) \/ ExpireReservation(s)
      PROVE  DeliveredOnce'
  <2>1. \A i \in Items : itemStatus'[i] = "delivered" <=>
                           itemStatus[i] = "delivered"
    BY <1>4
    DEF CancelReservation, ExpireReservation, CloseUncollected, TestedStaysTrue,
        TypeOK
  <2>2. \A r \in Reservations :
          /\ resItem'[r] = resItem[r]
          /\ \/ status'[r] = status[r]
             \/ /\ status[r] = "active"
                /\ status'[r] \in {"cancelled", "expired"}
    BY <1>4, ClosesActive
    DEF CancelReservation, ExpireReservation, CloseUncollected, TypeOK
  <2> QED
    BY <1>1, <1>2, <2>1, <2>2
<1>5. ASSUME NEW s \in Sessions, CompletePickup(s)
      PROVE  DeliveredOnce'
  <2> DEFINE c == resOf[s]
  <2>1. /\ c \in Reservations /\ resItem[c] \in Items
        /\ status[c] = "active" /\ status'[c] = "completed"
        /\ resItem' = resItem
        /\ \A q \in Reservations : q # c => status'[q] = status[q]
    BY <1>5, ClosesActive DEF CompletePickup, TypeOK
  <2>2. itemStatus[resItem[c]] = "reserved"
    BY <1>5 DEF CompletePickup, TestedStaysTrue
  <2>3. \A q \in Reservations : status[q] = "completed" =>
          resItem[q] # resItem[c]
    BY <2>1, <2>2 DEF DeliveredOnce
  <2>4. itemStatus' = [itemStatus EXCEPT ![resItem[c]] = "delivered"]
    BY <1>5 DEF CompletePickup
  <2> HIDE DEF c
  <2> QED
    BY <2>1, <2>3, <2>4 DEF DeliveredOnce, TypeOK
<1>6. ASSUME NEW s \in Sessions, ReceiveItem(s)
      PROVE  DeliveredOnce'
  <2>1. UNCHANGED <<status, resItem>>
    BY <1>6 DEF ReceiveItem, resVars
  <2>2. \A j \in Items : itemStatus'[j] = "delivered" <=>
                           itemStatus[j] = "delivered"
    BY <1>6 DEF ReceiveItem, TestedStaysTrue, TypeOK
  <2> QED
    BY <1>1, <1>2, <2>1, <2>2
<1>7. CASE (\E s \in Sessions : SessionOnly(s)) \/ Surroundings
  <2>1. UNCHANGED <<status, resItem, itemStatus>>
    BY <1>7, OtherStepsItems, OtherStepsRows DEF resVars
  <2> QED
    BY <1>1, <1>2, <2>1
<1> QED
  BY <1>3, <1>4, <1>5, <1>6, <1>7, StepCases DEF AnyStep

\* The initial state satisfies the invariant of the circuit without hand edits.
LEMMA InitCustody == Init => CustodyInv
<1> SUFFICES ASSUME Init PROVE CustodyInv
  OBVIOUS
<1>1. ActiveHoldsItem /\ DeliveredOnce
  BY DEF Init, ActiveHoldsItem, DeliveredOnce
<1> QED
  BY <1>1, InitSafety DEF CustodyInv

\* That invariant is kept by every step when staff write to no object.
LEMMA StepCustody ==
  StaffStatuses = {} /\ CustodyInv /\ [Next]_vars => CustodyInv'
  BY StepSafety, StepHolds, StepDelivered DEF CustodyInv, SafetyInv

\* The reservations of i that the step closes without pickup.
Closed(i) == {r \in Reservations :
                /\ resItem[r] = i
                /\ status[r] = "active"
                /\ status'[r] \in {"cancelled", "expired"}}

\* When staff write to no object, a RESERVED object becomes available only as a
\* reservation of it is closed without pickup, and then as the publication and
\* the centre say, unless they were edited since they were read.
LEMMA StepReleases ==
  ASSUME StaffStatuses = {}, CustodyInv, [Next]_vars,
         NEW i \in Items, itemStatus[i] = "reserved"
  PROVE  /\ itemStatus'[i] = "available" => Closed(i) # {}
         /\ Closed(i) # {} =>
              \/ itemStatus'[i] = "available" <=> CatalogReady(i)
              \/ \E s \in overtaken : resOf[s] \in Closed(i)
<1> USE DEF CustodyInv, SafetyInv
<1> DEFINE Goal ==
      /\ itemStatus'[i] = "available" => Closed(i) # {}
      /\ Closed(i) # {} =>
           \/ itemStatus'[i] = "available" <=> CatalogReady(i)
           \/ \E s \in overtaken : resOf[s] \in Closed(i)
\* A step that neither releases the object nor closes a reservation.
<1>1. ASSUME itemStatus'[i] # "available",
             \A r \in Reservations : status[r] = "active" =>
               status'[r] \notin {"cancelled", "expired"}
      PROVE  Goal
  BY <1>1 DEF Closed
<1>2. ASSUME NEW s \in Sessions, CreateReservation(s)
      PROVE  Goal
  <2>1. /\ itemStatus[askItem[s]] = "available"
        /\ itemStatus' = [itemStatus EXCEPT ![askItem[s]] = "reserved"]
    BY <1>2 DEF CreateReservation, TestedStaysTrue
  <2>2. itemStatus'[i] = "reserved"
    BY <2>1 DEF TypeOK
  <2>3. \A r \in Reservations : status[r] = "active" => status'[r] = "active"
    BY <1>2, CreatesActive
  <2> QED
    BY <1>1, <2>2, <2>3
<1>3. ASSUME NEW s \in Sessions, CompletePickup(s)
      PROVE  Goal
  <2>1. status' = [status EXCEPT ![resOf[s]] = "completed"]
    BY <1>3 DEF CompletePickup
  <2>2. itemStatus'[i] \in {"reserved", "delivered"}
    BY <1>3 DEF CompletePickup, TypeOK
  <2>3. \A r \in Reservations : status'[r] = status[r] \/ status'[r] = "completed"
    BY <2>1 DEF TypeOK
  <2> QED
    BY <1>1, <2>2, <2>3
<1>4. ASSUME NEW s \in Sessions, CancelReservation(s) \/ ExpireReservation(s)
      PROVE  Goal
  <2> DEFINE c == resOf[s]
  <2>1. /\ c \in Reservations /\ resItem[c] \in Items
        /\ status[c] = "active"
        /\ \A q \in Reservations : q # c => status'[q] = status[q]
    BY <1>4, ClosesActive
  <2>2. /\ status'[c] \in {"cancelled", "expired"}
        /\ pc[s] \in Closing
        /\ itemStatus' = IF pc[s] = "returning"
                         THEN [itemStatus EXCEPT ![resItem[c]] = "available"]
                         ELSE itemStatus
    BY <1>4, <2>1
    DEF CancelReservation, ExpireReservation, CloseUncollected, TypeOK, Closing
  <2>3. s \notin overtaken =>
          (pc[s] = "returning" <=> /\ itemStatus[resItem[c]] = "reserved"
                                   /\ CatalogReady(resItem[c]))
    BY <2>2 DEF DecidedRightly
  <2> HIDE DEF c
  <2>4. CASE resItem[c] = i
    <3>1. c \in Closed(i)
      BY <2>1, <2>2, <2>4 DEF Closed
    <3>2. itemStatus'[i] = "available" <=> pc[s] = "returning"
      BY <2>2, <2>4 DEF TypeOK
    <3> QED
      BY <2>3, <2>4, <3>1, <3>2 DEF c
  <2>5. CASE resItem[c] # i
    <3>1. itemStatus'[i] = "reserved"
      BY <2>1, <2>2, <2>5 DEF TypeOK
    <3>2. Closed(i) = {}
      BY <2>1, <2>5 DEF Closed
    <3> QED
      BY <3>1, <3>2
  <2> QED
    BY <2>4, <2>5
<1>5. ASSUME NEW s \in Sessions, ReceiveItem(s)
      PROVE  Goal
  <2>1. /\ itemStatus[askItem[s]] = "absent" /\ UNCHANGED status
        /\ itemStatus' = [itemStatus EXCEPT ![askItem[s]] = "available"]
    BY <1>5 DEF ReceiveItem, TestedStaysTrue, resVars
  <2> QED
    BY <1>1, <2>1 DEF TypeOK
<1>6. CASE (\E s \in Sessions : SessionOnly(s)) \/ Surroundings
  <2>1. UNCHANGED <<itemStatus, status>>
    BY <1>6, OtherStepsItems, OtherStepsRows DEF resVars
  <2> QED
    BY <1>1, <2>1
<1> QED
  BY <1>2, <1>3, <1>4, <1>5, <1>6, StepCases DEF AnyStep

(***************************************************************************)
(* The theorems.                                                           *)
(***************************************************************************)

\* The variables keep their types: no row is ever written with a value the
\* code does not know.
THEOREM TypeCorrect == Spec => []TypeOK
<1>1. SafetyInv => TypeOK
  BY DEF SafetyInv
<1> QED
  BY <1>1, InitSafety, StepSafety, PTL DEF Spec

\* The row locks do their work: whatever a transaction tested under them
\* still holds when it writes, with any number of workers and commands.
THEOREM LocksProtect == Spec => []TestedStaysTrue
<1>1. SafetyInv => TestedStaysTrue
  BY DEF SafetyInv
<1> QED
  BY <1>1, InitSafety, StepSafety, PTL DEF Spec

\* An object never has two active reservations.
THEOREM NoDoubleReservation == Spec => []OneActivePerItem
<1>1. SafetyInv => OneActivePerItem
  BY DEF SafetyInv
<1> QED
  BY <1>1, InitSafety, StepSafety, PTL DEF Spec

\* Nobody reserves their own object, and a QR is valid exactly as long as its
\* reservation is active.
THEOREM RowsSound == Spec => []ReservationsSound
<1>1. SafetyInv => ReservationsSound
  BY DEF SafetyInv
<1> QED
  BY <1>1, InitSafety, StepSafety, PTL DEF Spec

\* A pickup is charged once, to the person who reserved, and nothing else is.
THEOREM ChargedOnce == Spec => []PaidIffCollected
<1>1. SafetyInv => PaidIffCollected
  BY DEF SafetyInv
<1> QED
  BY <1>1, InitSafety, StepSafety, PTL DEF Spec

\* Nobody's balance is ever negative, for every amount the settings may give.
THEOREM BalanceNeverNegative == Spec => []NeverOverdrawn
<1>1. SafetyInv => NeverOverdrawn
  BY DEF SafetyInv
<1> QED
  BY <1>1, InitSafety, StepSafety, PTL DEF Spec

\* A closed reservation is never written again.
THEOREM ClosedStaysClosed == Spec => ClosedIsFinal
<1>1. SafetyInv /\ [Next]_vars =>
        [\A r \in Reservations :
           status[r] \in {"expired", "cancelled", "completed"} =>
             UNCHANGED <<status[r], resItem[r], resUser[r],
                         qrInvalidated[r]>>]_vars
  BY StepClosed DEF SafetyInv
<1> QED
  BY <1>1, InitSafety, StepSafety, PTL DEF Spec, ClosedIsFinal

\* When staff write to no object by hand, whoever has an active reservation
\* finds the object set aside.
THEOREM ReservedIsSetAside == StaffStatuses = {} => (Spec => []ActiveHoldsItem)
<1> SUFFICES ASSUME StaffStatuses = {} PROVE Spec => []ActiveHoldsItem
  OBVIOUS
<1>1. CustodyInv /\ [Next]_vars => CustodyInv'
  BY StepCustody
<1>2. CustodyInv => ActiveHoldsItem
  BY DEF CustodyInv
<1> QED
  BY <1>1, <1>2, InitCustody, PTL DEF Spec

\* When staff write to no object by hand, an object is handed over once, and
\* is DELIVERED exactly when a reservation of it is COMPLETED.
THEOREM HandedOverOnce == StaffStatuses = {} => (Spec => []DeliveredOnce)
<1> SUFFICES ASSUME StaffStatuses = {} PROVE Spec => []DeliveredOnce
  OBVIOUS
<1>1. CustodyInv /\ [Next]_vars => CustodyInv'
  BY StepCustody
<1>2. CustodyInv => DeliveredOnce
  BY DEF CustodyInv
<1> QED
  BY <1>1, <1>2, InitCustody, PTL DEF Spec

\* When staff write to no object by hand, a reserved object goes back to the
\* catalogue only as its reservation is closed without pickup, and it does so
\* exactly when the publication and the centre are ready as the reservation
\* closes, unless an edit came between the unlocked reading of them and COMMIT.
THEOREM ReleaseIsReady ==
  StaffStatuses = {} => (Spec => ReleaseFollowsReadiness)
<1> SUFFICES ASSUME StaffStatuses = {} PROVE Spec => ReleaseFollowsReadiness
  OBVIOUS
<1>1. CustodyInv /\ [Next]_vars => CustodyInv'
  BY StepCustody
<1>2. CustodyInv /\ [Next]_vars =>
        [\A i \in Items : itemStatus[i] = "reserved" =>
           LET closed == {r \in Reservations :
                            /\ resItem[r] = i
                            /\ status[r] = "active"
                            /\ status'[r] \in {"cancelled", "expired"}}
               released == itemStatus'[i] = "available"
           IN  /\ released => closed # {}
               /\ closed # {} =>
                    \/ released <=> approved[i] /\ outlet[i] = "open"
                    \/ \E s \in overtaken : resOf[s] \in closed]_vars
  BY StepReleases DEF CatalogReady, Closed
<1> QED
  BY <1>1, <1>2, InitCustody, PTL DEF Spec, ReleaseFollowsReadiness

(***************************************************************************)
(* Who waits for whom.                                                     *)
(***************************************************************************)

\* The sessions that have written all they write and are about to commit,
\* holding the row of a user.
AtCommit == {"charging", "receiving"}

\* What the steps after the next lock ask for besides the lock: a row to
\* insert, and a movement that the ledger takes.
CanInsert == \E r \in Reservations : status[r] = "none"

LedgerTakes(u, reason, about) ==
  LET movement == [user |-> u, reason |-> reason, about |-> about]
  IN  /\ \A m \in movements :
           m.reason = reason /\ m.about = about => m = movement
      /\ \/ movement \in movements
         \/ PointsBalance(u) + ExpectedAmount(reason) >= 0

\* The sessions whose next step the guards allow: a SessionStep is enabled.
CanGoOn ==
  {s \in Sessions :
     \/ /\ pc[s] = "reserving" /\ UserFree(askUser[s])
        /\ MayReserve(askItem[s], askUser[s]) => CanInsert
     \/ /\ pc[s] \in {"cancelling", "expiring", "locked"}
        /\ ItemFree(resItem[resOf[s]])
     \/ pc[s] \in Closing /\ s \in Commands
     \/ pc[s] \in Closing /\ Referable(s, resUser[resOf[s]])
     \/ pc[s] = "scanned" /\ ReservationFree(resOf[s])
     \/ /\ pc[s] = "sweeping"
        /\ batch[s] # {} => \E r \in batch[s] : ReservationFree(r)
     \/ pc[s] = "collecting" /\ UserFree(resUser[resOf[s]])
     \/ /\ pc[s] = "charging" /\ Referable(s, askUser[s])
        /\ LedgerTakes(resUser[resOf[s]], "object_picked_up", resOf[s])
     \/ /\ pc[s] = "receiving" /\ Referable(s, askUser[s])
        /\ LedgerTakes(Owner[askItem[s]], "object_accepted", askItem[s])}

\* s asks for a row that t holds: the next one it locks, or the one that what
\* it commits refers to.
WaitsFor(s, t) ==
  \/ /\ pc[t] \in HoldsReservation
     /\ \/ pc[s] = "scanned" /\ resOf[t] = resOf[s]
        \/ pc[s] = "sweeping" /\ resOf[t] \in batch[s]
  \/ /\ pc[s] \in {"cancelling", "expiring", "locked"}
     /\ \/ pc[t] = "reserving" /\ askItem[t] = resItem[resOf[s]]
        \/ pc[t] \in HoldsItem /\ resItem[resOf[t]] = resItem[resOf[s]]
  \/ /\ pc[t] \in AtCommit
     /\ \/ pc[s] = "reserving" /\ HeldUser(t) = askUser[s]
        \/ pc[s] = "collecting" /\ HeldUser(t) = resUser[resOf[s]]
        \/ pc[s] \in Closing /\ HeldUser(t) = resUser[resOf[s]]
        \/ pc[s] \in AtCommit /\ s # t /\ HeldUser(t) = askUser[s]

Busy == {s \in Sessions : pc[s] # "idle"}

\* Whatever sessions are stuck, none of them able to go on and each waiting
\* only for others of them, some of them wait in a circle for the rows of their
\* operators: one that the database breaks by aborting one of them (Victim).
StuckBehindOperators ==
  \A S \in SUBSET Busy :
    /\ S # {}
    /\ S \cap CanGoOn = {}
    /\ \A s \in S, t \in Sessions : WaitsFor(s, t) => t \in S
    => \E H \in SUBSET S : H # {} /\ InCircle(H)

\* Each session that is about to insert a reservation finds a row to insert.
RowsSuffice ==
  Cardinality({s \in Sessions : pc[s] = "reserving"}) <=
    Cardinality({r \in Reservations : status[r] = "none"})

\* A balance is a number, for finite ledgers.
LEMMA BalanceIsInt ==
  ASSUME SafetyInv, NEW u \in Users
  PROVE  PointsBalance(u) \in Int
<1>1. IsFiniteSet(movements)
  BY DEF SafetyInv
<1>2. \A reason : /\ MovementsOf(u, reason) \subseteq movements
                  /\ IsFiniteSet(MovementsOf(u, reason))
  BY <1>1, FS_Subset DEF MovementsOf
<1>3. \A reason : Cardinality(MovementsOf(u, reason)) \in Nat
  BY <1>2, FS_CardinalityType
<1> DEFINE a == Cardinality(MovementsOf(u, "registration"))
           b == Cardinality(MovementsOf(u, "object_accepted"))
           c == Cardinality(MovementsOf(u, "object_picked_up"))
<1>4. /\ REGISTRATION_POINTS * a \in Nat
      /\ ACCEPTED_OBJECT_POINTS * b \in Nat
      /\ PICKUP_POINTS * c \in Nat
  BY <1>3, PointsAssumption, TimesNat
<1> QED
  BY <1>4 DEF PointsBalance

\* The ledger takes the charge of whoever holds all the locks of a pickup.
LEMMA ChargeIsTaken ==
  ASSUME SafetyInv, NEW s \in Sessions, pc[s] = "charging"
  PROVE  LedgerTakes(resUser[resOf[s]], "object_picked_up", resOf[s])
<1> DEFINE r == resOf[s]
           u == resUser[r]
<1>1. r \in Reservations /\ status[r] = "active" /\ HasSufficientPoints(u)
  BY DEF SafetyInv, TestedStaysTrue, RowsExist, OnReservation, HoldsReservation
<1>2. u \in Users
  BY <1>1 DEF SafetyInv, RowsExist
<1>3. {m \in movements : m.reason = "object_picked_up" /\ m.about = r} = {}
  BY <1>1 DEF SafetyInv, PaidIffCollected
<1>4. PointsBalance(u) + ExpectedAmount("object_picked_up") >= 0
  <2>1. PointsBalance(u) \in Int /\ PointsBalance(u) >= PICKUP_POINTS
    BY <1>1, <1>2, BalanceIsInt DEF HasSufficientPoints
  <2>2. ExpectedAmount("object_picked_up") = -PICKUP_POINTS
    BY DEF ExpectedAmount
  <2> QED
    BY <2>1, <2>2, PointsAssumption
<1> QED
  BY <1>3, <1>4 DEF LedgerTakes

\* A balance is not negative, so the ledger takes every award.
LEMMA AwardIsTaken ==
  ASSUME SafetyInv, NEW s \in Sessions, pc[s] = "receiving"
  PROVE  LedgerTakes(Owner[askItem[s]], "object_accepted", askItem[s])
<1> DEFINE i == askItem[s]
           u == Owner[i]
           n(x) == Cardinality(MovementsOf(u, x))
<1>1. i \in Items /\ u \in Users
  BY ReservationsAssumption DEF SafetyInv, RowsExist
<1>2. \A m \in movements :
        m.reason = "object_accepted" /\ m.about = i
          => m = [user |-> u, reason |-> "object_accepted", about |-> i]
  BY DEF SafetyInv, AwardsToOwners, TypeOK, Movement
<1>3. PointsBalance(u) + ExpectedAmount("object_accepted") >= 0
  <2>1. PointsBalance(u) \in Int
    BY <1>1, BalanceIsInt
  <2>2. PICKUP_POINTS * n("object_picked_up") <=
          REGISTRATION_POINTS * n("registration")
            + ACCEPTED_OBJECT_POINTS * n("object_accepted")
    BY <1>1 DEF SafetyInv, NeverOverdrawn
  <2>3. \A x : n(x) \in Nat
    <3>1. \A x : IsFiniteSet(MovementsOf(u, x))
      BY FS_Subset DEF SafetyInv, MovementsOf
    <3> QED
      BY <3>1, FS_CardinalityType
  <2>4. /\ PICKUP_POINTS * n("object_picked_up") \in Nat
        /\ REGISTRATION_POINTS * n("registration") \in Nat
        /\ ACCEPTED_OBJECT_POINTS * n("object_accepted") \in Nat
    BY <2>3, TimesNat, PointsAssumption
  <2>5. PointsBalance(u) >= 0
    BY <2>2, <2>4 DEF PointsBalance
  <2>6. ExpectedAmount("object_accepted") = ACCEPTED_OBJECT_POINTS
    BY DEF ExpectedAmount
  <2> QED
    BY <2>1, <2>5, <2>6, PointsAssumption
<1> QED
  BY <1>2, <1>3 DEF LedgerTakes

\* Whoever holds the row of a user is about to commit.
LEMMA HoldersAtCommit ==
  ASSUME NEW t \in Sessions, NEW u \in Users, HeldUser(t) = u
  PROVE  pc[t] \in AtCommit
  BY ReservationsAssumption DEF HeldUser, AtCommit

\* A session goes on, or waits for another that is busy.
LEMMA WaitsForSomeone ==
  ASSUME SafetyInv, CanInsert \/ \A s \in Sessions : pc[s] # "reserving",
         NEW s \in Busy, s \notin CanGoOn
  PROVE  \E t \in Busy : WaitsFor(s, t)
<1>1. s \in Sessions /\ pc[s] \in Steps \ {"idle"}
  BY DEF Busy, SafetyInv, TypeOK
<1>2. /\ pc[s] = "reserving" => askUser[s] \in Users
      /\ pc[s] \in OnReservation => resUser[resOf[s]] \in Users
      /\ pc[s] \in AtCommit => askUser[s] \in Users
  BY <1>1, ReservationsAssumption
  DEF SafetyInv, RowsExist, OperatorsKnown, AtCommit
<1>3. CASE pc[s] = "reserving"
  <2>1. ~UserFree(askUser[s])
    BY <1>1, <1>3 DEF CanGoOn
  <2>2. PICK t \in Sessions : HeldUser(t) = askUser[s]
    BY <2>1 DEF UserFree
  <2> QED
    BY <1>2, <1>3, <2>2, HoldersAtCommit DEF WaitsFor, Busy, AtCommit
<1>4. CASE pc[s] \in {"cancelling", "expiring", "locked"}
  <2>1. ~ItemFree(resItem[resOf[s]])
    BY <1>1, <1>4 DEF CanGoOn
  <2> QED
    BY <1>4, <2>1 DEF ItemFree, WaitsFor, HoldsItem, Busy
<1>5. CASE pc[s] \in Closing
  <2>1. ~Referable(s, resUser[resOf[s]])
    BY <1>1, <1>5 DEF CanGoOn
  <2>2. PICK t \in Sessions : HeldUser(t) = resUser[resOf[s]]
    BY <2>1 DEF Referable
  <2> QED
    BY <1>2, <1>5, <2>2, HoldersAtCommit
    DEF WaitsFor, Busy, AtCommit, OnReservation, HoldsReservation, Closing
<1>6. CASE pc[s] = "scanned"
  <2>1. ~ReservationFree(resOf[s])
    BY <1>1, <1>6 DEF CanGoOn
  <2> QED
    BY <1>6, <2>1 DEF ReservationFree, WaitsFor, HoldsReservation, Busy
<1>7. CASE pc[s] = "sweeping"
  <2>1. PICK r \in batch[s] : ~ReservationFree(r)
    BY <1>1, <1>7 DEF CanGoOn
  <2> QED
    BY <1>7, <2>1 DEF ReservationFree, WaitsFor, HoldsReservation, Busy
<1>8. CASE pc[s] = "collecting"
  <2>1. ~UserFree(resUser[resOf[s]])
    BY <1>1, <1>8 DEF CanGoOn
  <2>2. PICK t \in Sessions : HeldUser(t) = resUser[resOf[s]]
    BY <2>1 DEF UserFree
  <2> QED
    BY <1>2, <1>8, <2>2, HoldersAtCommit
    DEF WaitsFor, Busy, AtCommit, OnReservation, HoldsReservation
<1>9. CASE pc[s] \in AtCommit
  <2>1. ~Referable(s, askUser[s])
    BY <1>1, <1>9, ChargeIsTaken, AwardIsTaken DEF CanGoOn, AtCommit
  <2>2. PICK t \in Sessions \ {s} : HeldUser(t) = askUser[s]
    BY <2>1 DEF Referable
  <2> QED
    BY <1>2, <1>9, <2>2, HoldersAtCommit DEF WaitsFor, Busy, AtCommit
<1> QED
  BY <1>1, <1>3, <1>4, <1>5, <1>6, <1>7, <1>8, <1>9
  DEF Steps, Closing, AtCommit

\* The locks are taken in one order, the reservation, the object and then the
\* user: whoever waits, waits for someone further on, and at COMMIT for someone
\* else at COMMIT.
LEMMA LockOrder ==
  ASSUME NEW s \in Sessions, NEW t \in Sessions, WaitsFor(s, t)
  PROVE  /\ pc[s] \in AtCommit \cup Closing \cup {"reserving", "collecting"}
              => pc[t] \in AtCommit
         /\ pc[s] \in {"cancelling", "expiring", "locked"}
              => pc[t] \in {"reserving", "collecting"} \cup AtCommit \cup Closing
         /\ pc[s] \in {"scanned", "sweeping"} => pc[t] \in HoldsReservation
         /\ pc[s] \in AtCommit => s # t /\ HeldUser(t) = askUser[s]
  BY DEF WaitsFor, AtCommit, Closing, HoldsItem

\* Sessions of which each waits for the row of its operator that another of them
\* holds: those in a circle, and those behind one.
AllWait(H) ==
  \A s \in H : /\ pc[s] \in AtCommit
               /\ \E t \in H \ {s} : HeldUser(t) = askUser[s]

\* In every such set that is not empty there is a circle: the smallest one.
LEMMA CircleInside ==
  ASSUME NEW H \in SUBSET Sessions, IsFiniteSet(H), H # {}, AllWait(H)
  PROVE  \E K \in SUBSET H : K # {} /\ InCircle(K)
<1> DEFINE Waiting == {K \in SUBSET H : K # {} /\ AllWait(K)}
           Smaller == StrictSubsetOrdering(H)
<1>1. IsWellFoundedOn(Smaller, SUBSET H)
  BY FS_StrictSubsetOrderingWellFounded, FS_FiniteSubsetsOfFinite
<1>2. Waiting # {} /\ Waiting \subseteq SUBSET H
  OBVIOUS
<1>3. PICK K \in Waiting : \A L \in Waiting : <<L, K>> \notin Smaller
  <2> HIDE DEF Waiting, Smaller
  <2> QED
    BY <1>1, <1>2, WFMin
<1>4. ASSUME NEW s \in K
      PROVE  \E t \in K \ {s} : HeldUser(s) = askUser[t]
  <2> SUFFICES ASSUME \A t \in K \ {s} : HeldUser(s) # askUser[t] PROVE FALSE
    OBVIOUS
  <2> DEFINE L == K \ {s}
  <2>1. L # {}
    BY <1>4 DEF AllWait
  <2>2. AllWait(L)
    BY DEF AllWait
  <2>3. L \in Waiting
    BY <2>1, <2>2
  <2>4. <<L, K>> \in Smaller
    BY <1>4 DEF StrictSubsetOrdering
  <2> QED
    BY <1>3, <2>3, <2>4
<1> QED
  BY <1>4 DEF InCircle, AllWait, AtCommit

\* Hence whoever is stuck is behind sessions that wait at COMMIT in a circle.
LEMMA StuckInCircle ==
  ASSUME SafetyInv, IsFiniteSet(Sessions),
         CanInsert \/ \A s \in Sessions : pc[s] # "reserving"
  PROVE  StuckBehindOperators
<1> SUFFICES ASSUME NEW S \in SUBSET Busy, S # {}, S \cap CanGoOn = {},
                    \A s \in S, t \in Sessions : WaitsFor(s, t) => t \in S
             PROVE  \E H \in SUBSET S : H # {} /\ InCircle(H)
  BY DEF StuckBehindOperators
<1> DEFINE H == {s \in S : pc[s] \in AtCommit}
<1>1. \A s \in S : s \in Sessions /\ pc[s] \in Steps \ {"idle"}
  BY DEF Busy, SafetyInv, TypeOK
<1>2. \A s \in S : \E t \in S : WaitsFor(s, t)
  <2> SUFFICES ASSUME NEW s \in S PROVE \E t \in S : WaitsFor(s, t)
    OBVIOUS
  <2>1. \E t \in Busy : WaitsFor(s, t)
    BY WaitsForSomeone
  <2> QED
    BY <2>1 DEF Busy
<1>3. \A s \in S : pc[s] \in AtCommit \cup Closing \cup {"reserving", "collecting"}
                     => H # {}
  <2> SUFFICES ASSUME NEW s \in S,
                      pc[s] \in AtCommit \cup Closing \cup {"reserving",
                                                           "collecting"}
               PROVE  H # {}
    OBVIOUS
  <2>1. PICK t \in S : WaitsFor(s, t)
    BY <1>2
  <2>2. pc[t] \in AtCommit
    BY <1>1, <2>1, LockOrder
  <2> QED
    BY <2>2
<1>4. \A s \in S : pc[s] \in {"cancelling", "expiring", "locked"} => H # {}
  <2> SUFFICES ASSUME NEW s \in S, pc[s] \in {"cancelling", "expiring", "locked"}
               PROVE  H # {}
    OBVIOUS
  <2>1. PICK t \in S : WaitsFor(s, t)
    BY <1>2
  <2>2. pc[t] \in {"reserving", "collecting"} \cup AtCommit \cup Closing
    BY <1>1, <2>1, LockOrder
  <2> QED
    BY <1>3, <2>2
<1>5. \A s \in S : pc[s] \in {"scanned", "sweeping"} => H # {}
  <2> SUFFICES ASSUME NEW s \in S, pc[s] \in {"scanned", "sweeping"}
               PROVE  H # {}
    OBVIOUS
  <2>1. PICK t \in S : WaitsFor(s, t)
    BY <1>2
  <2>2. pc[t] \in HoldsReservation
    BY <1>1, <2>1, LockOrder
  <2> QED
    BY <1>3, <1>4, <2>2 DEF HoldsReservation, AtCommit, Closing
<1>6. H # {}
  <2> HIDE DEF H
  <2> QED
    BY <1>1, <1>3, <1>4, <1>5 DEF Steps, AtCommit, Closing
<1>7. AllWait(H)
  <2> SUFFICES ASSUME NEW s \in H
               PROVE  \E t \in H \ {s} : HeldUser(t) = askUser[s]
    BY DEF AllWait
  <2>1. PICK t \in S : WaitsFor(s, t)
    BY <1>2
  <2> QED
    BY <1>1, <2>1, LockOrder
<1>8. H \in SUBSET Sessions /\ IsFiniteSet(H)
  BY <1>1, FS_Subset
<1>9. \E K \in SUBSET H : K # {} /\ InCircle(K)
  <2> HIDE DEF H
  <2> QED
    BY <1>6, <1>7, <1>8, CircleInside
<1> QED
  BY <1>9

\* A session that locks an object to reserve it takes a row that is left, and
\* no other step takes one from it.
LEMMA StepSuffice ==
  ASSUME SafetyInv, RowsSuffice, [Next]_vars,
         IsFiniteSet(Reservations), IsFiniteSet(Sessions)
  PROVE  RowsSuffice'
<1> DEFINE R == {s \in Sessions : pc[s] = "reserving"}
           N == {r \in Reservations : status[r] = "none"}
<1>0. TypeOK /\ RowsExist /\ TestedStaysTrue
  BY DEF SafetyInv
<1>1. /\ IsFiniteSet(R) /\ IsFiniteSet(N)
      /\ Cardinality(R) \in Nat /\ Cardinality(N) \in Nat
  BY FS_Subset, FS_CardinalityType
<1>2. Cardinality(R) <= Cardinality(N)
  BY DEF RowsSuffice
\* Fewer are about to insert, and the rows are as they were.
<1>3. ASSUME R' \subseteq R, N' = N PROVE RowsSuffice'
  <2>1. Cardinality(R') \in Nat /\ Cardinality(R') <= Cardinality(R)
    BY <1>1, <1>3, FS_Subset, FS_CardinalityType
  <2> QED
    BY <1>1, <1>2, <1>3, <2>1 DEF RowsSuffice
<1>4. ASSUME NEW s \in Sessions, SessionOnly(s)
      PROVE  RowsSuffice'
  <2>1. N' = N
    BY <1>4, SessionOnlyData DEF dataVars, resVars
  <2>2. CASE \E i \in Items, u \in Users : LockItemToReserve(s, i, u)
    <3>1. s \notin R /\ R' = R \cup {s} /\ Cardinality(N) > Cardinality(R)
      <4>1. pc[s] = "idle" /\ RowsLeft
            /\ pc' = [pc EXCEPT ![s] = "reserving"]
        BY <2>2 DEF LockItemToReserve
      <4>2. s \notin R /\ R' = R \cup {s}
        BY <1>0, <4>1 DEF TypeOK
      <4> QED
        BY <4>1, <4>2 DEF RowsLeft
    <3>2. Cardinality(R \cup {s}) = Cardinality(R) + 1
      BY <1>1, <3>1, FS_AddElement
    <3>3. Cardinality(R') <= Cardinality(N')
      <4> HIDE DEF R, N
      <4> QED
        BY <1>1, <2>1, <3>1, <3>2
    <3> QED
      BY <3>3 DEF RowsSuffice
  <2>3. CASE ~\E i \in Items, u \in Users : LockItemToReserve(s, i, u)
    <3>1. pc'[s] # "reserving"
      BY <1>0, <1>4, <2>3 DEF SessionOnly, Request, LockToExpire, SkipClosed,
         EndSweep, LockScanned, LockItemToCollect, LockPayer, Refuse, Crash,
         LockToCancel, ScanToken, ListDue, LockItemToClose, Victim,
         LockToReceive, Finish, GoOn, TypeOK
    <3>2. \A t \in Sessions \ {s} : pc'[t] = pc[t]
      BY <1>0, <1>4, OthersStay DEF AnyStep
    <3> QED
      BY <1>3, <2>1, <3>1, <3>2
  <2> QED
    BY <2>2, <2>3
<1>5. ASSUME NEW s \in Sessions, CreateReservation(s)
      PROVE  RowsSuffice'
  <2>1. s \in R /\ R' = R \ {s}
    BY <1>0, <1>5 DEF CreateReservation, Finish, TypeOK
  <2>2. PICK r \in N : N' = N \ {r}
    <3>1. PICK r \in Reservations :
            status[r] = "none" /\ status' = [status EXCEPT ![r] = "active"]
      BY <1>5 DEF CreateReservation
    <3>2. r \in N /\ N' = N \ {r}
      BY <1>0, <3>1 DEF TypeOK
    <3> QED
      BY <3>2
  <2>3. Cardinality(R \ {s}) = Cardinality(R) - 1
    BY <1>1, <2>1, FS_RemoveElement
  <2>4. Cardinality(N \ {r}) = Cardinality(N) - 1
    BY <1>1, <2>2, FS_RemoveElement
  <2>5. Cardinality(R') <= Cardinality(N')
    <3> HIDE DEF R, N
    <3> QED
      BY <1>1, <1>2, <2>1, <2>2, <2>3, <2>4
  <2> QED
    BY <2>5 DEF RowsSuffice
<1>6. ASSUME NEW s \in Sessions,
             CancelReservation(s) \/ ExpireReservation(s) \/ CompletePickup(s)
      PROVE  RowsSuffice'
  <2>1. R' \subseteq R
    BY <1>0, <1>6 DEF CancelReservation, ExpireReservation, CompletePickup,
                      Finish, TypeOK
  <2>2. resOf[s] \in Reservations /\ status[resOf[s]] = "active"
    BY <1>0, <1>6 DEF CancelReservation, ExpireReservation, CompletePickup,
                      TestedStaysTrue, RowsExist, OnReservation,
                      HoldsReservation
  <2>3. N' = N
    BY <1>0, <1>6, <2>2 DEF CancelReservation, ExpireReservation,
                            CompletePickup, CloseUncollected, TypeOK
  <2> QED
    BY <1>3, <2>1, <2>3
<1>7. ASSUME NEW s \in Sessions, ReceiveItem(s)
      PROVE  RowsSuffice'
  BY <1>0, <1>3, <1>7 DEF ReceiveItem, Finish, resVars, TypeOK
<1>8. CASE Surroundings
  <2>1. UNCHANGED <<resVars, whereVars>>
    BY <1>0, <1>8, SurroundingsUnchanged
  <2> QED
    BY <1>3, <2>1 DEF resVars, whereVars
<1> QED
  BY <1>4, <1>5, <1>6, <1>7, <1>8, StepCases DEF AnyStep

\* The reservation, the object and the user are locked in one order, and whoever
\* has all its locks can write and end, whichever sessions die: sessions are
\* only ever stuck because some of them, receiving or handing over objects, hold
\* the rows of one another's operators and wait for their own at COMMIT.
THEOREM StuckOnlyBehindOperators ==
  IsFiniteSet(Reservations) /\ IsFiniteSet(Sessions) => (Spec => []StuckBehindOperators)
<1> SUFFICES ASSUME IsFiniteSet(Reservations), IsFiniteSet(Sessions)
             PROVE  Spec => []StuckBehindOperators
  OBVIOUS
<1>1. Init => RowsSuffice
  <2> SUFFICES ASSUME Init PROVE RowsSuffice
    OBVIOUS
  <2>1. {s \in Sessions : pc[s] = "reserving"} = {}
    BY DEF Init
  <2>2. Cardinality({r \in Reservations : status[r] = "none"}) \in Nat
    BY FS_Subset, FS_CardinalityType
  <2> QED
    BY <2>1, <2>2, FS_EmptySet DEF RowsSuffice
<1>2. SafetyInv /\ RowsSuffice /\ [Next]_vars => RowsSuffice'
  BY StepSuffice
<1>3. SafetyInv /\ RowsSuffice => StuckBehindOperators
  <2> SUFFICES ASSUME SafetyInv, RowsSuffice,
                      NEW s \in Sessions, pc[s] = "reserving"
               PROVE  CanInsert
    BY StuckInCircle
  <2> DEFINE R == {t \in Sessions : pc[t] = "reserving"}
             N == {r \in Reservations : status[r] = "none"}
  <2>1. IsFiniteSet(R) /\ IsFiniteSet(N) /\ R # {}
    BY FS_Subset
  <2>2. Cardinality(R) \in Nat /\ Cardinality(R) # 0
        /\ Cardinality(R) <= Cardinality(N)
    BY <2>1, FS_CardinalityType, FS_EmptySet DEF RowsSuffice
  <2>3. N # {}
    BY <2>2, FS_EmptySet
  <2> QED
    BY <2>3 DEF CanInsert
<1> QED
  BY <1>1, <1>2, <1>3, InitSafety, StepSafety, PTL DEF Spec
=============================================================================
