---------------------------- MODULE Reservations ----------------------------
(***************************************************************************)
(* Reservations of reusable objects and their pickup                       *)
(* (reservations/services.py), with the object's status (catalog/models.py)*)
(* and the points ledger (module Points) the transactions write.           *)
(*                                                                         *)
(* Every public function of the service is one database transaction that   *)
(* takes row locks with SELECT ... FOR UPDATE.  A session is a web worker  *)
(* or a run of the expire_reservations command; it is modelled by the row  *)
(* locks it holds: one step takes the next lock and tests what the code    *)
(* reads under it, the last step is COMMIT, which makes what was written   *)
(* visible and releases the locks.  What a transaction has not committed   *)
(* is invisible, so the shared variables are the committed database.       *)
(* The foreign keys are deferred: COMMIT also waits for a KEY SHARE lock   *)
(* on the row of the person the audit event names.                         *)
(*                                                                         *)
(*   pc[s]         the locks s holds            what it does next          *)
(*   "idle"        none                         nothing                    *)
(*   "receiving"   publication, its submitter   commit the reception       *)
(*   "reserving"   object                       lock the user, reserve     *)
(*   "cancelling"  reservation                  lock the object            *)
(*   "scanned"     none, token read as valid    lock the reservation       *)
(*   "locked"      reservation                  lock the object            *)
(*   "collecting"  reservation, object          lock the user              *)
(*   "charging"    reservation, object, user    commit the hand-over       *)
(*   "sweeping"    none, due list read          lock the next one          *)
(*   "expiring"    reservation                  lock the object            *)
(*   "returning"   reservation, object (ready)  close it, free the object  *)
(*   "keeping"     reservation, object          close it, keep the object  *)
(***************************************************************************)
EXTENDS Points

CONSTANTS Items,          \* objects, one per publication
          Owner,          \* Owner[i] submitted the publication of i
          Reservations,   \* the rows the reservation table may come to hold
          Workers,        \* web processes serving requests
          Commands,       \* processes running expire_reservations
          Operators,      \* the staff who receive and hand over objects
          Duration,       \* reservation_duration() in ticks of the clock
          MaxClock,       \* bound on the clock
          VolatileItems,  \* objects whose publication or centre staff edit
          StaffStatuses,  \* statuses staff may write to an object by hand
          None

Sessions == Workers \cup Commands

ItemStatuses == {"absent", "available", "reserved", "delivered", "withdrawn"}

ASSUME ReservationsAssumption ==
  /\ Owner \in [Items -> Users]
  /\ Operators \subseteq Users
  /\ Workers \cap Commands = {}
  /\ Subjects = Users \cup Items \cup Reservations
  /\ Duration \in Nat \ {0}
  /\ MaxClock \in Nat
  /\ VolatileItems \subseteq Items
  /\ StaffStatuses \subseteq ItemStatuses \ {"absent"}
  /\ None \notin Users \cup Items \cup Reservations

VARIABLES itemStatus,     \* ReusableObject.status; "absent" before reception
          approved,       \* publication.status is 'approved'
          outlet,         \* the centre: open, inactive, or otherwise not
                          \* ready ("shut": closed, inactive category, ...)
          status,         \* Reservation.status; "none" before the INSERT
          resItem,        \* Reservation.inventory_item
          resUser,        \* Reservation.user
          expiresAt,      \* Reservation.expires_at
          qrInvalidated,  \* Reservation.qr_invalidated_at is set
          clock,          \* timezone.now()
          pc,             \* where each session is
          resOf,          \* the reservation a session works on
          askItem,        \* the object a session reserves or receives
          askUser,        \* the user it reserves for, or its operator
          batch,          \* due reservations a command has still to visit
          overtaken       \* history: sessions about to close a reservation
                          \* whose object was edited since they read it

resVars     == <<status, resItem, resUser, expiresAt, qrInvalidated>>
stockVars   == <<itemStatus, approved, outlet>>
sessionVars == <<pc, resOf, askItem, askUser, batch, overtaken>>
vars == <<movements, stockVars, resVars, clock, sessionVars>>

ResStatuses == {"none", "active", "expired", "cancelled", "completed"}
Outlets     == {"open", "shut", "inactive"}
Steps       == {"idle", "receiving", "reserving", "cancelling", "scanned",
                "locked", "collecting", "charging", "sweeping", "expiring",
                "returning", "keeping"}

TypeOK ==
  /\ movements \subseteq Movement
  /\ itemStatus \in [Items -> ItemStatuses]
  /\ approved \in [Items -> BOOLEAN]
  /\ outlet \in [Items -> Outlets]
  /\ status \in [Reservations -> ResStatuses]
  /\ resItem \in [Reservations -> Items \cup {None}]
  /\ resUser \in [Reservations -> Users \cup {None}]
  /\ expiresAt \in [Reservations -> 0 .. MaxClock + Duration]
  /\ qrInvalidated \in [Reservations -> BOOLEAN]
  /\ clock \in 0 .. MaxClock
  /\ pc \in [Sessions -> Steps]
  /\ resOf \in [Sessions -> Reservations \cup {None}]
  /\ askItem \in [Sessions -> Items \cup {None}]
  /\ askUser \in [Sessions -> Users \cup {None}]
  /\ batch \in [Sessions -> SUBSET Reservations]
  /\ overtaken \subseteq Sessions

-----------------------------------------------------------------------------
(* Row locks.  A row is free when no session holds its lock.               *)

ReservationFree(r) ==
  \A s \in Sessions :
    pc[s] \in {"cancelling", "locked", "collecting", "charging", "expiring",
              "returning", "keeping"}
      => resOf[s] # r

\* Variant: the object is read without FOR UPDATE.
ItemFreeUnlocked(i) == i \in Items

ItemFree(i) ==
  \A s \in Sessions :
    /\ pc[s] = "reserving" => askItem[s] # i
    /\ pc[s] \in {"collecting", "charging", "returning", "keeping"} =>
         resItem[resOf[s]] # i

PublicationFree(i) ==
  \A s \in Sessions : pc[s] = "receiving" => askItem[s] # i

\* The row of a user that s holds until it commits: whom it charges, or whom
\* it awards points to.
HeldUser(s) ==
  CASE pc[s] = "charging"  -> resUser[resOf[s]]
    [] pc[s] = "receiving" -> Owner[askItem[s]]
    [] OTHER               -> None

UserFree(u) == \A s \in Sessions : HeldUser(s) # u

\* No other transaction holds the row of u: COMMIT of s gets its KEY SHARE.
Referable(s, u) == \A t \in Sessions \ {s} : HeldUser(t) # u

-----------------------------------------------------------------------------
(* What the transactions read.                                             *)

\* Variant: the query for an active reservation finds nothing, and there is no
\* partial unique constraint behind it.
HasActiveIgnored(i) == i \notin Items

HasActive(i) ==
  \E r \in Reservations : status[r] = "active" /\ resItem[r] = i

\* catalog_readiness_errors is empty
CatalogReady(i) == approved[i] /\ outlet[i] = "open"

\* InventoryItem.objects.public_catalog() contains i
InPublicCatalog(i) ==
  itemStatus[i] = "available" /\ ~HasActive(i) /\ CatalogReady(i)

\* ensure_sufficient_points, Reservation.clean, the partial unique constraint
\* on active reservations, and ReusableObject.clean when the object is saved
MayReserve(i, u) ==
  /\ HasSufficientPoints(u)
  /\ itemStatus[i] = "available"
  /\ ~HasActive(i)
  /\ approved[i]

\* Variant: expires_at__lt for expires_at__lte.
DueStrictly(r) == status[r] = "active" /\ expiresAt[r] < clock

Due(r) == status[r] = "active" /\ expiresAt[r] <= clock

\* the tests reservation_from_qr_token makes, and complete_pickup repeats
TokenValid(r) ==
  status[r] = "active" /\ ~qrInvalidated[r] /\ expiresAt[r] > clock

\* complete_pickup, once both rows are locked
MayCollect(r) == TokenValid(r) /\ itemStatus[resItem[r]] = "reserved"

-----------------------------------------------------------------------------
Init ==
  /\ \E registered \in SUBSET Users :
       movements = {[user |-> u, reason |-> "registration", about |-> u] :
                      u \in registered}
  /\ itemStatus = [i \in Items |-> "absent"]
  /\ approved = [i \in Items |-> TRUE]
  /\ outlet = [i \in Items |-> "open"]
  /\ status = [r \in Reservations |-> "none"]
  /\ resItem = [r \in Reservations |-> None]
  /\ resUser = [r \in Reservations |-> None]
  /\ expiresAt = [r \in Reservations |-> 0]
  /\ qrInvalidated = [r \in Reservations |-> FALSE]
  /\ clock = 0
  /\ pc = [s \in Sessions |-> "idle"]
  /\ resOf = [s \in Sessions |-> None]
  /\ askItem = [s \in Sessions |-> None]
  /\ askUser = [s \in Sessions |-> None]
  /\ batch = [s \in Sessions |-> {}]
  /\ overtaken = {}

\* The transaction of s ends, by COMMIT or ROLLBACK, and lets its locks go.
Finish(s) ==
  /\ pc' = [pc EXCEPT ![s] = "idle"]
  /\ resOf' = [resOf EXCEPT ![s] = None]
  /\ askItem' = [askItem EXCEPT ![s] = None]
  /\ askUser' = [askUser EXCEPT ![s] = None]
  /\ batch' = [batch EXCEPT ![s] = {}]
  /\ overtaken' = overtaken \ {s}

\* s goes on to step with reservation r
GoOn(s, step, r) ==
  /\ pc' = [pc EXCEPT ![s] = step]
  /\ resOf' = [resOf EXCEPT ![s] = r]
  /\ UNCHANGED <<askItem, askUser, batch, overtaken>>

-----------------------------------------------------------------------------
(* inspect_reception, accepting                                            *)

\* One SELECT locks the publication, its submitter's row and its category;
\* scope_publications and the readiness are tested then.
LockToReceive(s, i, operator) ==
  /\ s \in Workers /\ pc[s] = "idle"
  /\ PublicationFree(i)
  /\ UserFree(Owner[i])
  /\ itemStatus[i] = "absent"
  /\ CatalogReady(i)
  /\ pc' = [pc EXCEPT ![s] = "receiving"]
  /\ askItem' = [askItem EXCEPT ![s] = i]
  /\ askUser' = [askUser EXCEPT ![s] = operator]
  /\ UNCHANGED <<movements, stockVars, resVars, clock, resOf, batch,
                 overtaken>>

\* Variant: the object enters as PENDING_VALIDATION.
ReceiveItemUnvalidated(s) ==
  LET i == askItem[s]
  IN  /\ pc[s] = "receiving"
      /\ Referable(s, askUser[s])
      /\ itemStatus' = [itemStatus EXCEPT ![i] = "pending_validation"]
      /\ CreatePointMovement(Owner[i], "object_accepted", i)
      /\ Finish(s)
      /\ UNCHANGED <<approved, outlet, resVars, clock>>

\* The object enters the inventory AVAILABLE and its owner is awarded points;
\* the inspection and the audit event name the operator.
ReceiveItem(s) ==
  LET i == askItem[s]
  IN  /\ pc[s] = "receiving"
      /\ Referable(s, askUser[s])
      /\ itemStatus' = [itemStatus EXCEPT ![i] = "available"]
      /\ CreatePointMovement(Owner[i], "object_accepted", i)
      /\ Finish(s)
      /\ UNCHANGED <<approved, outlet, resVars, clock>>

-----------------------------------------------------------------------------
(* create_reservation                                                      *)

\* A free row for each session about to insert one: the bound on the table.
RowsLeft ==
  Cardinality({r \in Reservations : status[r] = "none"}) >
    Cardinality({s \in Sessions : pc[s] = "reserving"})

LockItemToReserve(s, i, u) ==
  /\ s \in Workers /\ pc[s] = "idle"
  /\ RowsLeft
  /\ ItemFree(i)
  /\ u # Owner[i]
  /\ InPublicCatalog(i)
  /\ pc' = [pc EXCEPT ![s] = "reserving"]
  /\ askItem' = [askItem EXCEPT ![s] = i]
  /\ askUser' = [askUser EXCEPT ![s] = u]
  /\ UNCHANGED <<movements, stockVars, resVars, clock, resOf, batch,
                 overtaken>>

CreateReservation(s) ==
  /\ pc[s] = "reserving"
  /\ UserFree(askUser[s])
  /\ MayReserve(askItem[s], askUser[s])
  /\ \E r \in Reservations :
       /\ status[r] = "none"
       /\ status' = [status EXCEPT ![r] = "active"]
       /\ resItem' = [resItem EXCEPT ![r] = askItem[s]]
       /\ resUser' = [resUser EXCEPT ![r] = askUser[s]]
       /\ expiresAt' = [expiresAt EXCEPT ![r] = clock + Duration]
  /\ itemStatus' = [itemStatus EXCEPT ![askItem[s]] = "reserved"]
  /\ Finish(s)
  /\ UNCHANGED <<movements, approved, outlet, qrInvalidated, clock>>

-----------------------------------------------------------------------------
(* What cancel_reservation and expire_reservation have in common.          *)

\* Variant: only the publication is looked at, not the centre.
LockItemToCloseAnywhere(s) ==
  LET i == resItem[resOf[s]]
  IN  /\ pc[s] \in {"cancelling", "expiring"}
      /\ ItemFree(i)
      /\ GoOn(s, IF itemStatus[i] = "reserved" /\ approved[i]
                 THEN "returning" ELSE "keeping", resOf[s])
      /\ UNCHANGED <<movements, stockVars, resVars, clock>>

\* The object is locked; its publication, category and centre are read with
\* no lock.  An object that is still RESERVED and ready goes back to the
\* catalogue, any other keeps its status.
LockItemToClose(s) ==
  LET i == resItem[resOf[s]]
  IN  /\ pc[s] \in {"cancelling", "expiring"}
      /\ ItemFree(i)
      /\ GoOn(s, IF itemStatus[i] = "reserved" /\ CatalogReady(i)
                 THEN "returning" ELSE "keeping", resOf[s])
      /\ UNCHANGED <<movements, stockVars, resVars, clock>>

\* The reservation is closed and its QR invalidated, and the object does what
\* was decided when it was read.
CloseUncollected(s, outcome) ==
  LET r == resOf[s]
  IN  /\ status' = [status EXCEPT ![r] = outcome]
      /\ qrInvalidated' = [qrInvalidated EXCEPT ![r] = TRUE]
      /\ itemStatus' = IF pc[s] = "returning"
                       THEN [itemStatus EXCEPT ![resItem[r]] = "available"]
                       ELSE itemStatus
      /\ UNCHANGED <<movements, approved, outlet, resItem, resUser, expiresAt,
                     clock>>

\* Variant: the status is not looked at under the lock.
LockToCancelAny(s, r) ==
  /\ s \in Workers /\ pc[s] = "idle"
  /\ ReservationFree(r)
  /\ status[r] # "none"
  /\ GoOn(s, "cancelling", r)
  /\ UNCHANGED <<movements, stockVars, resVars, clock>>

\* cancel_reservation; only the person who reserved may ask for it
LockToCancel(s, r) ==
  /\ s \in Workers /\ pc[s] = "idle"
  /\ ReservationFree(r)
  /\ status[r] = "active"
  /\ GoOn(s, "cancelling", r)
  /\ UNCHANGED <<movements, stockVars, resVars, clock>>

\* The audit event names the person who cancels.
CancelReservation(s) ==
  /\ s \in Workers /\ pc[s] \in {"returning", "keeping"}
  /\ Referable(s, resUser[resOf[s]])
  /\ CloseUncollected(s, "cancelled")
  /\ Finish(s)

-----------------------------------------------------------------------------
(* expire_due_reservations: an unlocked query lists what is due, then each *)
(* reservation is expired in a transaction of its own.                     *)

ListDue(s) ==
  /\ s \in Commands /\ pc[s] = "idle"
  /\ \E r \in Reservations : Due(r)
  /\ pc' = [pc EXCEPT ![s] = "sweeping"]
  /\ batch' = [batch EXCEPT ![s] = {r \in Reservations : Due(r)}]
  /\ UNCHANGED <<movements, stockVars, resVars, clock, resOf, askItem, askUser,
                 overtaken>>

\* Variant: what the list said is trusted under the lock.
LockToExpireStale(s, r) ==
  /\ pc[s] = "sweeping" /\ r \in batch[s]
  /\ ReservationFree(r)
  /\ GoOn(s, "expiring", r)
  /\ UNCHANGED <<movements, stockVars, resVars, clock>>

\* Under the lock the row is read again.  The code compares expires_at with
\* the time the list was read at: the clock has only advanced since.
LockToExpire(s, r) ==
  /\ pc[s] = "sweeping" /\ r \in batch[s]
  /\ ReservationFree(r)
  /\ Due(r)
  /\ GoOn(s, "expiring", r)
  /\ UNCHANGED <<movements, stockVars, resVars, clock>>

SkipClosed(s, r) ==
  /\ pc[s] = "sweeping" /\ r \in batch[s]
  /\ ReservationFree(r)
  /\ ~Due(r)
  /\ batch' = [batch EXCEPT ![s] = @ \ {r}]
  /\ UNCHANGED <<movements, stockVars, resVars, clock, pc, resOf, askItem,
                 askUser, overtaken>>

\* The audit event of an expiry names nobody.
ExpireReservation(s) ==
  /\ s \in Commands /\ pc[s] \in {"returning", "keeping"}
  /\ CloseUncollected(s, "expired")
  /\ pc' = [pc EXCEPT ![s] = "sweeping"]
  /\ resOf' = [resOf EXCEPT ![s] = None]
  /\ batch' = [batch EXCEPT ![s] = @ \ {resOf[s]}]
  /\ overtaken' = overtaken \ {s}
  /\ UNCHANGED <<askItem, askUser>>

EndSweep(s) ==
  /\ pc[s] = "sweeping" /\ batch[s] = {}
  /\ Finish(s)
  /\ UNCHANGED <<movements, stockVars, resVars, clock>>

-----------------------------------------------------------------------------
(* complete_pickup                                                         *)

\* reservation_from_qr_token and assert_operator_can_pickup lock nothing;
\* no operator may receive objects at an inactive centre.
ScanToken(s, r, operator) ==
  /\ s \in Workers /\ pc[s] = "idle"
  /\ TokenValid(r)
  /\ outlet[resItem[r]] # "inactive"
  /\ pc' = [pc EXCEPT ![s] = "scanned"]
  /\ resOf' = [resOf EXCEPT ![s] = r]
  /\ askUser' = [askUser EXCEPT ![s] = operator]
  /\ UNCHANGED <<movements, stockVars, resVars, clock, askItem, batch,
                 overtaken>>

LockScanned(s) ==
  /\ pc[s] = "scanned"
  /\ ReservationFree(resOf[s])
  /\ GoOn(s, "locked", resOf[s])
  /\ UNCHANGED <<movements, stockVars, resVars, clock>>

\* Variant: the token is not validated again once the rows are locked.
LockItemUnchecked(s) ==
  /\ pc[s] = "locked"
  /\ ItemFree(resItem[resOf[s]])
  /\ GoOn(s, "collecting", resOf[s])
  /\ UNCHANGED <<movements, stockVars, resVars, clock>>

LockItemToCollect(s) ==
  /\ pc[s] = "locked"
  /\ ItemFree(resItem[resOf[s]])
  /\ MayCollect(resOf[s])
  /\ GoOn(s, "collecting", resOf[s])
  /\ UNCHANGED <<movements, stockVars, resVars, clock>>

\* ensure_sufficient_points locks the payer; then the object is saved, which
\* validates it: its publication must be approved.
MayCharge(r) ==
  HasSufficientPoints(resUser[r]) /\ approved[resItem[r]]

LockPayer(s) ==
  /\ pc[s] = "collecting"
  /\ UserFree(resUser[resOf[s]])
  /\ MayCharge(resOf[s])
  /\ GoOn(s, "charging", resOf[s])
  /\ UNCHANGED <<movements, stockVars, resVars, clock>>

\* Variant: the object leaves and nothing is charged.
CompleteFree(s) ==
  LET r == resOf[s]
  IN  /\ pc[s] = "charging"
      /\ Referable(s, askUser[s])
      /\ itemStatus' = [itemStatus EXCEPT ![resItem[r]] = "delivered"]
      /\ status' = [status EXCEPT ![r] = "completed"]
      /\ qrInvalidated' = [qrInvalidated EXCEPT ![r] = TRUE]
      /\ Finish(s)
      /\ UNCHANGED <<movements, approved, outlet, resItem, resUser, expiresAt,
                     clock>>

\* pickup_operator, the audit event and the operation name the operator.
CompletePickup(s) ==
  LET r == resOf[s]
  IN  /\ pc[s] = "charging"
      /\ Referable(s, askUser[s])
      /\ itemStatus' = [itemStatus EXCEPT ![resItem[r]] = "delivered"]
      /\ status' = [status EXCEPT ![r] = "completed"]
      /\ qrInvalidated' = [qrInvalidated EXCEPT ![r] = TRUE]
      /\ CreatePointMovement(resUser[r], "object_picked_up", r)
      /\ Finish(s)
      /\ UNCHANGED <<approved, outlet, resItem, resUser, expiresAt, clock>>

-----------------------------------------------------------------------------
(* A transaction that raises, and a session that dies, roll back: nothing  *)
(* is written.  complete_pickup also ends here, without an error, when it  *)
(* finds the reservation already COMPLETED.  An object that goes back to   *)
(* the catalogue is validated as it is saved: its publication may have     *)
(* lost the approval since it was read.                                    *)
Refuse(s) ==
  /\ \/ /\ pc[s] = "reserving"
        /\ UserFree(askUser[s])
        /\ ~MayReserve(askItem[s], askUser[s])
     \/ /\ pc[s] = "locked"
        /\ ItemFree(resItem[resOf[s]])
        /\ ~MayCollect(resOf[s])
     \/ /\ pc[s] = "collecting"
        /\ UserFree(resUser[resOf[s]])
        /\ ~MayCharge(resOf[s])
     \/ /\ pc[s] = "returning"
        /\ ~approved[resItem[resOf[s]]]
  /\ Finish(s)
  /\ UNCHANGED <<movements, stockVars, resVars, clock>>

\* Sessions that wait at COMMIT, each for the row of its operator, which
\* another of them holds, and each waited for by another of them
InCircle(H) ==
  \A s \in H :
    /\ pc[s] \in {"charging", "receiving"}
    /\ \E t \in H \ {s} : HeldUser(t) = askUser[s]
    /\ \E t \in H \ {s} : HeldUser(s) = askUser[t]

\* Variant: the database lets them wait.
VictimNever(s) == s \notin Sessions /\ UNCHANGED vars

\* The deadlock detector of PostgreSQL aborts one of the transactions that wait
\* for each other.
Victim(s) ==
  /\ \E H \in SUBSET Sessions : s \in H /\ InCircle(H)
  /\ Finish(s)
  /\ UNCHANGED <<movements, stockVars, resVars, clock>>

Crash(s) ==
  /\ pc[s] # "idle"
  /\ Finish(s)
  /\ UNCHANGED <<movements, stockVars, resVars, clock>>

-----------------------------------------------------------------------------
(* Staff edits take no lock beforehand: the publication in the admin site  *)
(* and the object there, whose UPDATEs wait for the row locks, and whose   *)
(* validation requires the approved publication; the centre or the         *)
(* category in the back office.                                            *)

\* The sessions that have read what is around i and not closed yet
ClosingOn(i) ==
  {s \in Sessions : pc[s] \in {"returning", "keeping"} /\ resItem[resOf[s]] = i}

EditPublication(i) ==
  /\ PublicationFree(i)
  /\ approved' = [approved EXCEPT ![i] = ~@]
  /\ overtaken' = overtaken \cup ClosingOn(i)
  /\ UNCHANGED <<movements, itemStatus, outlet, resVars, clock, pc, resOf,
                 askItem, askUser, batch>>

EditCenter(i, o) ==
  /\ outlet[i] # o
  /\ outlet' = [outlet EXCEPT ![i] = o]
  /\ overtaken' = overtaken \cup ClosingOn(i)
  /\ UNCHANGED <<movements, itemStatus, approved, resVars, clock, pc, resOf,
                 askItem, askUser, batch>>

EditItemStatus(i, st) ==
  /\ itemStatus[i] \notin {"absent", st}
  /\ ItemFree(i)
  /\ approved[i]
  /\ itemStatus' = [itemStatus EXCEPT ![i] = st]
  /\ UNCHANGED <<movements, approved, outlet, resVars, clock, sessionVars>>

Tick ==
  /\ clock < MaxClock
  /\ clock' = clock + 1
  /\ UNCHANGED <<movements, stockVars, resVars, sessionVars>>

-----------------------------------------------------------------------------
SessionStep(s) ==
  \/ ReceiveItem(s)
  \/ CreateReservation(s)
  \/ LockItemToClose(s)
  \/ CancelReservation(s)
  \/ \E r \in Reservations : LockToExpire(s, r) \/ SkipClosed(s, r)
  \/ ExpireReservation(s)
  \/ EndSweep(s)
  \/ LockScanned(s)
  \/ LockItemToCollect(s)
  \/ LockPayer(s)
  \/ CompletePickup(s)
  \/ Refuse(s)
  \/ Victim(s)

Request(s) ==
  \/ \E i \in Items, o \in Operators : LockToReceive(s, i, o)
  \/ \E i \in Items, u \in Users : LockItemToReserve(s, i, u)
  \/ \E r \in Reservations : LockToCancel(s, r)
  \/ \E r \in Reservations, o \in Operators : ScanToken(s, r, o)
  \/ ListDue(s)

Environment ==
  \/ \E i \in VolatileItems : EditPublication(i)
  \/ \E i \in VolatileItems, o \in Outlets : EditCenter(i, o)
  \/ \E i \in Items, st \in StaffStatuses : EditItemStatus(i, st)
  \/ Tick

\* A step that is not a failure
Proceed ==
  \/ \E s \in Sessions : SessionStep(s) \/ Request(s)
  \/ Environment

Next == Proceed \/ \E s \in Sessions : Crash(s)

Spec == Init /\ [][Next]_vars

(***************************************************************************)
(* Fairness.  PostgreSQL queues the transactions that wait for a row, so a *)
(* transaction that can go on again and again does (strong fairness), as   *)
(* does its deadlock detector; the command is run again and again; and     *)
(* failures do not go on for ever.                                         *)
(* Nobody is obliged to request, cancel or collect anything.               *)
(***************************************************************************)
Fairness ==
  /\ <>[][Proceed]_vars
  /\ \A s \in Sessions : SF_vars(SessionStep(s))
  /\ \A s \in Commands : WF_vars(ListDue(s))

-----------------------------------------------------------------------------
(* Properties.                                                             *)

\* Two requests for one object never both get it: an object has at most one
\* active reservation (create_reservation under the row lock, and the partial
\* unique constraint), whatever staff write to the object meanwhile.
OneActivePerItem ==
  \A r, q \in Reservations :
    /\ status[r] = "active" /\ status[q] = "active"
    /\ resItem[r] = resItem[q]
    => r = q

\* Whoever has an active reservation finds the object set aside: cancelling,
\* expiring or collecting another reservation never frees it under them.
ActiveHoldsItem ==
  \A r \in Reservations :
    status[r] = "active" => itemStatus[resItem[r]] = "reserved"

\* An object is handed over once: it is DELIVERED exactly when one of its
\* reservations, and only one, is COMPLETED (complete_pickup run by two
\* operators with the same QR).
DeliveredOnce ==
  /\ \A i \in Items :
       itemStatus[i] = "delivered" <=>
         \E r \in Reservations : status[r] = "completed" /\ resItem[r] = i
  /\ \A r, q \in Reservations :
       /\ status[r] = "completed" /\ status[q] = "completed"
       /\ resItem[r] = resItem[q]
       => r = q

\* The pickup charge is in the ledger exactly when the pickup is complete,
\* against the person who reserved, whatever fails or is repeated between.
PaidIffCollected ==
  \A r \in Reservations :
    {m \in movements : m.reason = "object_picked_up" /\ m.about = r} =
      IF status[r] = "completed"
      THEN {[user |-> resUser[r], reason |-> "object_picked_up", about |-> r]}
      ELSE {}

\* Nobody spends points they do not have.  A reservation does not set points
\* aside, so several may be open against one balance and be collected at the
\* same time by different operators.
NeverOverdrawn ==
  \A u \in Users :
    PICKUP_POINTS * Cardinality(MovementsOf(u, "object_picked_up")) <=
      REGISTRATION_POINTS * Cardinality(MovementsOf(u, "registration"))
        + ACCEPTED_OBJECT_POINTS *
            Cardinality(MovementsOf(u, "object_accepted"))

\* Nobody reserves the object they gave, and a QR is valid exactly as long as
\* its reservation is active.
ReservationsSound ==
  \A r \in Reservations : status[r] # "none" =>
    /\ resUser[r] # Owner[resItem[r]]
    /\ qrInvalidated[r] <=> status[r] # "active"
    /\ status[r] = "expired" => expiresAt[r] <= clock

\* What a transaction tested under its locks is still so when it writes: the
\* object it receives is not in yet, the object it reserves is free, the
\* reservation it closes is active, the object it delivers or puts back is
\* reserved and the payer can pay.
TestedStaysTrue ==
  \A s \in Sessions :
    /\ pc[s] = "receiving" => itemStatus[askItem[s]] = "absent"
    /\ pc[s] = "reserving" =>
         itemStatus[askItem[s]] = "available" /\ ~HasActive(askItem[s])
    /\ pc[s] \in {"cancelling", "expiring", "collecting", "charging",
                 "returning", "keeping"} => status[resOf[s]] = "active"
    /\ pc[s] \in {"collecting", "charging", "returning"} =>
         itemStatus[resItem[resOf[s]]] = "reserved"
    /\ pc[s] = "charging" => HasSufficientPoints(resUser[resOf[s]])

\* A reservation that was cancelled, expired or collected stays so, and keeps
\* its object and its person, though the sweep works from a stale list and the
\* operator from a token read before the lock.
ClosedIsFinal ==
  [][\A r \in Reservations :
       status[r] \in {"expired", "cancelled", "completed"} =>
         UNCHANGED <<status[r], resItem[r], resUser[r], qrInvalidated[r]>>]_vars

\* A reservation that is closed without pickup puts its object back in the
\* catalogue exactly when the publication and the centre are ready for it as
\* the reservation closes, unless they were edited after the transaction read
\* them, with no lock, and before it committed (cancel_reservation and
\* expire_reservation).  Nothing else puts a reserved object back.
ReleaseFollowsReadiness ==
  [][\A i \in Items : itemStatus[i] = "reserved" =>
       LET closed == {r \in Reservations :
                        /\ resItem[r] = i
                        /\ status[r] = "active"
                        /\ status'[r] \in {"cancelled", "expired"}}
           released == itemStatus'[i] = "available"
       IN  /\ released => closed # {}
           /\ closed # {} =>
                \/ released <=> approved[i] /\ outlet[i] = "open"
                \/ \E s \in overtaken : resOf[s] \in closed]_vars

\* An active reservation whose time has passed is eventually closed.
DueIsClosed ==
  \A r \in Reservations :
    status[r] = "active" /\ expiresAt[r] <= clock ~> status[r] # "active"

\* Every transaction ends: no session waits for its next row lock for ever.
TransactionsEnd ==
  \A s \in Sessions : pc[s] # "idle" ~> pc[s] = "idle"

-----------------------------------------------------------------------------
(* The circuit implements its abstract specification.  An object that is   *)
(* RESERVED and has no active reservation is stranded.                     *)
placeOf ==
  [i \in Items |->
     CASE itemStatus[i] = "available" -> "offered"
       [] itemStatus[i] = "delivered" -> "gone"
       [] itemStatus[i] = "reserved"  ->
            IF HasActive(i) THEN "held" ELSE "stranded"
       [] OTHER -> "absent"]

holdersOf ==
  [i \in Items |->
     {resUser[r] : r \in {q \in Reservations :
        status[q] = "active" /\ resItem[q] = i}}]

balanceOf == [u \in Users |-> PointsBalance(u)]

C == INSTANCE Custody WITH
  place <- placeOf, holders <- holdersOf, balance <- balanceOf

\* Seen from outside, the interleaved transactions are indivisible: every step
\* of every session is a step of one object between offered, held by one
\* person, stranded and gone, or nothing; and the holder pays exactly when the
\* object leaves.
CustodySpec == C!Spec
=============================================================================
