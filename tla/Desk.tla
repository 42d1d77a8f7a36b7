-------------------------------- MODULE Desk --------------------------------
(***************************************************************************)
(* Desk: the back office at work (core/permissions.py, backoffice,         *)
(* inventory, moderation).  Members moderate publications, inspect what    *)
(* is brought to a centre and hand over what was reserved.  Each sees the  *)
(* part that their role and their centres allow; an administrator may      *)
(* narrow it to centres kept in the web session.  The dashboard and the    *)
(* queues compute what they list each on their own, and the pages that     *)
(* their links open test again.                                            *)
(*                                                                         *)
(* An inspection is a request of two steps.  reception_detail reads the    *)
(* publication, offers the centres and validates the form, and             *)
(* inspect_reception checks the centre, all without a lock; then it locks  *)
(* the publication, reads again and writes.                                *)
(*                                                                         *)
(* Reservations are told from outside here: a received object may have one *)
(* that is active.  Categories and points have modules of their own.       *)
(***************************************************************************)
EXTENDS Naturals, FiniteSets

CONSTANTS Members,        \* of the back office, with an active account
          FirstRole,      \* the group of each at first
          GivenRoles,     \* bound on the roles that are given
          Centers,
          Publications,
          Workers,        \* web processes serving inspections
          Posted,         \* the centres each has access to at first
          Reassigned,     \* members whose role and centres change
          Volatile,       \* centres that close and open
          MaxRejections,  \* bound on the rejections of one publication
          None

Roles    == {"administrator", "manager", "moderator", "none"}
Statuses == {"pending_review", "approved", "other"}

Item     == [center : Centers, by : {"inspection", "hand"}]

ASSUME DeskAssumption ==
  /\ FirstRole \in [Members -> Roles]
  /\ GivenRoles \subseteq Roles
  /\ Posted \in [Members -> SUBSET Centers]
  /\ Reassigned \subseteq Members
  /\ Volatile \subseteq Centers
  /\ MaxRejections \in Nat
  /\ None \notin Centers \cup Item

VARIABLES status,      \* of each publication
          submitted,   \* publications with a submitted_at
          byHand,      \* those made pending in the admin site
          home,        \* the habitual centre of its submitter
          item,        \* its inventory row: where it is and who entered it
          accepted,    \* the centre of its accepted inspection
          rejections,  \* rejected inspections
          deposits,    \* DEPOSIT operations
          awards,      \* movements of OBJECT_ACCEPTED points
          booked,      \* has an active reservation
          centerState,
          role,        \* each member's group
          posts,       \* each member's active accesses to centres
          picked,      \* the centres in each member's web session
          pc, form

dates       == <<submitted, byHand>>
pubVars     == <<status, dates, home>>
stockVars   == <<item, accepted, rejections, deposits, awards>>
staffVars   == <<centerState, role, posts, picked>>
sessionVars == <<pc, form>>
vars == <<pubVars, stockVars, booked, staffVars, sessionVars>>

Form == [by : Members, pub : Publications, center : Centers, fit : BOOLEAN]

TypeOK ==
  /\ status \in [Publications -> Statuses]
  /\ submitted \subseteq Publications
  /\ byHand \subseteq Publications
  /\ home \in [Publications -> Centers \cup {None}]
  /\ item \in [Publications -> Item \cup {None}]
  /\ accepted \in [Publications -> Centers \cup {None}]
  /\ rejections \in [Publications -> 0 .. MaxRejections]
  /\ deposits \in [Publications -> Nat]
  /\ awards \in [Publications -> Nat]
  /\ booked \subseteq Publications
  /\ centerState \in [Centers -> {"open", "closed", "inactive"}]
  /\ role \in [Members -> Roles]
  /\ posts \in [Members -> SUBSET Centers]
  /\ picked \in [Members -> SUBSET Centers]
  /\ pc \in [Workers -> {"idle", "inspecting"}]
  /\ form \in [Workers -> Form \cup {None}]
  /\ \A s \in Workers : pc[s] = "inspecting" => form[s] \in Form

-----------------------------------------------------------------------------
(* Who may do what, and where: core/permissions.py.                        *)

Administrator(u) == role[u] = "administrator"
Manager(u)       == role[u] = "manager"
CanModerate(u)   == role[u] # "none"

ActiveCenters == {c \in Centers : centerState[c] # "inactive"}

\* The centres of u that are active.  Of a manager's only one counts, and
\* two count for none.
Manned(u)      == posts[u] \cap ActiveCenters
Operational(u) == IF Cardinality(Manned(u)) = 1 THEN Manned(u) ELSE {}

AllowedReceptionCenters(u) ==
  CASE Administrator(u) -> ActiveCenters
    [] Manager(u)       -> Operational(u)
    [] OTHER            -> Manned(u)

\* ManagerOperationalScopeMiddleware sends every page of u elsewhere.
Unassigned(u) == Manager(u) /\ Operational(u) = {}

\* Where a publication belongs before and after its reception
CenterOf(p) == IF item[p] = None THEN home[p] ELSE item[p].center

ScopePublications(u, P) ==
  {p \in P : Manager(u) => CenterOf(p) \in Operational(u)}

ScopeReservations(u, P) ==
  {p \in P : Manager(u) => item[p].center \in Operational(u)}

-----------------------------------------------------------------------------
(* The administrator's filter: backoffice/center_filter.py.                *)

\* Variant: who stored them is not asked again.
SelectionStored(u) == picked[u] \cap ActiveCenters

\* The centres in force: of those in the session the ones still active; with
\* none left, all.
Selection(u) ==
  IF Administrator(u) THEN picked[u] \cap ActiveCenters ELSE {}

Filtered(u, P) ==
  IF Selection(u) = {} THEN P ELSE {p \in P : CenterOf(p) \in Selection(u)}

FilteredCenters(u) ==
  AllowedReceptionCenters(u) \cap
    (IF Selection(u) = {} THEN Centers ELSE Selection(u))

-----------------------------------------------------------------------------
(* What the pages list.                                                    *)

Pending  == {p \in Publications : status[p] = "pending_review"}
Awaited  == {p \in Publications : status[p] = "approved" /\ item[p] = None}

\* The reservations that can be collected at a centre of C
Collectable(C) == {p \in booked : item[p].center \in C}

\* The dashboard's figures
DashboardModeration(u) ==
  IF CanModerate(u) THEN Filtered(u, ScopePublications(u, Pending)) ELSE {}

DashboardReception(u) ==
  IF FilteredCenters(u) # {} THEN Filtered(u, ScopePublications(u, Awaited))
                             ELSE {}

DashboardPickups(u) ==
  Filtered(u, ScopeReservations(u, Collectable(FilteredCenters(u))))

\* _staff_publications: only what has been submitted is for a moderator.
StaffPublications(u) == ScopePublications(u, submitted)

\* The queues, which a member without the permission cannot open
ModerationQueue(u) ==
  {p \in Filtered(u, StaffPublications(u)) :
     CanModerate(u) /\ status[p] = "pending_review"}

ReceptionQueue(u) ==
  IF AllowedReceptionCenters(u) = {} THEN {}
  ELSE Filtered(u, {p \in ScopePublications(u, Publications) :
                      status[p] = "approved" /\ item[p] = None})

PickupQueue(u) ==
  IF AllowedReceptionCenters(u) = {} THEN {}
  ELSE Filtered(u, ScopeReservations(u,
         Collectable(AllowedReceptionCenters(u))))

-----------------------------------------------------------------------------
(* What the pages they link to let a member do.                            *)

\* moderation_decide and moderate_publication
MayDecide(u, p) ==
  /\ ~Unassigned(u)
  /\ CanModerate(u)
  /\ p \in StaffPublications(u)
  /\ status[p] = "pending_review"

\* reception_detail, which shows who received the object when it was
ReceptionOpens(u, p) ==
  /\ ~Unassigned(u)
  /\ AllowedReceptionCenters(u) # {}
  /\ p \in ScopePublications(u, Publications)
  /\ status[p] = "approved"
  /\ item[p] # None => item[p].center \in AllowedReceptionCenters(u)

MayReceive(u, p) == ReceptionOpens(u, p) /\ item[p] = None

\* pickup_scan shows the reservation: assert_operator_can_pickup.
PickupOpens(u, p) ==
  /\ ~Unassigned(u)
  /\ p \in booked
  /\ item[p].center \in AllowedReceptionCenters(u)

-----------------------------------------------------------------------------
Init ==
  /\ status \in [Publications -> Statuses]
  /\ submitted = {p \in Publications : status[p] # "other"}
  /\ byHand = {}
  /\ home \in [Publications -> Centers \cup {None}]
  /\ item = [p \in Publications |-> None]
  /\ accepted = [p \in Publications |-> None]
  /\ rejections = [p \in Publications |-> 0]
  /\ deposits = [p \in Publications |-> 0]
  /\ awards = [p \in Publications |-> 0]
  /\ booked = {}
  /\ centerState = [c \in Centers |-> "open"]
  /\ role = FirstRole
  /\ posts = Posted
  /\ picked = [u \in Members |-> {}]
  /\ pc = [s \in Workers |-> "idle"]
  /\ form = [s \in Workers |-> None]

-----------------------------------------------------------------------------
(* Inspection.                                                             *)

\* The form offers the member's centres, whatever the filter; inspect_reception
\* goes on with the centre as the form read it.
PostInspection(s, u, p, c) ==
  /\ pc[s] = "idle"
  /\ MayReceive(u, p)
  /\ c \in AllowedReceptionCenters(u)
  /\ pc' = [pc EXCEPT ![s] = "inspecting"]
  /\ form' = [form EXCEPT ![s] =
       [by |-> u, pub |-> p, center |-> c, fit |-> centerState[c] = "open"]]
  /\ UNCHANGED <<pubVars, stockVars, booked, staffVars>>

Finish(s) ==
  /\ pc' = [pc EXCEPT ![s] = "idle"]
  /\ form' = [form EXCEPT ![s] = None]

\* The publication is locked and read again.
MayInspect(s) ==
  LET p == form[s].pub
  IN  /\ pc[s] = "inspecting"
      /\ p \in ScopePublications(form[s].by, Publications)
      /\ status[p] = "approved"

\* get_or_create by the object's reference, and create_point_movement, which
\* does the same
Once(n) == IF n = 0 THEN 1 ELSE n

\* Variant: whatever inventory row there is.
AcceptReceptionAnew(s) ==
  LET p == form[s].pub
  IN  /\ MayInspect(s)
      /\ accepted[p] = None
      /\ form[s].fit
      /\ item' = [item EXCEPT ![p] =
                    [center |-> form[s].center, by |-> "inspection"]]
      /\ accepted' = [accepted EXCEPT ![p] = form[s].center]
      /\ deposits' = [deposits EXCEPT ![p] = @ + 1]
      /\ awards' = [awards EXCEPT ![p] = @ + 1]
      /\ Finish(s)
      /\ UNCHANGED <<pubVars, rejections, booked, staffVars>>

\* Variant: the object is entered where its submitter belongs.
AcceptReceptionHome(s) ==
  LET p == form[s].pub
  IN  /\ MayInspect(s)
      /\ accepted[p] = None
      /\ form[s].fit
      /\ item[p] = None
      /\ item' = [item EXCEPT ![p] = [center |-> home[p], by |-> "inspection"]]
      /\ accepted' = [accepted EXCEPT ![p] = form[s].center]
      /\ deposits' = [deposits EXCEPT ![p] = Once(0)]
      /\ awards' = [awards EXCEPT ![p] = Once(0)]
      /\ Finish(s)
      /\ UNCHANGED <<pubVars, rejections, booked, staffVars>>

\* The category may refuse it, too: module Categories.
AcceptReception(s) ==
  LET p == form[s].pub
  IN  /\ MayInspect(s)
      /\ accepted[p] = None
      /\ form[s].fit
      /\ item[p] = None
      /\ item' = [item EXCEPT ![p] =
                    [center |-> form[s].center, by |-> "inspection"]]
      /\ accepted' = [accepted EXCEPT ![p] = form[s].center]
      /\ deposits' = [deposits EXCEPT ![p] = Once(0)]
      /\ awards' = [awards EXCEPT ![p] = Once(0)]
      /\ Finish(s)
      /\ UNCHANGED <<pubVars, rejections, booked, staffVars>>

\* An inspection, accepting or not, after one that accepted: the answer is the
\* first one, with its operation and its movement.
RepeatReception(s) ==
  LET p == form[s].pub
  IN  /\ MayInspect(s)
      /\ accepted[p] # None
      /\ deposits' = [deposits EXCEPT ![p] = Once(@)]
      /\ awards' = [awards EXCEPT ![p] = Once(@)]
      /\ Finish(s)
      /\ UNCHANGED <<pubVars, item, accepted, rejections, booked, staffVars>>

\* The publication stays approved and may be brought again.
RejectReception(s) ==
  LET p == form[s].pub
  IN  /\ MayInspect(s)
      /\ accepted[p] = None
      /\ rejections[p] < MaxRejections
      /\ rejections' = [rejections EXCEPT ![p] = @ + 1]
      /\ Finish(s)
      /\ UNCHANGED <<pubVars, item, accepted, deposits, awards, booked,
                     staffVars>>

\* The request is refused, or fails and is rolled back.
Abandon(s) ==
  /\ pc[s] = "inspecting"
  /\ Finish(s)
  /\ UNCHANGED <<pubVars, stockVars, booked, staffVars>>

-----------------------------------------------------------------------------
(* Moderation, reservations and their pickup, as seen from the desk.       *)

\* The page's test and the decision are one step here: between them only the
\* admin site leaves a publication pending without a date.
Decide(u, p, verdict) ==
  /\ MayDecide(u, p)
  /\ verdict # "pending_review"
  /\ status' = [status EXCEPT ![p] = verdict]
  /\ byHand' = byHand \ {p}
  /\ UNCHANGED <<submitted, home, stockVars, booked, staffVars, sessionVars>>

Book(p) ==
  /\ item[p] # None
  /\ p \notin booked
  /\ booked' = booked \cup {p}
  /\ UNCHANGED <<pubVars, stockVars, staffVars, sessionVars>>

\* The page opens for more than it hands over: complete_pickup refuses, too,
\* an object that is not reserved and a citizen short of points (module
\* Reservations).
HandOver(u, p) ==
  /\ PickupOpens(u, p)
  /\ booked' = booked \ {p}
  /\ UNCHANGED <<pubVars, stockVars, staffVars, sessionVars>>

-----------------------------------------------------------------------------
(* Whatever else is written meanwhile.                                     *)

\* Variant: the date is left to the moderator.
SubmitUndated(p) ==
  /\ status' = [status EXCEPT ![p] = "pending_review"]
  /\ byHand' = byHand \ {p}
  /\ UNCHANGED <<submitted, home, stockVars, booked, staffVars, sessionVars>>

\* publication_create and publication_edit write what they read before, or
\* never, whatever the publication has become: module Publications.
Submit(p) ==
  /\ status' = [status EXCEPT ![p] = "pending_review"]
  /\ submitted' = submitted \cup {p}
  /\ byHand' = byHand \ {p}
  /\ UNCHANGED <<home, stockVars, booked, staffVars, sessionVars>>

\* A draft saved writes every column: a submission since it was read is lost,
\* with its date.
SaveDraft(p) ==
  /\ status' = [status EXCEPT ![p] = "other"]
  /\ submitted' \in {submitted, submitted \ {p}}
  /\ byHand' = byHand \ {p}
  /\ UNCHANGED <<home, stockVars, booked, staffVars, sessionVars>>

Withdraw(p) ==
  /\ status' = [status EXCEPT ![p] = "other"]
  /\ byHand' = byHand \ {p}
  /\ UNCHANGED <<submitted, home, stockVars, booked, staffVars, sessionVars>>

\* The admin site offers every status and no date; it writes every column of
\* the row it read.
EditPublication(p, st) ==
  /\ status' = [status EXCEPT ![p] = st]
  /\ submitted' \in {submitted, submitted \ {p}}
  /\ byHand' = IF st = "pending_review" THEN byHand \cup {p} ELSE byHand \ {p}
  /\ UNCHANGED <<home, stockVars, booked, staffVars, sessionVars>>

\* The citizen's profile, whose form offers the centres that are open
EditHome(p, c) ==
  /\ home[p] # c
  /\ c \in {d \in Centers : centerState[d] = "open"} \cup {None}
  /\ home' = [home EXCEPT ![p] = c]
  /\ UNCHANGED <<status, dates, stockVars, booked, staffVars, sessionVars>>

EditCenter(c, st) ==
  /\ centerState[c] # st
  /\ centerState' = [centerState EXCEPT ![c] = st]
  /\ UNCHANGED <<pubVars, stockVars, booked, role, posts, picked, sessionVars>>

\* assign_staff_role gives a role and its centres; the admin site edits each.
EditStaff(u, r, C) ==
  /\ <<role[u], posts[u]>> # <<r, C>>
  /\ role' = [role EXCEPT ![u] = r]
  /\ posts' = [posts EXCEPT ![u] = C]
  /\ UNCHANGED <<pubVars, stockVars, booked, centerState, picked, sessionVars>>

\* Staff enter, move and delete objects in the admin site.  The foreign key
\* waits for the lock of the publication, of which there is one object; what
\* an operation or a reservation refers to is not deleted (one that is over
\* keeps it, too: here it does not).
EnterItem(p, c) ==
  /\ item[p] = None
  /\ status[p] = "approved"
  /\ item' = [item EXCEPT ![p] = [center |-> c, by |-> "hand"]]
  /\ UNCHANGED <<pubVars, accepted, rejections, deposits, awards, booked,
                 staffVars, sessionVars>>

MoveItem(p, c) ==
  /\ item[p] # None
  /\ item[p].center # c
  /\ status[p] = "approved"
  /\ item' = [item EXCEPT ![p].center = c]
  /\ UNCHANGED <<pubVars, accepted, rejections, deposits, awards, booked,
                 staffVars, sessionVars>>

DeleteItem(p) ==
  /\ item[p] # None
  /\ deposits[p] = 0
  /\ p \notin booked
  /\ item' = [item EXCEPT ![p] = None]
  /\ UNCHANGED <<pubVars, accepted, rejections, deposits, awards, booked,
                 staffVars, sessionVars>>

\* The admin site lets nobody add or change an inspection, but delete one.
DeleteInspection(p) ==
  /\ accepted[p] # None
  /\ accepted' = [accepted EXCEPT ![p] = None]
  /\ UNCHANGED <<pubVars, item, rejections, deposits, awards, booked,
                 staffVars, sessionVars>>

-----------------------------------------------------------------------------
(* update_center_filter                                                    *)

SetFilter(u, C) ==
  /\ Administrator(u)
  /\ C # {}
  /\ C \subseteq ActiveCenters
  /\ picked' = [picked EXCEPT ![u] = C]
  /\ UNCHANGED <<pubVars, stockVars, booked, centerState, role, posts,
                 sessionVars>>

ClearFilter(u) ==
  /\ Administrator(u)
  /\ picked' = [picked EXCEPT ![u] = {}]
  /\ UNCHANGED <<pubVars, stockVars, booked, centerState, role, posts,
                 sessionVars>>

-----------------------------------------------------------------------------
Next ==
  \/ \E s \in Workers :
       \/ \E u \in Members, p \in Publications, c \in Centers :
            PostInspection(s, u, p, c)
       \/ AcceptReception(s)
       \/ RepeatReception(s)
       \/ RejectReception(s)
       \/ Abandon(s)
  \/ \E p \in Publications :
       \/ \E u \in Members, st \in Statuses : Decide(u, p, st)
       \/ \E u \in Members : HandOver(u, p)
       \/ Book(p)
       \/ Submit(p) \/ SaveDraft(p) \/ Withdraw(p)
       \/ \E st \in Statuses : EditPublication(p, st)
       \/ \E c \in Centers \cup {None} : EditHome(p, c)
       \/ \E c \in Centers : EnterItem(p, c) \/ MoveItem(p, c)
       \/ DeleteItem(p)
       \/ DeleteInspection(p)
  \/ \E c \in Volatile, st \in {"open", "closed", "inactive"} :
       EditCenter(c, st)
  \/ \E u \in Reassigned, r \in GivenRoles, C \in SUBSET Centers :
       EditStaff(u, r, C)
  \/ \E u \in Members, C \in SUBSET Centers : SetFilter(u, C)
  \/ \E u \in Members : ClearFilter(u)

Spec == Init /\ [][Next]_vars

-----------------------------------------------------------------------------
(* Properties.                                                             *)

\* An object that two operators inspect at once, or one operator twice, is
\* received once: one inventory row, one DEPOSIT operation and one award of
\* points or none of the three, and an inspection on record only with them,
\* though staff enter, move and delete rows by hand.
ReceivedTogether ==
  \A p \in Publications :
    LET received == item[p] # None /\ item[p].by = "inspection"
    IN  /\ deposits[p] = IF received THEN 1 ELSE 0
        /\ awards[p] = deposits[p]
        /\ accepted[p] # None => received

\* Whatever a queue lists for a member, the page its link opens opens for the
\* member, and decides or receives (a pickup may be refused, still); and
\* whatever a page opens for is listed, but for what belongs to other centres
\* than those that an administrator chose and that are active still.  Centres
\* that a member chose while an administrator narrow nothing later.
InChoice(u, p) ==
  Administrator(u) /\ picked[u] \cap ActiveCenters # {} =>
    CenterOf(p) \in picked[u] \cap ActiveCenters

QueuesAreExact ==
  \A u \in Members, p \in Publications : ~Unassigned(u) =>
    /\ p \in ModerationQueue(u) <=> MayDecide(u, p) /\ InChoice(u, p)
    /\ p \in ReceptionQueue(u) <=> MayReceive(u, p) /\ InChoice(u, p)
    /\ p \in PickupQueue(u) <=> PickupOpens(u, p) /\ InChoice(u, p)

\* The dashboard counts what the queues list, though it narrows centres and
\* publications the other way round; but it counts publications without a
\* date to moderate, too, which no queue lists, and whatever citizens and
\* moderators wrote in whatever order, these were made pending by hand.
DashboardTellsQueues ==
  \A u \in Members :
    /\ ModerationQueue(u) \subseteq DashboardModeration(u)
    /\ DashboardModeration(u) \ ModerationQueue(u) \subseteq byHand
    /\ DashboardReception(u) = ReceptionQueue(u)
    /\ DashboardPickups(u) = PickupQueue(u)
=============================================================================
