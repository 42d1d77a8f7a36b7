---------------------------- MODULE Desk_proofs ----------------------------
(***************************************************************************)
(* Proofs about Desk, for any members, centres and publications: an object *)
(* is received once, and the dashboard counts what the queues list and, to *)
(* moderate, what was made pending by hand.                                *)
(***************************************************************************)
EXTENDS Desk, TLAPS

\* What is reserved is in the inventory.
BookedIsThere == \A p \in booked : item[p] # None

\* What is pending without a date was made so in the admin site.
UndatedByHand ==
  \A p \in Publications :
    status[p] = "pending_review" /\ p \notin submitted => p \in byHand

DInv == TypeOK /\ ReceivedTogether /\ BookedIsThere /\ UndatedByHand

-----------------------------------------------------------------------------
\* None is no item: it has no centre.
LEMMA ItemIsSome ==
  ASSUME TypeOK, NEW p \in Publications, item[p] # None
  PROVE  item[p] \in Item
BY DEF TypeOK

\* The desk opens with nothing received and nobody at work.
LEMMA InitTypeOK == Init => TypeOK
BY DeskAssumption DEF Init, TypeOK, Statuses

\* Every step keeps the types.
LEMMA StepTypeOK ==
  ASSUME TypeOK, [Next]_vars
  PROVE  TypeOK'
<1> USE DEF TypeOK, pubVars, dates, stockVars, staffVars, sessionVars
<1>1. CASE UNCHANGED vars
  BY <1>1 DEF vars
<1>2. ASSUME NEW s \in Workers, NEW u \in Members, NEW p \in Publications,
             NEW c \in Centers, PostInspection(s, u, p, c)
      PROVE  TypeOK'
  <2>1. [by |-> u, pub |-> p, center |-> c, fit |-> centerState[c] = "open"]
          \in Form
    BY DEF Form
  <2> QED
    BY <1>2, <2>1 DEF PostInspection
<1>3. ASSUME NEW s \in Workers, AcceptReception(s)
      PROVE  TypeOK'
  <2>1. form[s] \in Form
    BY <1>3 DEF AcceptReception, MayInspect
  <2>2. [center |-> form[s].center, by |-> "inspection"] \in Item
    BY <2>1 DEF Item, Form
  <2>3. Once(0) \in Nat
    BY DEF Once
  <2> QED
    BY <1>3, <2>1, <2>2, <2>3 DEF AcceptReception, Finish, Form
<1>4. ASSUME NEW s \in Workers, RepeatReception(s)
      PROVE  TypeOK'
  <2>1. form[s].pub \in Publications
    BY <1>4 DEF RepeatReception, MayInspect, Form
  <2>2. /\ Once(deposits[form[s].pub]) \in Nat
        /\ Once(awards[form[s].pub]) \in Nat
    BY <2>1 DEF Once
  <2> QED
    BY <1>4, <2>1, <2>2 DEF RepeatReception, Finish
<1>5. ASSUME NEW s \in Workers, RejectReception(s)
      PROVE  TypeOK'
  <2>1. form[s].pub \in Publications
    BY <1>5 DEF RejectReception, MayInspect, Form
  <2>2. rejections[form[s].pub] + 1 \in 0 .. MaxRejections
    BY <1>5, <2>1, DeskAssumption DEF RejectReception
  <2> QED
    BY <1>5, <2>1, <2>2 DEF RejectReception, Finish
<1>6. ASSUME NEW s \in Workers, Abandon(s)
      PROVE  TypeOK'
  BY <1>6 DEF Abandon, Finish
<1>7. ASSUME NEW p \in Publications, NEW u \in Members, NEW st \in Statuses,
             Decide(u, p, st)
      PROVE  TypeOK'
  BY <1>7 DEF Decide
<1>8. ASSUME NEW p \in Publications, NEW u \in Members, HandOver(u, p)
      PROVE  TypeOK'
  BY <1>8 DEF HandOver
<1>9. ASSUME NEW p \in Publications, Book(p)
      PROVE  TypeOK'
  BY <1>9 DEF Book
<1>10. ASSUME NEW p \in Publications,
              \/ Submit(p) \/ SaveDraft(p) \/ Withdraw(p)
              \/ \E st \in Statuses : EditPublication(p, st)
       PROVE  TypeOK'
  <2>1. UNCHANGED <<home, stockVars, booked, staffVars, sessionVars>>
    BY <1>10 DEF Submit, SaveDraft, Withdraw, EditPublication
  <2>2. \E st \in Statuses : status' = [status EXCEPT ![p] = st]
    BY <1>10 DEF Submit, SaveDraft, Withdraw, EditPublication, Statuses
  <2>3. submitted' \subseteq submitted \cup {p} /\ byHand' \subseteq byHand \cup {p}
    BY <1>10 DEF Submit, SaveDraft, Withdraw, EditPublication
  <2> QED
    BY <2>1, <2>2, <2>3
<1>11. ASSUME NEW p \in Publications, NEW c \in Centers \cup {None},
              EditHome(p, c)
       PROVE  TypeOK'
  BY <1>11 DEF EditHome
<1>12. ASSUME NEW p \in Publications, NEW c \in Centers,
              EnterItem(p, c) \/ MoveItem(p, c)
       PROVE  TypeOK'
  <2>1. CASE EnterItem(p, c)
    BY <2>1 DEF EnterItem, Item
  <2>2. CASE MoveItem(p, c)
    <3>1. item[p] \in Item
      BY <2>2, ItemIsSome DEF MoveItem
    <3>2. [item[p] EXCEPT !.center = c] \in Item
      BY <3>1 DEF Item
    <3>3. item' = [item EXCEPT ![p] = [item[p] EXCEPT !.center = c]]
      BY <2>2 DEF MoveItem
    <3> QED
      BY <2>2, <3>2, <3>3 DEF MoveItem
  <2> QED
    BY <1>12, <2>1, <2>2
<1>13. ASSUME NEW p \in Publications, DeleteItem(p) \/ DeleteInspection(p)
       PROVE  TypeOK'
  BY <1>13 DEF DeleteItem, DeleteInspection
<1>14. ASSUME NEW c \in Volatile, NEW st \in {"open", "closed", "inactive"},
              EditCenter(c, st)
       PROVE  TypeOK'
  BY <1>14, DeskAssumption DEF EditCenter
<1>15. ASSUME NEW u \in Members, NEW C \in SUBSET Centers,
              SetFilter(u, C) \/ ClearFilter(u)
       PROVE  TypeOK'
  BY <1>15 DEF SetFilter, ClearFilter
<1>16. ASSUME NEW u \in Reassigned, NEW r \in GivenRoles,
              NEW C \in SUBSET Centers, EditStaff(u, r, C)
       PROVE  TypeOK'
  BY <1>16, DeskAssumption DEF EditStaff
<1> QED
  BY <1>1, <1>2, <1>3, <1>4, <1>5, <1>6, <1>7, <1>8, <1>9, <1>10, <1>11,
     <1>12, <1>13, <1>14, <1>15, <1>16 DEF Next

\* Nothing but the requests of members and staff changes a row, and each
\* leaves it in its type.
THEOREM TypeCorrect == Spec => []TypeOK
<1>1. TypeOK /\ [Next]_vars => TypeOK'
  BY StepTypeOK
<1> QED
  BY InitTypeOK, <1>1, PTL DEF Spec

-----------------------------------------------------------------------------
(* Received once.                                                          *)

\* Rows, operations and awards move together, by the step that receives.
LEMMA StepReceived ==
  ASSUME DInv, [Next]_vars
  PROVE  (ReceivedTogether /\ BookedIsThere)'
<1> USE DEF DInv, ReceivedTogether, BookedIsThere, pubVars, dates, stockVars,
            staffVars, sessionVars
<1> TypeOK
  OBVIOUS
\* Steps that leave the inventory and the reservations alone
<1>1. ASSUME UNCHANGED <<stockVars, booked>>
      PROVE  (ReceivedTogether /\ BookedIsThere)'
  BY <1>1
<1>2. ASSUME NEW s \in Workers, AcceptReception(s)
      PROVE  (ReceivedTogether /\ BookedIsThere)'
  <2> DEFINE p == form[s].pub
  <2>1. p \in Publications /\ form[s].center \in Centers
    BY <1>2 DEF AcceptReception, MayInspect, TypeOK, Form
  <2>2. /\ item' = [item EXCEPT ![p] =
                      [center |-> form[s].center, by |-> "inspection"]]
        /\ accepted' = [accepted EXCEPT ![p] = form[s].center]
        /\ deposits' = [deposits EXCEPT ![p] = 1]
        /\ awards' = [awards EXCEPT ![p] = 1]
        /\ booked' = booked
    BY <1>2 DEF AcceptReception, Once
  <2>3. [center |-> form[s].center, by |-> "inspection"] \in Item
    BY <2>1 DEF Item
  <2>4. item'[p] # None /\ item'[p].by = "inspection"
    BY <2>1, <2>2, <2>3, DeskAssumption DEF TypeOK
  <2> QED
    BY <2>1, <2>2, <2>4 DEF TypeOK
<1>3. ASSUME NEW s \in Workers, RepeatReception(s)
      PROVE  (ReceivedTogether /\ BookedIsThere)'
  <2> DEFINE p == form[s].pub
  <2>1. p \in Publications
    BY <1>3 DEF RepeatReception, MayInspect, TypeOK, Form
  <2>2. deposits[p] = 1 /\ awards[p] = 1
    BY <1>3, <2>1 DEF RepeatReception
  <2>3. deposits' = deposits /\ awards' = awards
    BY <1>3, <2>1, <2>2 DEF RepeatReception, Once, TypeOK
  <2> QED
    BY <1>3, <2>3 DEF RepeatReception
<1>4. ASSUME NEW s \in Workers, RejectReception(s)
      PROVE  (ReceivedTogether /\ BookedIsThere)'
  BY <1>4 DEF RejectReception
<1>5. ASSUME NEW p \in Publications,
             Book(p) \/ \E u \in Members : HandOver(u, p)
      PROVE  (ReceivedTogether /\ BookedIsThere)'
  BY <1>5 DEF Book, HandOver
<1>6. ASSUME NEW p \in Publications, NEW c \in Centers, EnterItem(p, c)
      PROVE  (ReceivedTogether /\ BookedIsThere)'
  <2>1. [center |-> c, by |-> "hand"] \in Item
    BY DEF Item
  <2>2. item'[p] # None /\ item'[p].by = "hand" /\ item[p] = None
    BY <1>6, <2>1, DeskAssumption DEF EnterItem, TypeOK
  <2>3. \A q \in Publications : q # p => item'[q] = item[q]
    BY <1>6 DEF EnterItem, TypeOK
  <2>4. \A q \in booked : item'[q] # None
    BY <2>2, <1>6 DEF EnterItem, TypeOK
  <2> QED
    BY <1>6, <2>2, <2>3, <2>4 DEF EnterItem
<1>7. ASSUME NEW p \in Publications, NEW c \in Centers, MoveItem(p, c)
      PROVE  (ReceivedTogether /\ BookedIsThere)'
  <2>1. item[p] \in Item
    BY <1>7, ItemIsSome DEF MoveItem
  <2>2. item' = [item EXCEPT ![p] = [item[p] EXCEPT !.center = c]]
    BY <1>7 DEF MoveItem
  <2>3. [item[p] EXCEPT !.center = c] \in Item
    BY <2>1 DEF Item
  <2>4. item'[p] # None /\ item'[p].by = item[p].by /\ item[p] # None
    BY <2>1, <2>2, <2>3, <1>7, DeskAssumption DEF MoveItem, TypeOK, Item
  <2>5. \A q \in Publications : q # p => item'[q] = item[q]
    BY <2>2 DEF TypeOK
  <2>6. \A q \in booked : item'[q] # None
    BY <2>2, <2>4 DEF TypeOK
  <2> QED
    BY <1>7, <2>4, <2>5, <2>6 DEF MoveItem
<1>8. ASSUME NEW p \in Publications, DeleteItem(p)
      PROVE  (ReceivedTogether /\ BookedIsThere)'
  <2>1. ~(item[p].by = "inspection") /\ item'[p] = None
    BY <1>8 DEF DeleteItem, TypeOK
  <2>2. \A q \in Publications : q # p => item'[q] = item[q]
    BY <1>8 DEF DeleteItem, TypeOK
  <2>3. \A q \in booked : item'[q] # None
    BY <1>8 DEF DeleteItem, TypeOK
  <2> QED
    BY <1>8, <2>1, <2>2, <2>3 DEF DeleteItem
<1>9. ASSUME NEW p \in Publications, DeleteInspection(p)
      PROVE  (ReceivedTogether /\ BookedIsThere)'
  BY <1>9 DEF DeleteInspection, TypeOK
<1>10. ASSUME UNCHANGED vars
       PROVE  (ReceivedTogether /\ BookedIsThere)'
  BY <1>1, <1>10 DEF vars
<1>11. ASSUME NEW s \in Workers,
              \/ Abandon(s)
              \/ \E u \in Members, p \in Publications, c \in Centers :
                   PostInspection(s, u, p, c)
       PROVE  (ReceivedTogether /\ BookedIsThere)'
  BY <1>1, <1>11 DEF Abandon, PostInspection
<1>12. ASSUME NEW p \in Publications,
              \/ \E u \in Members, st \in Statuses : Decide(u, p, st)
              \/ Submit(p) \/ SaveDraft(p) \/ Withdraw(p)
              \/ \E st \in Statuses : EditPublication(p, st)
              \/ \E c \in Centers \cup {None} : EditHome(p, c)
       PROVE  (ReceivedTogether /\ BookedIsThere)'
  BY <1>1, <1>12 DEF Decide, Submit, SaveDraft, Withdraw, EditPublication,
                     EditHome
<1>13. ASSUME NEW c \in Volatile, NEW st \in {"open", "closed", "inactive"},
              EditCenter(c, st)
       PROVE  (ReceivedTogether /\ BookedIsThere)'
  BY <1>1, <1>13 DEF EditCenter
<1>14. ASSUME NEW u \in Members, NEW C \in SUBSET Centers,
              \/ SetFilter(u, C) \/ ClearFilter(u)
              \/ \E r \in GivenRoles : EditStaff(u, r, C)
       PROVE  (ReceivedTogether /\ BookedIsThere)'
  BY <1>1, <1>14 DEF EditStaff, SetFilter, ClearFilter
<1>15. CASE Next
  <2>1. CASE \E s \in Workers :
               \/ \E u \in Members, p \in Publications, c \in Centers :
                    PostInspection(s, u, p, c)
               \/ AcceptReception(s)
               \/ RepeatReception(s)
               \/ RejectReception(s)
               \/ Abandon(s)
    BY <2>1, <1>2, <1>3, <1>4, <1>11
  <2>2. CASE \E p \in Publications :
               \/ \E u \in Members, st \in Statuses : Decide(u, p, st)
               \/ \E u \in Members : HandOver(u, p)
               \/ Book(p)
               \/ Submit(p) \/ SaveDraft(p) \/ Withdraw(p)
               \/ \E st \in Statuses : EditPublication(p, st)
               \/ \E c \in Centers \cup {None} : EditHome(p, c)
               \/ \E c \in Centers : EnterItem(p, c) \/ MoveItem(p, c)
               \/ DeleteItem(p)
               \/ DeleteInspection(p)
    <3> SUFFICES ASSUME NEW p \in Publications,
                        \/ \E u \in Members, st \in Statuses : Decide(u, p, st)
                        \/ \E u \in Members : HandOver(u, p)
                        \/ Book(p)
                        \/ Submit(p) \/ SaveDraft(p) \/ Withdraw(p)
                        \/ \E st \in Statuses : EditPublication(p, st)
                        \/ \E c \in Centers \cup {None} : EditHome(p, c)
                        \/ \E c \in Centers : EnterItem(p, c) \/ MoveItem(p, c)
                        \/ DeleteItem(p)
                        \/ DeleteInspection(p)
                 PROVE  (ReceivedTogether /\ BookedIsThere)'
      BY <2>2
    <3>1. CASE \E u \in Members : HandOver(u, p)
      BY <3>1, <1>5
    <3>2. CASE Book(p)
      BY <3>2, <1>5
    <3>3. CASE \E c \in Centers : EnterItem(p, c) \/ MoveItem(p, c)
      BY <3>3, <1>6, <1>7
    <3>4. CASE DeleteItem(p)
      BY <3>4, <1>8
    <3>5. CASE DeleteInspection(p)
      BY <3>5, <1>9
    <3> QED
      BY <3>1, <3>2, <3>3, <3>4, <3>5, <1>12
  <2>3. CASE \E c \in Volatile, st \in {"open", "closed", "inactive"} :
               EditCenter(c, st)
    BY <2>3, <1>13
  <2>4. CASE \/ \E u \in Reassigned, r \in GivenRoles, C \in SUBSET Centers :
                  EditStaff(u, r, C)
             \/ \E u \in Members, C \in SUBSET Centers : SetFilter(u, C)
             \/ \E u \in Members : ClearFilter(u)
    BY <2>4, <1>14, DeskAssumption
  <2> QED
    BY <1>15, <2>1, <2>2, <2>3, <2>4 DEF Next
<1> QED
  BY <1>10, <1>15

\* Citizens date what they submit, and lose the date with the submission.
LEMMA StepUndated ==
  ASSUME TypeOK, UndatedByHand, [Next]_vars
  PROVE  UndatedByHand'
<1> USE DEF TypeOK, UndatedByHand, pubVars, dates, stockVars, staffVars,
            sessionVars
<1>1. ASSUME UNCHANGED <<status, dates>> PROVE UndatedByHand'
  BY <1>1
<1>2. ASSUME NEW p \in Publications, NEW u \in Members, NEW st \in Statuses,
             Decide(u, p, st)
      PROVE  UndatedByHand'
  BY <1>2 DEF Decide
<1>3. ASSUME NEW p \in Publications, Submit(p) PROVE UndatedByHand'
  BY <1>3 DEF Submit
<1>4. ASSUME NEW p \in Publications, SaveDraft(p) \/ Withdraw(p)
      PROVE  UndatedByHand'
  <2>1. \A q \in Publications \ {p} :
          /\ status'[q] = status[q]
          /\ q \in submitted' <=> q \in submitted
          /\ q \in byHand' <=> q \in byHand
    BY <1>4 DEF SaveDraft, Withdraw
  <2>2. status'[p] = "other"
    BY <1>4 DEF SaveDraft, Withdraw
  <2> QED
    BY <2>1, <2>2
<1>5. ASSUME NEW p \in Publications, NEW st \in Statuses,
             EditPublication(p, st)
      PROVE  UndatedByHand'
  <2>1. \A q \in Publications \ {p} :
          /\ status'[q] = status[q]
          /\ q \in submitted' <=> q \in submitted
          /\ q \in byHand' <=> q \in byHand
    BY <1>5 DEF EditPublication
  <2>2. status'[p] = "pending_review" => p \in byHand'
    BY <1>5 DEF EditPublication
  <2> QED
    BY <2>1, <2>2
<1>6. ASSUME NEW s \in Workers,
             \/ \E u \in Members, p \in Publications, c \in Centers :
                  PostInspection(s, u, p, c)
             \/ AcceptReception(s) \/ RepeatReception(s) \/ RejectReception(s)
             \/ Abandon(s)
      PROVE  UndatedByHand'
  BY <1>1, <1>6 DEF PostInspection, AcceptReception, RepeatReception,
                    RejectReception, Abandon
<1>7. ASSUME NEW p \in Publications,
             \/ \E u \in Members : HandOver(u, p)
             \/ Book(p)
             \/ \E c \in Centers \cup {None} : EditHome(p, c)
             \/ \E c \in Centers : EnterItem(p, c) \/ MoveItem(p, c)
             \/ DeleteItem(p) \/ DeleteInspection(p)
      PROVE  UndatedByHand'
  BY <1>1, <1>7 DEF HandOver, Book, EditHome, EnterItem, MoveItem, DeleteItem,
                    DeleteInspection
<1>8. ASSUME \/ \E c \in Volatile, st \in {"open", "closed", "inactive"} :
                  EditCenter(c, st)
             \/ \E u \in Reassigned, r \in GivenRoles, C \in SUBSET Centers :
                  EditStaff(u, r, C)
             \/ \E u \in Members, C \in SUBSET Centers : SetFilter(u, C)
             \/ \E u \in Members : ClearFilter(u)
      PROVE  UndatedByHand'
  BY <1>1, <1>8 DEF EditCenter, EditStaff, SetFilter, ClearFilter
<1>9. CASE UNCHANGED vars
  BY <1>1, <1>9 DEF vars
<1> QED
  BY <1>2, <1>3, <1>4, <1>5, <1>6, <1>7, <1>8, <1>9 DEF Next

\* The invariant of the desk holds.
LEMMA DInvHolds == Spec => []DInv
<1>1. Init => DInv
  BY InitTypeOK DEF Init, DInv, ReceivedTogether, BookedIsThere, UndatedByHand
<1>2. DInv /\ [Next]_vars => DInv'
  BY StepTypeOK, StepReceived, StepUndated DEF DInv
<1> QED
  BY <1>1, <1>2, PTL DEF Spec

\* However many inspections of one object there are at once, whatever they
\* read before they got its lock and whatever staff write by hand, it has one
\* inventory row by inspection, one operation and one award, or none.
THEOREM ReceivedOnce == Spec => []ReceivedTogether
<1>1. DInv => ReceivedTogether
  BY DEF DInv
<1> QED
  BY DInvHolds, <1>1, PTL

-----------------------------------------------------------------------------
(* What the dashboard counts.                                              *)

\* The figures of the dashboard are the lengths of the queues, for every
\* member and every choice of an administrator; but the publications to
\* moderate are more by some that were made pending in the admin site.
THEOREM DashboardExact == Spec => []DashboardTellsQueues
<1>1. DInv => DashboardTellsQueues
  <2> SUFFICES ASSUME DInv, NEW u \in Members
               PROVE  /\ ModerationQueue(u) \subseteq DashboardModeration(u)
                      /\ DashboardModeration(u) \ ModerationQueue(u)
                           \subseteq byHand
                      /\ DashboardReception(u) = ReceptionQueue(u)
                      /\ DashboardPickups(u) = PickupQueue(u)
    BY DEF DashboardTellsQueues
  <2>1. /\ ModerationQueue(u) \subseteq DashboardModeration(u)
        /\ DashboardModeration(u) \ ModerationQueue(u) \subseteq byHand
    <3>1. submitted \subseteq Publications
      BY DEF DInv, TypeOK
    <3>2. ModerationQueue(u) = DashboardModeration(u) \cap submitted
      BY <3>1 DEF DashboardModeration, ModerationQueue, StaffPublications,
                  Filtered, ScopePublications, Pending
    <3>3. DashboardModeration(u) \subseteq Pending
      BY DEF DashboardModeration, Filtered, ScopePublications
    <3> QED
      BY <3>2, <3>3 DEF DInv, UndatedByHand, Pending
  \* A selection in force is one of active centres, all of them allowed.
  <2>2. Selection(u) # {} => /\ Selection(u) \subseteq
                                  AllowedReceptionCenters(u)
                             /\ FilteredCenters(u) = Selection(u)
    <3>1. Administrator(u) => AllowedReceptionCenters(u) = ActiveCenters
      BY DEF AllowedReceptionCenters, Administrator, Manager
    <3>2. Selection(u) \subseteq ActiveCenters
      BY DEF Selection
    <3>3. Selection(u) # {} => Administrator(u)
      BY DEF Selection
    <3> QED
      BY <3>1, <3>2, <3>3 DEF FilteredCenters
  <2>3. AllowedReceptionCenters(u) \subseteq Centers
    BY DEF AllowedReceptionCenters, ActiveCenters, Operational, Manned
  <2>4. Selection(u) = {} =>
          FilteredCenters(u) = AllowedReceptionCenters(u)
    BY <2>3 DEF FilteredCenters
  <2>5. FilteredCenters(u) = {} <=> AllowedReceptionCenters(u) = {}
    BY <2>2, <2>4 DEF FilteredCenters
  <2>6. DashboardReception(u) = ReceptionQueue(u)
    BY <2>5 DEF DashboardReception, ReceptionQueue, Filtered,
                ScopePublications, Awaited
  <2>7. DashboardPickups(u) = PickupQueue(u)
    <3>1. CASE Selection(u) = {}
      BY <3>1, <2>4 DEF DashboardPickups, PickupQueue, Filtered,
                        ScopeReservations, Collectable
    <3>2. CASE Selection(u) # {}
      <4>1. \A p \in booked : CenterOf(p) = item[p].center
        BY DEF DInv, BookedIsThere, CenterOf
      <4> QED
        BY <3>2, <2>2, <4>1 DEF DashboardPickups, PickupQueue, Filtered,
                                      ScopeReservations, Collectable
    <3> QED
      BY <3>1, <3>2
  <2> QED
    BY <2>1, <2>6, <2>7
<1> QED
  BY DInvHolds, <1>1, PTL
=============================================================================
