---------------------------- MODULE Publications ----------------------------
(***************************************************************************)
(* Publications: what a citizen proposes, edits, submits and withdraws     *)
(* (publications/views.py), what moderators decide about it                *)
(* (moderation/services.py), and its photographs.                          *)
(*                                                                         *)
(* A citizen's request reads the publication and validates the form        *)
(* outside any transaction and without a lock, and later writes in a       *)
(* transaction of its own; a session is such a request between the two.    *)
(* A decision is one transaction that locks the row before it reads it,    *)
(* and is one step.                                                        *)
(*                                                                         *)
(*   pc[s]          what s will write                                      *)
(*   "idle"         nothing                                                *)
(*   "creating"     a new publication                                      *)
(*   "editing"      the whole row, from what it read                       *)
(*   "withdrawing"  the status                                             *)
(***************************************************************************)
EXTENDS Integers, FiniteSets, Sequences

CONSTANTS Publications,     \* the rows the table may come to hold
          Citizens,
          Submitter,        \* Submitter[p] is the person who creates p
          Photos,           \* the photograph rows that may come to exist
          Workers,          \* web processes serving requests
          MaxPhotos,        \* PUBLICATION_PHOTO_MAX_COUNT
          DailyLimit,       \* get_daily_publication_limit()
          MaxSubmissions,   \* bound on the submissions of one publication
          LastDay,          \* bound on the calendar
          None

ASSUME PublicationsAssumption ==
  /\ Submitter \in [Publications -> Citizens]
  /\ IsFiniteSet(Photos)
  /\ MaxPhotos \in Nat \ {0}
  /\ DailyLimit \in Nat
  /\ MaxSubmissions \in Nat
  /\ LastDay \in Nat
  /\ None \notin Photos \cup Publications \cup Nat

VARIABLES status,       \* Publication.status; "none" before the INSERT
          submittedOn,  \* the day of submitted_at
          approvedAt,   \* approved_at is set
          photos,       \* publication.photos
          primary,      \* those with is_primary
          issued,       \* photograph rows ever inserted: keys are not reused
          submissions,  \* audit events 'publication.submitted'
          decisions,    \* the ModerationDecision rows, oldest first
          today,
          pc,           \* what each session will write
          form          \* what it has read and validated

rowVars     == <<status, submittedOn, approvedAt>>
photoVars   == <<photos, primary, issued>>
sessionVars == <<pc, form>>
vars == <<rowVars, photoVars, submissions, decisions, today, sessionVars>>

Statuses == {"draft", "pending_review", "changes_requested", "approved",
             "rejected", "withdrawn"}
Verdicts == {"changes_requested", "approved", "rejected"}
Days     == 0 .. LastDay

\* A validated form.  row is the row as it was read, main the photograph
\* chosen as the primary one: a stored one, the first new one, or none.
Form ==
  [pub    : Publications,
   action : {"save_draft", "submit"},
   row    : [status      : Statuses \cup {"none"},
             submittedOn : Days \cup {None},
             approvedAt  : BOOLEAN],
   remove : SUBSET Photos,
   add    : 0 .. MaxPhotos,
   main   : Photos \cup {"new", None}]

TypeOK ==
  /\ status \in [Publications -> Statuses \cup {"none"}]
  /\ submittedOn \in [Publications -> Days \cup {None}]
  /\ approvedAt \in [Publications -> BOOLEAN]
  /\ photos \in [Publications -> SUBSET Photos]
  /\ primary \in [Publications -> SUBSET Photos]
  /\ issued \subseteq Photos
  /\ submissions \in [Publications -> Nat]
  /\ decisions \in [Publications -> Seq(Verdicts)]
  /\ today \in Days
  /\ pc \in [Workers -> {"idle", "creating", "editing", "withdrawing"}]
  /\ form \in [Workers -> Form \cup {None}]

-----------------------------------------------------------------------------
\* EDITABLE_STATUSES, with a variant that lets an approved one be edited
EditableWithApproved == {"draft", "changes_requested", "approved"}
Editable     == {"draft", "changes_requested"}
Withdrawable == {"draft", "pending_review", "changes_requested"}

RowOf(p) == [status      |-> status[p],
             submittedOn |-> submittedOn[p],
             approvedAt  |-> approvedAt[p]]

DailySubmissionCount(u) ==
  Cardinality({p \in Publications : Submitter[p] = u /\ submittedOn[p] = today})

UserCanSubmitToday(u) == DailySubmissionCount(u) < DailyLimit

\* CitizenPublicationForm.clean, against the photographs p has now
PhotosValid(f) ==
  LET p     == f.pub
      total == Cardinality(photos[p]) - Cardinality(f.remove) + f.add
  IN  /\ f.remove \subseteq photos[p]
      /\ total <= MaxPhotos
      /\ f.action = "submit" => total > 0
      /\ f.main \in Photos => f.main \in photos[p] \ f.remove
      /\ f.main = "new" => f.add > 0

\* Sessions about to submit p: they count against the bound
Submitting(p) ==
  {s \in Workers : /\ pc[s] \in {"creating", "editing"}
                   /\ form[s].pub = p /\ form[s].action = "submit"}

\* The form is valid, and so is a submission now.
Accepted(f) ==
  /\ PhotosValid(f)
  /\ f.row = RowOf(f.pub)
  /\ f.action = "submit" =>
       /\ UserCanSubmitToday(Submitter[f.pub])
       /\ submissions[f.pub] + Cardinality(Submitting(f.pub)) < MaxSubmissions

-----------------------------------------------------------------------------
Init ==
  /\ status = [p \in Publications |-> "none"]
  /\ submittedOn = [p \in Publications |-> None]
  /\ approvedAt = [p \in Publications |-> FALSE]
  /\ photos = [p \in Publications |-> {}]
  /\ primary = [p \in Publications |-> {}]
  /\ issued = {}
  /\ submissions = [p \in Publications |-> 0]
  /\ decisions = [p \in Publications |-> <<>>]
  /\ today = 0
  /\ pc = [s \in Workers |-> "idle"]
  /\ form = [s \in Workers |-> None]

\* s has validated form f and goes on to write.
Validated(s, step, f) ==
  /\ pc[s] = "idle"
  /\ pc' = [pc EXCEPT ![s] = step]
  /\ form' = [form EXCEPT ![s] = f]
  /\ UNCHANGED <<rowVars, photoVars, submissions, decisions, today>>

Finish(s) ==
  /\ pc' = [pc EXCEPT ![s] = "idle"]
  /\ form' = [form EXCEPT ![s] = None]

(***************************************************************************)
(* _apply_photo_changes.  The transaction has just written the             *)
(* publication's row and so holds its lock.  Each photograph is inserted   *)
(* by a save that counts those there are.                                  *)
(***************************************************************************)
PhotosFit(f) ==
  f.add > 0 => Cardinality(photos[f.pub] \ f.remove) + f.add <= MaxPhotos

\* Variant: no photograph takes the place of a primary one that was removed.
ChoosesOnlyPrimary(f, kept, new, ph) ==
  IF f.main \in kept THEN ph = {f.main}
  ELSE IF f.main = "new" THEN \E x \in new : ph = {x}
  ELSE ph = primary[f.pub] \cap kept

\* The primary photograph: the one chosen, else the one there is, else the
\* first, if any.
ChoosesPrimary(f, kept, new, ph) ==
  IF f.main \in kept THEN ph = {f.main}
  ELSE IF f.main = "new" THEN \E x \in new : ph = {x}
  ELSE IF primary[f.pub] \cap kept # {}
       THEN \E x \in primary[f.pub] \cap kept : ph = {x}
  ELSE IF kept \cup new # {} THEN \E x \in kept \cup new : ph = {x}
  ELSE ph = {}

ApplyPhotoChanges(f) ==
  LET kept == photos[f.pub] \ f.remove
  IN  \E new \in SUBSET (Photos \ issued) :
        /\ Cardinality(new) = f.add
        /\ photos' = [photos EXCEPT ![f.pub] = kept \cup new]
        /\ issued' = issued \cup new
        /\ \E ph \in SUBSET (kept \cup new) :
             /\ ChoosesPrimary(f, kept, new, ph)
             /\ primary' = [primary EXCEPT ![f.pub] = ph]

\* The row as the form leaves it, and its audit event.
WriteRow(f, st) ==
  LET p == f.pub
  IN  /\ status' = [status EXCEPT ![p] =
                      IF f.action = "submit" THEN "pending_review" ELSE st]
      /\ submittedOn' = [submittedOn EXCEPT ![p] =
                           IF f.action = "submit" THEN today
                                                  ELSE f.row.submittedOn]
      /\ approvedAt' = [approvedAt EXCEPT ![p] = f.row.approvedAt]
      /\ submissions' = [submissions EXCEPT ![p] =
                           IF f.action = "submit" THEN @ + 1 ELSE @]

-----------------------------------------------------------------------------
(* publication_create                                                      *)

FillNew(s, f) ==
  /\ status[f.pub] = "none"
  /\ \A t \in Workers : pc[t] = "creating" => form[t].pub # f.pub
  /\ Accepted(f)
  /\ Validated(s, "creating", f)

CreatePublication(s) ==
  LET f == form[s]
  IN  /\ pc[s] = "creating"
      /\ WriteRow(f, "draft")
      /\ ApplyPhotoChanges(f)
      /\ Finish(s)
      /\ UNCHANGED <<decisions, today>>

-----------------------------------------------------------------------------
(* publication_edit                                                        *)

FillEdit(s, f) ==
  /\ status[f.pub] \in Editable
  /\ Accepted(f)
  /\ Validated(s, "editing", f)

\* Every column is written, from the row as it was read.
EditPublication(s) ==
  LET f == form[s]
  IN  /\ pc[s] = "editing"
      /\ PhotosFit(f)
      /\ WriteRow(f, f.row.status)
      /\ ApplyPhotoChanges(f)
      /\ Finish(s)
      /\ UNCHANGED <<decisions, today>>

\* A photograph too many raises in the middle of the transaction; a request
\* that dies before it writes leaves nothing either.
Abandon(s) ==
  /\ pc[s] # "idle"
  /\ Finish(s)
  /\ UNCHANGED <<rowVars, photoVars, submissions, decisions, today>>

-----------------------------------------------------------------------------
(* publication_withdraw                                                    *)

OpenWithdrawal(s, p) ==
  /\ status[p] \in Withdrawable
  /\ Validated(s, "withdrawing",
               [pub |-> p, action |-> "save_draft", row |-> RowOf(p),
                remove |-> {}, add |-> 0, main |-> None])

WithdrawPublication(s) ==
  /\ pc[s] = "withdrawing"
  /\ status' = [status EXCEPT ![form[s].pub] = "withdrawn"]
  /\ Finish(s)
  /\ UNCHANGED <<submittedOn, approvedAt, photoVars, submissions, decisions,
                 today>>

-----------------------------------------------------------------------------
\* Variant: two moderators decide on what each of them saw.
ModerateAny(p, verdict) ==
  /\ status[p] \in {"pending_review", "approved", "rejected"}
  /\ Len(decisions[p]) <= MaxSubmissions
  /\ decisions' = [decisions EXCEPT ![p] = Append(@, verdict)]
  /\ status' = [status EXCEPT ![p] = verdict]
  /\ approvedAt' = [approvedAt EXCEPT ![p] = verdict = "approved"]
  /\ UNCHANGED <<submittedOn, photoVars, submissions, today, sessionVars>>

\* Variant: the decision is written, not the status it stands for.
ModerateVerbatim(p, verdict) ==
  /\ status[p] = "pending_review"
  /\ decisions' = [decisions EXCEPT ![p] = Append(@, verdict)]
  /\ status' = [status EXCEPT ![p] = "approve"]
  /\ approvedAt' = [approvedAt EXCEPT ![p] = verdict = "approved"]
  /\ UNCHANGED <<submittedOn, photoVars, submissions, today, sessionVars>>

(* moderate_publication: the row is locked, then read.                     *)
ModeratePublication(p, verdict) ==
  /\ status[p] = "pending_review"
  /\ decisions' = [decisions EXCEPT ![p] = Append(@, verdict)]
  /\ status' = [status EXCEPT ![p] = verdict]
  /\ approvedAt' = [approvedAt EXCEPT ![p] = verdict = "approved"]
  /\ UNCHANGED <<submittedOn, photoVars, submissions, today, sessionVars>>

NextDay ==
  /\ today < LastDay
  /\ today' = today + 1
  /\ UNCHANGED <<rowVars, photoVars, submissions, decisions, sessionVars>>

-----------------------------------------------------------------------------
\* The forms a citizen may send for p: what they say of its photographs
FormsFor(p) ==
  [pub : {p}, action : {"save_draft", "submit"}, row : {RowOf(p)},
   remove : SUBSET photos[p],
   add : 0 .. Cardinality(Photos \ issued) \cap 0 .. MaxPhotos,
   main : photos[p] \cup {"new", None}]

Next ==
  \/ \E s \in Workers, p \in Publications :
       \/ \E f \in FormsFor(p) : FillNew(s, f) \/ FillEdit(s, f)
       \/ OpenWithdrawal(s, p)
  \/ \E s \in Workers :
       \/ CreatePublication(s)
       \/ EditPublication(s)
       \/ WithdrawPublication(s)
       \/ Abandon(s)
  \/ \E p \in Publications, verdict \in Verdicts :
       ModeratePublication(p, verdict)
  \/ NextDay

Spec == Init /\ [][Next]_vars

-----------------------------------------------------------------------------
(* Properties.                                                             *)

\* What is APPROVED was approved: it carries its date, and the last decision
\* about it is the approval, though edits write whole rows they read earlier.
ApprovedWasDecided ==
  \A p \in Publications : status[p] = "approved" =>
    /\ approvedAt[p]
    /\ decisions[p] # <<>>
    /\ decisions[p][Len(decisions[p])] = "approved"

\* Each submission is decided at most once, whoever moderates, and one that
\* waits in the queue has not been.
DecidedOnce ==
  \A p \in Publications :
    Len(decisions[p]) + (IF status[p] = "pending_review" THEN 1 ELSE 0)
      <= submissions[p]

\* A publication with photographs shows exactly one of them first, and two
\* edits at a time never leave more of them than the limit, though each was
\* validated against what there was before the other.
PhotosSound ==
  \A p \in Publications :
    /\ primary[p] \subseteq photos[p]
    /\ Cardinality(primary[p]) = IF photos[p] = {} THEN 0 ELSE 1
    /\ Cardinality(photos[p]) <= MaxPhotos

-----------------------------------------------------------------------------
(* What the code says of itself and does not keep.                         *)

\* WITHDRAWABLE_STATUSES and EDITABLE_STATUSES leave APPROVED out: once
\* moderation has approved a publication, its citizen changes it no more.
ApprovedIsKept ==
  [][\A p \in Publications : status[p] = "approved" =>
       status'[p] = "approved"]_vars

\* Nobody submits more than the daily limit on one day: two requests that each
\* find one submission left both submit.
DailyLimitHolds ==
  \A u \in Citizens : DailySubmissionCount(u) <= DailyLimit
=============================================================================
