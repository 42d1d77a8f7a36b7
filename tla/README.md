# Verification of TRUEC@ (tenetrueca)

TLA+ models of the municipal reuse platform in `src/`: what they contain, which
code they stand for, what TLC checks on small instances, what TLAPS proves for
every instance, and what is left.

The platform: a citizen proposes an object (a *publication*), moderators approve
it, an operator of a recycling centre receives it into the inventory, somebody
reserves it with points and collects it with a QR code. Points are a ledger:
100 for an account, 100 for an accepted object, 50 for a pickup. Staff are
managed in a back office.

The interesting part of the code is its transactions. Web workers and management
commands share one database; nothing else is shared. The services use
`transaction.atomic` and `SELECT ... FOR UPDATE`; some views read before they
open a transaction. The models take PostgreSQL's READ COMMITTED isolation
(`requirements.txt` brings psycopg, and `select_for_update(of=...)` has a meaning
only there), where a statement sees what was committed when it started and a
locking read waits for the row and then sees its newest version. The settings
name SQLite for development, which runs one writer at a time: what the models
show of code that reads *outside* its transaction holds there too.

## Inventory

| Component | State | Operations | Hard part | Modelled in |
|---|---|---|---|---|
| Points ledger (`points/`) | movements | award, charge, balance | idempotent references, floor at zero, two charges at once | `Points` |
| Reservations (`reservations/`) | reservations; object status | create, cancel, expire, complete pickup, sweep | row locks, stale token, stale list, readiness read without a lock, expiry against pickup, operators waiting for each other, rollback | `Reservations` |
| Inventory (`inventory/`) | objects, inspections | inspect reception; staff edits in the admin site | repeated and concurrent inspections, rows entered by hand | `Desk`; its locks in `Reservations` |
| Catalogue (`catalog/`) | categories, objects, favourites | public catalogue, category edits, favourites | readiness changes under a reservation; category cycles; searches that walk a tree being edited | readiness: `Reservations`; categories and search: `Categories`; favourites not |
| Publications (`publications/`) | publication rows, photographs | create, edit, submit, withdraw | reads outside the transaction, whole-row writes | `Publications` |
| Moderation (`moderation/`) | decisions | moderate | two moderators; citizen against moderator | `Publications` |
| Registration, magic links (`accounts/services/`) | users, tokens | start, resend, complete; request, consume | rival registrations, single use, cooldown, mail failures, opposite lock orders | `Accounts` |
| Team (`backoffice/`) | roles, activity, invitations, sessions | add, grant, change role, deactivate, reactivate, remove, accept | the last administrator; stale rows written back; sign-in during a deactivation | `Team` |
| Roles and permissions (`core/`) | none of its own | scopes by centre | the same scope computed in many places | scopes: `Desk`; inactive centres: `Reservations`; who may enter and manage: `Team` |
| Back office filter (`backoffice/center_filter.py`) | centres in a web session | set, clear, narrow | what it names closes, moves or is no longer the member's | `Desk` |
| Locations (`locations/`) | centres | edit | closing under open reservations | `Reservations` |
| Configuration (`configuration/`) | functional rules, mail settings | save, reset, test | first insert of the single row, stale forms | mail settings: `EmailSettings`; daily limit: a constant |
| FAQ (`faq/`) | texts | edit, delete, history | one row under one lock | not modelled |
| Audit, operations | insert-only rows | insert | part of the writing transaction | with the step that writes them |
| Pages, demo data, front end, empty applications | - | - | - | not modelled |

How they interact: publications feed moderation (same row, locked by the
moderator and not by the citizen), moderation feeds reception, reception creates
the object and awards points, reservations read the catalogue (publication,
category, centre) and write the object and the ledger. Everything goes through
the database; there are no queues or callbacks, and mail is sent inside requests.
What makes each component correct is the list of properties below, and
`PROJECT.json` lists the hazards of the code, line by line, with the properties
that watch them; a hazard without properties says why.

## Modules

| Module | Content |
|---|---|
| `Points` | The ledger: movements, balance, `CreatePointMovement`. |
| `Reservations` | The circuit: reception, reservation, cancellation, expiry, pickup, as transactions of row locks; staff edits; failures. Its properties, fairness and the refinement of `Custody`. |
| `Custody` | Abstract specification of the circuit: objects move between *offered*, *held by one person*, *stranded* and *gone* in indivisible steps, and the holder pays as the object leaves. |
| `Reservations_proofs` | The inductive invariant of `Reservations` and the theorems. |
| `Custody_proofs` | That `Reservations` implements `Custody`. |
| `Publications` | The citizen's requests, the photographs and moderation. |
| `Publications_proofs` | Its inductive invariant and the theorems. |
| `Team` | The members of the team: requests that manage them, their invitations, and the members' own requests that write the same rows. |
| `Team_proofs` | Types for any number of requests at once; the roles and the ways in when no request begins before the last has ended. |
| `Accounts` | Public registration and magic links: issuing a link by mail and redeeming it. |
| `Accounts_proofs` | Its inductive invariant and the theorems. |
| `EmailSettings` | The row that overrides the server's mail settings, and its audit log. |
| `EmailSettings_proofs` | Its inductive invariant and the theorems. |
| `Desk` | The back office at work: who sees and may do what where, the administrator's filter, and the inspection of what is brought. |
| `Desk_proofs` | Its inductive invariant and the theorems. |
| `Categories` | The tree of categories, edited without locks while visitors search it. |
| `Categories_proofs` | Its inductive invariant and the theorems. |
| `MCReservations`, `MCPublications`, `MCTeam`, `MCAccounts`, `MCEmailSettings`, `MCDesk`, `MCCategories` | Instances and symmetry for TLC. |

### `Reservations` and the code

A *session* is a web worker or a run of `expire_reservations`. Its transaction is
a sequence of locking reads followed by writes and COMMIT. Uncommitted writes are
invisible under READ COMMITTED, so a session is modelled by the locks it holds
(`pc`, with `resOf`, `askItem`, `askUser` naming the rows) and all writes of a
transaction are its last step. A step that takes a lock is enabled when no other
session holds the row and tests what the code tests under that lock.

Foreign keys. Django's are deferred, so COMMIT of a transaction takes a KEY SHARE
lock on each row that it refers to, and waits while another has it FOR UPDATE.
Only users are referred to by transactions that do not hold them: the operator of
a reception or a hand-over, and whoever cancels (`Referable`). The rows held FOR
UPDATE are the payer's and, because the locking query of `inspect_reception` names
its joined tables too, the submitter's (`HeldUser`). Two operators who hand over
each other's reservations therefore wait in a circle at COMMIT (`InCircle`), which
PostgreSQL ends by aborting one of them (`Victim`). `Team` and `Accounts` lock rows
of users, too: a circle through a transaction of theirs and one of these is in no
module. The category that the reception's query locks as well is left out:
nothing here refers to it.

| Code | Steps |
|---|---|
| `create_reservation` | `LockItemToReserve` (object lock, catalogue test) then `CreateReservation` (user lock, points, `Reservation.clean`, unique constraint, `ReusableObject.clean`, writes) |
| `cancel_reservation` | `LockToCancel`, `LockItemToClose` (object lock; publication, category and centre are read without one), `CancelReservation` (`CloseUncollected`, COMMIT) |
| `expire_due_reservations`, `expire_reservation` | `ListDue` (no lock), per reservation `LockToExpire`, `LockItemToClose`, `ExpireReservation`, or `SkipClosed`; `EndSweep` |
| `complete_pickup` | `ScanToken` (no lock), `LockScanned`, `LockItemToCollect` (repeats the tests), `LockPayer` (points), `CompletePickup` (writes and charge) |
| a raise, `return reservation, False` | `Refuse` |
| a dying worker or connection | `Crash` |
| the victim of a deadlock | `Victim` |
| `inspect_reception`, accepting | `LockToReceive` (publication and submitter; tests), `ReceiveItem` (writes, award, COMMIT) |
| admin site, centre and category forms | `EditPublication`, `EditCenter`, `EditItemStatus` |

Abstractions. `approved` is the publication's status; `outlet` is everything else
`catalog_readiness_errors` looks at (an inactive centre is told apart because
nobody may operate there). The amount of a movement is a function of its reason,
as `create_point_movement` enforces, so movements carry the reason. Amounts are
natural numbers: a balance is far from the width of its column. Who may call an
operation is not modelled: the requests are those of permitted people. Audit and
operation rows are inserted by the step that writes. The tests `ScanToken` makes
are one read. So is what `LockItemToClose` reads of publication, centre and, in
several queries, categories, together with the object's lock, which comes just
before. The object that is saved afterwards is validated, which reads the
publication again; the transaction raises (`Refuse`) when it is found to have
lost its approval meanwhile, and releases the object when the loss comes later
still. `overtaken` is a history variable: the transactions about to close a
reservation that an edit of its object's publication or centre has overtaken.
Nothing but an accepted reception awards points here; registration is an initial
state.

`StaffStatuses` is the set of statuses staff write by hand in the admin site. The
code lets them write any; with that power some guarantees are theirs to keep, so
the runs and theorems say which hold for every set and which only for the empty
one.

### `Publications` and the code

`publication_create`, `publication_edit` and `publication_withdraw` read and
validate outside any transaction and write in one of their own that does not read
again. A session is a request between the two: `FillNew`, `FillEdit` and
`OpenWithdrawal` read and validate in one step, `CreatePublication`,
`EditPublication` and `WithdrawPublication` write in one step, `Abandon` is a
request that dies or a transaction that raises. `publication.save()` writes every
column from the object in memory, so an edit carries the row it read (`form.row`);
the withdrawal names its columns. `_apply_photo_changes` runs under the row lock
that UPDATE took, and each photograph's `save` counts again (`PhotosFit`).
`moderate_publication` locks before it reads, and is one step. Taking the read
and the validation of a request as one step leaves out interleavings, so the
disagreements shown exist in the code all the more, while what is found to hold
of requests is shown for this granularity.

### `Team` and the code

A session is one request. `Ask` is what its view tests before the transaction:
a signed-in actor who may manage staff. Granting, deactivating, reactivating and
removing then lock the member's row and pass the safeguards (`LockMember`), and
write (`GrantAccess`, `Deactivate`, `Reactivate`, `Remove`). `team_detail` reads
the member and passes the safeguards without a lock (`ReadMember`) and later
writes the role (`SaveMember`). `AddMember` inserts a new account. The transactions on
one member are serialised by the row lock (`RowFree`), which `team_detail` takes
with its first UPDATE; the event a transaction inserts names the actor, and its foreign key
waits for whoever has the actor's row FOR UPDATE (`ActorFree`), so two
administrators who deactivate each other deadlock and one of them is refused. Nothing
serialises transactions on two members whose actor is a third person.

`OpenInvitation`, `AcceptInvitation` and `Enter` are the parts of
`staff_invitation_accept`, the last of them `login()` after COMMIT; `OpenProfile`
and `SaveProfile` those of the profile form, and of the password form, which saves
alike. Both write the whole user row as they read it (`WriteWholeRow`), the
password included. Signing in, by password or by a mailed link, is two steps:
`ReadToSignIn` finds an active row, and `Enter` stores the session without
reading it again. A link asks for no password, so people who never chose one come
in, too.

Abstractions. `active` stands for `is_active`, `account_status` and
`deactivated_at`, which these operations write together. Superusers are a
constant, and the permission `manage_staff` comes with the group of
administrators, because only the admin site gives either by hand; what staff
write there is not modelled. `signedIn` are the people with a stored session. A
session opened with an older password is not honoured by Django; here it is, so
the models let people do more. Accounts are local (`AUTH_PROVIDER`). Events are
kept as the role the last one tells of each person (`told`). A mail that is not
sent rolls the transaction back and is part of `Refuse`.

### `Accounts` and the code

Registration and magic links do the same thing: a row is stored whose secret is
mailed, and whoever brings the secret back gets what it stands for, once. The
model has one machine for both and keeps the differences. A worker serves one
request; `pc` says which rows it has locked, and what it does under the last of
them is one step with its COMMIT.

| Code | Steps |
|---|---|
| `RegistrationService.start`, no account | `AskStart` (clock), `LookUp` (nothing to lock), `InsertAccount` (waits for a rival, unique constraints), `SendActivation`, `CommitActivation` |
| `start` with a pending account, `resend` | `AskStart` or `AskAgain`, `LockAccount` (state, cooldown), `SendActivation`, `CommitActivation` |
| `RegistrationService.complete` | `OpenActivation` (`pending`, no lock), `LockLink`, `LockOwner` (both tested), `Complete`, `SignIn` |
| `MagicLinkService.request_link` | `AskAgain`, `LockAccount`, `StoreLink` (to COMMIT), then `SendLink` or `DropLink` |
| `MagicLinkService.consume` and its view | `OpenLink`, `LockLink`, `LockOwner`, `Consume`, `SignIn` |
| early returns, unique constraints, `InvalidRegistrationToken` | `Refuse` |
| an exception, the victim of a deadlock, a worker that dies | `Abort` |
| team operations on the same row | `StaffWrites` |

A mail is a fact nobody takes back: `mailed` grows when `send` accepts, before
COMMIT for an activation (which may then name a row that is gone) and after it
for a magic link. The secret in a mail is the row it names, so only mailed links
are opened. `SendActivation` keeps the rows of others as they are and
`CommitActivation` writes all of the transaction, because what is not committed
is not seen; meanwhile the links it superseded are locked. An e-mail stands for
its account, and upper and lower case for the same letters, as the unique
constraints have it. `status` joins `account_status` and `is_active`, which are
written together. `password` is the activation through which the account's first
password was chosen; changing it later, or a password that staff give, is no part
of registration. `PENDING` is written by `start` alone. Names, consent, groups
and audit rows are left out.

### `EmailSettings` and the code

| Code | Steps |
|---|---|
| `email_configuration`, a valid form | `PostSave` (the password actions offered depend on the row, read without a lock) |
| `reset_email_configuration` | `PostReset` |
| `save_overrides` | `LockRecord` (a row that is not there is not locked), then `SaveOverrides`: row and events |
| `reset` | `LockRecord`, then `Reset`; nothing when there is no row (`Abort`) |
| `send_test` | `OpenTest` (`effective`), `SendTest`; no transaction |
| INSERT of a second row, an exception, a worker that dies | `Abort` |

`EmailConfiguration(pk=1).save()` of a new object is an INSERT and never an
UPDATE, because the key has a default, so the later of two first saves fails
(`Rival`) and its events with it. A value stands for what an override says; an
encrypted password for its plain text. Which values are valid, what the server's
own settings say and how SMTP answers are left out; a test tells one of two
results. An event keeps its action and the fields it names: the code puts no
value into it.

### `Desk` and the code

The scopes of `core/permissions.py` and the filter of
`backoffice/center_filter.py` are operators on the state, each translated from
its function: `Operational` (a manager's only active centre, none when there are
two), `AllowedReceptionCenters`, `ScopePublications`, `ScopeReservations`,
`Selection`, `Filtered`, `FilteredCenters`. From them the pages are built as the
code builds them: what the dashboard counts (`DashboardModeration`,
`DashboardReception`, `DashboardPickups`), what the queues list
(`ModerationQueue`, `ReceptionQueue`, `PickupQueue`) and what the page of one
publication or reservation lets a member do (`MayDecide`, `MayReceive`) or see
(`PickupOpens`: whether the object is then handed over depends on its status and on
points, too, in `Reservations`). `_staff_publications`, behind the moderation queue
and its pages, wants a date of submission (`StaffPublications`); the dashboard does
not. `Unassigned` is the middleware that sends a manager without a centre elsewhere.

| Code | Steps |
|---|---|
| `reception_detail`, a valid form, to the row lock | `PostInspection` (publication, object and centres read without a lock) |
| `inspect_reception` under the publication's lock | `AcceptReception`, `RejectReception`; `RepeatReception` after one that accepted; `Abandon` when it raises |
| `moderation_decide`, `pickup_scan` | `Decide`, `HandOver` |
| `create_reservation` | `Book` |
| `update_center_filter` | `SetFilter`, `ClearFilter` |
| the citizen's requests, whenever they read what they write | `Submit` (with its date), `SaveDraft`, `Withdraw` |
| admin site, centre form, profile, team | `EnterItem`, `MoveItem`, `DeleteItem`, `DeleteInspection`, `EditPublication` (any status, no date), `EditCenter`, `EditHome`, `EditStaff` (role and centres) |

Between the form and the lock centres close, a manager is moved and a second
inspection is accepted. The centre is the object the form read (`form.fit` is the
state it had then), so the model has what the code has: something may be
received at a centre that closed a moment before, or in a centre that is no
longer the manager's. The test of the operator's centre at the start of
`inspect_reception` is merged with the reads of the view, which makes the window
longer and no shorter. `Decide` is the page's test and the decision in one step;
between the two only the admin site leaves a publication pending without a date,
and `moderate_publication` does not ask for one. `byHand` is a history variable: the
publications whose status is pending because the admin site made it so. Roles are
given in any order (`EditStaff`), by whom is for `Team`; points are counted and not
summed (`Points`), and whether the category admits an object is left to
`Categories`. `DeleteItem` ignores references kept by reservations that are over, so
more is deleted than the database allows. The dashboard's list of
next tasks, the first few of what it counts, is left out. Text searched for and choices made in a
queue's own form are left at what they are when the page opens.

### `Categories` and the code

| Code | Steps |
|---|---|
| change form or editable list of the admin site | `PostEdit` (the form names parent and activity; the new parent is loaded) |
| `Category.clean`, one turn of its loop | `Climb`: the row above is loaded by a query of its own |
| it meets a category seen before, or the request fails | `Abandon` |
| `Category.save` | `Save`: all columns |
| `catalog_list`, `CatalogFilterForm.__init__` | `Ask` (`public_category_ids`), `OpenCategory`, `Descend` (a query for each level) |
| `_public_inventory` | `PublicInventory` (`public_category_ids` again) |
| the form's validation | `CleanCategory`, `CleanSubcategory`, `ClimbToCategory` (a query for each row) |
| `_category_tree_ids` | `List` (one reading of the table), or `Spin` when it never is done |

`edit[e].at` and `search[v].at` are the row a loop stands on, `up` the parent id that row
was loaded with: a later change of the row is not seen. Loops over rows in
memory are one step. `ClimbsToRoot` allows as many steps as there are
categories where `is_available_for_publication` keeps a set of those visited:
a climb longer than that has come back. `_category_tree_ids` keeps no such set,
so below a category that is below itself its worklist never empties
(`Bottomless`), and the request stays at `Spin`. Adding and deleting are left
out: at that moment a category has no children, so no path leads
through it (`PROTECT`). Objects are left out; a search shows categories, those
whose objects it lists.

## Runs

All runs end with no error in about two minutes at most, or with the violation
expected.

| Run | Instance | Shows |
|---|---|---|
| `Circuit.cfg` | one object, two people who want it, three reservation rows, two workers, the command, clock to 2, duration 1 | `TypeOK`, `ActiveHoldsItem`, `DeliveredOnce`, `TestedStaysTrue`, `ClosedIsFinal`, `ReleaseFollowsReadiness`, and that `Reservations` implements `Custody` |
| `CircuitStaff.cfg` | two objects, one person whose points pay for one pickup or for none, two rows, two workers, the command, and staff writing four statuses | `OneActivePerItem`, `PaidIffCollected`, `NeverOverdrawn` |
| `CircuitLive.cfg` | two people on the staff with an object each that they receive, reserve and hand over, two rows, two workers, the command; nobody edits anything | `DueIsClosed`, `TransactionsEnd` under `Fairness` |
| `Publications.cfg` | one publication, three photographs of which two fit, two requests at a time, two submissions, two days | `TypeOK`, `ApprovedWasDecided`, `DecidedOnce`, `PhotosSound` |
| `PublicationsApproved.cfg` | | `ApprovedIsKept` is violated |
| `Team.cfg` | a superuser who is not staff, an administrator and somebody without an account; one centre, two invitations; one request at a time | `TypeOK`, `AdminRemains`, `RolesAreStaff`, `EventsTellRole`, `InvitationsStand`, `SignedInAreActive` |
| `TeamLastAdmin.cfg` | two administrators, two requests at a time | `AdminRemains` is violated |
| `TeamDeactivated.cfg` | two administrators, two requests at a time | `ActivatedByStaff` is violated |
| `Accounts.cfg` | two e-mails, one identity number, two links, two workers, clock to 2, links that live for 2 | `TypeOK`, `LiveIsNewest`, `LinksApart`, `PendingWasMailed`, `RewardedForCompleting`, `SignsInOnce`, `RedeemedRightly` |
| `EmailSettings.cfg` | one setting and the password, two values, two workers, four events | `TypeOK`, `LogTellsPassword`, `LogTellsChanges` |
| `Desk.cfg` | one publication, two centres of which one closes, opens and becomes inactive; an operator, and a manager who is given every role and every set of centres; two inspections at a time | `TypeOK`, `ReceivedTogether`, `QueuesAreExact`, `DashboardTellsQueues` |
| `Categories.cfg` | two roots and a category below one of them, two editors with an edit each or one with both, one visitor with three kinds of request | `TypeOK`, `SearchIsExact`, `OnlyRacesCloseCycles`, `SearchEnds` |

Bounds and why they are enough. Two workers and one command give every pair of
transactions, and every triple with one sweep in it; three reservation rows allow
a reservation to be made, closed and made again while a sweep still holds a stale
list. A clock of 2 with duration 1 has reservations that are due, not due, and
due for longer than the list that names them. In `CircuitStaff.cfg` an account comes with 50 points or none (the amounts are
constants, and a balance of 50 is what one pickup leaves of 100), so that two
reservations are open against a balance that pays for one while two operators
collect them. Photograph keys are not reused (`issued`), so three keys over a limit of two reach it, pass
it by two concurrent additions if nothing stops them, and allow one replacement.
The bounds are constants: `Reservations`, `MaxClock`, `MaxSubmissions`, `LastDay`,
`Photos`, `Links`, `LastMoment`, `MaxEvents`. Symmetry is used for rows, workers and interchangeable people and
objects, and never with liveness. The runs of `Publications` do not check
deadlock: a withdrawn or rejected publication is final and, with the bounds
spent, its system has nothing left to do. In `Circuit.cfg` and `CircuitStaff.cfg` staff always have
something to edit, so there deadlock is checked and says little. `TransactionsEnd`
is what says that nobody waits for ever, and the theorem `StuckOnlyBehindOperators`
who can be stuck, for any number of sessions. `CircuitLive.cfg` has no edits and
stops with its rows used up and its clock at the bound: deadlock is not checked
there. Its two people are the least that can wait for each other's rows; nobody has
points for registering (`StaffOnlySpec`), the award for an object pays for a
pickup.

`Team.cfg` serves one request at a time on purpose: these are properties of long
sequences of legal requests, and the two runs with two requests show that some of
them need it. None of the five holds of two requests at once. Three people are an actor, a target and an administrator who remains;
the superuser who is not staff is the one actor for whom the count of the
other administrators matters, since anybody else who acts is one of them.

`Accounts.cfg` has two e-mails that want one identity number, so that either the
e-mail or the number can be the rival; two links, so that one can be superseded
by the other of its kind or stand beside the other kind; and a clock of 2 with
links that live for 2, so that a link expires between the request for it and the
lock. Its cooldown of 0 moments still forbids a second link in the same moment.
Two workers give every pair of requests, and the two that wait for each other.
Links are never reused, so with both of them spent and everybody idle its system
may stop: deadlock is not checked there, and the theorem `RenewalCrosses` says who can
wait for whom instead. `Abort` stands for the database's way out of that wait.

`EmailSettings.cfg` has room for two changes of the password and one setting, so
that a password is stored, removed and stored again or a row deleted and inserted
again, and two workers, so that two first saves, or a save and a reset, meet. Its
proofs hold without these bounds.

`Desk.cfg` has two members, of whom one is every kind in turn, because nothing a
member does changes what another sees except through the publications, and two
centres, the least that can be confused; what is in a session is still there
when its member has another role. One publication is enough for scopes that are defined one
publication at a time; the proofs, of all but `QueuesAreExact`, hold for any number
of everything.

`Categories.cfg` has the least tree in which two moves can close a cycle (each of
two roots below the other), and a third category below one of them, so that a
search may come to the cycle from below. Two edits are a race or a sequence;
both the closed cycle and the request at `Spin` are reachable in the instance.

Fairness. In `Categories`, weak fairness of `Respond`: a request that was received
is worked off by its process, which waits for no lock. Edits are bounded
(`MaxEdits`), so `SearchEnds` speaks of searches that are not overtaken by edits for
ever. In `Reservations`, `Fairness`: strong fairness of each session's next step: a transaction
that waits for a row is queued by PostgreSQL and gets it when it is released,
even if others take it in between; and of transactions that wait for each other in a
circle its deadlock detector aborts one (`Victim`, a step of the session). Weak fairness of `ListDue`: the command is
scheduled again and again, which is the operators' business and an assumption.
Failures stop eventually (`<>[][Proceed]_vars`): a command that crashes for ever
expires nothing. No request by a person is fair.

`DueIsClosed` speaks of instances where nothing raises in the sweep. In the code
an exception in `expire_reservation` ends the sweep, and the next run starts
again; that is `Crash` here, and a failure that lasts is what the fairness excludes.

## What the code does not keep

* `ApprovedIsKept`: `publication_withdraw` and `publication_edit` overwrite an
  approval given between their read and their write. Nothing else takes an
  approval back (theorem `OnlyStaleRequestsUnapprove`).
* `AdminRemains`: two requests at once take away the last two administrators.
  Requests of which none begins before the last has ended do not
  (`AdministratorRemains`).
* `ActivatedByStaff`: a profile or password form writes back `is_active` and
  `is_staff` as they were, when another request has changed them since
  (`ActivatedInTurn` is the other case).

More are reached by the models and have no run of their own; adding the
formula named to a configuration shows the steps.

* `DailyLimitHolds` (INVARIANT of `Publications.cfg`): the limit is counted before
  the transaction that adds, so two requests that each find one submission left
  both submit (`publications/views.py:250`). The limit is passed by no more than
  the number of requests in progress less one (`DailyLimitIsPassedByFew`), and not at all by
  people who wait for each answer (`DailyLimitKeptInTurn`).
* `SignedInAreActive` (INVARIANT of `TeamDeactivated.cfg`, in place of its property):
  signing in reads the row and stores the session afterwards, and so does accepting
  an invitation, whose `login()` follows COMMIT (`backoffice/views.py:942`). Who is
  deactivated in between has a session after all sessions were ended. Django does
  not honour it while the account is inactive, and does when it is active again.
* `InvitationsStand` (the same, with two people of whom one administers): somebody
  removed from the team before choosing a password comes in by a mailed link and
  saves a profile, read before they were granted access again; it writes `is_staff`
  False beside the new invitation, which is then good for nothing.
* `RolesAreStaff` and `EventsTellRole` (the same): `team_detail` writes a role for
  somebody who was removed since it read them, or tells of no change because it
  compares with the role it read (`backoffice/views.py:769`).
* `RemovedHasNoAccess` (INVARIANT of `Team.cfg`): removal leaves the access to
  the centre (`backoffice/views.py:857`), and who may receive at a centre may enter the
  back office.
* `Ungrounded = {}` (INVARIANT of `Categories.cfg`): two moves at once put each of
  two categories below the other, though `clean` says 'Una categoría no puede
  ser antecesora de sí misma.' A visitor whose form was filled before, and who
  asks for one of them, has a request that never ends: `_category_tree_ids` and
  the loops of `CatalogFilterForm` do not remember where they were. Afterwards
  the two are no longer public, and later requests for them are refused.

The dashboard and the moderation queue disagree about a publication that the admin
site makes pending: the site offers every status and keeps `submitted_at` as it is
(`publications/admin.py:25`). Without a date the dashboard counts it
(`backoffice/views.py:193`), the queue does not list it and no page decides it
(`moderation/views.py:37`). `DashboardTellsQueues` says that this is all they
disagree about.

The photographs of a publication are counted in the same way, when a form is
validated: an edit that submits and one that removes the only photograph are both
accepted, and what waits for review has none. The steps are in `Publications`; the formula is
`SubmittedHasPhotos` of `Publications_proofs`, and the theorem `SubmissionsHavePhotos`
says that people who wait for each answer never do it.

Not wrong but worth knowing: an object whose reservation is closed while its
centre or publication is not ready stays RESERVED with no reservation
(`stranded` in `Custody`). `cancel_reservation` intends this
(`reservations/tests/test_workflow.py`), but no operation brings the object back
when the centre opens again; staff have to edit it.

## Proofs

`tlapm` checks every step of `Reservations_proofs`, `Custody_proofs`,
`Publications_proofs`, `Team_proofs`, `Accounts_proofs`, `EmailSettings_proofs`,
`Desk_proofs` and `Categories_proofs`. The theorems hold for every set of people,
objects, publications, rows, links, members, centres, categories and sessions, every
duration, cooldown and lifetime, every limit of photographs and every amount of
points. Assumptions: `PointsAssumption` (finitely many people; natural amounts; a
pickup costs something), `ReservationsAssumption` (types of the constants),
`TeamAssumption` (types, and that the site starts with an administrator),
`PublicationsAssumption` (types, finitely many photographs, room for at least one),
`AccountsAssumption`, `EmailSettingsAssumption` and `DeskAssumption` (types), and
`CategoriesAssumption` (types, finitely many categories, none its own parent at first).
Some theorems have hypotheses of their own, in their statements: `StuckOnlyBehindOperators`
that rows and sessions are finitely many and `DailyLimitIsPassedByFew` that workers
are, as they are on any server; and those on requests in turn suppose `[]OneRequestAtATime`
(`Team`: no request begins before the last has ended, whichever worker serves
it) or `[]OneFormAtATime` (`Publications`: nobody sends a form while
another one of theirs is being handled; forms of different people
interleave freely). The site as deployed does not enforce either; the runs that expect
a violation show what happens without.

| Theorem | Property |
|---|---|
| `TypeCorrect` | `TypeOK` |
| `LocksProtect` | `TestedStaysTrue` |
| `NoDoubleReservation` | `OneActivePerItem` |
| `RowsSound` | `ReservationsSound` |
| `ChargedOnce` | `PaidIffCollected` |
| `BalanceNeverNegative` | `NeverOverdrawn` |
| `ClosedStaysClosed` | `ClosedIsFinal` |
| `ReservedIsSetAside` | `ActiveHoldsItem`, when `StaffStatuses` is empty |
| `HandedOverOnce` | `DeliveredOnce`, when `StaffStatuses` is empty |
| `ReleaseIsReady` | `ReleaseFollowsReadiness`, when `StaffStatuses` is empty |
| `StuckOnlyBehindOperators` | `StuckBehindOperators` of `Reservations_proofs` |
| `CircuitImplementsCustody` | `CustodySpec`, when `StaffStatuses` is empty |
| `PublicationsTypes` | `TypeOK` of `Publications` |
| `ApprovalsAreDecided` | `ApprovedWasDecided` |
| `SubmissionsDecidedOnce` | `DecidedOnce` |
| `PhotosStaySound` | `PhotosSound` |
| `DailyLimitIsPassedByFew` | `OvershootIsBounded` of `Publications_proofs` |
| `DailyLimitKeptInTurn` | `DailyLimitHolds`, for one form of a person at a time |
| `SubmissionsHavePhotos` | `SubmittedHasPhotos` of `Publications_proofs`, for one form of a person at a time |
| `OnlyStaleRequestsUnapprove` | `ApprovedLostToStale` of `Publications_proofs` |
| `TeamTypes` | `TypeOK` of `Team` |
| `AdministratorRemains` | `AdminRemains`, one request at a time |
| `OnlyStaffHaveRoles` | `RolesAreStaff`, one request at a time |
| `EventsAreTrue` | `EventsTellRole`, one request at a time |
| `ActivatedInTurn` | `ActivatedByStaff`, one request at a time |
| `InvitationsAreGood` | `InvitationsStand`, one request at a time |
| `OnlyActiveSignedIn` | `SignedInAreActive`, one request at a time |
| `AccountsTypes` | `TypeOK` of `Accounts` |
| `NewestLinkWorks` | `LiveIsNewest` |
| `CooldownKept` | `LinksApart` |
| `PendingMailed` | `PendingWasMailed` |
| `RewardedOnce` | `RewardedForCompleting` |
| `OneSignIn` | `SignsInOnce` |
| `OnlyRightlyRedeemed` | `RedeemedRightly` |
| `RenewalCrosses` | `CrossedOnlyByRenewal` |
| `SettingsTypes` | `TypeOK` of `EmailSettings` |
| `LockProtects` | `LockedIsCurrent` |
| `PasswordIsTold` | `LogTellsPassword` |
| `ChangesAreTold` | `LogTellsChanges` |
| `TypeCorrect` of `Desk_proofs` | `TypeOK` of `Desk` |
| `ReceivedOnce` | `ReceivedTogether` |
| `DashboardExact` | `DashboardTellsQueues` |
| `TypeCorrect` of `Categories_proofs` | `TypeOK` of `Categories` |
| `OnlyRaces` | `OnlyRacesCloseCycles` |
| `SearchesAreExact` | `SearchIsExact` |
| `OnlyCyclesHang` | the safety half of `SearchEnds`: only a cycle that closes under way hangs a request |

The argument for `Reservations`. None of the properties is inductive: an arbitrary state in which
two sessions hold one row satisfies them and its successors do not. `SafetyInv`
adds `RowsExist` (what a session refers to exists), `RowsFresh` (a row not
inserted has a live QR; what is being expired is due), `LocksExclusive` (no row
is locked twice, of users either), `DecidedRightly` (unless an edit has overtaken it,
a transaction about to close a reservation has read the readiness that there is),
`InInventory`, `AwardsToOwners`, `OperatorsKnown` and the finiteness of the ledger. The centre of the proof is
`StepTested`: a session that writes holds the locks of the rows it writes to, so
by `LocksExclusive` it disturbs nothing that another session has tested
(`WritesApart`), staff edits and receptions touch no row under test
(`OutsideApart`), and a session that takes a lock has just tested what it needs
(`TestsItself`). With `TestedStaysTrue` each transaction can be read as if it
were alone: `StepOneActive`, `StepSound`, `StepPaid`, `StepOverdrawn`, `StepHolds`
and `StepDelivered` follow, each by cases on the few steps that write.
`BalanceNeverNegative` counts movements by reason (`MovementCounts`) and needs
the amounts only to be natural numbers. `StepReleases` reads what a closing step
writes: its reservation is active, so by `ActiveHoldsItem` its object is RESERVED and by
`OneActivePerItem` no other reservation closes over it, and `DecidedRightly` says
what it writes to the object.

Waiting, in `Reservations`. `CanGoOn` are the sessions whose next step the guards
allow, and `WaitsFor` says whose row another one asks for. Whoever cannot go on
waits for somebody (`WaitsForSomeone`), and further on in the order of reservation,
object and user (`LockOrder`), so a set of sessions none of which can go on, each
waiting only for others of the set, has some that wait at COMMIT for the row of
their operator, and then for others who do (`StuckInCircle`). Of these a smallest set
that waits for nobody outside it is a circle (`CircleInside`, by the
library's theorem that finite sets are well-founded), and whoever is in a circle
is a victim `Victim` may take. That nobody at the end is refused for want of
anything else needs that there is a row to insert for each session that is about to
(`RowsSuffice`, a count over sessions and rows) and that the ledger takes the charge
and the award: points were tested under the lock (`TestedStaysTrue`,
`ChargeIsTaken`), and points for an object go to its owner alone (`AwardIsTaken`).

The argument for `Custody`. The mapping computes an object's place and holders from
its status and its active reservations, and each balance from the ledger. `CircuitInv`
adds to the invariant above that objects are only in the circuit's statuses and
that nobody was paid yet for an object not received (`Circulating`). Every lock
taken, rollback, sweep and edit of the surroundings is a stutter (`Unseen`); the four
writing transactions and the reception are one step each. That `Collect` and
`Receive` move the balance by exactly one amount rests on the movement not
being a repeat, which `PaidIffCollected` and `Circulating` say (`BalanceMoves`), and
that the step of `Hold` finds the object still offered is `TestedStaysTrue`.

The argument for `Publications`. `PInv` adds to the properties `RequestsSound` (a request
carries a form of its type; what it edits or withdraws it read in a state that
allows it; what it creates is not there yet, and no other request creates it) and
that a publication not inserted has no photographs. What another request wrote
meanwhile is nowhere assumed unchanged: the properties survive because a request
writes only states the citizen may give (`WrittenIsDecided`) and because photographs
are counted again with each one saved (`AppliedIsSound`). Moderation is one step under
the row's lock and decides only what is pending.

The daily limit, in `Publications`. `Counted(u)` is what counts for somebody today,
or will when the forms in progress are written. Only a submission makes it
grow, and only one that found the count below the limit; all that counts then
is what is submitted already and what is in progress (`AddsWithinLimit`), so it is
bounded by `DailyLimit - 1` and one for each request (`StepWithin`), or just by
the limit when a person has one request at most. The photographs:
`WillHavePhotos` says that the form about to be written will leave one; with one form of a person
at a time no other request touches them between its reading and its writing.
Approvals: a form carries the row it read, and one that was opened
has read a row that could still be edited or withdrawn (`RequestsSound`, `WithdrawalsSound`),
which an approved one cannot.

The argument for `Team`. `TypeInv` adds to `TypeOK` that a request holds what its
step needs (`SessionTyped`). `AloneInv` adds `StillSo`: what a
request has read and tested is still so. While no request begins before the last
has ended (`OneRequestAtATime`) nothing writes between its
steps but signing in and out and the passing of time, which touch none of it
(`OthersWait`). Then
a safeguard that was passed holds when the step writes, `AdminKept` carries an
administrator over it, and a whole row is written back as it is. `StillSo` is
the invariant that two requests break, and where the violations come from.

The ways in, invitations and sessions of the browser, are in `AloneInv`, too: an
invitation is taken back and a session ended in the very step that deactivates or
removes the member (`InvalidatedStand`), the one that is issued is for a member whose
others were taken back (`IssuedStands`), and whoever is about to come in, having been
read before, is still active (`StillSo`). The last is what a deactivation in between breaks.

The argument for `Accounts`. `LinksInv` adds to the properties what the locks
give: `SessionTyped` (a request's link is in the state its step left it in),
`Apart` (two workers hold no account and no link in common, insert no rival and
issue no common link), `StillSo` (what was tested under the locks is still true,
above all that every stored link of the account is older than the cooldown) and
`RowsSound` (what is used was mailed; who has not been activated has no
password). `StepWrites` says all that a step does to any link: it inserts one,
supersedes one of an account it holds, or moves the one it has in hand. From it
and `Apart` follows that nothing another worker has tested changes
(`OthersStillSo`, `OthersLinks`), and from `StillSo` that a link that is stored is
newer, by more than the cooldown, than all others and the only live one
(`StoredByStep`), which gives `LinksApart` and `LiveIsNewest`; that a link is used
by the one who holds it live (`UsedOnce`), which gives the rewards, the sign-ins
and `RedeemedRightly`; and, with `LiveIsNewest`, that a second activation of an
account has no link to wait for, which leaves `CrossedOnlyByRenewal` its one case.

The argument for `EmailSettings`. `EInv` adds `Exclusive`: no two workers hold the
row. Then a save that stores something writes over what it read (`Overwrites`),
either because it holds the row or because there is still none, and one that
stores nothing and found nothing leaves the row as it is; so what its events
say, computed from what it read, is true of the row (`Saved`). `GrownTells` and
`JoinedNames` say what a log tells once events are appended to it.

The argument for `Desk`. `DInv` joins `TypeOK`, `ReceivedTogether`, `BookedIsThere`
(what is reserved is in the inventory) and `UndatedByHand` (what is pending without a
date was made so in the admin site: whoever else makes a publication pending
writes its date, and whoever loses the date writes another status with it). Receiving is one step under the
publication's lock, and the row that staff may delete has no operation yet, which
keeps the three counts together. The figures for receptions and pickups are those of
the queues because the scopes of publications and reservations agree on what is in
the inventory, and narrowing the centres first or the reservations afterwards
comes to the same; those for moderation differ by what `UndatedByHand` allows. That
queues and pages agree follows from their definitions in every state and is left to
TLC (`QueuesAreExact`).

The argument for `Categories`. `CInv` adds to `TypeOK` where an edit that was not
overtaken stands: its climb starts at the new parent (`StartsAtParent`), and what it
has seen, the category itself apart, is a path of rows that still are as they
were read, with the row it stands on next above (`ClimbIsPath`). When it comes to a root, every
category on the path is above the new parent and none is the one to be moved; a
set that is closed under `parent` after the save and not before would have to
hold the moved category and with it the whole path up to a root, which has no
parent in it (`SaveKeepsTree`).

Searches, in `Categories`. The walks are recursive, so each is first given a closed
form. `Lineage(c)`, the least set with `c` that is closed under `parent`, and its
size `Depth(c)` need no recursion; `Near(n)` (public, no deeper than `n`) satisfies
the equation of the climb and `Rank(c, n)` (`n` below `c`) that of the descent,
and whatever satisfies the equation is it (`WithinUnique`, `DownUnique`). The
induction this takes is over a set of numbers, `NaturalSet`, from the least
element that the library's well-founded sets have: the induction theorems
themselves take an operator, which the provers cannot give. `PublicIsExact` and
`TreeIsExact` then say that the two walks compute what `SearchIsExact` means by
public and by below. `SearchInv` follows a visitor through the form during whose
visit nothing was edited: what the menus offer (`MenusAreExact`), what the descent has
found (`DescentIsExact`), what the form has accepted (`FormIsExact`) and the
answer (`AnswerIsExact`). `OnlyCyclesHang` has an invariant of its own, `GroundedInv`:
the categories a search works with lay on and below no cycle when it read them, and a
descent from such a category runs out of levels (`DescentEnds`).

Ten theorems state what no passing run does. `RowsSound`, `LockProtects` and `RenewalCrosses`
are what other proofs rest on; `StuckOnlyBehindOperators` and `OnlyCyclesHang` are the parts of
`TransactionsEnd` and `SearchEnds` that need no fairness; `DailyLimitIsPassedByFew`,
`DailyLimitKeptInTurn`, `SubmissionsHavePhotos`, `OnlyStaleRequestsUnapprove` and
`ActivatedInTurn` say how far the disagreements above go. Their formulas can be added to a
configuration of an instance module that extends the module of the proofs, and
those with a bound reach it there: two workers pass the daily limit by one.

Only model-checked: liveness, because the prover has no backend for fairness and
ENABLED. These are `DueIsClosed`, `TransactionsEnd` and `SearchEnds`. `QueuesAreExact`
is, too.

## Not modelled

Rendering, text search and tags, favourites, the texts of the FAQ (an edit locks its one row and writes text and
audit event together), images and their files, the QR's signature, passwords, mail
contents, the browser, migrations. Circles of waits between a transaction of
`Reservations` and one of `Team` or `Accounts` on the rows of users. Staff may also
edit other columns of an object (its owner, its publication) in the admin site;
that is left out. `scope_publications` adds outer joins to a locking query for
managers, which PostgreSQL refuses to lock: a hazard of the SQL, listed in
`PROJECT.json`, that no property here can state.

## Plan

In order of importance; each gets a configuration, its properties with a mutant
each, and a proof where noted.

1. The catalogue's favourites, and the edits of the FAQ with their history.
2. The admin site's edits of a publication beside the requests of `Publications`.
3. Changes of the functional rule `limite-publicaciones-diarias` while requests are in
   progress.
4. Proofs: circles of waits in `Accounts` and `Team` over more than two
   transactions, as `StuckOnlyBehindOperators` does for `Reservations`, and across the three; whatever the items
   above add.
