-------------------------------- MODULE Team --------------------------------
(***************************************************************************)
(* Team: who works in the back office and with which role                  *)
(* (backoffice/views.py, backoffice/services.py), their invitations, and   *)
(* the requests of their own that write the same rows (accounts/views.py). *)
(*                                                                         *)
(* Every request that changes a member ends in a transaction that holds    *)
(* the member's row; nobody holds the rows of the other members, which     *)
(* the safeguards count.  A session is one request:                        *)
(*                                                                         *)
(*   pc[s]         what s has done                                         *)
(*   "idle"        nothing                                                 *)
(*   "asked"       the actor may manage staff                              *)
(*   "locked"      holds the member's row and has passed the safeguards    *)
(*   "read"        has read the member and passed them, without a lock     *)
(*   "accepting"   has found the invitation valid                          *)
(*   "profile"     has read the actor's own row                            *)
(*   "entering"    somebody may come in: the session is still to be stored *)
(*                                                                         *)
(* active stands for is_active, account_status and deactivated_at, which   *)
(* these operations write together.                                        *)
(***************************************************************************)
EXTENDS FiniteSets

CONSTANTS People,
          Superusers,      \* is_superuser: not edited in the back office
          FirstStaff,      \* the administrators the site starts with
          FirstCitizens,   \* people who have an account and no part in it
          Centers,
          Invitations,     \* the rows the table may come to hold
          Workers,         \* web processes serving requests
          None

ASSUME TeamAssumption ==
  /\ FirstStaff \subseteq People
  /\ FirstStaff # {}
  /\ FirstCitizens \subseteq People
  /\ Superusers \subseteq FirstStaff \cup FirstCitizens
  /\ None \notin People \cup Centers \cup Invitations

VARIABLES known,       \* people with an account
          isStaff,     \* is_staff
          active,
          group,       \* 'Administrador' or 'Gestor', among the groups
          access,      \* centres of the active UserCenterAccess rows
          password,    \* has_usable_password()
          signedIn,    \* people with a stored session, whatever password
                       \* it was opened with
          told,        \* the role the last event about somebody tells
          invState, invitee,
          pc, req, seen

userVars    == <<known, isStaff, active, group, access, password>>
inviteVars  == <<invState, invitee>>
sessionVars == <<pc, req, seen>>
vars == <<userVars, signedIn, told, inviteVars, sessionVars>>

Roles      == {"administrator", "manager"}
Removals   == {"deactivate", "remove"}
RoleEdits  == {"edit", "grant"}
Operations == {"add", "reactivate"} \cup Removals \cup RoleEdits

Request == [op     : Operations,
            actor  : People,
            target : People,
            role   : Roles,
            center : Centers \cup {None}]

\* What a request has read: the row of a user, with the role it amounts to,
\* or an invitation
Row == [isStaff  : BOOLEAN,
        active   : BOOLEAN,
        password : BOOLEAN,
        role     : Roles \cup {"none"}]

TypeOK ==
  /\ known \subseteq People
  /\ isStaff \in [People -> BOOLEAN]
  /\ active \in [People -> BOOLEAN]
  /\ group \in [People -> Roles \cup {"none"}]
  /\ access \in [People -> SUBSET Centers]
  /\ password \in [People -> BOOLEAN]
  /\ signedIn \subseteq People
  /\ told \in [People -> Roles \cup {"none"}]
  /\ invState \in [Invitations -> {"free", "live", "accepted", "dead"}]
  /\ invitee \in [Invitations -> People \cup {None}]
  /\ \A i \in Invitations : invState[i] = "free" <=> invitee[i] = None
  /\ pc \in [Workers -> {"idle", "asked", "locked", "read", "accepting",
                         "profile", "entering"}]
  /\ req \in [Workers -> Request \cup People \cup Invitations \cup {None}]
  /\ seen \in [Workers -> Row \cup {None}]

-----------------------------------------------------------------------------
(* Roles.                                                                  *)

\* staff_role_value
RoleValue(u) == IF u \in Superusers THEN "administrator" ELSE group[u]

RowOf(u) == [isStaff |-> isStaff[u], active |-> active[u],
             password |-> password[u], role |-> RoleValue(u)]

\* staff_management_required: is_staff is not looked at
MayManageStaff(u) == active[u] /\ RoleValue(u) = "administrator"

ActiveAdministrators ==
  {u \in known : isStaff[u] /\ active[u] /\ RoleValue(u) = "administrator"}

\* user_can_access_backoffice; moderators and operators of no role here are
\* those with an access to a centre.
CanAccessBackoffice(u) ==
  active[u] /\ (isStaff[u] \/ RoleValue(u) # "none" \/ access[u] # {})

\* The request takes an administrator's role or account away.
RemovesAdmin(r) ==
  /\ RoleValue(r.target) = "administrator"
  /\ r.op \in Removals \/ (r.op \in RoleEdits /\ r.role # "administrator")

\* Variant: only the actor's own account is protected.
SafeguardsOfSelf(r) ==
  /\ r.target \in Superusers => r.op \notin RoleEdits \cup {"remove"}
  /\ RemovesAdmin(r) => r.actor # r.target

\* ensure_admin_safeguards
AdminSafeguards(r) ==
  /\ r.target \in Superusers => r.op \notin RoleEdits \cup {"remove"}
  /\ RemovesAdmin(r) => /\ r.actor # r.target
                        /\ ActiveAdministrators \ {r.target} # {}

\* assign_staff_role: one role, and a manager's one centre, replace all.
AssignStaffRole(u, role, center) ==
  /\ group' = [group EXCEPT ![u] = role]
  /\ access' = [access EXCEPT ![u] =
                  IF role = "manager" THEN {center} \ {None} ELSE {}]

\* Variant: the invitation is not tied to its person.
IssueUnbound(u) ==
  \E i \in Invitations :
    /\ invState[i] = "free"
    /\ invState' = [invState EXCEPT ![i] = "live"]
    /\ invitee' = invitee

\* Variant: the earlier invitations of the person stay valid.
IssueAnother(u) ==
  \E i \in Invitations :
    /\ invState[i] = "free"
    /\ invState' = [invState EXCEPT ![i] = "live"]
    /\ invitee' = [invitee EXCEPT ![i] = u]

\* The invitations of u that are not accepted become invalid.
Invalidated(u) ==
  [i \in Invitations |-> IF invState[i] = "live" /\ invitee[i] = u
                         THEN "dead" ELSE invState[i]]

\* StaffInvitationService.issue, with its mail sent
Issue(u) ==
  \E i \in Invitations :
    /\ invState[i] = "free"
    /\ invState' = [Invalidated(u) EXCEPT ![i] = "live"]
    /\ invitee' = [invitee EXCEPT ![i] = u]

\* A new member gets a temporary password or an invitation.
Provision(u) ==
  \/ /\ password' = [password EXCEPT ![u] = TRUE]
     /\ UNCHANGED inviteVars
  \/ /\ Issue(u)
     /\ UNCHANGED password

-----------------------------------------------------------------------------
Init ==
  /\ known = FirstStaff \cup FirstCitizens
  /\ isStaff = [u \in People |-> u \in FirstStaff]
  /\ active = [u \in People |-> u \in known]
  /\ group = [u \in People |->
                IF u \in FirstStaff THEN "administrator" ELSE "none"]
  /\ access = [u \in People |-> {}]
  /\ password = [u \in People |-> u \in known]
  /\ signedIn = {}
  /\ told = [u \in People |-> "none"]
  /\ invState = [i \in Invitations |-> "free"]
  /\ invitee = [i \in Invitations |-> None]
  /\ pc = [s \in Workers |-> "idle"]
  /\ req = [s \in Workers |-> None]
  /\ seen = [s \in Workers |-> None]

\* s goes on with request r, having read row.
Goes(s, step, r, row) ==
  /\ pc' = [pc EXCEPT ![s] = step]
  /\ req' = [req EXCEPT ![s] = r]
  /\ seen' = [seen EXCEPT ![s] = row]

Finish(s) == Goes(s, "idle", None, None)

\* No transaction but that of s has u's row.
RowFree(u) == \A s \in Workers : pc[s] = "locked" => req[s].target # u

\* An event names its actor: the foreign key waits for another transaction
\* that has the actor's row FOR UPDATE.
ActorFree(s) ==
  \A t \in Workers \ {s} : pc[t] = "locked" => req[t].target # req[s].actor

\* A raise, a 403 or 404, a mail that is not sent, the victim of a deadlock
\* or a process that dies: what the transaction did is undone.
Refuse(s) ==
  /\ pc[s] # "idle"
  /\ Finish(s)
  /\ UNCHANGED <<userVars, signedIn, told, inviteVars>>

-----------------------------------------------------------------------------
(* Requests that manage staff.                                             *)

\* The decorators of the views, and the tests before the transaction
Ask(s, r) ==
  /\ pc[s] = "idle"
  /\ r.actor \in signedIn
  /\ MayManageStaff(r.actor)
  /\ (r.op = "add") <=> (r.target \notin known)
  /\ Goes(s, "asked", r, None)
  /\ UNCHANGED <<userVars, signedIn, told, inviteVars>>

\* The member's row FOR UPDATE, and the safeguards: a grant needs them when
\* it changes the role of a member.
LockMember(s) ==
  LET r == req[s]
  IN  /\ pc[s] = "asked"
      /\ r.op \in Removals \cup {"grant", "reactivate"}
      /\ RowFree(r.target)
      /\ r.op # "grant" => isStaff[r.target]
      /\ \/ r.op = "reactivate"
         \/ r.op = "grant" /\ ~(isStaff[r.target] /\ RoleValue(r.target) # r.role)
         \/ AdminSafeguards(r)
      /\ Goes(s, "locked", r, RowOf(r.target))
      /\ UNCHANGED <<userVars, signedIn, told, inviteVars>>

\* team_detail reads the member and tests outside its transaction.  Nobody
\* chooses their own role, nor a superuser's: the form keeps the one it read.
ReadMember(s) ==
  LET r == req[s]
  IN  /\ pc[s] = "asked"
      /\ r.op = "edit"
      /\ isStaff[r.target]
      /\ r.actor = r.target => r.role = RoleValue(r.target)
      /\ AdminSafeguards(r)
      /\ Goes(s, "read", r, RowOf(r.target))
      /\ UNCHANGED <<userVars, signedIn, told, inviteVars>>

AddMember(s) ==
  LET r == req[s] u == req[s].target
  IN  /\ pc[s] = "asked"
      /\ r.op = "add"
      /\ ActorFree(s)
      /\ u \notin known
      /\ known' = known \cup {u}
      /\ isStaff' = [isStaff EXCEPT ![u] = TRUE]
      /\ active' = [active EXCEPT ![u] = TRUE]
      /\ AssignStaffRole(u, r.role, r.center)
      /\ Provision(u)
      /\ told' = [told EXCEPT ![u] = r.role]
      /\ Finish(s)
      /\ UNCHANGED signedIn

\* Variant: the event is written for a role that has already been assigned.
SaveMemberSilently(s) ==
  LET r == req[s] u == req[s].target
  IN  /\ pc[s] = "read"
      /\ RowFree(u)
      /\ AssignStaffRole(u, r.role, r.center)
      /\ Finish(s)
      /\ UNCHANGED <<known, isStaff, active, password, signedIn, told,
                     inviteVars>>

\* The transaction of team_detail: the role is written whatever the member
\* has become, and told if it differs from the one that was read.
SaveMember(s) ==
  LET r == req[s] u == req[s].target
  IN  /\ pc[s] = "read"
      /\ RowFree(u)
      /\ AssignStaffRole(u, r.role, r.center)
      /\ IF r.role # seen[s].role
         THEN /\ ActorFree(s)
              /\ told' = [told EXCEPT ![u] = r.role]
              /\ signedIn' = signedIn \ {u}
         ELSE UNCHANGED <<told, signedIn>>
      /\ Finish(s)
      /\ UNCHANGED <<known, isStaff, active, password, inviteVars>>

\* team_grant_existing
GrantAccess(s) ==
  LET r == req[s] u == req[s].target old == seen[s]
  IN  /\ pc[s] = "locked"
      /\ r.op = "grant"
      /\ ActorFree(s)
      /\ isStaff' = [isStaff EXCEPT ![u] = TRUE]
      /\ active' = [active EXCEPT ![u] = TRUE]
      /\ AssignStaffRole(u, r.role, r.center)
      /\ told' = IF old.isStaff /\ old.role = r.role
                 THEN told ELSE [told EXCEPT ![u] = r.role]
      /\ signedIn' = IF old.isStaff /\ old.role # r.role
                     THEN signedIn \ {u} ELSE signedIn
      /\ IF password[u] THEN UNCHANGED <<password, inviteVars>>
                        ELSE Provision(u)
      /\ Finish(s)
      /\ UNCHANGED known

\* Variant: the member stays signed in.
DeactivateInPlace(s) ==
  LET u == req[s].target
  IN  /\ pc[s] = "locked"
      /\ req[s].op = "deactivate"
      /\ ActorFree(s)
      /\ active' = [active EXCEPT ![u] = FALSE]
      /\ invState' = Invalidated(u)
      /\ Finish(s)
      /\ UNCHANGED <<known, isStaff, group, access, password, signedIn, told,
                     invitee>>

Deactivate(s) ==
  LET u == req[s].target
  IN  /\ pc[s] = "locked"
      /\ req[s].op = "deactivate"
      /\ ActorFree(s)
      /\ active' = [active EXCEPT ![u] = FALSE]
      /\ invState' = Invalidated(u)
      /\ signedIn' = signedIn \ {u}
      /\ Finish(s)
      /\ UNCHANGED <<known, isStaff, group, access, password, told, invitee>>

Reactivate(s) ==
  /\ pc[s] = "locked"
  /\ req[s].op = "reactivate"
  /\ ActorFree(s)
  /\ active' = [active EXCEPT ![req[s].target] = TRUE]
  /\ Finish(s)
  /\ UNCHANGED <<known, isStaff, group, access, password, signedIn, told,
                 inviteVars>>

\* Variant: the member keeps the groups.
RemoveKeepingGroups(s) ==
  LET u == req[s].target
  IN  /\ pc[s] = "locked"
      /\ req[s].op = "remove"
      /\ ActorFree(s)
      /\ isStaff' = [isStaff EXCEPT ![u] = FALSE]
      /\ invState' = Invalidated(u)
      /\ signedIn' = signedIn \ {u}
      /\ told' = [told EXCEPT ![u] = "none"]
      /\ Finish(s)
      /\ UNCHANGED <<known, active, group, access, password, invitee>>

\* The accesses to centres are left as they are.
Remove(s) ==
  LET u == req[s].target
  IN  /\ pc[s] = "locked"
      /\ req[s].op = "remove"
      /\ ActorFree(s)
      /\ isStaff' = [isStaff EXCEPT ![u] = FALSE]
      /\ group' = [group EXCEPT ![u] = "none"]
      /\ invState' = Invalidated(u)
      /\ signedIn' = signedIn \ {u}
      /\ told' = [told EXCEPT ![u] = "none"]
      /\ Finish(s)
      /\ UNCHANGED <<known, active, access, password, invitee>>

-----------------------------------------------------------------------------
(* Requests of the members themselves.                                     *)

\* The form's password or a mailed link is found good for u, who is active;
\* a link asks for no password.
ReadToSignIn(s, u) ==
  /\ pc[s] = "idle"
  /\ active[u]
  /\ Goes(s, "entering", u, None)
  /\ UNCHANGED <<userVars, signedIn, told, inviteVars>>

\* login(): the session is stored, and the row is not read again.
Enter(s) ==
  /\ pc[s] = "entering"
  /\ signedIn' = signedIn \cup {req[s]}
  /\ Finish(s)
  /\ UNCHANGED <<userVars, told, inviteVars>>

SignOut(u) ==
  /\ signedIn' = signedIn \ {u}
  /\ UNCHANGED <<userVars, told, inviteVars, sessionVars>>

\* StaffInvitationService.pending, outside any transaction
OpenInvitation(s, i) ==
  /\ pc[s] = "idle"
  /\ invState[i] = "live"
  /\ active[invitee[i]] /\ isStaff[invitee[i]]
  /\ Goes(s, "accepting", i, RowOf(invitee[i]))
  /\ UNCHANGED <<userVars, signedIn, told, inviteVars>>

\* The whole row as s read it, with a new password when sets is TRUE: a
\* password that another request has given since is lost.
WriteWholeRow(s, u, sets) ==
  /\ RowFree(u)
  /\ isStaff' = [isStaff EXCEPT ![u] = seen[s].isStaff]
  /\ active' = [active EXCEPT ![u] = seen[s].active]
  /\ password' = [password EXCEPT ![u] = seen[s].password \/ sets]
  /\ UNCHANGED <<known, group, access, told>>

\* The transaction of staff_invitation_accept: SetPasswordForm saves every
\* column of the user, and the invitation is marked without being read again.
\* The user enters after it.
AcceptInvitation(s) ==
  LET i == req[s] u == invitee[req[s]]
  IN  /\ pc[s] = "accepting"
      /\ WriteWholeRow(s, u, TRUE)
      /\ invState' = [invState EXCEPT ![i] = "accepted"]
      /\ Goes(s, "entering", u, None)
      /\ UNCHANGED <<signedIn, invitee>>

\* The hours an invitation is good for go by.
ExpireInvitation(i) ==
  /\ invState[i] = "live"
  /\ invState' = [invState EXCEPT ![i] = "dead"]
  /\ UNCHANGED <<userVars, signedIn, told, invitee, sessionVars>>

\* ProfileUpdateForm and PasswordChangeForm save every column of
\* request.user, which the request read first.
OpenProfile(s, u) ==
  /\ pc[s] = "idle"
  /\ u \in signedIn /\ active[u]
  /\ Goes(s, "profile", u, RowOf(u))
  /\ UNCHANGED <<userVars, signedIn, told, inviteVars>>

SaveProfile(s) ==
  /\ pc[s] = "profile"
  /\ WriteWholeRow(s, req[s], FALSE)
  /\ Finish(s)
  /\ UNCHANGED <<signedIn, inviteVars>>

-----------------------------------------------------------------------------
Next ==
  \/ \E s \in Workers :
       \/ \E r \in Request : Ask(s, r)
       \/ LockMember(s) \/ ReadMember(s)
       \/ AddMember(s) \/ SaveMember(s) \/ GrantAccess(s)
       \/ Deactivate(s) \/ Reactivate(s) \/ Remove(s)
       \/ \E i \in Invitations : OpenInvitation(s, i)
       \/ AcceptInvitation(s)
       \/ \E u \in People : OpenProfile(s, u)
       \/ SaveProfile(s)
       \/ \E u \in People : ReadToSignIn(s, u)
       \/ Enter(s)
       \/ Refuse(s)
  \/ \E u \in People : SignOut(u)
  \/ \E i \in Invitations : ExpireInvitation(i)

Spec == Init /\ [][Next]_vars

-----------------------------------------------------------------------------
(* Properties.                                                             *)

\* ensure_admin_safeguards: "El sistema debe conservar al menos un
\* administrador activo", after any sequence of legal requests.
AdminRemains == ActiveAdministrators # {}

\* Who is not, or no longer, staff has no role: remove takes back all that
\* the grants and role changes before it gave.
RolesAreStaff ==
  \A u \in People \ Superusers : ~isStaff[u] => group[u] = "none"

\* The events about a member tell the role the member has, whichever of the
\* three requests that assign roles wrote it last.
EventsTellRole ==
  \A u \in People \ Superusers : told[u] # "none" => group[u] = told[u]

\* An invitation that is good is the only one of its person, and the person
\* may come in: deactivating or removing a member takes it back.
InvitationsStand ==
  \A i \in Invitations : invState[i] = "live" =>
    /\ isStaff[invitee[i]] /\ active[invitee[i]]
    /\ \A j \in Invitations :
         invState[j] = "live" /\ invitee[j] = invitee[i] => i = j

\* Nobody stays signed in through a deactivation, to be found signed in when
\* the account is active again: for requests one at a time, a sign-in being
\* a request.
SignedInAreActive == \A u \in signedIn : active[u]

-----------------------------------------------------------------------------
(* What the code says of itself and does not keep.                         *)

\* "Se ha retirado el acceso al backoffice": who has been removed has none.
RemovedHasNoAccess ==
  \A u \in People \ Superusers : ~isStaff[u] => ~CanAccessBackoffice(u)

\* An account is made active again by an administrator who grants or
\* reactivates it, and by nothing else.
ActivatedByStaff ==
  [][\A u \in known : ~active[u] /\ active'[u] =>
       \E s \in Workers : /\ pc[s] = "locked" /\ pc'[s] = "idle"
                          /\ req[s].target = u
                          /\ req[s].op \in {"grant", "reactivate"}]_vars
=============================================================================
