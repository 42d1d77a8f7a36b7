---------------------------- MODULE Team_proofs ----------------------------
(***************************************************************************)
(* Proofs about Team, for every set of people, centres and invitations and *)
(* any number of web processes: its types, whatever the processes do at    *)
(* the same time; and the roles and the ways in, which the team keeps as   *)
(* long as no request begins before the last one has ended.                *)
(***************************************************************************)
EXTENDS Team, TLAPS

\* What a session holds is of the kind its step needs.
SessionTyped(s) ==
  /\ pc[s] \in {"asked", "locked", "read"} => req[s] \in Request
  /\ pc[s] = "accepting" =>
       req[s] \in Invitations /\ invitee[req[s]] \in People
  /\ pc[s] \in {"profile", "entering"} => req[s] \in People
  /\ pc[s] \in {"locked", "read", "accepting", "profile"} => seen[s] \in Row

TypeInv == TypeOK /\ \A s \in Workers : SessionTyped(s)

\* What a session has read and tested is still so: nothing is known of it
\* when another session may write in between.
StillSo(s) ==
  /\ pc[s] \in {"asked", "locked", "read"} =>
       (req[s].op = "add" <=> req[s].target \notin known)
  /\ pc[s] = "read" => req[s].op = "edit"
  /\ pc[s] \in {"locked", "read"} =>
       /\ seen[s] = RowOf(req[s].target)
       /\ req[s].op # "grant" => isStaff[req[s].target]
       /\ RemovesAdmin(req[s]) /\ isStaff[req[s].target] =>
            ActiveAdministrators \ {req[s].target} # {}
  /\ pc[s] = "accepting" => /\ seen[s] = RowOf(invitee[req[s]])
                           /\ active[invitee[req[s]]]
  /\ pc[s] = "profile" => seen[s] = RowOf(req[s])
  /\ pc[s] = "entering" => active[req[s]]

\* No request begins before the last one has ended.
OneRequestAtATime ==
  \A s, t \in Workers : pc[s] # "idle" /\ pc[t] # "idle" => s = t

\* w, which serves a request, takes a step of it.
RequestStep(w) ==
  \/ \E r \in Request : Ask(w, r)
  \/ LockMember(w) \/ ReadMember(w)
  \/ AddMember(w) \/ SaveMember(w) \/ GrantAccess(w)
  \/ Deactivate(w) \/ Reactivate(w) \/ Remove(w)
  \/ \E i \in Invitations : OpenInvitation(w, i)
  \/ AcceptInvitation(w)
  \/ \E u \in People : OpenProfile(w, u)
  \/ SaveProfile(w)
  \/ \E u \in People : ReadToSignIn(w, u)
  \/ Enter(w)
  \/ Refuse(w)

\* The steps that are nobody's request
OtherStep ==
  \/ \E u \in People : SignOut(u)
  \/ \E i \in Invitations : ExpireInvitation(i)
  \/ UNCHANGED vars

AloneInv ==
  /\ TypeInv
  /\ AdminRemains
  /\ RolesAreStaff
  /\ EventsTellRole
  /\ InvitationsStand
  /\ SignedInAreActive
  /\ \A s \in Workers : StillSo(s)

(***************************************************************************)
(* Type correctness.                                                       *)
(***************************************************************************)

\* The row of a person has the type of a row.
LEMMA RowOfType == ASSUME TypeOK, NEW u \in People PROVE RowOf(u) \in Row
  BY DEF TypeOK, RowOf, Row, RoleValue, Roles

\* The initial state has its type, and its sessions hold nothing.
LEMMA InitType == Init => TypeInv
  BY TeamAssumption DEF Init, TypeInv, TypeOK, SessionTyped, Roles

\* A session that goes on to a step keeps every session typed.
LEMMA GoesType ==
  ASSUME TypeInv, NEW s \in Workers,
         NEW step \in {"idle", "asked", "locked", "read", "accepting",
                       "profile", "entering"},
         NEW r \in Request \cup People \cup Invitations \cup {None},
         NEW row \in Row \cup {None},
         Goes(s, step, r, row),
         step \in {"asked", "locked", "read"} => r \in Request,
         step = "accepting" => r \in Invitations /\ invitee'[r] \in People,
         step \in {"profile", "entering"} => r \in People,
         step \in {"locked", "read", "accepting", "profile"} => row \in Row,
         \A i \in Invitations : invitee[i] \in People => invitee'[i] \in People
  PROVE  /\ pc' \in [Workers -> {"idle", "asked", "locked", "read",
                                 "accepting", "profile", "entering"}]
         /\ req' \in [Workers -> Request \cup People \cup Invitations
                                  \cup {None}]
         /\ seen' \in [Workers -> Row \cup {None}]
         /\ \A t \in Workers : SessionTyped(t)'
<1>1. /\ pc' \in [Workers -> {"idle", "asked", "locked", "read",
                              "accepting", "profile", "entering"}]
      /\ req' \in [Workers -> Request \cup People \cup Invitations
                               \cup {None}]
      /\ seen' \in [Workers -> Row \cup {None}]
  BY DEF TypeInv, TypeOK, Goes
<1>2. ASSUME NEW t \in Workers PROVE SessionTyped(t)'
  <2>1. CASE t = s
    BY <2>1 DEF TypeInv, TypeOK, Goes, SessionTyped
  <2>2. CASE t # s
    <3>1. pc'[t] = pc[t] /\ req'[t] = req[t] /\ seen'[t] = seen[t]
      BY <2>2 DEF TypeInv, TypeOK, Goes
    <3> QED
      BY <3>1 DEF TypeInv, SessionTyped
  <2> QED
    BY <2>1, <2>2
<1> QED
  BY <1>1, <1>2

\* Issuing an invitation keeps the invitations typed.
LEMMA IssueType ==
  ASSUME TypeOK, NEW u \in People, Issue(u)
  PROVE  /\ invState' \in [Invitations -> {"free", "live", "accepted", "dead"}]
         /\ invitee' \in [Invitations -> People \cup {None}]
         /\ \A i \in Invitations : invState'[i] = "free" <=> invitee'[i] = None
         /\ \A i \in Invitations :
              invitee[i] \in People => invitee'[i] \in People
  BY TeamAssumption DEF TypeOK, Issue, Invalidated

\* So does giving a member a way in, which keeps the passwords typed too.
LEMMA ProvisionType ==
  ASSUME TypeOK, NEW u \in People, Provision(u)
  PROVE  /\ password' \in [People -> BOOLEAN]
         /\ invState' \in [Invitations -> {"free", "live", "accepted", "dead"}]
         /\ invitee' \in [Invitations -> People \cup {None}]
         /\ \A i \in Invitations : invState'[i] = "free" <=> invitee'[i] = None
         /\ \A i \in Invitations :
              invitee[i] \in People => invitee'[i] \in People
<1>1. CASE Issue(u) /\ UNCHANGED password
  BY <1>1, IssueType DEF TypeOK
<1>2. CASE UNCHANGED inviteVars /\ password' = [password EXCEPT ![u] = TRUE]
  BY <1>2 DEF TypeOK, inviteVars
<1> QED
  BY <1>1, <1>2 DEF Provision

\* Invalidating the invitations of a person keeps them typed.
LEMMA InvalidatedType ==
  ASSUME TypeOK, NEW u \in People, invState' = Invalidated(u),
         UNCHANGED invitee
  PROVE  /\ invState' \in [Invitations -> {"free", "live", "accepted", "dead"}]
         /\ \A i \in Invitations : invState'[i] = "free" <=> invitee'[i] = None
  BY DEF TypeOK, Invalidated

\* Assigning a role keeps the roles and the accesses typed.
LEMMA AssignType ==
  ASSUME TypeOK, NEW u \in People, NEW role \in Roles,
         NEW center \in Centers \cup {None}, AssignStaffRole(u, role, center)
  PROVE  /\ group' \in [People -> Roles \cup {"none"}]
         /\ access' \in [People -> SUBSET Centers]
  BY DEF TypeOK, AssignStaffRole

\* A session that ends keeps every session typed.
LEMMA FinishType ==
  ASSUME TypeInv, NEW s \in Workers, Finish(s),
         \A i \in Invitations : invitee[i] \in People => invitee'[i] \in People
  PROVE  /\ pc' \in [Workers -> {"idle", "asked", "locked", "read",
                                 "accepting", "profile", "entering"}]
         /\ req' \in [Workers -> Request \cup People \cup Invitations
                                  \cup {None}]
         /\ seen' \in [Workers -> Row \cup {None}]
         /\ \A t \in Workers : SessionTyped(t)'
  BY GoesType DEF Finish

\* Every step keeps the types.
LEMMA StepType == TypeInv /\ [Next]_vars => TypeInv'
<1> SUFFICES ASSUME TypeInv, [Next]_vars PROVE TypeInv'
  OBVIOUS
<1> USE DEF Roles
<1>0. TypeOK
  BY DEF TypeInv
<1>1. ASSUME NEW s \in Workers, NEW r \in Request, Ask(s, r) PROVE TypeInv'
  <2>1. UNCHANGED invitee /\ Goes(s, "asked", r, None)
    BY <1>1 DEF Ask, inviteVars
  <2> QED
    BY <1>0, <1>1, <2>1, GoesType
    DEF Ask, TypeInv, TypeOK, userVars, inviteVars
<1>2. ASSUME NEW s \in Workers, LockMember(s) PROVE TypeInv'
  <2>1. req[s] \in Request /\ req[s].target \in People
    BY <1>2 DEF LockMember, TypeInv, SessionTyped, Request
  <2>2. UNCHANGED invitee /\ Goes(s, "locked", req[s], RowOf(req[s].target))
    BY <1>2 DEF LockMember, inviteVars
  <2> QED
    BY <1>0, <1>2, <2>1, <2>2, GoesType, RowOfType
    DEF LockMember, TypeInv, TypeOK, userVars, inviteVars
<1>3. ASSUME NEW s \in Workers, ReadMember(s) PROVE TypeInv'
  <2>1. req[s] \in Request /\ req[s].target \in People
    BY <1>3 DEF ReadMember, TypeInv, SessionTyped, Request
  <2>2. UNCHANGED invitee /\ Goes(s, "read", req[s], RowOf(req[s].target))
    BY <1>3 DEF ReadMember, inviteVars
  <2> QED
    BY <1>0, <1>3, <2>1, <2>2, GoesType, RowOfType
    DEF ReadMember, TypeInv, TypeOK, userVars, inviteVars
<1>4. ASSUME NEW s \in Workers, AddMember(s) PROVE TypeInv'
  <2> DEFINE u == req[s].target
  <2>1. u \in People /\ req[s].role \in Roles
        /\ req[s].center \in Centers \cup {None}
    BY <1>4 DEF AddMember, TypeInv, SessionTyped, Request
  <2>2. /\ AssignStaffRole(u, req[s].role, req[s].center)
        /\ Provision(u) /\ Finish(s)
    BY <1>4 DEF AddMember
  <2>3. /\ known' \subseteq People /\ isStaff' \in [People -> BOOLEAN]
        /\ active' \in [People -> BOOLEAN] /\ signedIn' \subseteq People
        /\ told' \in [People -> Roles \cup {"none"}]
    BY <1>0, <1>4, <2>1 DEF AddMember, TypeOK
  <2> QED
    BY <1>0, <2>1, <2>2, <2>3, AssignType, ProvisionType, FinishType
    DEF TypeInv, TypeOK
<1>5. ASSUME NEW s \in Workers, SaveMember(s) PROVE TypeInv'
  <2> DEFINE u == req[s].target
  <2>1. u \in People /\ req[s].role \in Roles
        /\ req[s].center \in Centers \cup {None}
    BY <1>5 DEF SaveMember, TypeInv, SessionTyped, Request
  <2>2. /\ AssignStaffRole(u, req[s].role, req[s].center) /\ Finish(s)
        /\ UNCHANGED <<known, isStaff, active, password, inviteVars>>
    BY <1>5 DEF SaveMember
  <2>3. told' \in [People -> Roles \cup {"none"}] /\ signedIn' \subseteq People
    BY <1>0, <1>5, <2>1 DEF SaveMember, TypeOK
  <2> QED
    BY <1>0, <2>1, <2>2, <2>3, AssignType, FinishType
    DEF TypeInv, TypeOK, inviteVars
<1>6. ASSUME NEW s \in Workers, GrantAccess(s) PROVE TypeInv'
  <2> DEFINE u == req[s].target
  <2>1. u \in People /\ req[s].role \in Roles
        /\ req[s].center \in Centers \cup {None}
    BY <1>6 DEF GrantAccess, TypeInv, SessionTyped, Request
  <2>2. AssignStaffRole(u, req[s].role, req[s].center) /\ Finish(s)
    BY <1>6 DEF GrantAccess
  <2>3. /\ known' \subseteq People /\ isStaff' \in [People -> BOOLEAN]
        /\ active' \in [People -> BOOLEAN] /\ signedIn' \subseteq People
        /\ told' \in [People -> Roles \cup {"none"}]
    BY <1>0, <1>6, <2>1 DEF GrantAccess, TypeOK
  <2>4. Provision(u) \/ UNCHANGED <<password, inviteVars>>
    BY <1>6 DEF GrantAccess
  <2>5. /\ password' \in [People -> BOOLEAN]
        /\ invState' \in [Invitations -> {"free", "live", "accepted", "dead"}]
        /\ invitee' \in [Invitations -> People \cup {None}]
        /\ \A i \in Invitations : invState'[i] = "free" <=> invitee'[i] = None
        /\ \A i \in Invitations :
             invitee[i] \in People => invitee'[i] \in People
    <3>1. CASE Provision(u)
      BY <1>0, <2>1, <3>1, ProvisionType
    <3>2. CASE UNCHANGED <<password, inviteVars>>
      BY <1>0, <3>2 DEF TypeOK, inviteVars
    <3> QED
      BY <2>4, <3>1, <3>2
  <2> QED
    BY <1>0, <2>1, <2>2, <2>3, <2>5, AssignType, FinishType
    DEF TypeInv, TypeOK
<1>7. ASSUME NEW s \in Workers, Deactivate(s) PROVE TypeInv'
  <2>1. req[s].target \in People
    BY <1>7 DEF Deactivate, TypeInv, SessionTyped, Request
  <2>2. /\ invState' = Invalidated(req[s].target) /\ UNCHANGED invitee
        /\ Finish(s)
    BY <1>7 DEF Deactivate
  <2> QED
    BY <1>0, <1>7, <2>1, <2>2, InvalidatedType, FinishType
    DEF Deactivate, TypeInv, TypeOK
<1>8. ASSUME NEW s \in Workers, Reactivate(s) PROVE TypeInv'
  <2>1. Finish(s) /\ UNCHANGED invitee
    BY <1>8 DEF Reactivate, inviteVars
  <2> QED
    BY <1>0, <1>8, <2>1, FinishType
    DEF Reactivate, TypeInv, TypeOK, inviteVars
<1>9. ASSUME NEW s \in Workers, Remove(s) PROVE TypeInv'
  <2>1. req[s].target \in People
    BY <1>9 DEF Remove, TypeInv, SessionTyped, Request
  <2>2. /\ invState' = Invalidated(req[s].target) /\ UNCHANGED invitee
        /\ Finish(s)
    BY <1>9 DEF Remove
  <2> QED
    BY <1>0, <1>9, <2>1, <2>2, InvalidatedType, FinishType
    DEF Remove, TypeInv, TypeOK
<1>10. ASSUME NEW s \in Workers, NEW i \in Invitations, OpenInvitation(s, i)
       PROVE TypeInv'
  <2>1. invitee[i] \in People
    BY <1>0, <1>10 DEF OpenInvitation, TypeOK
  <2>2. UNCHANGED invitee /\ Goes(s, "accepting", i, RowOf(invitee[i]))
    BY <1>10 DEF OpenInvitation, inviteVars
  <2> QED
    BY <1>0, <1>10, <2>1, <2>2, GoesType, RowOfType
    DEF OpenInvitation, TypeInv, TypeOK, userVars, inviteVars
<1>11. ASSUME NEW s \in Workers, AcceptInvitation(s) PROVE TypeInv'
  <2>1. req[s] \in Invitations /\ invitee[req[s]] \in People
        /\ seen[s].isStaff \in BOOLEAN /\ seen[s].active \in BOOLEAN
        /\ seen[s].password \in BOOLEAN
    BY <1>11 DEF AcceptInvitation, TypeInv, SessionTyped, Row
  <2>2. Goes(s, "entering", invitee[req[s]], None) /\ UNCHANGED invitee
    BY <1>11 DEF AcceptInvitation
  <2>3. /\ invState' \in [Invitations -> {"free", "live", "accepted", "dead"}]
        /\ \A i \in Invitations : invState'[i] = "free" <=> invitee'[i] = None
    BY <1>0, <1>11, <2>1, TeamAssumption DEF AcceptInvitation, TypeOK
  <2>4. password' \in [People -> BOOLEAN]
    BY <1>0, <1>11, <2>1 DEF AcceptInvitation, WriteWholeRow, TypeOK
  <2> QED
    BY <1>0, <1>11, <2>1, <2>2, <2>3, <2>4, GoesType
    DEF AcceptInvitation, WriteWholeRow, TypeInv, TypeOK
<1>12. ASSUME NEW s \in Workers, NEW u \in People, OpenProfile(s, u)
       PROVE TypeInv'
  <2>1. UNCHANGED invitee /\ Goes(s, "profile", u, RowOf(u))
    BY <1>12 DEF OpenProfile, inviteVars
  <2> QED
    BY <1>0, <1>12, <2>1, GoesType, RowOfType
    DEF OpenProfile, TypeInv, TypeOK, userVars, inviteVars
<1>13. ASSUME NEW s \in Workers, SaveProfile(s) PROVE TypeInv'
  <2>1. req[s] \in People /\ seen[s].isStaff \in BOOLEAN
        /\ seen[s].active \in BOOLEAN /\ seen[s].password \in BOOLEAN
    BY <1>13 DEF SaveProfile, TypeInv, SessionTyped, Row
  <2>2. Finish(s) /\ UNCHANGED inviteVars
    BY <1>13 DEF SaveProfile
  <2> QED
    BY <1>0, <1>13, <2>1, <2>2, FinishType
    DEF SaveProfile, WriteWholeRow, TypeInv, TypeOK, inviteVars
<1>14. ASSUME NEW s \in Workers, Refuse(s) PROVE TypeInv'
  <2>1. Finish(s) /\ UNCHANGED inviteVars
    BY <1>14 DEF Refuse
  <2> QED
    BY <1>0, <1>14, <2>1, FinishType
    DEF Refuse, TypeInv, TypeOK, userVars, inviteVars
<1>15. ASSUME NEW u \in People, SignOut(u) PROVE TypeInv'
  BY <1>15 DEF SignOut, TypeInv, TypeOK, SessionTyped, userVars, inviteVars,
               sessionVars
<1>16. ASSUME NEW i \in Invitations, ExpireInvitation(i) PROVE TypeInv'
  BY <1>16 DEF ExpireInvitation, TypeInv, TypeOK, SessionTyped, userVars,
               sessionVars
<1>18. ASSUME NEW s \in Workers, NEW u \in People, ReadToSignIn(s, u)
       PROVE TypeInv'
  <2>1. UNCHANGED invitee /\ Goes(s, "entering", u, None)
    BY <1>18 DEF ReadToSignIn, inviteVars
  <2> QED
    BY <1>0, <1>18, <2>1, GoesType
    DEF ReadToSignIn, TypeInv, TypeOK, userVars, inviteVars
<1>19. ASSUME NEW s \in Workers, Enter(s) PROVE TypeInv'
  <2>1. Finish(s) /\ UNCHANGED inviteVars /\ req[s] \in People
    BY <1>19 DEF Enter, TypeInv, SessionTyped
  <2> QED
    BY <1>0, <1>19, <2>1, FinishType
    DEF Enter, TypeInv, TypeOK, userVars, inviteVars
<1>17. CASE UNCHANGED vars
  BY <1>17 DEF TypeInv, TypeOK, SessionTyped, vars, userVars, inviteVars,
               sessionVars
<1> QED
  BY <1>1, <1>2, <1>3, <1>4, <1>5, <1>6, <1>7, <1>8, <1>9, <1>10, <1>11,
     <1>12, <1>13, <1>14, <1>15, <1>16, <1>17, <1>18, <1>19
  DEF Next

\* Users, roles, invitations and sessions stay of their types.
THEOREM TeamTypes == Spec => []TypeOK
<1>1. TypeInv => TypeOK
  BY DEF TypeInv
<1> QED
  BY <1>1, InitType, StepType, PTL DEF Spec

(***************************************************************************)
(* One request at a time.                                                  *)
(***************************************************************************)

\* What is said of roles depends on these parts of the state alone.
roleVars == <<known, isStaff, active, group, told>>

RolesInv == AdminRemains /\ RolesAreStaff /\ EventsTellRole

\* A step that leaves them alone keeps what is said of roles.
LEMMA RolesUnchanged ==
  ASSUME RolesInv, UNCHANGED roleVars
  PROVE  RolesInv' /\ ActiveAdministrators' = ActiveAdministrators
  BY DEF RolesInv, roleVars, AdminRemains, RolesAreStaff, EventsTellRole,
         ActiveAdministrators, RoleValue

\* The site starts with an administrator.
LEMMA InitAlone == Init => AloneInv
<1> SUFFICES ASSUME Init PROVE AloneInv
  OBVIOUS
<1>1. PICK u \in FirstStaff : TRUE
  BY TeamAssumption
<1>2. u \in ActiveAdministrators
  BY <1>1, TeamAssumption DEF Init, ActiveAdministrators, RoleValue
<1> QED
  BY <1>2, InitType, TeamAssumption
  DEF AloneInv, Init, AdminRemains, RolesAreStaff, EventsTellRole,
      InvitationsStand, SignedInAreActive, StillSo

\* A session that is over has nothing that could have changed.
LEMMA IdleStillSo ==
  ASSUME TypeInv, NEW w \in Workers, Finish(w)
  PROVE  StillSo(w)'
<1>1. pc'[w] = "idle"
  BY DEF Finish, Goes, TypeInv, TypeOK
<1> QED
  BY <1>1 DEF StillSo

\* An administrator who is active stays so through a step that changes
\* nobody but u, if u stays or another one was there.
LEMMA AdminKept ==
  ASSUME AdminRemains, NEW u, known \subseteq known',
         \A v \in known \ {u} : /\ isStaff'[v] = isStaff[v]
                                /\ active'[v] = active[v]
                                /\ group'[v] = group[v],
         u \in ActiveAdministrators =>
           \/ u \in ActiveAdministrators'
           \/ ActiveAdministrators \ {u} # {}
  PROVE  AdminRemains'
<1>1. ActiveAdministrators \ {u} \subseteq ActiveAdministrators'
  BY DEF ActiveAdministrators, RoleValue
<1> QED
  BY <1>1 DEF AdminRemains

\* If what a request has read is still so, its step keeps an active
\* administrator, roles to the staff, the events' account of them, and what
\* it has read.
LEMMA RequestStepAlone ==
  ASSUME NEW w \in Workers, AloneInv, RequestStep(w)
  PROVE  RolesInv' /\ StillSo(w)'
<1>0. TypeInv /\ TypeOK /\ RolesInv
  BY DEF AloneInv, TypeInv, RolesInv
<1>a. SessionTyped(w) /\ StillSo(w) /\ w \in Workers
  BY DEF AloneInv, TypeInv
<1>1. ASSUME NEW r \in Request, Ask(w, r) PROVE RolesInv' /\ StillSo(w)'
  <2>1. UNCHANGED roleVars
    BY <1>1 DEF Ask, userVars, roleVars
  <2>2. pc'[w] = "asked" /\ req'[w] = r
    BY <1>0, <1>1 DEF Ask, Goes, TypeOK
  <2>3. StillSo(w)'
    BY <1>1, <2>1, <2>2 DEF Ask, StillSo, roleVars
  <2> QED
    BY <1>0, <2>1, <2>3, RolesUnchanged
<1>2. ASSUME LockMember(w) PROVE RolesInv' /\ StillSo(w)'
  <2>1. UNCHANGED roleVars /\ UNCHANGED password
    BY <1>2 DEF LockMember, userVars, roleVars
  <2>2. /\ pc[w] = "asked" /\ pc'[w] = "locked" /\ req'[w] = req[w]
        /\ seen'[w] = RowOf(req[w].target)
    BY <1>0, <1>2 DEF LockMember, Goes, TypeOK
  <2>3. /\ req[w].op # "grant" => isStaff[req[w].target]
        /\ RemovesAdmin(req[w]) /\ isStaff[req[w].target] =>
             ActiveAdministrators \ {req[w].target} # {}
    BY <1>2 DEF LockMember, AdminSafeguards, RemovesAdmin, Removals, RoleEdits
  <2>4. ActiveAdministrators' = ActiveAdministrators
    BY <1>0, <2>1, RolesUnchanged
  <2>5. StillSo(w)'
    BY <1>a, <2>1, <2>2, <2>3, <2>4
    DEF StillSo, RowOf, RemovesAdmin, RoleValue, roleVars
  <2> QED
    BY <1>0, <2>1, <2>5, RolesUnchanged
<1>3. ASSUME ReadMember(w) PROVE RolesInv' /\ StillSo(w)'
  <2>1. UNCHANGED roleVars /\ UNCHANGED password
    BY <1>3 DEF ReadMember, userVars, roleVars
  <2>2. /\ pc[w] = "asked" /\ pc'[w] = "read" /\ req'[w] = req[w]
        /\ seen'[w] = RowOf(req[w].target) /\ req[w].op = "edit"
    BY <1>0, <1>3 DEF ReadMember, Goes, TypeOK
  <2>3. /\ isStaff[req[w].target]
        /\ RemovesAdmin(req[w]) => ActiveAdministrators \ {req[w].target} # {}
    BY <1>3 DEF ReadMember, AdminSafeguards
  <2>4. ActiveAdministrators' = ActiveAdministrators
    BY <1>0, <2>1, RolesUnchanged
  <2>5. StillSo(w)'
    BY <1>a, <2>1, <2>2, <2>3, <2>4
    DEF StillSo, RowOf, RemovesAdmin, RoleValue, roleVars
  <2> QED
    BY <1>0, <2>1, <2>5, RolesUnchanged
<1>4. ASSUME AddMember(w) PROVE RolesInv' /\ Finish(w)
  <2> DEFINE u == req[w].target
  <2>1. u \in People /\ u \notin known /\ Finish(w)
    BY <1>a, <1>4 DEF AddMember, SessionTyped, Request
  <2>2. AdminRemains'
    BY <1>0, <1>4, <2>1, AdminKept
    DEF AddMember, AssignStaffRole, ActiveAdministrators, RolesInv, TypeOK
  <2>3. RolesAreStaff' /\ EventsTellRole'
    BY <1>0, <1>4, <2>1
    DEF AddMember, AssignStaffRole, RolesInv, RolesAreStaff, EventsTellRole,
        TypeOK
  <2> QED
    BY <2>1, <2>2, <2>3 DEF RolesInv
<1>5. ASSUME SaveMember(w) PROVE RolesInv' /\ Finish(w)
  <2> DEFINE u == req[w].target
  <2>1. /\ u \in People /\ req[w].role \in Roles
        /\ pc[w] = "read" /\ req[w].op = "edit" /\ isStaff[u]
        /\ seen[w] = RowOf(u)
        /\ RemovesAdmin(req[w]) => ActiveAdministrators \ {u} # {}
    BY <1>a, <1>5 DEF SaveMember, SessionTyped, StillSo, Request
  <2>2. /\ group' = [group EXCEPT ![u] = req[w].role]
        /\ UNCHANGED <<known, isStaff, active>> /\ Finish(w)
        /\ told' = IF req[w].role # RoleValue(u)
                   THEN [told EXCEPT ![u] = req[w].role] ELSE told
    BY <1>5, <2>1 DEF SaveMember, AssignStaffRole, RowOf
  <2>3. AdminRemains'
    <3>1. u \in ActiveAdministrators =>
            u \in ActiveAdministrators' \/ ActiveAdministrators \ {u} # {}
      BY <1>0, <2>1, <2>2
      DEF ActiveAdministrators, RemovesAdmin, RoleEdits, RoleValue, TypeOK
    <3> QED
      BY <1>0, <2>1, <2>2, <3>1, AdminKept DEF RolesInv, TypeOK
  <2>4. RolesAreStaff'
    BY <1>0, <2>1, <2>2 DEF RolesInv, RolesAreStaff, TypeOK
  <2>5. EventsTellRole'
    BY <1>0, <2>1, <2>2 DEF RolesInv, EventsTellRole, RoleValue, TypeOK
  <2> QED
    BY <2>2, <2>3, <2>4, <2>5 DEF RolesInv
<1>6. ASSUME GrantAccess(w) PROVE RolesInv' /\ Finish(w)
  <2> DEFINE u == req[w].target
  <2>1. /\ u \in People /\ req[w].role \in Roles /\ u \in known
        /\ pc[w] = "locked" /\ req[w].op = "grant" /\ seen[w] = RowOf(u)
        /\ RemovesAdmin(req[w]) /\ isStaff[u] =>
             ActiveAdministrators \ {u} # {}
    BY <1>a, <1>6 DEF GrantAccess, SessionTyped, StillSo, Request
  <2>2. /\ group' = [group EXCEPT ![u] = req[w].role]
        /\ isStaff' = [isStaff EXCEPT ![u] = TRUE]
        /\ active' = [active EXCEPT ![u] = TRUE]
        /\ known' = known /\ Finish(w)
        /\ told' = IF isStaff[u] /\ RoleValue(u) = req[w].role
                   THEN told ELSE [told EXCEPT ![u] = req[w].role]
    BY <1>6, <2>1 DEF GrantAccess, AssignStaffRole, RowOf
  <2>3. AdminRemains'
    <3>1. u \in ActiveAdministrators =>
            u \in ActiveAdministrators' \/ ActiveAdministrators \ {u} # {}
      BY <1>0, <2>1, <2>2
      DEF ActiveAdministrators, RemovesAdmin, RoleEdits, RoleValue, TypeOK
    <3> QED
      BY <1>0, <2>1, <2>2, <3>1, AdminKept DEF RolesInv, TypeOK
  <2>4. RolesAreStaff'
    BY <1>0, <2>1, <2>2 DEF RolesInv, RolesAreStaff, TypeOK
  <2>5. EventsTellRole'
    BY <1>0, <2>1, <2>2 DEF RolesInv, EventsTellRole, RoleValue, TypeOK
  <2> QED
    BY <2>2, <2>3, <2>4, <2>5 DEF RolesInv
<1>7. ASSUME Deactivate(w) \/ Remove(w) PROVE RolesInv' /\ Finish(w)
  <2> DEFINE u == req[w].target
  <2>1. /\ u \in People /\ pc[w] = "locked" /\ req[w].op \in Removals
        /\ isStaff[u] /\ (RemovesAdmin(req[w]) =>
                            ActiveAdministrators \ {u} # {})
    BY <1>a, <1>7
    DEF Deactivate, Remove, SessionTyped, StillSo, Request, Removals
  <2>2. AdminRemains'
    <3>1. u \in ActiveAdministrators => ActiveAdministrators \ {u} # {}
      BY <2>1 DEF ActiveAdministrators, RemovesAdmin
    <3>2. /\ known' = known
          /\ \A v \in known \ {u} : /\ isStaff'[v] = isStaff[v]
                                    /\ active'[v] = active[v]
                                    /\ group'[v] = group[v]
      BY <1>0, <1>7 DEF Deactivate, Remove, TypeOK
    <3> QED
      BY <1>0, <3>1, <3>2, AdminKept DEF RolesInv
  <2>3. RolesAreStaff' /\ EventsTellRole'
    BY <1>0, <1>7, <2>1
    DEF Deactivate, Remove, RolesInv, RolesAreStaff, EventsTellRole, TypeOK
  <2> QED
    BY <1>7, <2>2, <2>3 DEF RolesInv, Deactivate, Remove
<1>8. ASSUME Reactivate(w) PROVE RolesInv' /\ Finish(w)
  <2> DEFINE u == req[w].target
  <2>1. /\ active' = [active EXCEPT ![u] = TRUE] /\ Finish(w)
        /\ UNCHANGED <<known, isStaff, group, told>>
    BY <1>8 DEF Reactivate
  <2>2. ActiveAdministrators \subseteq ActiveAdministrators'
    BY <1>0, <2>1 DEF ActiveAdministrators, RoleValue, TypeOK
  <2> QED
    BY <1>0, <2>1, <2>2
    DEF RolesInv, AdminRemains, RolesAreStaff, EventsTellRole
<1>9. ASSUME NEW i \in Invitations, OpenInvitation(w, i)
      PROVE RolesInv' /\ StillSo(w)'
  <2>1. UNCHANGED roleVars /\ UNCHANGED inviteVars /\ UNCHANGED password
    BY <1>9 DEF OpenInvitation, userVars, roleVars
  <2>2. /\ pc'[w] = "accepting" /\ req'[w] = i /\ active[invitee[i]]
        /\ seen'[w] = RowOf(invitee[i])
    BY <1>0, <1>9 DEF OpenInvitation, Goes, TypeOK
  <2>3. StillSo(w)'
    BY <2>1, <2>2 DEF StillSo, RowOf, RoleValue, roleVars, inviteVars
  <2> QED
    BY <1>0, <2>1, <2>3, RolesUnchanged
<1>10. ASSUME NEW u \in People, OpenProfile(w, u)
       PROVE RolesInv' /\ StillSo(w)'
  <2>1. UNCHANGED roleVars /\ UNCHANGED password
    BY <1>10 DEF OpenProfile, userVars, roleVars
  <2>2. pc'[w] = "profile" /\ req'[w] = u /\ seen'[w] = RowOf(u)
    BY <1>0, <1>10 DEF OpenProfile, Goes, TypeOK
  <2>3. StillSo(w)'
    BY <2>1, <2>2 DEF StillSo, RowOf, RoleValue, roleVars
  <2> QED
    BY <1>0, <2>1, <2>3, RolesUnchanged
<1>11. ASSUME AcceptInvitation(w) PROVE RolesInv' /\ StillSo(w)'
  <2> DEFINE u == invitee[req[w]]
  <2>1. /\ u \in People /\ seen[w] = RowOf(u) /\ active[u]
        /\ WriteWholeRow(w, u, TRUE) /\ Goes(w, "entering", u, None)
    BY <1>a, <1>11 DEF AcceptInvitation, SessionTyped, StillSo
  <2>2. UNCHANGED roleVars
    BY <1>0, <2>1 DEF WriteWholeRow, RowOf, roleVars, TypeOK
  <2>3. pc'[w] = "entering" /\ req'[w] = u
    BY <1>0, <2>1 DEF Goes, TypeOK
  <2>4. StillSo(w)'
    BY <2>1, <2>2, <2>3 DEF StillSo, roleVars
  <2> QED
    BY <1>0, <2>2, <2>4, RolesUnchanged
<1>13. ASSUME SaveProfile(w) PROVE RolesInv' /\ Finish(w)
  <2>1. /\ req[w] \in People /\ seen[w] = RowOf(req[w])
        /\ WriteWholeRow(w, req[w], FALSE)
    BY <1>a, <1>13 DEF SaveProfile, SessionTyped, StillSo
  <2>2. UNCHANGED roleVars
    BY <1>0, <2>1 DEF WriteWholeRow, RowOf, roleVars, TypeOK
  <2> QED
    BY <1>0, <1>13, <2>2, RolesUnchanged DEF SaveProfile
<1>15. ASSUME NEW u \in People, ReadToSignIn(w, u)
       PROVE RolesInv' /\ StillSo(w)'
  <2>1. UNCHANGED roleVars
    BY <1>15 DEF ReadToSignIn, userVars, roleVars
  <2>2. pc'[w] = "entering" /\ req'[w] = u /\ active[u]
    BY <1>0, <1>15 DEF ReadToSignIn, Goes, TypeOK
  <2>3. StillSo(w)'
    BY <2>1, <2>2 DEF StillSo, roleVars
  <2> QED
    BY <1>0, <2>1, <2>3, RolesUnchanged
<1>16. ASSUME Enter(w) PROVE RolesInv' /\ Finish(w)
  BY <1>0, <1>16, RolesUnchanged DEF Enter, userVars, roleVars
<1>12. ASSUME Refuse(w) PROVE RolesInv' /\ Finish(w)
  BY <1>0, <1>12, RolesUnchanged DEF Refuse, userVars, roleVars
<1>14. Finish(w) => StillSo(w)'
  BY <1>0, <1>a, IdleStillSo
<1> QED
  BY <1>1, <1>2, <1>3, <1>4, <1>5, <1>6, <1>7, <1>8, <1>9, <1>10, <1>11,
     <1>12, <1>13, <1>14, <1>15, <1>16
  DEF RequestStep

\* The members in Q stay, and stay active.
Stay(Q) ==
  \A v \in Q : /\ isStaff[v] => isStaff'[v]
               /\ active[v] => active'[v]

\* A live invitation names a person.
LEMMA LiveIsSomebodys ==
  ASSUME TypeOK, NEW i \in Invitations, invState[i] = "live"
  PROVE  invitee[i] \in People
BY DEF TypeOK

\* Invitations go on standing if none comes to life and nobody leaves.
LEMMA KeptStand ==
  ASSUME TypeOK, InvitationsStand, UNCHANGED invitee, Stay(People),
         \A i \in Invitations : invState'[i] = "live" => invState[i] = "live"
  PROVE  InvitationsStand'
BY LiveIsSomebodys DEF InvitationsStand, Stay

\* They do if somebody leaves whose invitations are taken back.
LEMMA InvalidatedStand ==
  ASSUME TypeOK, InvitationsStand, NEW u \in People, UNCHANGED invitee,
         invState' = Invalidated(u), Stay(People \ {u})
  PROVE  InvitationsStand'
<1>1. \A i \in Invitations : invState'[i] = "live" =>
        invState[i] = "live" /\ invitee[i] \in People \ {u}
  BY LiveIsSomebodys DEF Invalidated
<1> QED
  BY <1>1 DEF InvitationsStand, Stay

\* A new one stands alone, for somebody who may come in.
LEMMA IssuedStands ==
  ASSUME TypeOK, InvitationsStand, NEW u \in People, Issue(u),
         isStaff'[u], active'[u], Stay(People)
  PROVE  InvitationsStand'
<1>1. PICK i \in Invitations :
        /\ invState[i] = "free"
        /\ invState' = [Invalidated(u) EXCEPT ![i] = "live"]
        /\ invitee' = [invitee EXCEPT ![i] = u]
  BY DEF Issue
<1>2. /\ invitee'[i] = u
      /\ \A j \in Invitations \ {i} :
           /\ invitee'[j] = invitee[j]
           /\ invState'[j] = "live" =>
                invState[j] = "live" /\ invitee[j] \in People \ {u}
  BY <1>1, LiveIsSomebodys DEF Invalidated, TypeOK
<1> QED
  BY <1>2 DEF InvitationsStand, Stay

\* So does whatever way in a new member is given.
LEMMA ProvisionedStands ==
  ASSUME TypeOK, InvitationsStand, NEW u \in People, Provision(u),
         isStaff'[u], active'[u], Stay(People)
  PROVE  InvitationsStand'
<1>1. CASE UNCHANGED inviteVars
  BY <1>1, KeptStand DEF inviteVars
<1>2. CASE Issue(u)
  BY <1>2, IssuedStands
<1> QED
  BY <1>1, <1>2 DEF Provision

\* If what a request has read is still so, its step keeps the invitations
\* good for active staff, one each, and the sessions those of active people.
LEMMA RequestStepWaysIn ==
  ASSUME NEW w \in Workers, AloneInv, RequestStep(w)
  PROVE  InvitationsStand' /\ SignedInAreActive'
<1> USE DEF userVars, inviteVars
<1>0. /\ TypeOK /\ InvitationsStand /\ SignedInAreActive
      /\ SessionTyped(w) /\ StillSo(w)
  BY DEF AloneInv, TypeInv
<1>a. ASSUME Stay(People), UNCHANGED invitee, signedIn' \subseteq signedIn,
             \A i \in Invitations : invState'[i] = "live" => invState[i] = "live"
      PROVE  InvitationsStand' /\ SignedInAreActive'
  <2>1. InvitationsStand'
    BY <1>0, <1>a, KeptStand
  <2>2. SignedInAreActive'
    BY <1>0, <1>a DEF SignedInAreActive, Stay, TypeOK
  <2> QED
    BY <2>1, <2>2
<1>1. CASE \/ \E r \in Request : Ask(w, r)
           \/ LockMember(w) \/ ReadMember(w) \/ SaveMember(w)
           \/ \E i \in Invitations : OpenInvitation(w, i)
           \/ \E u \in People : OpenProfile(w, u)
           \/ \E u \in People : ReadToSignIn(w, u)
           \/ Refuse(w)
  <2>1. /\ UNCHANGED <<isStaff, active, invState, invitee>>
        /\ signedIn' \subseteq signedIn
    BY <1>1 DEF Ask, LockMember, ReadMember, SaveMember, OpenInvitation,
                OpenProfile, ReadToSignIn, Refuse
  <2> QED
    BY <1>a, <2>1 DEF Stay
<1>2. CASE AddMember(w) \/ GrantAccess(w)
  <2> DEFINE u == req[w].target
  <2>1. /\ u \in People /\ signedIn' \subseteq signedIn
        /\ isStaff' = [isStaff EXCEPT ![u] = TRUE]
        /\ active' = [active EXCEPT ![u] = TRUE]
        /\ Provision(u) \/ UNCHANGED inviteVars
    BY <1>0, <1>2 DEF AddMember, GrantAccess, SessionTyped, Request
  <2> HIDE DEF u
  <2>2. isStaff'[u] /\ active'[u] /\ Stay(People)
    BY <1>0, <2>1 DEF Stay, TypeOK
  <2>3. SignedInAreActive'
    BY <1>0, <2>1, <2>2 DEF SignedInAreActive, Stay, TypeOK
  <2> QED
    BY <1>0, <2>1, <2>2, <2>3, ProvisionedStands, KeptStand
<1>3. CASE Deactivate(w) \/ Remove(w)
  <2> DEFINE u == req[w].target
  <2>1. /\ u \in People /\ UNCHANGED invitee
        /\ invState' = Invalidated(u) /\ signedIn' = signedIn \ {u}
        /\ \A v \in People \ {u} :
             isStaff'[v] = isStaff[v] /\ active'[v] = active[v]
    BY <1>0, <1>3 DEF Deactivate, Remove, SessionTyped, Request, TypeOK
  <2> HIDE DEF u
  <2>2. InvitationsStand'
    BY <1>0, <2>1, InvalidatedStand DEF Stay
  <2>3. SignedInAreActive'
    BY <1>0, <2>1 DEF SignedInAreActive, TypeOK
  <2> QED
    BY <2>2, <2>3
<1>4. CASE Reactivate(w)
  <2>1. /\ UNCHANGED <<isStaff, signedIn, invState, invitee>>
        /\ active' = [active EXCEPT ![req[w].target] = TRUE]
    BY <1>4 DEF Reactivate
  <2>2. Stay(People)
    BY <1>0, <2>1 DEF Stay, TypeOK
  <2> QED
    BY <1>a, <2>1, <2>2
<1>5. CASE AcceptInvitation(w) \/ SaveProfile(w)
  <2>1. PICK u \in People, sets \in BOOLEAN :
          seen[w] = RowOf(u) /\ WriteWholeRow(w, u, sets)
    BY <1>0, <1>5 DEF AcceptInvitation, SaveProfile, SessionTyped, StillSo
  <2>2. UNCHANGED <<isStaff, active>>
    BY <1>0, <2>1 DEF WriteWholeRow, RowOf, TypeOK
  <2>3. /\ UNCHANGED <<signedIn, invitee>>
        /\ \A i \in Invitations :
             invState'[i] = "live" => invState[i] = "live"
    BY <1>0, <1>5 DEF AcceptInvitation, SaveProfile, SessionTyped, TypeOK
  <2> QED
    BY <1>a, <2>2, <2>3 DEF Stay
<1>6. CASE Enter(w)
  <2>1. /\ UNCHANGED <<isStaff, active, invState, invitee>>
        /\ signedIn' = signedIn \cup {req[w]} /\ active[req[w]]
    BY <1>0, <1>6 DEF Enter, StillSo
  <2>2. InvitationsStand'
    BY <1>0, <2>1 DEF InvitationsStand
  <2> QED
    BY <1>0, <2>1, <2>2 DEF SignedInAreActive
<1> QED
  BY <1>1, <1>2, <1>3, <1>4, <1>5, <1>6 DEF RequestStep

\* The other steps touch no role, nor what a request has read of one, and
\* open no way in.
LEMMA OtherStepAlone ==
  ASSUME AloneInv, OtherStep
  PROVE  /\ RolesInv' /\ InvitationsStand' /\ SignedInAreActive'
         /\ \A s \in Workers : StillSo(s)'
<1>0. /\ TypeOK /\ RolesInv /\ InvitationsStand /\ SignedInAreActive
      /\ \A s \in Workers : StillSo(s)
  BY DEF AloneInv, TypeInv, RolesInv
<1>1. /\ UNCHANGED roleVars /\ UNCHANGED sessionVars
      /\ UNCHANGED <<invitee, password>> /\ signedIn' \subseteq signedIn
      /\ \A i \in Invitations : invState'[i] = "live" => invState[i] = "live"
  BY <1>0 DEF OtherStep, SignOut, ExpireInvitation, vars, userVars, inviteVars,
              roleVars, TypeOK
<1>2. RolesInv' /\ ActiveAdministrators' = ActiveAdministrators
  BY <1>0, <1>1, RolesUnchanged
<1>3. ASSUME NEW s \in Workers PROVE StillSo(s)'
  BY <1>0, <1>1, <1>2
  DEF StillSo, RowOf, RemovesAdmin, RoleValue, roleVars, sessionVars
<1>4. InvitationsStand' /\ SignedInAreActive'
  BY <1>0, <1>1, KeptStand DEF Stay, SignedInAreActive, roleVars
<1> QED
  BY <1>2, <1>3, <1>4

\* A step of one request leaves the others where they are.
LEMMA OthersWait ==
  ASSUME TypeOK, NEW w \in Workers, RequestStep(w)
  PROVE  /\ pc[w] # "idle" \/ pc'[w] # "idle"
         /\ \A t \in Workers \ {w} :
              pc'[t] = pc[t] /\ req'[t] = req[t] /\ seen'[t] = seen[t]
<1>1. ASSUME NEW step, NEW r, NEW row, Goes(w, step, r, row)
      PROVE  /\ pc'[w] = step
             /\ \A t \in Workers \ {w} :
                  pc'[t] = pc[t] /\ req'[t] = req[t] /\ seen'[t] = seen[t]
  BY <1>1 DEF Goes, TypeOK
<1>2. CASE \/ \E r \in Request : Ask(w, r)
           \/ \E i \in Invitations : OpenInvitation(w, i)
           \/ \E u \in People : OpenProfile(w, u)
           \/ \E u \in People : ReadToSignIn(w, u)
           \/ AcceptInvitation(w)
  <2>1. \E step \in {"asked", "accepting", "profile", "entering"} :
          \E r, row : Goes(w, step, r, row)
    BY <1>2 DEF Ask, OpenInvitation, OpenProfile, ReadToSignIn,
                AcceptInvitation
  <2> QED
    BY <1>1, <2>1
<1>3. CASE LockMember(w) \/ ReadMember(w)
  BY <1>1, <1>3 DEF LockMember, ReadMember
<1>4. CASE \/ AddMember(w) \/ SaveMember(w) \/ GrantAccess(w)
           \/ Deactivate(w) \/ Reactivate(w) \/ Remove(w)
           \/ SaveProfile(w) \/ Enter(w) \/ Refuse(w)
  <2>1. pc[w] # "idle" /\ Finish(w)
    BY <1>4 DEF AddMember, SaveMember, GrantAccess, Deactivate, Reactivate,
                Remove, SaveProfile, Enter, Refuse
  <2> QED
    BY <1>1, <2>1 DEF Finish
<1> QED
  BY <1>2, <1>3, <1>4 DEF RequestStep

\* One request at a time, what the others have read is nothing.
LEMMA StepAlone ==
  AloneInv /\ OneRequestAtATime /\ OneRequestAtATime' /\ [Next]_vars
    => AloneInv'
<1> SUFFICES ASSUME AloneInv, OneRequestAtATime, OneRequestAtATime', [Next]_vars
             PROVE  AloneInv'
  OBVIOUS
<1>0. TypeOK /\ TypeInv'
  BY StepType DEF AloneInv, TypeInv
<1>1. ASSUME NEW w \in Workers, RequestStep(w)
      PROVE  /\ RolesInv' /\ InvitationsStand' /\ SignedInAreActive'
             /\ \A s \in Workers : StillSo(s)'
  <2>1. RolesInv' /\ StillSo(w)'
    BY <1>1, RequestStepAlone
  <2>2. ASSUME NEW t \in Workers \ {w} PROVE pc'[t] = "idle"
    BY <1>0, <1>1, OthersWait DEF OneRequestAtATime
  <2>3. InvitationsStand' /\ SignedInAreActive'
    BY <1>1, RequestStepWaysIn
  <2> QED
    BY <2>1, <2>2, <2>3 DEF StillSo
<1>2. ASSUME OtherStep
      PROVE  /\ RolesInv' /\ InvitationsStand' /\ SignedInAreActive'
             /\ \A s \in Workers : StillSo(s)'
  BY <1>2, OtherStepAlone
<1>3. OtherStep \/ \E w \in Workers : RequestStep(w)
  BY DEF Next, OtherStep, RequestStep
<1> QED
  BY <1>0, <1>1, <1>2, <1>3 DEF AloneInv, RolesInv

\* It is enough that no request begins before the last has ended.
LEMMA AloneHolds == Spec /\ []OneRequestAtATime => []AloneInv
BY InitAlone, StepAlone, PTL DEF Spec

\* One request at a time, an active administrator always remains.
THEOREM AdministratorRemains == Spec /\ []OneRequestAtATime => []AdminRemains
<1>1. AloneInv => AdminRemains
  BY DEF AloneInv
<1> QED
  BY <1>1, AloneHolds, PTL

\* One request at a time, only the staff have roles.
THEOREM OnlyStaffHaveRoles == Spec /\ []OneRequestAtATime => []RolesAreStaff
<1>1. AloneInv => RolesAreStaff
  BY DEF AloneInv
<1> QED
  BY <1>1, AloneHolds, PTL

\* One request at a time, the last event about a member tells the role.
THEOREM EventsAreTrue == Spec /\ []OneRequestAtATime => []EventsTellRole
<1>1. AloneInv => EventsTellRole
  BY DEF AloneInv
<1> QED
  BY <1>1, AloneHolds, PTL

\* One request at a time, an account is made active again by an administrator
\* who grants or reactivates it, and by nothing else: whole rows are written
\* back as they are.
THEOREM ActivatedInTurn == Spec /\ []OneRequestAtATime => ActivatedByStaff
<1> DEFINE ByStaff(u) ==
      \E s \in Workers : /\ pc[s] = "locked" /\ pc'[s] = "idle"
                         /\ req[s].target = u
                         /\ req[s].op \in {"grant", "reactivate"}
           Activates ==
      \A u \in known : ~active[u] /\ active'[u] => ByStaff(u)
<1>1. AloneInv /\ [Next]_vars => [Activates]_vars
  <2> SUFFICES ASSUME AloneInv, Next, NEW u \in known, ~active[u], active'[u]
               PROVE  ByStaff(u)
    BY DEF Activates
  <2>0. TypeOK /\ \A s \in Workers : SessionTyped(s) /\ StillSo(s)
    BY DEF AloneInv, TypeInv
  <2>1. PICK w \in Workers : RequestStep(w)
    <3>1. ~OtherStep
      BY DEF OtherStep, SignOut, ExpireInvitation, vars, userVars
    <3> QED
      BY <3>1 DEF Next, OtherStep, RequestStep
  <2>2. CASE GrantAccess(w) \/ Reactivate(w)
    <3>1. /\ pc[w] = "locked" /\ pc'[w] = "idle"
          /\ active' = [active EXCEPT ![req[w].target] = TRUE]
          /\ req[w].op \in {"grant", "reactivate"}
      <4>1. Finish(w)
        BY <2>2 DEF GrantAccess, Reactivate
      <4>2. pc'[w] = "idle"
        BY <2>0, <4>1 DEF Finish, Goes, TypeOK
      <4>3. req[w].op \in {"grant", "reactivate"}
        BY <2>2 DEF GrantAccess, Reactivate
      <4> QED
        BY <2>2, <4>2, <4>3 DEF GrantAccess, Reactivate
    <3> QED
      BY <2>0, <3>1 DEF TypeOK
  <2>3. CASE AddMember(w)
    BY <2>0, <2>3 DEF AddMember, TypeOK
  <2>4. CASE Deactivate(w)
    BY <2>0, <2>4 DEF Deactivate, TypeOK
  <2>5. CASE AcceptInvitation(w) \/ SaveProfile(w)
    <3>1. PICK v \in People, sets \in BOOLEAN :
            seen[w] = RowOf(v) /\ WriteWholeRow(w, v, sets)
      BY <2>0, <2>5 DEF AcceptInvitation, SaveProfile, SessionTyped, StillSo
    <3>2. active' = active
      BY <2>0, <3>1 DEF WriteWholeRow, RowOf, TypeOK
    <3> QED
      BY <3>2
  <2>6. CASE \/ \E r \in Request : Ask(w, r)
             \/ LockMember(w) \/ ReadMember(w) \/ SaveMember(w) \/ Remove(w)
             \/ \E i \in Invitations : OpenInvitation(w, i)
             \/ \E v \in People : OpenProfile(w, v) \/ ReadToSignIn(w, v)
             \/ Enter(w) \/ Refuse(w)
    BY <2>6 DEF Ask, LockMember, ReadMember, SaveMember, Remove,
                OpenInvitation, OpenProfile, ReadToSignIn, Enter, Refuse,
                userVars
  <2> QED
    BY <2>1, <2>2, <2>3, <2>4, <2>5, <2>6 DEF RequestStep
<1> QED
  BY <1>1, AloneHolds, PTL DEF ActivatedByStaff, Spec

\* One request at a time, an invitation that is good is its person's only
\* one, and the person may come in: whoever is deactivated or removed loses
\* it, and no row is written back that tells otherwise.
THEOREM InvitationsAreGood == Spec /\ []OneRequestAtATime => []InvitationsStand
<1>1. AloneInv => InvitationsStand
  BY DEF AloneInv
<1> QED
  BY <1>1, AloneHolds, PTL

\* One request at a time, nobody stays signed in through a deactivation, nor
\* comes in after it by a sign-in or an invitation begun before.
THEOREM OnlyActiveSignedIn == Spec /\ []OneRequestAtATime => []SignedInAreActive
<1>1. AloneInv => SignedInAreActive
  BY DEF AloneInv
<1> QED
  BY <1>1, AloneHolds, PTL
=============================================================================
