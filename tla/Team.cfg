\* One request at a time: any sequence of requests about a team of three, with a
\* superuser who is not staff.
SPECIFICATION Spec
CONSTANTS
  People = {root, ada, bea}
  Superusers = {root}
  FirstStaff = {ada}
  FirstCitizens = {root}
  Centers = {c1}
  Invitations = {i1, i2}
  Workers = {w1}
  None = None
SYMMETRY Symmetry
INVARIANTS
  TypeOK
  AdminRemains
  RolesAreStaff
  EventsTellRole
  InvitationsStand
  SignedInAreActive
