\* One publication, two centres of which one closes and opens, and two members:
\* an operator, and a manager who is given every role and moved from centre to
\* centre; two inspections at a time.
SPECIFICATION Spec
CONSTANTS
  Boss = boss
  Clerk = clerk
  North = north
  South = south
  Members = {boss, clerk}
  FirstRole <- MCFirstRole
  GivenRoles = {"administrator", "manager", "moderator", "none"}
  Centers = {north, south}
  Publications = {lamp}
  Workers = {w1, w2}
  Posted <- MCPosted
  Reassigned = {boss}
  Volatile = {north}
  MaxRejections = 1
  None = None
SYMMETRY MCSymmetry
INVARIANTS
  TypeOK
  ReceivedTogether
  QueuesAreExact
  DashboardTellsQueues
