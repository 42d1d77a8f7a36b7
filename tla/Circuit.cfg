\* One object contended by two web workers and the expiry command, with a
\* catalogue that changes under them.
SPECIFICATION Spec
CONSTANTS
  Donor = donor
  Users = {donor, ana, luis}
  Items = {chair}
  Reservations = {r1, r2, r3}
  Workers = {w1, w2}
  Commands = {cron}
  Operators = {ana, luis}
  Subjects <- MCSubjects
  Owner <- MCOwner
  REGISTRATION_POINTS = 100
  ACCEPTED_OBJECT_POINTS = 100
  PICKUP_POINTS = 50
  Duration = 1
  MaxClock = 2
  VolatileItems = {chair}
  StaffStatuses = {}
  None = None
SYMMETRY Symmetry
INVARIANTS
  TypeOK
  ActiveHoldsItem
  DeliveredOnce
  TestedStaysTrue
PROPERTIES
  ClosedIsFinal
  ReleaseFollowsReadiness
  CustodySpec
