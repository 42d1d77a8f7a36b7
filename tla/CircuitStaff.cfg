\* Staff write any status to two objects by hand while they are reserved and
\* collected, against one balance that pays for one of them.
SPECIFICATION Spec
CONSTANTS
  Donor = donor
  Users = {donor, ana}
  Items = {chair, lamp}
  Reservations = {r1, r2}
  Workers = {w1, w2}
  Commands = {cron}
  Operators = {donor}
  Subjects <- MCSubjects
  Owner <- MCOwner
  REGISTRATION_POINTS = 50
  ACCEPTED_OBJECT_POINTS = 100
  PICKUP_POINTS = 50
  Duration = 1
  MaxClock = 2
  VolatileItems = {chair}
  StaffStatuses = {"available", "reserved", "delivered", "withdrawn"}
  None = None
SYMMETRY PointsSymmetry
INVARIANTS
  OneActivePerItem
  PaidIffCollected
  NeverOverdrawn
