\* Liveness: no symmetry.  Two people on the staff have given an object each,
\* reserve each other's and hand them over to each other.  With the rows used
\* up and the clock at its bound nothing is left to do: no deadlock check.
SPECIFICATION StaffOnlySpec
CHECK_DEADLOCK FALSE
CONSTANTS
  Donor = ana
  Users = {ana, luis}
  Items = {chair, lamp}
  Reservations = {r1, r2}
  Workers = {w1, w2}
  Commands = {cron}
  Operators = {ana, luis}
  Subjects <- MCSubjects
  Owner <- MCOwnerOfOne
  REGISTRATION_POINTS = 100
  ACCEPTED_OBJECT_POINTS = 100
  PICKUP_POINTS = 50
  Duration = 1
  MaxClock = 1
  VolatileItems = {}
  StaffStatuses = {}
  None = None
PROPERTIES
  DueIsClosed
  TransactionsEnd
