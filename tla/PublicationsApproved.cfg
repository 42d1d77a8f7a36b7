\* A withdrawal races an approval.
SPECIFICATION Spec
CONSTANTS
  Publications = {lamp}
  Citizens = {ana}
  Photos = {a}
  Workers = {w1, w2}
  MaxPhotos = 1
  DailyLimit = 1
  MaxSubmissions = 1
  LastDay = 0
  Submitter <- MCSubmitter
  None = None
SYMMETRY Symmetry
PROPERTY
  ApprovedIsKept
\* A withdrawn or rejected publication is final: the system really may stop.
CHECK_DEADLOCK FALSE
