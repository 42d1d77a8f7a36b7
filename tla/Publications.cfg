\* One publication, two requests of its citizen at a time, and moderation.
SPECIFICATION Spec
CONSTANTS
  Publications = {lamp}
  Citizens = {ana}
  Photos = {a, b, c}
  Workers = {w1, w2}
  MaxPhotos = 2
  DailyLimit = 1
  MaxSubmissions = 2
  LastDay = 1
  Submitter <- MCSubmitter
  None = None
SYMMETRY Symmetry
INVARIANTS
  TypeOK
  ApprovedWasDecided
  DecidedOnce
  PhotosSound
\* A withdrawn or rejected publication is final: the system really may stop.
CHECK_DEADLOCK FALSE
