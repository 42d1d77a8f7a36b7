SPECIFICATION Spec
CONSTANTS
  Settings = {host}
  PASSWORD_SETTING = EMAIL_HOST_PASSWORD
  Values = {a, b}
  Workers = {w1, w2}
  MaxEvents = 4
  None = None
SYMMETRY Interchangeable
INVARIANTS
  TypeOK
  LogTellsPassword
PROPERTIES
  LogTellsChanges
