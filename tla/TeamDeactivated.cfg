\* Two requests at a time: one writes back the row it read before the other
\* deactivated the account.
SPECIFICATION Spec
CONSTANTS
  People = {root, ada, bea}
  Superusers = {root}
  FirstStaff = {ada, bea}
  FirstCitizens = {root}
  Centers = {c1}
  Invitations = {i1, i2}
  Workers = {w1, w2}
  None = None
SYMMETRY Symmetry
PROPERTY ActivatedByStaff
