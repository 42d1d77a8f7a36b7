\* Two requests at a time: each safeguard counts the administrator that the
\* other request is taking away.
SPECIFICATION Spec
CONSTANTS
  People = {root, ada, bea}
  Superusers = {root}
  FirstStaff = {ada, bea}
  FirstCitizens = {root}
  Centers = {c1}
  Invitations = {i1, i2}
  Workers = {w1, w2}
  None = None
SYMMETRY Symmetry
INVARIANT AdminRemains
