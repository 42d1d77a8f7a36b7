SPECIFICATION Spec
CONSTANTS
  Emails = {ana, eva}
  Nifs = {n1}
  Links = {l1, l2}
  Workers = {w1, w2}
  Cooldown = 0
  Lifetime = 2
  LastMoment = 2
  None = None
SYMMETRY Interchangeable
INVARIANTS
  TypeOK
  LiveIsNewest
  LinksApart
  PendingWasMailed
  RewardedForCompleting
  SignsInOnce
PROPERTIES
  RedeemedRightly
CHECK_DEADLOCK FALSE
