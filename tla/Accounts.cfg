SPECIFICATION MCSpec
CONSTANTS
  Users = {alice, bob}
  Requests = {r1, r2}
  MaxSessions = 3
  MaxChanges = 2
  MaxLinks = 2
  Keys = {k1, k2}
  MaxHits = 2
  Window = 2
  MaxTime = 4
INVARIANTS
  OldPasswordsOpenNothing
  AdminRemains
  LinksSingleUse
  WithinLimit
  RetryAfterHonest
PROPERTIES
  OwnSessionsOnly
SYMMETRY Symmetry
CHECK_DEADLOCK FALSE
