CONSTANTS
  Settings = {a, b, c}
  Deployed = a
  MaxGeneration = 2
  MaxRevision = 1
  Planes = 2
  Dashboards = {d1, d2}
  MaxRequests = 1
  MaxFlips = 1
  None = None
  a = a
  b = b
  c = c
  d1 = d1
  d2 = d2
SPECIFICATION Spec
INVARIANTS
  PresenceIsTrue
  RevisionsAgree
PROPERTIES
  NothingUnseen
  BecomesControllable
