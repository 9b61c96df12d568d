SPECIFICATION FairSpec
CONSTANTS
  c1 = c1
  c2 = c2
  c3 = c3
  Call = {c1, c2, c3}
  Known = {c1, c2}
  Parsed = {c1, c3}
  BodyFirst = {c1}
  Configured = TRUE
  Retries = 3
INVARIANTS
  TypeOK
  RepeatsOnlyTransient
PROPERTIES
  KeepsContract
  EveryCallEnds
\* every call comes to an end
CHECK_DEADLOCK FALSE
