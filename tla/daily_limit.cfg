SPECIFICATION Spec
CONSTANTS
  c1 = c1
  c2 = c2
  c3 = c3
  c4 = c4
  c5 = c5
  c6 = c6
  ann = ann
  bob = bob
  eve = eve
  Call = {c1, c2, c3, c4, c5, c6}
  User = {ann, bob, eve}
  Active <- AnnAndBob
  Limit <- OneEach
  CallerOf <- WithEve
  Confirmed = {c1, c2, c3, c4}
  MaxDay = 2
  Stores = {"dynamodb", "memory"}
  Faults = {"gmail", "gmail_lost", "raise", "crash", "repeat_add", "repeat_back"}
  MaxFaults = 3
SYMMETRY AnnsCalls
INVARIANTS
  TypeOK
  LimitKept
  CounterCovers
  CounterBalances
  NoNegativeCounter
  OverrunBounded
\* every call comes to an end
CHECK_DEADLOCK FALSE
