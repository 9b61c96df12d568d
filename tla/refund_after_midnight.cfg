SPECIFICATION Spec
CONSTANTS
  c1 = c1
  c2 = c2
  c3 = c3
  c4 = c4
  c5 = c5
  c6 = c6
  ann = ann
  bob = bob
  eve = eve
  Call = {c1, c2, c3, c4}
  User = {ann, bob, eve}
  Active <- AnnAndBob
  Limit <- OneEach
  CallerOf <- AllAnn
  Confirmed = {c1, c2, c3, c4}
  MaxDay = 2
  Stores = {"dynamodb"}
  Faults = {"gmail"}
  MaxFaults = 1
INVARIANTS
  DailyLimitRespected
\* every call comes to an end
CHECK_DEADLOCK FALSE
