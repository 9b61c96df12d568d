SPECIFICATION FairSpec
CONSTANTS
  r1 = r1
  Request = {r1}
  Deployments <- Described
  Mailboxes = 1
  MaxRestarts = 1
  Ttl = 1
  MaxDelay = 1
  MaxTime = 3
INVARIANTS
  TypeOK
  ListLag
  MarkerTrue
  MarkerFollows
  DisabledMeansIdle
PROPERTIES
  SweepsForever
  EveryRequestAnswered
