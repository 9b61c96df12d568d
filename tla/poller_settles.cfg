SPECIFICATION FairSpec
CONSTANTS
  b1 = b1
  b2 = b2
  m1 = m1
  m2 = m2
  i1 = i1
  i2 = i2
  u1 = u1
  ann = ann
  bob = bob
  None = None
  NoMessageId = NoMessageId
  Container = {s1, s2}
  Mailboxes <- OneMailbox
  Copy = {m1, m2}
  MessageId = {i1}
  Url = {u1}
  ListOf <- OneList
  Sender = {ann}
  Steady <- AnnSteady
  Mail <- Assorted
  GatewayId = {1, 2, 3, 4}
  MaxResults = 1
  SqliteRows = FALSE
  Faults = {"senders", "list", "fetch", "post", "lost_reply", "ttl", "repeat_release"}
  MaxFaults = 2
INVARIANTS
  ClaimedMeansInFlight
  RepeatsBounded
PROPERTIES
  EveryMailSettled
