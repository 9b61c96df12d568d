SPECIFICATION Spec
CONSTANTS
  b1 = b1
  b2 = b2
  m1 = m1
  m2 = m2
  i1 = i1
  i2 = i2
  u1 = u1
  ann = ann
  bob = bob
  None = None
  NoMessageId = NoMessageId
  Container = {s1, s2}
  Mailboxes <- TwoMailboxes
  Copy = {m1, m2}
  MessageId = {i1}
  Url = {u1}
  ListOf <- OneList
  Sender = {ann}
  Steady <- AnnSteady
  Mail <- CrossPosted
  GatewayId = {1, 2, 3, 4}
  MaxResults = 2
  SqliteRows = FALSE
  Faults = {"senders", "list", "fetch", "claim_lost", "raise", "post", "lost_reply", "crash"}
  MaxFaults = 2
INVARIANTS
  TypeOK
  ClaimExclusive
  BooksTellTruth
PROPERTIES
  NoForwardAfterAck
  TombstonesStay
  KeepsContract
