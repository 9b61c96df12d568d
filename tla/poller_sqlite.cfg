SPECIFICATION Spec
CONSTANTS
  b1 = b1
  b2 = b2
  m1 = m1
  m2 = m2
  i1 = i1
  i2 = i2
  u1 = u1
  ann = ann
  bob = bob
  None = None
  NoMessageId = NoMessageId
  Container = {s1, s2}
  Mailboxes <- OneMailbox
  Copy = {m1, m2}
  MessageId = {i1, i2}
  Url = {u1}
  ListOf <- OneList
  Sender = {ann, bob}
  Steady <- AnnSteady
  Mail <- Pair
  GatewayId = {1, 2, 3, 4}
  MaxResults = 2
  SqliteRows = TRUE
  Faults = {"senders", "post", "lost_reply", "crash", "raise"}
  MaxFaults = 2
INVARIANTS
  NeverDoubleForwarded
PROPERTIES
  NoSilentLoss
