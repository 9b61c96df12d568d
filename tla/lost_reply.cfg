SPECIFICATION Spec
CONSTANTS
  b1 = b1
  b2 = b2
  m1 = m1
  m2 = m2
  i1 = i1
  i2 = i2
  u1 = u1
  ann = ann
  bob = bob
  None = None
  NoMessageId = NoMessageId
  Container = {s1}
  Mailboxes <- OneMailbox
  Copy = {m1}
  MessageId = {i1}
  Url = {u1}
  ListOf <- OneList
  Sender = {ann}
  Steady <- AnnSteady
  Mail <- Single
  GatewayId = {1, 2, 3}
  MaxResults = 2
  SqliteRows = FALSE
  Faults = {"lost_reply"}
  MaxFaults = 1
INVARIANTS
  NeverDoubleForwarded
