SPECIFICATION Spec
CONSTANTS
  ann = ann
  eve = eve
  clarks = clarks
  daemon = daemon
  p1 = p1
  forged = forged
  Self = clarks
  Sender = clarks
  Daemons = {daemon}
  Person = {ann, eve}
  Authorized = {ann, clarks, daemon}
  Styles <- AllStyles
  Post = {p1, forged}
  Genuine = {p1}
  Content <- Contents
  MaxWritten = 2
  MaxMachine = 1
INVARIANTS
  TypeOK
  BusKeepsOut
  InstructionIsOwn
  SignatureIsOwn
PROPERTIES
  RelayKeepsContract
\* every mail is dealt with in the end
CHECK_DEADLOCK FALSE
