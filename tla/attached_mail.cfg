SPECIFICATION Spec
CONSTANTS
  ann = ann
  eve = eve
  clarks = clarks
  daemon = daemon
  p1 = p1
  forged = forged
  Self = clarks
  Sender = clarks
  Daemons = {daemon}
  Person = {ann, eve}
  Authorized = {ann, clarks, daemon}
  Styles = {"mail", "mail_html"}
  Post = {p1, forged}
  Genuine = {p1}
  Content <- Contents
  MaxWritten = 1
  MaxMachine = 0
INVARIANTS
  LatestMessageOnly
\* every mail is dealt with in the end
CHECK_DEADLOCK FALSE
