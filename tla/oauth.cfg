SPECIFICATION Spec
CONSTANTS
  r1 = r1
  r2 = r2
  r3 = r3
  t1 = t1
  t2 = t2
  ann = ann
  bob = bob
  None = None
  Request = {r1, r2, r3}
  Token = {t1, t2}
  Person = {ann, bob}
  TokenOf <- Tokens
  LegacyOf <- Bodies
  PersonOf <- Owners
  Exp <- Expiry
  Suitable = {t1, t2}
  Ttl = 2
  CacheMax = 1
  MaxTime = 4
INVARIANTS
  TypeOK
  RevocationLag
  CacheBounded
  OwnIdentity
\* every request comes to an end
CHECK_DEADLOCK FALSE
