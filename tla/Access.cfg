CONSTANTS
  q1 = q1
  q2 = q2
  s1 = s1
  s2 = s2
  t1 = t1
  t2 = t2
  r1 = r1
  r2 = r2
  u1 = u1
  u2 = u2
  Crowds <- MCCrowds
  MaxTime = 2
  Nil = Nil
  Thread = {q1, q2}
  Key = {"login"}
  MaxRequests = 2
  Window = 2
  MaxCalls = 4
  Session = {s1, s2}
  KeyId = {1}
  User = {u1, u2}
  Tab = {t1, t2}
  Slot = {r1, r2}
  Vault <- MCVault
  AccessLife = 0
  RefreshLife = 1
  MaxOutages = 1
SPECIFICATION Spec
INVARIANTS TypeOK OneTabOneUser
PROPERTIES LimitKept RevokedForGood SignedOutForAReason RequestsSettle
CHECK_DEADLOCK FALSE
