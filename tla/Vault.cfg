CONSTANTS
  VaultId = {v1, v2, v3}
  Passphrase = {p1, p2}
  Salt = {s1, s2, s3}
  Thread = {q1}
  CrashAnywhere = FALSE
  Default = Default
  Plain = Plain
  Absent = Absent
  Torn = Torn
  Nil = Nil
SPECIFICATION Spec
INVARIANTS KeysAgree ServesActiveVault
CHECK_DEADLOCK FALSE
SYMMETRY Symmetric
