CONSTANTS
  VaultId = {v1, v2}
  Passphrase = {p1}
  Salt = {s1, s2, s3}
  Thread = {q1, q2}
  CrashAnywhere = TRUE
  Default = Default
  Plain = Plain
  Absent = Absent
  Torn = Torn
  Nil = Nil
SPECIFICATION Spec
INVARIANTS TypeOK FilesNotShared FilesMatchKind
CHECK_DEADLOCK FALSE
SYMMETRY Symmetric
