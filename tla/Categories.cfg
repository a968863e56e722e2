CONSTANTS
  CatId = {c1, c2, c3}
  TxId = {t1}
  CatName <- MCDefaults
  Reserved = "Transfer"
  Defaults <- MCDefaults
  DefaultType <- MCDefaultType
  DefaultParent <- MCDefaultParent
  Nil = Nil
SPECIFICATION Spec
INVARIANTS TypeOK NestsOneLevel LegsKeepCategory
CHECK_DEADLOCK FALSE
SYMMETRY Symmetric
