CONSTANTS
  WalletId = {w1, w2}
  TxId = {t1, t2}
  TransferId = {x1}
  WalletName = {cash, bank}
  Amounts = {3}
  Openings = {0}
  Rates = {1}
  Fine = 1
  One = 2
  RoundsUp = {}
  Dates = {1}
  ForeignKeys = FALSE
  Nil = Nil
  Req = {q1, q2}
SPECIFICATION BusySpec
INVARIANT LegsInSync
CHECK_DEADLOCK FALSE
SYMMETRY Symmetric
