CONSTANTS
  WalletId = {w1, w2}
  TxId = {t1, t2, t3}
  TransferId = {x1}
  WalletName = {cash, bank}
  Amounts = {1, 3}
  Openings = {5}
  Rates = {3}
  Fine = 2
  One = 4
  RoundsUp = {3}
  Dates = {1}
  ForeignKeys = FALSE
  Nil = Nil
  MonthLength = 1
  CentSize = 4
SPECIFICATION Spec
INVARIANTS TypeOK TransfersPaired BaseMatchesRate LiveRowsHaveWallets WalletNamesUnique TransfersNetToZero ReportsMatchWallets
PROPERTIES OnlyActiveWalletsGain HistoryIsFinal ImplementsBook
CHECK_DEADLOCK FALSE
SYMMETRY Symmetric
