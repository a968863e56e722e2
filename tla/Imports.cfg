CONSTANTS
  A = A
  B = B
  Vault <- MCVault
  Conn = {1, 2}
  Configured <- MCConfigured
  Tx <- MCTx
  Account <- MCAccount
  Posting <- MCPosting
  CategoryType <- MCCategoryType
  Rows <- MCRows
  Entered <- MCEntered
  MaxDay = 1
  MaxCopies = 2
  MaxEvents = 2
  Nil = Nil
  Months = 2
  MonthLength = 2
  CentSize = 4
  Fine = 2
  One = 4
  RoundsUp = {3, 7}
  Rate = 3
  Sheets <- MCSheets
SPECIFICATION Spec
INVARIANTS TypeOK ImportedOnce ViewsOfAMonthAgree
PROPERTIES NothingElsePassedOver ReadsAsWritten EventuallyImported
CHECK_DEADLOCK FALSE
