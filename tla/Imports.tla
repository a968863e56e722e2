------------------------------ MODULE Imports ------------------------------
(***************************************************************************)
(* What comes into the ledger from outside: bank synchronisation and the   *)
(* upload of CSV files, and what the views of a month make of it.          *)
(***************************************************************************)
EXTENDS BankSync, Functions, Sequences, TLC

CONSTANTS
  Months, MonthLength, CentSize,
  Sheets    \* what the CSV files say, see Written

(* What the views are asked about: months of days, amounts of money, and   *)
(* Nil for a filter that is not set.                                       *)
ASSUME ViewsAssumption ==
  /\ Months \in Nat /\ MonthLength \in Nat \ {0} /\ CentSize \in Nat \ {0}
  /\ IsFiniteSet(Rows)
  /\ \A r \in Rows : r.date \in Nat /\ r.base \in Int /\ r.category # Nil
  /\ Nil \notin Nat /\ Nil # "expense"

Csv == INSTANCE Csv
Views == INSTANCE Reports

Categories == DOMAIN CategoryType

-----------------------------------------------------------------------------
(***************************************************************************)
(* A sheet is a table of a user's own making: the headers of its columns,  *)
(* the order in which it writes a date, whether it writes expenses with a  *)
(* minus sign, and its rows (Nil: a blank line).                           *)
(***************************************************************************)
Word == STRING \cup {"JOD", "USD", "Other"} \* all strings: the provers are told of three

SheetRow ==
  [date: 0..(Months * MonthLength - 1), amount: Nat, currency: Word,
   category: Word, description: SUBSET STRING]

SheetCell ==
  [kind: {"date"}, form: {"iso", "slash", "dash"}, a: Nat, b: Nat]
    \cup [kind: {"number"}, value: Int] \cup [kind: {"text"}, text: Word \cup SUBSET STRING]

ASSUME SheetsAssumption ==
  /\ Nil \notin SheetRow /\ Nil \notin SheetCell
  /\ \A sheet \in Sheets :
       /\ sheet.columns \in Seq(STRING) /\ sheet.signed \in BOOLEAN
       /\ IsFiniteSet(DOMAIN sheet.rows)
       /\ \A n \in DOMAIN sheet.rows : sheet.rows[n] \in SheetRow \cup {Nil}

FieldOf(header) ==
  IF header \in Csv!Fields THEN header
  ELSE CHOOSE f \in Csv!Fields : header \in Csv!Aliases[f]

WrittenDate(d, style) ==
  LET month == d \div MonthLength + 1
      day == (d % MonthLength) + 1
  IN  [kind |-> "date", form |-> IF style \in {"iso", "dash"} THEN style ELSE "slash",
       a |-> IF style \in {"iso", "month-first"} THEN month ELSE day,
       b |-> IF style \in {"iso", "month-first"} THEN day ELSE month]

WrittenCell(row, f, sheet) ==
  IF row = Nil THEN Nil
  ELSE IF f = "transaction_date" THEN WrittenDate(row.date, sheet.style)
  ELSE IF f = "amount_original"
       THEN [kind |-> "number", value |-> IF sheet.signed THEN -row.amount ELSE row.amount]
  ELSE IF f = "currency_original" THEN [kind |-> "text", text |-> row.currency]
  ELSE IF f = "category" THEN [kind |-> "text", text |-> row.category]
  ELSE IF row.description = {} THEN Nil ELSE [kind |-> "text", text |-> row.description]

Written(sheet) ==
  [headers |-> sheet.columns,
   lines |-> [n \in DOMAIN sheet.rows |->
                [i \in DOMAIN sheet.columns |->
                   WrittenCell(sheet.rows[n], FieldOf(sheet.columns[i]), sheet)]]]

FromFile(x) == StoredRow(x, "csv")

(* What the sheet says of row r, however it is laid out: how often it has  *)
(* it.  A category that the user does not have is Other, a currency that   *)
(* is no dollar is the dinar, and what create() refuses is left out.       *)
Said(sheet, r) ==
  LET Normal(x) == [x EXCEPT !.category = IF @ \in Categories THEN @ ELSE "Other",
                             !.currency = IF @ = "USD" THEN @ ELSE "JOD"]
      Says(x) == x # Nil /\ Creatable(Normal(x)) /\ FromFile(Normal(x)) = r
  IN  Cardinality({n \in DOMAIN sheet.rows : Says(sheet.rows[n])})

-----------------------------------------------------------------------------
(* import_csv(): every line that reads well goes through create(); one     *)
(* that is refused is an error of its own.  Of each sheet whose columns    *)
(* are found, how often it brings each row.                                *)
Brings ==
  [sheet \in {x \in Sheets : Csv!Readable(Written(x))} |->
     LET read == Csv!ParseCsv(Written(sheet), Categories)
         Imported(n, r) == read[n] # Nil /\ Creatable(read[n]) /\ FromFile(read[n]) = r
     IN  [r \in Rows |-> Cardinality({n \in DOMAIN sheet.rows : Imported(n, r)})]]

Capped(n) == IF n < MaxCopies THEN n ELSE MaxCopies

(* POST /api/imports/csv: the handler runs on the event loop, and nothing  *)
(* asks whether a row is there already.                                    *)
Upload(sheet) ==
  /\ loop.op = "idle"
  /\ \E r \in Rows : Brings[sheet][r] > 0
  /\ Write([db[open] EXCEPT !.rows = [r \in Rows |-> Capped(@[r] + Brings[sheet][r])]])

Next == SyncNext \/ \E sheet \in DOMAIN Brings : Upload(sheet)

Spec == Init /\ [][Next]_vars /\ SyncFairness

-----------------------------------------------------------------------------
(***************************************************************************)
(* Properties.                                                             *)
(***************************************************************************)

(* Databases and drafts have their shape, a draft has a writer, and only   *)
(* the loop's current session writes for the loop.                         *)
TypeOK ==
  /\ today \in 0..MaxDay /\ posted \subseteq Tx /\ open \in Vault
  /\ events \in 0..MaxEvents /\ loop \in Loop /\ overtaken \subseteq Tx
  /\ DOMAIN db = Vault /\ DOMAIN draft = Vault /\ DOMAIN writer = Vault
  /\ \A v \in Vault :
       /\ IsDatabase(db[v])
       /\ writer[v] \in {"none", "loop", "request"}
       /\ IF writer[v] = "none" THEN draft[v] = Nil ELSE IsDatabase(draft[v])
       /\ writer[v] = "loop" => loop.op \in {"import", "manual"} /\ loop.session = v

RowsOnDayOf(t) == {r \in Rows : db[Account[t][1]].rows[r] > 0 /\ r.date = Posting[t].date}

(* The transaction t is in the database of its vault, or a row that it     *)
(* cannot be told from.                                                    *)
Recorded(t) ==
  \E r \in RowsOnDayOf(t) :
    r.description = Posting[t].description /\ r.amount = RowOf[t].amount

(* The column has room for all the digits of the bank's amount. *)
Exact(t) == InColumn(Posting[t].amount) = Posting[t].amount

(* The duplicate test looks at one row of the day, and misses when there   *)
(* are several; it compares an amount of many digits with a rounded one;   *)
(* and what another sync commits between the test and the insertion it has *)
(* not seen.  With these three apart it is enough: whatever passes, manual *)
(* syncs and restarts there are, however they overlap, a transaction is    *)
(* recorded at most once.                                                  *)
ImportedOnce ==
  \A t \in Tx :
    /\ RowsOnDayOf(t) = {RowOf[t]}
    /\ \A u \in Tx : RowOf[u] = RowOf[t] => Exact(u) /\ u \notin overtaken
    => db[Account[t][1]].rows[RowOf[t]] = 1

(* last_sync_at moves past a day with a posted transaction that was never  *)
(* recorded.                                                               *)
PassesOver(t) ==
  LET v == Account[t][1]
      i == Account[t][2]
      from == db[v].conns[i].last
      to == db'[v].conns[i].last
  IN  /\ to # from /\ to # Nil
      /\ t \in posted \cap Wanted
      /\ Posting[t].date < to /\ (from # Nil => Posting[t].date >= from)
      /\ ~Recorded(t)'

(* The scheduler passes over a transaction in three cases only: the fetch  *)
(* failed, which it takes for an empty answer; the pass had begun in       *)
(* another vault, and marks the connection that has the same number here;  *)
(* or the transaction was posted between the fetch and midnight, and the   *)
(* mark was set after.                                                     *)
PassedOverOnlyBy ==
  \A t \in Tx : PassesOver(t) =>
    \/ loop.down
    \/ loop.of # loop.session
    \/ Posting[t].date = loop.fetched /\ loop.fetched < today

NothingElsePassedOver == [][PassedOverOnlyBy]_vars

(* A connection that stays active in a vault that stays open gets every    *)
(* transaction that its bank posts and that create() accepts, unless       *)
(* last_sync_at has passed it.                                             *)
Served(t) ==
  LET v == Account[t][1]
      i == Account[t][2]
      last == db[v].conns[i].last
  IN  /\ t \in posted /\ open = v /\ db[v].conns[i].active
      /\ last # Nil => last <= Posting[t].date

EventuallyImported ==
  \A t \in Wanted : <>[]Served(t) => <>Recorded(t)

(* Nothing but the order of its month and day can be taken wrong. *)
Clear(sheet) ==
  sheet.style = "month-first" =>
    \A n \in DOMAIN sheet.rows :
      sheet.rows[n] # Nil =>
        LET month == sheet.rows[n].date \div MonthLength + 1
            day == (sheet.rows[n].date % MonthLength) + 1
        IN  day > Months \/ day = month

(* Whatever its rows have besides a date and an amount has a column. *)
Complete(sheet) ==
  \A n \in DOMAIN sheet.rows :
    LET row == sheet.rows[n]
        Missing(f) == Csv!Column(sheet.columns, f) = Nil
    IN  row # Nil =>
          /\ Missing("currency_original") => row.currency # "USD"
          /\ Missing("category") /\ row.category \in Categories => row.category = "Other"
          /\ Missing("description") => row.description = {}

(* A file is read as it was written, in any order of the columns, under    *)
(* any of the names a field has, with or without signs, whichever way the  *)
(* dates are written, lines with nothing or with errors between them.  Of  *)
(* month-first dates this is so only where they read alike both ways.      *)
ReadsAsWritten ==
  [][\A sheet \in DOMAIN Brings : Upload(sheet) /\ Complete(sheet) /\ Clear(sheet) =>
       \A r \in Rows :
         draft'[open].rows[r] = Capped(db[open].rows[r] + Said(sheet, r))]_vars

-----------------------------------------------------------------------------
(* The rows of a vault as the views read them. *)
Table(rows) ==
  [x \in {<<r, n>> : r \in {y \in Rows : rows[y] > 0}, n \in 1..MaxCopies} |->
     [state |-> IF x[2] <= rows[x[1]] THEN "live" ELSE "unused",
      type |-> IF CategoryType[x[1].category] = "income" THEN "income" ELSE "expense",
      category |-> x[1].category, base |-> x[1].base, date |-> x[1].date,
      currency |-> x[1].currency, source |-> x[1].source]]

Savings == {c \in Categories : CategoryType[c] = "savings"}

(* Half a hundredth for each of n figures that were rounded. *)
Near(x, y, n) == LET d == 2 * (x - y) IN -n * CentSize <= d /\ d <= n * CentSize

(* The views of month m over table T: queries of their own, one with the  *)
(* month's bounds half open, one inclusive, one grouped by day, one page by*)
(* page.  Sums of rounded figures may differ by the rounding; the balance  *)
(* of the cash flow does not, as it sums before it rounds.                 *)
Agree(T, m) ==
  LET first == m * MonthLength
      last == first + MonthLength - 1
      month == Views!TotalsByType(T, m, Savings)
      sankey == Views!Sankey(T, Savings, m)
      heatmap == Views!Heatmap(T, Savings, m)
      spending == Views!McpSpending(T, Savings, m)
      flow == Views!CashFlow(T, Savings, first, last)
      Page(c, p) == Views!FindByUser(T, [Views!NoFilter EXCEPT !.category = c, !.type = "expense",
                                           !.from = first, !.to = last], p, 2)
      OnPage(c, p) ==
        LET items == Page(c, p).items
        IN  SumFunction([i \in DOMAIN items |-> T[items[i]].base])
      Pages(c) == 1..((Page(c, 1).total + 1) \div 2)
  IN  /\ SumFunction(spending) = month.expenses
      /\ \A c \in DOMAIN spending :
           SumFunction([p \in Pages(c) |-> OnPage(c, p)]) = spending[c]
      /\ Near(SumFunction(sankey.links), month.expenses, Len(sankey.links))
      /\ Near(SumFunction(heatmap), month.expenses, Cardinality(DOMAIN heatmap))
      /\ (flow # <<>> => flow[Len(flow)].balance = Views!Rounded(month.income - month.expenses))
      /\ (flow = <<>> => month.income = 0 /\ month.expenses = 0)

(* Of every content of the table, whether its views agree. *)
Verdicts ==
  {<<rows, \A m \in 0..(Months - 1) : Agree(Table(rows), m)>> : rows \in [Rows -> 0..MaxCopies]}

(* Whatever has come in, the views of every month agree with each other.   *)
ViewsOfAMonthAgree == \A v \in Vault : <<db[v].rows, TRUE>> \in Verdicts
=============================================================================
