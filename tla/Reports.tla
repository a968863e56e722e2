------------------------------ MODULE Reports ------------------------------
(***************************************************************************)
(* The queries that read the table "transaction" and the views that are    *)
(* computed from them: the list of transactions, the dashboard, the        *)
(* analytics and what agents are told over MCP.  T is the table of one     *)
(* user: a function from row ids to rows with at least the fields state,   *)
(* type, category, base, date.  Dates and months are numbers, a month has  *)
(* MonthLength dates.  savings is the set of the names of the categories   *)
(* of type savings.                                                        *)
(***************************************************************************)
EXTENDS Ordering, Functions

CONSTANTS
  MonthLength, \* dates in a month, at least 1
  CentSize,    \* units of MONETARY_PRECISION in a hundredth, to which views round; at least 1
  Nil          \* the None of an optional filter

TransferTypes == {"transfer_out", "transfer_in"}

(* Slip: the legs of transfers are left in. *)
OwnAndLegs(T) == {t \in DOMAIN T : T[t].state = "live"}

Live(T) == {t \in DOMAIN T : T[t].state = "live"}

(* The rows that are neither deleted nor legs: what every aggregation but  *)
(* sum_by_categories starts from.                                          *)
Own(T) == {t \in Live(T) : T[t].type \notin TransferTypes}

Month(d) == d \div MonthLength

(* Slip: the month ends one day early. *)
InShortMonth(T, S, m) ==
  {t \in S : m * MonthLength <= T[t].date /\ T[t].date < (m + 1) * MonthLength - 1}

(* The rows of S between the bounds of month m, the second one excluded. *)
InMonth(T, S, m) ==
  {t \in S : m * MonthLength <= T[t].date /\ T[t].date < (m + 1) * MonthLength}

Without(T, S, excluded) == {t \in S : T[t].category \notin excluded}
OfType(T, S, type) == {t \in S : T[t].type = type}
Total(T, S) == SumFunction([t \in S |-> T[t].base])

(* The sums of the groups of S, by what key says of a row. *)
GroupedSum(T, S, key(_)) ==
  [k \in {key(t) : t \in S} |-> Total(T, {t \in S : key(t) = k})]

-----------------------------------------------------------------------------
(***************************************************************************)
(* SQLModelTransactionRepository.                                          *)
(***************************************************************************)
NoFilter == [category |-> Nil, currency |-> Nil, from |-> Nil, to |-> Nil,
             source |-> Nil, wallet |-> Nil, type |-> Nil]

Matches(row, f) ==
  /\ f.category # Nil => row.category = f.category
  /\ f.currency # Nil => row.currency = f.currency
  /\ f.from # Nil => row.date >= f.from
  /\ f.to # Nil => row.date <= f.to
  /\ f.source # Nil => row.source = f.source
  /\ f.wallet # Nil => row.wallet = f.wallet
  /\ f.type # Nil => row.type \in (IF f.type = "transfer" THEN TransferTypes ELSE {f.type})

(* find_by_user(): one page of the matching rows, the latest date first,   *)
(* and how many match.  Rows of one date come in some order.               *)
FindByUser(T, f, page, size) ==
  LET found == {t \in Live(T) : Matches(T[t], f)}
      p == IF page < 1 THEN 1 ELSE page
      n == IF size < 1 THEN 20 ELSE size
      rows == Ordered(found, [t \in found |-> -T[t].date])
  IN  [items |-> SubSeq(rows, (p - 1) * n + 1, Min({p * n, Len(rows)})),
       total |-> Len(rows)]

(* totals_by_type(), of one month or of all time (m = Nil): whatever is    *)
(* not income counts as expense.                                           *)
TotalsByType(T, m, excluded) ==
  LET rows == Without(T, IF m = Nil THEN Own(T) ELSE InMonth(T, Own(T), m), excluded)
  IN  [income |-> Total(T, OfType(T, rows, "income")),
       expenses |-> Total(T, rows \ OfType(T, rows, "income"))]

(* monthly_spending_by_category() with types = ["expense"], as both of its *)
(* callers have it.                                                        *)
MonthlySpending(T, m, excluded) ==
  GroupedSum(T, OfType(T, Without(T, InMonth(T, Own(T), m), excluded), "expense"),
             LAMBDA t : T[t].category)

DailySpending(T, m, excluded) ==
  GroupedSum(T, OfType(T, Without(T, InMonth(T, Live(T), m), excluded), "expense"),
             LAMBDA t : <<T[t].date % MonthLength, T[t].category>>)

(* Slip: the last day is left out. *)
BetweenExclusive(T, S, from, to) == {t \in S : from <= T[t].date /\ T[t].date < to}

Between(T, S, from, to) == {t \in S : from <= T[t].date /\ T[t].date <= to}

(* daily_flow(): income and expenses of the days that have any.            *)
DailyFlow(T, from, to, excluded) ==
  LET rows == Without(T, Between(T, Own(T), from, to), excluded)
      days == Ascending({T[t].date : t \in rows})
      On(d) == {t \in rows : T[t].date = d}
      Flow(d) == [date |-> d, income |-> Total(T, OfType(T, On(d), "income")),
                  expenses |-> Total(T, On(d) \ OfType(T, On(d), "income"))]
  IN  [i \in DOMAIN days |-> Flow(days[i])]

(* monthly_net(): savings included. *)
MonthlyNet(T) ==
  LET months == Ascending({Month(T[t].date) : t \in Own(T)})
      Of(m) == InMonth(T, Own(T), m)
  IN  [i \in DOMAIN months |->
         [month |-> months[i],
          net |-> 2 * Total(T, OfType(T, Of(months[i]), "income")) - Total(T, Of(months[i]))]]

(* sum_by_categories(): whatever their type, legs included. *)
SumByCategories(T, categories) == Total(T, {t \in Live(T) : T[t].category \in categories})

-----------------------------------------------------------------------------
(***************************************************************************)
(* AnalyticsService.  Sums are exact; what is returned as a float is       *)
(* rounded to hundredths, half to even.                                    *)
(***************************************************************************)
Rounded(n) ==
  LET q == n \div CentSize
      r == 2 * (n % CentSize)
  IN  CentSize * (IF r > CentSize \/ (r = CentSize /\ q % 2 = 1) THEN q + 1 ELSE q)

(* Slip: the balance sums what has been rounded. *)
CashFlowOfRounded(T, savings, from, to) ==
  LET days == DailyFlow(T, from, to, savings)
      Net(i) == Rounded(days[i].income) - Rounded(days[i].expenses)
  IN  [i \in DOMAIN days |->
         [date |-> days[i].date,
          income |-> Rounded(days[i].income), expenses |-> Rounded(days[i].expenses),
          balance |-> SumFunction([j \in 1..i |-> Net(j)])]]

CashFlow(T, savings, from, to) ==
  LET days == DailyFlow(T, from, to, savings)
      Net(i) == days[i].income - days[i].expenses
  IN  [i \in DOMAIN days |->
         [date |-> days[i].date,
          income |-> Rounded(days[i].income), expenses |-> Rounded(days[i].expenses),
          balance |-> Rounded(SumFunction([j \in 1..i |-> Net(j)]))]]

(* get_sankey(): the links by value, the largest first; total_income is    *)
(* the only figure of these views that savings belong to.                  *)
Sankey(T, savings, m) ==
  LET spending == MonthlySpending(T, m, savings)
      cats == Ordered(DOMAIN spending, [k \in DOMAIN spending |-> -spending[k]])
  IN  [nodes |-> cats,
       links |-> [i \in DOMAIN cats |-> Rounded(spending[cats[i]])],
       total_income |-> Rounded(TotalsByType(T, m, {}).income)]

Heatmap(T, savings, m) ==
  LET daily == DailySpending(T, m, savings)
  IN  [k \in DOMAIN daily |-> Rounded(daily[k])]

NetWorthTrend(T) ==
  LET months == MonthlyNet(T)
      Net(i) == months[i].net
  IN  [i \in DOMAIN months |->
         [month |-> months[i].month, net_worth |-> Rounded(SumFunction([j \in 1..i |-> Net(j)]))]]

(* get_dashboard_summary() without its list of recent rows; exact. *)
Dashboard(T, savings, today) ==
  LET all == TotalsByType(T, Nil, savings)
      month == TotalsByType(T, Month(today), savings)
  IN  [balance |-> all.income - all.expenses,
       this_month_spending |-> month.expenses,
       this_month_income |-> month.income,
       total_savings |-> SumByCategories(T, savings)]

-----------------------------------------------------------------------------
(***************************************************************************)
(* MCPService; exact.                                                      *)
(***************************************************************************)
McpBalance(T, savings) ==
  LET all == TotalsByType(T, Nil, savings) IN all.income - all.expenses

(* get_spending_by_category() without the percentages. *)
McpSpending(T, savings, m) == MonthlySpending(T, m, savings)

McpNetWorth(T, savings) ==
  LET all == TotalsByType(T, Nil, savings)
  IN  [total_income |-> all.income, total_expenses |-> all.expenses,
       total_savings |-> SumByCategories(T, savings),
       net_worth |-> all.income - all.expenses]
=============================================================================
