--------------------------- MODULE LedgerReports ---------------------------
(***************************************************************************)
(* The views of Reports over the rows of Ledger.  A row of Ledger has no   *)
(* category, so any set of live rows that are not legs may be the one that *)
(* is filed under savings categories.  Legs are filed under Transfer, and  *)
(* a category of that name may be of any type, savings among them.         *)
(***************************************************************************)
EXTENDS Ledger, Sequences

CONSTANTS MonthLength, CentSize

ASSUME ReportsAssumption ==
  /\ Dates \subseteq Int
  /\ MonthLength \in Nat \ {0} /\ CentSize \in Nat \ {0}

Views == INSTANCE Reports

(* The table as it reads when the rows of S are filed under savings. *)
Table(S) ==
  [t \in TxId |-> [state |-> txs[t].state, type |-> txs[t].type, base |-> txs[t].base,
                   date |-> txs[t].date,
                   category |-> IF IsLeg(txs[t]) THEN "Transfer"
                                ELSE IF t \in S THEN "Savings" ELSE "Other"]]

(* The last figure of a series, 0 of an empty one. *)
LastWorth(trend) == IF trend = <<>> THEN 0 ELSE trend[Len(trend)].net_worth

(* What the wallets gained over their initial balances and the rows that   *)
(* name no wallet: the same money, counted wallet by wallet.               *)
Worth ==
  SumFunction([w \in {v \in WalletId : WalletExists(v)} |-> Balance(w) - wallets[w].opening])
    + SumBase({t \in TxId : Live(t) /\ txs[t].wallet = Nil})

(* What the live transfers moved. *)
Moved == SumBase({t \in TxId : Live(t) /\ txs[t].type = "transfer_in"})

(* The views are computed by queries of their own, each with its own idea  *)
(* of deleted rows, transfer legs and savings, and still tell one story:   *)
(* the net worth trend ends where the wallets stand, the balance of the    *)
(* dashboard misses exactly the rows that are filed as savings, and the    *)
(* agent is told what the dashboard shows.  total_savings shows what is    *)
(* saved, unsigned, but where the category of the transfers is of type     *)
(* savings it counts every transfer, and counts it twice.                  *)
ReportsMatchWallets ==
  \A S \in SUBSET {t \in TxId : Live(t) /\ ~IsLeg(txs[t])},
     savings \in {{"Savings"}, {"Savings", "Transfer"}} :
    LET T == Table(S)
        dashboard == Views!Dashboard(T, savings, 0)
        counted == IF "Transfer" \in savings THEN 2 * Moved ELSE 0
    IN  /\ LastWorth(Views!NetWorthTrend(T)) = Views!Rounded(Worth)
        /\ dashboard.balance + SumBase(S) = Worth
        /\ (\A t \in S : txs[t].type = "expense") =>
             dashboard.total_savings = counted - SumBase(S)
        /\ Views!McpBalance(T, savings) = dashboard.balance
        /\ Views!McpNetWorth(T, savings).net_worth = dashboard.balance
=============================================================================
