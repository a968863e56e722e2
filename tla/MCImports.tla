----------------------------- MODULE MCImports -----------------------------
(***************************************************************************)
(* Imports on a small instance: a vault with two connections, of which one *)
(* has two transactions on the first day, one of them in a currency that   *)
(* is refused, and the other one of many digits on the second day; and a   *)
(* vault with one connection.                                              *)
(***************************************************************************)
EXTENDS Imports, TLC

CONSTANTS A, B

MCVault == {A, B}
MCConfigured == {<<A, 1>>, <<A, 2>>, <<B, 1>>}
MCTx == {"lunch", "fuel", "taxi"}
MCAccount == "lunch" :> <<A, 1>> @@ "fuel" :> <<A, 2>> @@ "taxi" :> <<A, 1>>
MCPosting ==
  "lunch" :> [date |-> 0, amount |-> 6, currency |-> "JOD", description |-> {"food"}]
    @@ "fuel" :> [date |-> 1, amount |-> 7, currency |-> "USD",
                  description |-> {"utilities", "transport"}]
    @@ "taxi" :> [date |-> 0, amount |-> 6, currency |-> "EUR", description |-> {}]
MCCategoryType ==
  [c \in {"Income", "Food", "Utilities", "Other", "Savings"} |->
     IF c = "Income" THEN "income" ELSE IF c = "Savings" THEN "savings" ELSE "expense"]

Saved == [date |-> 3, amount |-> 3, currency |-> "USD", description |-> {}, category |-> "Savings"]
Later == [date |-> 1, amount |-> 2, currency |-> "JOD", description |-> {"food"}, category |-> "Other"]
Gym == [Later EXCEPT !.category = "Gym", !.currency = "EUR"]
Nothing == [Later EXCEPT !.amount = 0]
Crumb == [Saved EXCEPT !.amount = 1]

(* Layouts of one saving and one expense, whose date reads as another one  *)
(* if its month is written first.                                          *)
Misread == [Later EXCEPT !.date = 2]
MCSheets == {
  [columns |-> <<"transaction_date", "amount_original", "currency_original", "category", "description">>,
   style |-> "iso", signed |-> FALSE, rows |-> <<Later, Nil, Nothing, Saved>>],
  [columns |-> <<"memo", "type", "debit", "ccy", "value date">>,
   style |-> "day-first", signed |-> TRUE, rows |-> <<Nothing, Saved, Crumb, Gym>>],
  [columns |-> <<"date", "amount", "amount_original", "currency", "category", "details">>,
   style |-> "month-first", signed |-> FALSE, rows |-> <<Later, Saved>>],
  [columns |-> <<"description", "date", "category", "credit", "transaction_date", "currency">>,
   style |-> "dash", signed |-> TRUE, rows |-> <<Nil, Saved, Gym>>]}

(* A user enters by hand what the bank will report. *)
MCEntered == {[RowOf["lunch"] EXCEPT !.source = "manual"]}

MCRows ==
  {RowOf["lunch"], RowOf["fuel"]} \cup MCEntered \cup {FromFile(r) : r \in {Saved, Later, Misread}}
=============================================================================
