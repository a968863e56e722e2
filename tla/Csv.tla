-------------------------------- MODULE Csv --------------------------------
(***************************************************************************)
(* The reading of a CSV file.  A file is a header line and data lines, all *)
(* sequences of cells.  A header is its name in lower case; a cell is Nil  *)
(* when it is blank, or tells how it reads:                                *)
(*   [kind |-> "date", form |-> "iso" | "slash" | "dash", a |-> m, b |-> n]*)
(*       two numbers besides the year: YYYY-m-n, m/n/YYYY or m-n-YYYY;     *)
(*   [kind |-> "number", value |-> n]   with its sign;                     *)
(*   [kind |-> "text", text |-> x].                                        *)
(* A date is a number: the days of Months months of MonthLength days each. *)
(***************************************************************************)
EXTENDS Integers, Sequences, FiniteSetsExt

CONSTANTS Months, MonthLength, Nil

Fields == {"transaction_date", "amount_original", "currency_original", "category", "description"}

Aliases == [
  transaction_date |-> {"date", "trans date", "transaction date", "value date"},
  amount_original |-> {"amount", "debit", "credit"},
  currency_original |-> {"currency", "ccy"},
  description |-> {"memo", "details", "narration", "particulars"},
  category |-> {"type", "trans type"}]

(* map_headers(): the last column that has the template's own name, or     *)
(* else the first one that has another name for the field.                 *)
Column(headers, f) ==
  LET exact == {i \in DOMAIN headers : headers[i] = f}
      aliased == {i \in DOMAIN headers : headers[i] \in Aliases[f]}
  IN  IF exact # {} THEN Max(exact) ELSE IF aliased # {} THEN Min(aliased) ELSE Nil

Cell(line, i) == IF i = Nil \/ i > Len(line) THEN Nil ELSE line[i]

IsDay(month, day) == month \in 1..Months /\ day \in 1..MonthLength
DateOf(month, day) == (month - 1) * MonthLength + day - 1

(* Slip: the month is tried first. *)
ParseMonthFirst(c) ==
  IF c.form \in {"iso", "slash"} /\ IsDay(c.a, c.b) THEN DateOf(c.a, c.b)
  ELSE IF c.form \in {"slash", "dash"} /\ IsDay(c.b, c.a) THEN DateOf(c.b, c.a)
  ELSE Nil

(* _parse_date(): the first format that fits; 2/3 is the second of March   *)
(* unless it cannot be.                                                    *)
ParseDate(c) ==
  IF c.form \in {"slash", "dash"} /\ IsDay(c.b, c.a) THEN DateOf(c.b, c.a)
  ELSE IF c.form \in {"iso", "slash"} /\ IsDay(c.a, c.b) THEN DateOf(c.a, c.b)
  ELSE Nil

(* _parse_amount(): the sign is dropped. *)
ParseAmount(c) == IF c.value < 0 THEN -c.value ELSE c.value

(* parse_row(): the row, or Nil for a line that is reported as an error.   *)
ParseRow(line, headers, valid) ==
  LET At(f) == Cell(line, Column(headers, f))
      d == At("transaction_date")
      a == At("amount_original")
      ccy == At("currency_original")
      cat == At("category")
  IN  IF \/ d = Nil \/ d.kind # "date" \/ ParseDate(d) = Nil
         \/ a = Nil \/ a.kind # "number" \/ ParseAmount(a) = 0
      THEN Nil
      ELSE [date |-> ParseDate(d), amount |-> ParseAmount(a),
            currency |-> IF ccy # Nil /\ ccy.text = "USD" THEN "USD" ELSE "JOD",
            category |-> IF cat # Nil /\ cat.text \in valid THEN cat.text ELSE "Other",
            description |-> IF At("description") = Nil THEN {} ELSE At("description").text]

(* A file without a header line or without a column for the date or the    *)
(* amount is refused as a whole.                                           *)
Readable(file) ==
  Column(file.headers, "transaction_date") # Nil /\ Column(file.headers, "amount_original") # Nil

(* parse_csv(): what each line reads as; a blank one is passed over.       *)
ParseCsv(file, valid) == [n \in DOMAIN file.lines |-> ParseRow(file.lines[n], file.headers, valid)]
=============================================================================
