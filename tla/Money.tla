------------------------------- MODULE Money -------------------------------
(***************************************************************************)
(* Amounts and rates.  Both are numbers of grid units, a part of           *)
(* MONETARY_PRECISION (six decimals) fine enough for what a caller may     *)
(* send: a Decimal of any length.  Computation is exact; rounding happens  *)
(* in two places, quantize() of the converted amount and the columns of    *)
(* type Numeric(18, 6).                                                    *)
(***************************************************************************)
EXTENDS Integers

CONSTANTS
  Fine,     \* grid units in MONETARY_PRECISION
  One,      \* the number 1.0
  RoundsUp  \* the numbers halfway between two of six decimals whose float is above half

ASSUME MoneyAssumption ==
  /\ Fine \in Nat \ {0}
  /\ One \in Nat \ {0} /\ One % Fine = 0

(* The whole number nearest to n / d, the even one of two. *)
Nearest(n, d) ==
  LET q == n \div d
      r == 2 * (n % d)
  IN  IF r > d \/ (r = d /\ q % 2 = 1) THEN q + 1 ELSE q

(* Transaction.compute_base_amount: what is not in the base currency is    *)
(* converted and quantized, half to even; the rest stays as it is given.   *)
BaseAmount(amount, currency, rate) ==
  IF currency = "JOD" THEN amount ELSE Fine * Nearest(amount * rate, One * Fine)

(* What a column Numeric(18, 6) gives back for n: SQLite keeps a float,    *)
(* which is formatted with six decimals when it is read, so that the side  *)
(* on which the float lies decides what is halfway.                        *)
InColumn(n) ==
  LET q == n \div Fine
      r == 2 * (n % Fine)
  IN  Fine * (IF r > Fine \/ (r = Fine /\ n \in RoundsUp) THEN q + 1 ELSE q)

(* The numbers that a column gives back as n. *)
ReadAs(n) == {m \in (n - Fine)..(n + Fine) : m >= 0 /\ InColumn(m) = n}
=============================================================================
