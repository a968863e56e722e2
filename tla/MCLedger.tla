------------------------------ MODULE MCLedger ------------------------------
(***************************************************************************)
(* Ledger on a small instance.  Two grid units make one of the last        *)
(* decimal and four make the number 1.0, so that 1 is halfway: a column    *)
(* reads it as 0 and it is refused.  3 is halfway too, and reads as 4,     *)
(* whether it is an amount or the rate, though 3 USD at the rate of 3      *)
(* convert to 2 and the stored 4 at the stored 4 to 4.                     *)
(***************************************************************************)
EXTENDS LedgerReports, TLC

Symmetric ==
  Permutations(TxId) \cup Permutations(WalletId) \cup Permutations(WalletName)
=============================================================================
