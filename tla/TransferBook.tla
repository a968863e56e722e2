---------------------------- MODULE TransferBook ----------------------------
(***************************************************************************)
(* What the ledger promises of transfers: each is one thing, opened once   *)
(* between two different wallets, amended as a whole while it is open, and *)
(* cancelled for good.  There are no legs here; that the two rows which    *)
(* stand for a transfer in the table "transaction" always amount to one    *)
(* such thing is what Ledger is shown to implement.                        *)
(***************************************************************************)
CONSTANTS TransferId, WalletId, Terms  \* Terms: amount, currency, rate, base, date

VARIABLE transfers

(* from, to and terms are kept as sets, of one element each once the       *)
(* transfer is opened.                                                     *)
NotOpened == [status |-> "none", from |-> {}, to |-> {}, terms |-> {}]

Between(v) == \E from, to \in WalletId : from # to /\ v.from = {from} /\ v.to = {to}

Agreed(v) == \E k \in v.terms : k \in Terms /\ v.terms = {k}

TypeOK ==
  \A x \in TransferId :
    \/ transfers[x] = NotOpened
    \/ /\ transfers[x].status \in {"open", "cancelled"}
       /\ Between(transfers[x]) /\ Agreed(transfers[x])

Init == transfers = [x \in TransferId |-> NotOpened]

Open(x, new) ==
  /\ transfers[x] = NotOpened
  /\ new.status = "open"
  /\ Between(new)
  /\ Agreed(new)

Amend(x, new) ==
  /\ transfers[x].status = "open"
  /\ new = [transfers[x] EXCEPT !.terms = new.terms]
  /\ Agreed(new)

Cancel(x, new) ==
  /\ transfers[x].status = "open"
  /\ new = [transfers[x] EXCEPT !.status = "cancelled"]

(* Each step is one operation on one transfer. *)
Next ==
  \E x \in TransferId :
    /\ Open(x, transfers'[x]) \/ Amend(x, transfers'[x]) \/ Cancel(x, transfers'[x])
    /\ \A y \in TransferId \ {x} : transfers'[y] = transfers[y]

Spec == Init /\ [][Next]_transfers
=============================================================================
