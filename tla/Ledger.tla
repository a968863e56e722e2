------------------------------- MODULE Ledger -------------------------------
(***************************************************************************)
(* The ledger of one user: the rows of the tables "transaction" and        *)
(* "wallet", and the requests of TransactionService and WalletService that *)
(* change them.  Every query of the two repositories is filtered by user,  *)
(* so the ledgers of two users never meet.                                 *)
(*                                                                         *)
(* A request is one step here: the session commits once, at the end of the *)
(* request, and rolls everything back when an exception leaves it          *)
(* (DatabaseManager.get_session), so a request that is refused is no step. *)
(* LedgerRequests takes the requests apart into their reads and writes.    *)
(*                                                                         *)
(* The exchange-rate table and the category table are other components: a  *)
(* rate lookup returns any rate in Rates, and of a category only the       *)
(* direction it gives a row is kept.                                       *)
(***************************************************************************)
EXTENDS Money, FiniteSets, Functions

CONSTANTS
  WalletId,    \* ids of wallet rows (uuid4: never used again)
  TxId,        \* ids of transaction rows
  TransferId,  \* transfer_id values, each drawn fresh by uuid4
  WalletName,  \* wallet names up to the case that find_by_name ignores
  Amounts,     \* amounts a request may carry, zero included
  Openings,    \* initial balances a request may carry
  Rates,       \* USD rates a lookup may return
  Dates,       \* transaction dates
  ForeignKeys, \* PRAGMA foreign_keys: ON in an encrypted vault, OFF in an open one
  Nil          \* SQL NULL, and the None of an optional argument

ASSUME InputAssumption == Amounts \subseteq Nat /\ Rates \subseteq Nat /\ Openings \subseteq Int
ASSUME NilAssumption ==
  /\ Nil \notin WalletId \cup TransferId \cup WalletName \cup Dates
  /\ Nil \notin Amounts /\ Nil \notin Openings
  /\ Nil \notin {"JOD", "USD", "income", "expense", "active", "archived"}
ASSUME ForeignKeysAssumption == ForeignKeys \in BOOLEAN
ASSUME IdAssumption == IsFiniteSet(TxId) /\ IsFiniteSet(WalletId)  \* a uuid4 has 122 bits

VARIABLES
  txs,     \* TxId -> the row, with state "unused" until it is inserted
  wallets  \* WalletId -> the row

vars == <<txs, wallets>>

-----------------------------------------------------------------------------
Currency == {"JOD", "USD"}
LegTypes == {"transfer_out", "transfer_in"}
TxTypes == {"expense", "income"} \cup LegTypes

(* TransactionService._resolve_rate: an override or the stored, fetched or *)
(* default rate of the date; always 1.0 for the base currency.             *)
ResolvableRates(currency) == IF currency = "JOD" THEN {One} ELSE Rates

TxRow == [state: {"unused", "live", "deleted"}, type: TxTypes,
          wallet: WalletId \cup {Nil}, transfer: TransferId \cup {Nil},
          amount: Nat, currency: Currency, rate: Nat, base: Int, date: Dates \cup {Nil}]
WalletRow == [state: {"unused", "active", "archived", "deleted"},
              name: WalletName \cup {Nil}, opening: Int]

(* Slip: the filter on is_deleted is missing. *)
InTable(t) == txs[t].state # "unused"

Live(t) == txs[t].state = "live"
IsLeg(row) == row.type \in LegTypes
LegsOf(x) == {t \in TxId : txs[t].transfer = x}

(* Transaction.signed_amount_base; sum_by_wallet sums it over the live rows. *)
SignedBase(row) == IF row.type \in {"income", "transfer_in"} THEN row.base ELSE -row.base

Signed == [t \in TxId |-> SignedBase(txs[t])]
SumBase(S) == SumFunctionOnSet(Signed, S)

(* WalletService._refresh_balance *)
Balance(w) == wallets[w].opening + SumBase({t \in TxId : Live(t) /\ txs[t].wallet = w})

(* Transaction.__post_init__, which runs when a row is built and again     *)
(* when a flushed row is read back.                                        *)
WellFormed(row) ==
  /\ row.amount > 0
  /\ row.base > 0
  /\ row.rate > 0
  /\ IsLeg(row) => row.transfer # Nil

(* Slip: the archived check is forgotten. *)
UsableEvenArchived(w) == wallets[w].state \in {"active", "archived"}

(* TransactionService._validate_wallet *)
Usable(w) == wallets[w].state = "active"

WalletExists(w) == wallets[w].state \in {"active", "archived"}

(* Slip: only the wallets that are still shown are searched. *)
NameTakenByActive(n) == \E w \in WalletId : wallets[w].state = "active" /\ wallets[w].name = n

(* WalletRepository.find_by_name, archived wallets included. *)
NameTaken(n) == \E w \in WalletId : WalletExists(w) /\ wallets[w].name = n

(* The row as the table gives it back. *)
Stored(row) ==
  [row EXCEPT !.amount = InColumn(@), !.rate = InColumn(@), !.base = InColumn(@)]

(* The value of an optional argument, or the one the row has. *)
Given(arg, old) == IF arg = Nil THEN old ELSE arg

-----------------------------------------------------------------------------
Init ==
  /\ txs = [t \in TxId |->
              [state |-> "unused", type |-> "expense", wallet |-> Nil, transfer |-> Nil,
               amount |-> 0, currency |-> "JOD", rate |-> 0, base |-> 0, date |-> Nil]]
  /\ wallets = [w \in WalletId |-> [state |-> "unused", name |-> Nil, opening |-> 0]]

(* Slip: the row of a leg is built without its transfer_id. *)
NewRowUnlinked(type, w, x, a, c, r, d) ==
  [state |-> "live", type |-> type, wallet |-> w, transfer |-> Nil,
   amount |-> a, currency |-> c, rate |-> r, base |-> BaseAmount(a, c, r), date |-> d]

NewRow(type, w, x, a, c, r, d) ==
  [state |-> "live", type |-> type, wallet |-> w, transfer |-> x,
   amount |-> a, currency |-> c, rate |-> r, base |-> BaseAmount(a, c, r), date |-> d]

(***************************************************************************)
(* create(): an income or expense row.  Its type is given (bank imports)   *)
(* or follows the category, which may be of any type but transfer: so it   *)
(* is either of the two.                                                   *)
(***************************************************************************)
Create(t, type, w, a, c, d) ==
  /\ txs[t].state = "unused"
  /\ w # Nil => Usable(w)
  /\ \E r \in ResolvableRates(c) :
       LET row == NewRow(type, w, Nil, a, c, r, d)
       IN  /\ WellFormed(row) /\ WellFormed(Stored(row))
           /\ txs' = [txs EXCEPT ![t] = Stored(row)]
  /\ UNCHANGED wallets

(***************************************************************************)
(* transfer(): both legs, written by one request under one transfer_id.    *)
(***************************************************************************)
Transfer(out, in, from, to, x, a, c, d) ==
  /\ out # in /\ txs[out].state = "unused" /\ txs[in].state = "unused"
  /\ LegsOf(x) = {}
  /\ from # to
  /\ a > 0
  /\ Usable(from) /\ Usable(to)
  /\ \E r \in ResolvableRates(c) :
       LET outLeg == NewRow("transfer_out", from, x, a, c, r, d)
           inLeg == NewRow("transfer_in", to, x, a, c, r, d)
       IN  /\ \A leg \in {outLeg, inLeg} : WellFormed(leg) /\ WellFormed(Stored(leg))
           /\ txs' = [txs EXCEPT ![out] = Stored(outLeg), ![in] = Stored(inLeg)]
  /\ UNCHANGED wallets

(* Slip: a change of currency alone does not recompute the base amount. *)
EditedRowForAmount(old, type, w, a, c, d, r) ==
  [old EXCEPT !.type = type, !.wallet = Given(w, old.wallet),
              !.amount = Given(a, old.amount), !.currency = Given(c, old.currency),
              !.date = Given(d, old.date),
              !.rate = IF a # Nil THEN r ELSE old.rate,
              !.base = IF a # Nil THEN BaseAmount(a, Given(c, old.currency), r) ELSE old.base]

(* The row update() builds from the one it read: base and rate are         *)
(* recomputed only when the amount or the currency is given, so an edit of *)
(* the date alone keeps the rate of the old date.                          *)
EditedRow(old, type, w, a, c, d, r) ==
  LET amount == Given(a, old.amount)
      currency == Given(c, old.currency)
      reprice == a # Nil \/ c # Nil
  IN  [old EXCEPT !.type = type, !.wallet = Given(w, old.wallet),
                  !.amount = amount, !.currency = currency, !.date = Given(d, old.date),
                  !.rate = IF reprice THEN r ELSE old.rate,
                  !.base = IF reprice THEN BaseAmount(amount, currency, r) ELSE old.base]

(* Slip: the base amount is left out of the columns that are copied. *)
SyncedLegWithoutBase(leg, row) ==
  [leg EXCEPT !.amount = row.amount, !.currency = row.currency,
              !.rate = row.rate, !.date = row.date]

(* What update() copies to the other leg of a transfer. *)
SyncedLeg(leg, row) ==
  [leg EXCEPT !.amount = row.amount, !.currency = row.currency, !.base = row.base,
              !.rate = row.rate, !.date = row.date]

(* Slip: the other leg is not looked for. *)
AfterUpdateOfOneLeg(t, row) == [txs EXCEPT ![t] = row]

(* The table after update() has written the row of t and read it back: the *)
(* live legs that find_by_transfer_id returns follow what it reads.        *)
AfterUpdate(t, row) ==
  [u \in TxId |-> IF u = t THEN row
                  ELSE IF IsLeg(row) /\ Live(u) /\ txs[u].transfer = row.transfer
                       THEN SyncedLeg(txs[u], row)
                       ELSE txs[u]]

(***************************************************************************)
(* update(): k is the direction of the category that is given, Nil if none *)
(* is.  A transfer leg keeps its category and wallet.                      *)
(***************************************************************************)
Update(t, k, w, a, c, d) ==
  /\ Live(t)
  /\ IsLeg(txs[t]) => k = Nil /\ w = Nil
  /\ w # Nil => Usable(w)
  /\ \E r \in ResolvableRates(Given(c, txs[t].currency)) :
       LET row == Stored(EditedRow(txs[t], Given(k, txs[t].type), w, a, c, d, r))
       IN  /\ WellFormed(row)
           /\ txs' = AfterUpdate(t, row)
  /\ UNCHANGED wallets

(* Slip: only the leg that was asked for is removed. *)
DeletedAlone(t) == {t}

(* The rows delete(t) marks: both legs of a transfer. *)
DeletedWith(t) ==
  IF IsLeg(txs[t]) THEN {u \in LegsOf(txs[t].transfer) : Live(u)} ELSE {t}

(***************************************************************************)
(* delete(): a soft delete, the row stays in the table.                    *)
(***************************************************************************)
Delete(t) ==
  /\ Live(t)
  /\ txs' = [u \in TxId |-> IF u \in DeletedWith(t)
                            THEN [txs[u] EXCEPT !.state = "deleted"] ELSE txs[u]]
  /\ UNCHANGED wallets

-----------------------------------------------------------------------------
CreateWallet(w, n, b) ==
  /\ wallets[w].state = "unused"
  /\ ~NameTaken(n)
  /\ wallets' = [wallets EXCEPT ![w] = [state |-> "active", name |-> n,
                                        opening |-> InColumn(b)]]
  /\ UNCHANGED txs

(* Slip: the arguments are assigned without a look at which are given. *)
UpdateWalletWithAll(w, n, b, s) ==
  /\ WalletExists(w)
  /\ n # Nil => \A v \in WalletId \ {w} : WalletExists(v) => wallets[v].name # n
  /\ wallets' = [wallets EXCEPT ![w] = [state |-> Given(s, @.state), name |-> n, opening |-> b]]
  /\ UNCHANGED txs

(***************************************************************************)
(* update(): rename, restate the initial balance, archive or reactivate.   *)
(***************************************************************************)
UpdateWallet(w, n, b, s) ==
  /\ WalletExists(w)
  /\ n # Nil => \A v \in WalletId \ {w} : WalletExists(v) => wallets[v].name # n
  /\ wallets' = [wallets EXCEPT ![w] = [state |-> Given(s, @.state),
                                        name |-> Given(n, @.name),
                                        opening |-> InColumn(Given(b, @.opening))]]
  /\ UNCHANGED txs

(* Slip: the legs of transfers are not counted. *)
InUseByOwnRows(w) == \E t \in TxId : txs[t].wallet = w /\ Live(t) /\ ~IsLeg(txs[t])

(* delete() counts the live rows of the wallet; with foreign keys enforced *)
(* a soft-deleted row that still names it fails the flush as well.         *)
InUse(w) ==
  \E t \in TxId : /\ txs[t].wallet = w
                  /\ Live(t) \/ (ForeignKeys /\ txs[t].state = "deleted")

DeleteWallet(w) ==
  /\ WalletExists(w)
  /\ ~InUse(w)
  /\ wallets' = [wallets EXCEPT ![w] = [state |-> "deleted", name |-> Nil, opening |-> 0]]
  /\ UNCHANGED txs

-----------------------------------------------------------------------------
TxNext ==
  \/ \E t \in TxId, type \in {"income", "expense"}, w \in WalletId \cup {Nil},
        a \in Amounts, c \in Currency, d \in Dates :
       Create(t, type, w, a, c, d)
  \/ \E out, in \in TxId, from, to \in WalletId, x \in TransferId,
        a \in Amounts, c \in Currency, d \in Dates :
       Transfer(out, in, from, to, x, a, c, d)
  \/ \E t \in TxId, k \in {"income", "expense", Nil}, w \in WalletId \cup {Nil},
        a \in Amounts \cup {Nil}, c \in Currency \cup {Nil}, d \in Dates \cup {Nil} :
       Update(t, k, w, a, c, d)
  \/ \E t \in TxId : Delete(t)

WalletNext ==
  \/ \E w \in WalletId, n \in WalletName, b \in Openings : CreateWallet(w, n, b)
  \/ \E w \in WalletId, n \in WalletName \cup {Nil}, b \in Openings \cup {Nil},
        s \in {"active", "archived", Nil} : UpdateWallet(w, n, b, s)
  \/ \E w \in WalletId : DeleteWallet(w)

Next == TxNext \/ WalletNext

Spec == Init /\ [][Next]_vars
-----------------------------------------------------------------------------
(***************************************************************************)
(* Properties.                                                             *)
(***************************************************************************)

(* Every row has the shape its table gives it. *)
TypeOK ==
  /\ txs \in [TxId -> TxRow]
  /\ wallets \in [WalletId -> WalletRow]

(* A leg carries a transfer_id and nothing else does; a leg has a wallet. *)
LegsAreMarked ==
  \A t \in TxId : /\ txs[t].transfer # Nil <=> IsLeg(txs[t])
                  /\ IsLeg(txs[t]) => txs[t].wallet # Nil /\ txs[t].state # "unused"

(* No leg is alone: another row has its transfer_id. *)
LegsHavePartners ==
  \A t \in TxId : IsLeg(txs[t]) => \E u \in TxId \ {t} : txs[u].transfer = txs[t].transfer

(* Two legs of one transfer mirror each other: one goes out of a wallet,   *)
(* the other into a different one, for the same money on the same date,    *)
(* and they are live or deleted together.                                  *)
PartnersMirror ==
  \A t, u \in TxId :
    (t # u /\ txs[t].transfer = txs[u].transfer /\ txs[t].transfer # Nil) =>
      /\ txs[t].type # txs[u].type
      /\ txs[t].wallet # txs[u].wallet
      /\ txs[t].state = txs[u].state
      /\ txs[t].amount = txs[u].amount /\ txs[t].currency = txs[u].currency
      /\ txs[t].rate = txs[u].rate /\ txs[t].base = txs[u].base
      /\ txs[t].date = txs[u].date

(* A transfer is two rows that no sequence of creates, edits, deletes and  *)
(* wallet changes can tear apart ("Keep both legs of a transfer in sync",  *)
(* transaction_service.update; "Removing one leg of a transfer must remove *)
(* the other", delete).                                                    *)
TransfersPaired == LegsAreMarked /\ LegsHavePartners /\ PartnersMirror

BaseFits(row) ==
  /\ row.base > 0
  /\ \E a \in ReadAs(row.amount), r \in ReadAs(row.rate) :
       row.base = InColumn(BaseAmount(a, row.currency, r))
  /\ row.currency = "JOD" => row.rate = One /\ row.base = row.amount

(* Every base amount comes from the money its row shows: it is what the    *)
(* column keeps of the conversion of an amount and a rate that the row's   *)
(* own columns give back as its amount and its rate, through creates with  *)
(* any number of digits, partial edits and the copy to the other leg.      *)
(* More cannot be said: the conversion takes the amount before its column  *)
(* rounds it, so the amount shown, converted at the rate shown, may be     *)
(* another.  Money that is recorded is positive, and a dinar is a dinar.   *)
BaseMatchesRate == \A t \in TxId : txs[t].state # "unused" => BaseFits(txs[t])

(* A live row never names a wallet that was deleted: deleting counts the   *)
(* live rows, and create, transfer and update accept existing wallets only.*)
LiveRowsHaveWallets ==
  \A t \in TxId : Live(t) /\ txs[t].wallet # Nil => WalletExists(txs[t].wallet)

(* No two wallets share a name; WalletService checks it, the table does not. *)
WalletNamesUnique ==
  \A v, w \in WalletId :
    WalletExists(v) /\ WalletExists(w) /\ wallets[v].name = wallets[w].name => v = w

(* The wallets together hold their initial balances plus what came in      *)
(* minus what went out: transfers neither make nor lose money.             *)
TransfersNetToZero ==
  LET there == {w \in WalletId : WalletExists(w)}
  IN  SumFunction([w \in there |-> Balance(w)]) =
        SumFunction([w \in there |-> wallets[w].opening])
          + SumBase({t \in TxId : Live(t) /\ ~IsLeg(txs[t]) /\ txs[t].wallet # Nil})

(* An archived or deleted wallet receives no row: a live row that names a  *)
(* wallet after a step named it before, or the wallet was active.          *)
RowsJoinActiveWallets ==
  \A t \in TxId, w \in WalletId :
    (txs'[t].state = "live" /\ txs'[t].wallet = w /\ wallets[w].state # "active") =>
      (Live(t) /\ txs[t].wallet = w)

OnlyActiveWalletsGain == [][RowsJoinActiveWallets]_vars

(* History is final: a deleted row never changes again, no row is ever     *)
(* physically removed, and what makes a row a transfer leg (its transfer,  *)
(* its direction, its wallet) never changes.                               *)
RowsKeepHistory ==
  \A t \in TxId :
    /\ txs[t].state = "deleted" => txs'[t] = txs[t]
    /\ txs[t].state # "unused" => txs'[t].state # "unused"
    /\ IsLeg(txs[t]) => /\ txs'[t].transfer = txs[t].transfer
                        /\ txs'[t].type = txs[t].type
                        /\ txs'[t].wallet = txs[t].wallet

HistoryIsFinal == [][RowsKeepHistory]_vars


(***************************************************************************)
(* The transfers that the rows stand for: what the rows of a transfer_id   *)
(* say, as sets, so that legs that disagree show as more than one element. *)
(***************************************************************************)
Terms == [amount: Nat, currency: Currency, rate: Nat, base: Int, date: Dates \cup {Nil}]

TermsOf(row) == [amount |-> row.amount, currency |-> row.currency, rate |-> row.rate,
                 base |-> row.base, date |-> row.date]

TransferOf(x) ==
  LET legs == LegsOf(x)
  IN  [status |-> IF legs = {} THEN "none"
                  ELSE IF \E t \in legs : Live(t) THEN "open" ELSE "cancelled",
       from |-> {txs[t].wallet : t \in {u \in legs : txs[u].type = "transfer_out"}},
       to |-> {txs[t].wallet : t \in {u \in legs : txs[u].type = "transfer_in"}},
       terms |-> {TermsOf(txs[t]) : t \in legs}]

Book == INSTANCE TransferBook WITH transfers <- [x \in TransferId |-> TransferOf(x)]

(* The ledger implements the book of transfers: every request opens,       *)
(* amends or cancels one transfer as a whole, or leaves them all alone.    *)
ImplementsBook == Book!Spec
=============================================================================
