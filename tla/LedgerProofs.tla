---------------------------- MODULE LedgerProofs ----------------------------
(***************************************************************************)
(* Theorems about Ledger, for every number of rows, wallets and transfers. *)
(***************************************************************************)
EXTENDS LedgerReports, FoldProofs

(***************************************************************************)
(* Rounding.                                                               *)
(***************************************************************************)

(* The multiples of MONETARY_PRECISION are fixed points of a column: what  *)
(* was read once and is written again reads the same.                      *)
LEMMA InColumnFixed ==
  ASSUME NEW q \in Int
  PROVE  InColumn(Fine * q) = Fine * q
<1>1. (Fine * q) % Fine = 0 /\ (Fine * q) \div Fine = q
  BY MoneyAssumption
<1>2. QED
  BY <1>1, MoneyAssumption DEF InColumn

(* A column gives back a multiple of MONETARY_PRECISION that is no more    *)
(* than half of it away.                                                   *)
LEMMA InColumnNear ==
  ASSUME NEW n \in Int
  PROVE  /\ \E q \in Int : InColumn(n) = Fine * q
         /\ InColumn(n) \in (n - Fine)..(n + Fine)
         /\ n >= 0 => InColumn(n) >= 0
<1> DEFINE q == n \div Fine
           r == n % Fine
           up == 2 * r > Fine \/ (2 * r = Fine /\ n \in RoundsUp)
<1>1. /\ q \in Int /\ r \in 0..(Fine - 1)
      /\ n = (Fine * q) + r
      /\ n >= 0 => q >= 0
  BY MoneyAssumption
<1>2. Fine \in Nat \ {0}
  BY MoneyAssumption
<1>3. InColumn(n) = Fine * (IF up THEN q + 1 ELSE q)
  BY DEF InColumn
<1> HIDE DEF q, r, up
<1> DEFINE p == Fine * q
<1>4. /\ p \in Int /\ Fine * (q + 1) = p + Fine
      /\ q >= 0 => p >= 0
  BY <1>1, <1>2
<1>5. InColumn(n) = IF up THEN p + Fine ELSE p
  BY <1>3, <1>4
<1>6. n = p + r
  BY <1>1
<1>7. \E k \in Int : InColumn(n) = Fine * k
  <2>1. q \in Int /\ q + 1 \in Int
    BY <1>1
  <2>2. InColumn(n) = Fine * q \/ InColumn(n) = Fine * (q + 1)
    BY <1>3
  <2>3. QED
    BY <2>1, <2>2
<1> HIDE DEF p
<1>8. InColumn(n) \in (n - Fine)..(n + Fine)
  BY <1>1, <1>2, <1>4, <1>5, <1>6
<1>9. n >= 0 => InColumn(n) >= 0
  BY <1>1, <1>2, <1>4, <1>5
<1>10. QED
  BY <1>7, <1>8, <1>9

(* What a column gives back, it gives back again. *)
LEMMA InColumnAgain ==
  ASSUME NEW n \in Int
  PROVE  InColumn(InColumn(n)) = InColumn(n)
<1>1. PICK q \in Int : InColumn(n) = Fine * q
  BY InColumnNear
<1>2. QED
  BY <1>1, InColumnFixed

(* What is written is one of the numbers that read as what is read, and so *)
(* is what was read before.                                                *)
LEMMA WrittenReadsBack ==
  ASSUME NEW n \in Nat
  PROVE  /\ InColumn(n) \in Nat
         /\ n \in ReadAs(InColumn(n))
         /\ InColumn(n) \in ReadAs(InColumn(n))
<1>1. InColumn(n) \in Int /\ InColumn(n) >= 0
  BY InColumnNear, MoneyAssumption
<1>2. n \in (InColumn(n) - Fine)..(InColumn(n) + Fine)
  <2>1. InColumn(n) \in (n - Fine)..(n + Fine)
    BY InColumnNear
  <2>2. QED
    BY ONLY <1>1, <2>1, n \in Nat, MoneyAssumption DEF MoneyAssumption
<1>3. InColumn(n) \in (InColumn(n) - Fine)..(InColumn(n) + Fine)
  BY <1>1, MoneyAssumption
<1>4. InColumn(InColumn(n)) = InColumn(n)
  BY InColumnAgain
<1> HIDE DEF InColumn
<1>5. QED
  BY <1>1, <1>2, <1>3, <1>4 DEF ReadAs

(* The number 1.0 and the result of quantize() survive a column.           *)
LEMMA ExactInColumn == InColumn(One) = One
<1>1. One = Fine * (One \div Fine) /\ One \div Fine \in Int
  BY MoneyAssumption
<1>2. QED
  BY <1>1, InColumnFixed

(* A conversion is an integer. *)
LEMMA BaseAmountType ==
  ASSUME NEW a \in Nat, NEW c \in Currency, NEW r \in Nat
  PROVE  BaseAmount(a, c, r) \in Int
<1> DEFINE n == a * r
           d == One * Fine
<1>1. n \in Int /\ d \in Nat \ {0}
  BY MoneyAssumption
<1> HIDE DEF n, d
<1>2. n \div d \in Int /\ n % d \in Int
  BY <1>1
<1>3. Nearest(n, d) \in Int
  BY <1>2 DEF Nearest
<1>4. Fine * Nearest(n, d) \in Int
  BY <1>3, MoneyAssumption
<1>5. QED
  BY <1>4 DEF BaseAmount, n, d

(* The resolved rate is one the constants allow. *)
LEMMA ResolvableRatesType ==
  ASSUME NEW c \in Currency, NEW r \in ResolvableRates(c)
  PROVE  r \in Nat /\ (c = "JOD" => r = One)
BY MoneyAssumption, InputAssumption DEF ResolvableRates

(* A row keeps the table's shape when it is stored. *)
LEMMA StoredType ==
  ASSUME NEW row \in TxRow
  PROVE  Stored(row) \in TxRow
<1>1. InColumn(row.amount) \in Nat /\ InColumn(row.rate) \in Nat /\ InColumn(row.base) \in Int
  BY WrittenReadsBack, InColumnNear, MoneyAssumption DEF TxRow
<1>2. QED
  BY <1>1 DEF Stored, TxRow

(* A new row as its table gives it back. *)
LEMMA StoredNewRow ==
  ASSUME NEW type, NEW w, NEW x, NEW a, NEW c, NEW r, NEW d
  PROVE  Stored(NewRow(type, w, x, a, c, r, d)) =
           [state |-> "live", type |-> type, wallet |-> w, transfer |-> x,
            amount |-> InColumn(a), currency |-> c, rate |-> InColumn(r),
            base |-> InColumn(BaseAmount(a, c, r)), date |-> d]
<1> DEFINE row == [state |-> "live", type |-> type, wallet |-> w, transfer |-> x,
                    amount |-> a, currency |-> c, rate |-> r,
                    base |-> BaseAmount(a, c, r), date |-> d]
<1>1. NewRow(type, w, x, a, c, r, d) = row
  BY DEF NewRow
<1>2. Stored(row) = [row EXCEPT !.amount = InColumn(a), !.rate = InColumn(r),
                                !.base = InColumn(BaseAmount(a, c, r))]
  BY DEF Stored
<1>3. QED
  BY <1>1, <1>2

(* Only the numbers of a row change when it is stored. *)
LEMMA StoredFields ==
  ASSUME NEW row \in TxRow
  PROVE  /\ Stored(row).state = row.state /\ Stored(row).type = row.type
         /\ Stored(row).wallet = row.wallet /\ Stored(row).transfer = row.transfer
         /\ Stored(row).currency = row.currency /\ Stored(row).date = row.date
         /\ Stored(row).amount = InColumn(row.amount)
         /\ Stored(row).rate = InColumn(row.rate)
         /\ Stored(row).base = InColumn(row.base)
BY DEF Stored, TxRow

(* A new row has the table's shape. *)
LEMMA NewRowType ==
  ASSUME NEW type \in TxTypes, NEW w \in WalletId \cup {Nil},
         NEW x \in TransferId \cup {Nil}, NEW a \in Amounts, NEW c \in Currency,
         NEW d \in Dates, NEW r \in ResolvableRates(c)
  PROVE  /\ NewRow(type, w, x, a, c, r, d) \in TxRow
         /\ Stored(NewRow(type, w, x, a, c, r, d)) \in TxRow
<1>1. a \in Nat /\ r \in Nat
  BY InputAssumption, ResolvableRatesType
<1>2. BaseAmount(a, c, r) \in Int
  BY <1>1, BaseAmountType
<1>3. NewRow(type, w, x, a, c, r, d) \in TxRow
  BY <1>1, <1>2 DEF NewRow, TxRow
<1>4. QED
  BY <1>3, StoredType

(* An edited row keeps the table's shape. *)
LEMMA EditedRowType ==
  ASSUME NEW old \in TxRow, NEW k \in {"income", "expense", Nil},
         NEW w \in WalletId \cup {Nil}, NEW a \in Amounts \cup {Nil},
         NEW c \in Currency \cup {Nil}, NEW d \in Dates \cup {Nil},
         NEW r \in ResolvableRates(Given(c, old.currency))
  PROVE  EditedRow(old, Given(k, old.type), w, a, c, d, r) \in TxRow
<1> DEFINE amount == Given(a, old.amount)
           currency == Given(c, old.currency)
           type == Given(k, old.type)
<1>1. amount \in Nat /\ currency \in Currency
  BY InputAssumption DEF Given, TxRow
<1>2. r \in Nat
  BY <1>1, ResolvableRatesType
<1>3. BaseAmount(amount, currency, r) \in Int
  BY <1>1, <1>2, BaseAmountType
<1>4. type \in TxTypes /\ Given(w, old.wallet) \in WalletId \cup {Nil}
      /\ Given(d, old.date) \in Dates \cup {Nil}
  BY DEF Given, TxRow, TxTypes
<1>5. /\ (IF a # Nil \/ c # Nil THEN r ELSE old.rate) \in Nat
      /\ (IF a # Nil \/ c # Nil THEN BaseAmount(amount, currency, r) ELSE old.base) \in Int
  BY <1>2, <1>3 DEF TxRow
<1> HIDE DEF amount, currency, type
<1>6. QED
  BY <1>1, <1>4, <1>5, ZenonT(30) DEF EditedRow, TxRow, amount, currency, type

(* Type correctness: no request writes a row its table does not describe.  *)
THEOREM TypeCorrect == Spec => []TypeOK
<1>1. Init => TypeOK
  BY DEF Init, TypeOK, TxRow, WalletRow, TxTypes, LegTypes, Currency
<1>2. TypeOK /\ [Next]_vars => TypeOK'
  <2> SUFFICES ASSUME TypeOK, [Next]_vars
               PROVE  TypeOK'
    OBVIOUS
  <2>1. ASSUME NEW t \in TxId, NEW type \in {"income", "expense"},
               NEW w \in WalletId \cup {Nil}, NEW a \in Amounts, NEW c \in Currency,
               NEW d \in Dates, Create(t, type, w, a, c, d)
        PROVE  TypeOK'
    <3>1. PICK r \in ResolvableRates(c) :
            txs' = [txs EXCEPT ![t] = Stored(NewRow(type, w, Nil, a, c, r, d))]
      BY <2>1 DEF Create
    <3>2. Stored(NewRow(type, w, Nil, a, c, r, d)) \in TxRow
      BY NewRowType DEF TxTypes
    <3>3. QED
      BY <2>1, <3>1, <3>2 DEF TypeOK, Create
  <2>2. ASSUME NEW out \in TxId, NEW in \in TxId, NEW from \in WalletId, NEW to \in WalletId,
               NEW x \in TransferId, NEW a \in Amounts, NEW c \in Currency, NEW d \in Dates,
               Transfer(out, in, from, to, x, a, c, d)
        PROVE  TypeOK'
    <3>1. PICK r \in ResolvableRates(c) :
            txs' = [txs EXCEPT ![out] = Stored(NewRow("transfer_out", from, x, a, c, r, d)),
                               ![in] = Stored(NewRow("transfer_in", to, x, a, c, r, d))]
      BY <2>2 DEF Transfer
    <3>2. /\ Stored(NewRow("transfer_out", from, x, a, c, r, d)) \in TxRow
          /\ Stored(NewRow("transfer_in", to, x, a, c, r, d)) \in TxRow
      BY NewRowType DEF TxTypes, LegTypes
    <3>3. QED
      BY <2>2, <3>1, <3>2 DEF TypeOK, Transfer
  <2>3. ASSUME NEW t \in TxId, NEW k \in {"income", "expense", Nil},
               NEW w \in WalletId \cup {Nil}, NEW a \in Amounts \cup {Nil},
               NEW c \in Currency \cup {Nil}, NEW d \in Dates \cup {Nil},
               Update(t, k, w, a, c, d)
        PROVE  TypeOK'
    <3>1. PICK r \in ResolvableRates(Given(c, txs[t].currency)) :
            txs' = AfterUpdate(t, Stored(EditedRow(txs[t], Given(k, txs[t].type), w, a, c, d, r)))
      BY <2>3 DEF Update
    <3> DEFINE row == Stored(EditedRow(txs[t], Given(k, txs[t].type), w, a, c, d, r))
    <3>2. row \in TxRow
      <4>1. txs[t] \in TxRow
        BY DEF TypeOK
      <4>2. QED
        BY <4>1, EditedRowType, StoredType
    <3> HIDE DEF row
    <3>3. ASSUME NEW u \in TxId
          PROVE  SyncedLeg(txs[u], row) \in TxRow
      BY <3>2 DEF SyncedLeg, TypeOK, TxRow
    <3>4. AfterUpdate(t, row) \in [TxId -> TxRow]
      BY <3>2, <3>3 DEF AfterUpdate, TypeOK
    <3>5. QED
      BY <2>3, <3>1, <3>4 DEF TypeOK, Update, row
  <2>4. ASSUME NEW t \in TxId, Delete(t)
        PROVE  TypeOK'
    BY <2>4 DEF Delete, TypeOK, TxRow
  <2>5. ASSUME NEW w \in WalletId, NEW n \in WalletName, NEW b \in Openings,
               CreateWallet(w, n, b)
        PROVE  TypeOK'
    <3>1. InColumn(b) \in Int
      BY InputAssumption, InColumnNear, MoneyAssumption
    <3>2. QED
      BY <2>5, <3>1 DEF CreateWallet, TypeOK, WalletRow
  <2>6. ASSUME NEW w \in WalletId, NEW n \in WalletName \cup {Nil},
               NEW b \in Openings \cup {Nil}, NEW s \in {"active", "archived", Nil},
               UpdateWallet(w, n, b, s)
        PROVE  TypeOK'
    <3>1. Given(b, wallets[w].opening) \in Int
      BY InputAssumption DEF TypeOK, WalletRow, Given
    <3>2. InColumn(Given(b, wallets[w].opening)) \in Int
      BY <3>1, InColumnNear, MoneyAssumption
    <3>3. Given(n, wallets[w].name) \in WalletName \cup {Nil}
          /\ Given(s, wallets[w].state) \in {"active", "archived"}
      BY <2>6 DEF UpdateWallet, TypeOK, WalletRow, Given, WalletExists
    <3>4. QED
      BY <2>6, <3>2, <3>3 DEF UpdateWallet, TypeOK, WalletRow
  <2>7. ASSUME NEW w \in WalletId, DeleteWallet(w)
        PROVE  TypeOK'
    BY <2>7 DEF DeleteWallet, TypeOK, WalletRow
  <2>8. CASE UNCHANGED vars
    BY <2>8 DEF vars, TypeOK
  <2>9. QED
    BY <2>1, <2>2, <2>3, <2>4, <2>5, <2>6, <2>7, <2>8 DEF Next, TxNext, WalletNext
<1>3. QED
  BY <1>1, <1>2, PTL DEF Spec

-----------------------------------------------------------------------------
(***************************************************************************)
(* Transfers.  TransfersPaired is inductive beside the row shapes: a       *)
(* transfer writes both legs at once under an unused transfer_id, and an   *)
(* edit or a deletion reaches every live row of the transfer, which        *)
(* PartnersMirror says is the whole of it.                                 *)
(***************************************************************************)

(* Creating an income or expense row leaves every transfer as it was. *)
LEMMA CreateKeepsPairs ==
  ASSUME TypeOK, TransfersPaired, NEW t \in TxId, NEW type \in {"income", "expense"},
         NEW w, NEW a, NEW c, NEW d, Create(t, type, w, a, c, d)
  PROVE  TransfersPaired'
<1>1. PICK r : txs' = [txs EXCEPT ![t] = Stored(NewRow(type, w, Nil, a, c, r, d))]
  BY DEF Create
<1>2. \A u \in TxId \ {t} : txs'[u] = txs[u]
  BY <1>1 DEF TypeOK
<1>3. txs'[t].transfer = Nil /\ ~IsLeg(txs'[t])
  BY <1>1, StoredNewRow DEF TypeOK, IsLeg, LegTypes
<1>4. txs[t].transfer = Nil
  BY DEF Create, TransfersPaired, LegsAreMarked
<1>5. LegsAreMarked'
  BY <1>2, <1>3 DEF TransfersPaired, LegsAreMarked
<1>6. LegsHavePartners'
  BY <1>2, <1>3, <1>4 DEF TransfersPaired, LegsHavePartners, LegsAreMarked
<1>7. PartnersMirror'
  BY <1>2, <1>3 DEF TransfersPaired, PartnersMirror
<1>8. QED
  BY <1>5, <1>6, <1>7 DEF TransfersPaired

(* A new transfer is a pair, and no other row has its transfer_id. *)
LEMMA TransferKeepsPairs ==
  ASSUME TypeOK, TransfersPaired, NEW out \in TxId, NEW in \in TxId,
         NEW from \in WalletId, NEW to \in WalletId, NEW x \in TransferId,
         NEW a, NEW c, NEW d, Transfer(out, in, from, to, x, a, c, d)
  PROVE  TransfersPaired'
<1>1. PICK r : txs' = [txs EXCEPT ![out] = Stored(NewRow("transfer_out", from, x, a, c, r, d)),
                                  ![in] = Stored(NewRow("transfer_in", to, x, a, c, r, d))]
  BY DEF Transfer
<1>2. /\ txs'[out] = Stored(NewRow("transfer_out", from, x, a, c, r, d))
      /\ txs'[in] = Stored(NewRow("transfer_in", to, x, a, c, r, d))
      /\ \A u \in TxId \ {out, in} : txs'[u] = txs[u]
  BY <1>1 DEF TypeOK, Transfer
<1>3. /\ out # in /\ from # to /\ from # Nil /\ to # Nil /\ x # Nil
      /\ \A u \in TxId : txs[u].transfer # x
  BY NilAssumption DEF Transfer, LegsOf
<1>4. /\ ~IsLeg(txs[out]) /\ txs[out].transfer = Nil
      /\ ~IsLeg(txs[in]) /\ txs[in].transfer = Nil
  BY DEF Transfer, TransfersPaired, LegsAreMarked
<1>5. LegsAreMarked'
  BY <1>2, <1>3, StoredNewRow DEF TransfersPaired, LegsAreMarked, IsLeg, LegTypes
<1>6. LegsHavePartners'
  <2> SUFFICES ASSUME NEW t \in TxId, IsLeg(txs'[t])
               PROVE  \E u \in TxId \ {t} : txs'[u].transfer = txs'[t].transfer
    BY DEF LegsHavePartners
  <2>1. CASE t \in {out, in}
    BY <2>1, <1>2, <1>3, StoredNewRow
  <2>2. CASE t \notin {out, in}
    <3>1. PICK u \in TxId \ {t} : txs[u].transfer = txs[t].transfer
      BY <2>2, <1>2 DEF TransfersPaired, LegsHavePartners
    <3>2. txs[t].transfer # Nil
      BY <2>2, <1>2 DEF TransfersPaired, LegsAreMarked
    <3>3. u \notin {out, in}
      BY <3>1, <3>2, <1>4
    <3>4. QED
      BY <2>2, <3>1, <3>3, <1>2
  <2>3. QED
    BY <2>1, <2>2
<1>7. PartnersMirror'
  BY <1>2, <1>3, StoredNewRow DEF TransfersPaired, PartnersMirror
<1>8. QED
  BY <1>5, <1>6, <1>7 DEF TransfersPaired

(* An edit of a leg reaches its partner; an edit of another row reaches no *)
(* leg and makes none.                                                     *)
LEMMA UpdateKeepsPairs ==
  ASSUME TypeOK, TransfersPaired, NEW t \in TxId, NEW k \in {"income", "expense", Nil},
         NEW w \in WalletId \cup {Nil}, NEW a, NEW c, NEW d, Update(t, k, w, a, c, d)
  PROVE  TransfersPaired'
<1>1. PICK r : txs' = AfterUpdate(t, Stored(EditedRow(txs[t], Given(k, txs[t].type), w, a, c, d, r)))
  BY DEF Update
<1> DEFINE row == Stored(EditedRow(txs[t], Given(k, txs[t].type), w, a, c, d, r))
<1>2. /\ row.state = txs[t].state /\ row.transfer = txs[t].transfer
      /\ IsLeg(row) <=> IsLeg(txs[t])
      /\ IsLeg(txs[t]) => row.type = txs[t].type /\ row.wallet = txs[t].wallet
  BY DEF EditedRow, Stored, Given, Update, TypeOK, TxRow, IsLeg, LegTypes
<1> HIDE DEF row
<1>3. txs'[t] = row
  BY <1>1 DEF AfterUpdate, row
<1>4. ASSUME NEW u \in TxId \ {t}
      PROVE  \/ /\ IsLeg(txs[t]) /\ txs[u].transfer = txs[t].transfer
                /\ txs'[u] = SyncedLeg(txs[u], row)
             \/ /\ ~(IsLeg(txs[t]) /\ txs[u].transfer = txs[t].transfer)
                /\ txs'[u] = txs[u]
  <2>1. txs'[u] = IF IsLeg(row) /\ Live(u) /\ txs[u].transfer = row.transfer
                  THEN SyncedLeg(txs[u], row) ELSE txs[u]
    BY <1>1 DEF AfterUpdate, row
  <2>2. IsLeg(txs[t]) /\ txs[u].transfer = txs[t].transfer => Live(u)
    BY DEF TransfersPaired, PartnersMirror, LegsAreMarked, Live, Update
  <2>3. QED
    BY <2>1, <2>2, <1>2
<1>5. ASSUME NEW u \in TxId
      PROVE  /\ SyncedLeg(txs[u], row).state = txs[u].state
             /\ SyncedLeg(txs[u], row).transfer = txs[u].transfer
             /\ SyncedLeg(txs[u], row).type = txs[u].type
             /\ SyncedLeg(txs[u], row).wallet = txs[u].wallet
             /\ SyncedLeg(txs[u], row).amount = row.amount
             /\ SyncedLeg(txs[u], row).currency = row.currency
             /\ SyncedLeg(txs[u], row).rate = row.rate
             /\ SyncedLeg(txs[u], row).base = row.base
             /\ SyncedLeg(txs[u], row).date = row.date
  BY DEF SyncedLeg, TypeOK, TxRow
<1>6. \A u \in TxId : /\ txs'[u].transfer = txs[u].transfer
                      /\ txs'[u].state = txs[u].state
                      /\ IsLeg(txs'[u]) <=> IsLeg(txs[u])
                      /\ IsLeg(txs[u]) => txs'[u].type = txs[u].type
                                          /\ txs'[u].wallet = txs[u].wallet
  BY <1>2, <1>3, <1>4, <1>5 DEF IsLeg
<1>7. LegsAreMarked'
  BY <1>6 DEF TransfersPaired, LegsAreMarked
<1>8. LegsHavePartners'
  BY <1>6 DEF TransfersPaired, LegsHavePartners
<1>9. PartnersMirror'
  <2> SUFFICES ASSUME NEW u \in TxId, NEW v \in TxId, u # v,
                      txs[u].transfer = txs[v].transfer, txs[u].transfer # Nil
               PROVE  /\ txs'[u].type # txs'[v].type
                      /\ txs'[u].wallet # txs'[v].wallet
                      /\ txs'[u].state = txs'[v].state
                      /\ txs'[u].amount = txs'[v].amount /\ txs'[u].currency = txs'[v].currency
                      /\ txs'[u].rate = txs'[v].rate /\ txs'[u].base = txs'[v].base
                      /\ txs'[u].date = txs'[v].date
    BY <1>6 DEF PartnersMirror
  <2>1. IsLeg(txs[u]) /\ IsLeg(txs[v])
    BY DEF TransfersPaired, LegsAreMarked
  <2>2. /\ txs'[u].type # txs'[v].type
        /\ txs'[u].wallet # txs'[v].wallet
        /\ txs'[u].state = txs'[v].state
    BY <1>6, <2>1 DEF TransfersPaired, PartnersMirror
  <2>3. CASE txs[u].transfer # txs[t].transfer
    <3>1. txs'[u] = txs[u] /\ txs'[v] = txs[v]
      BY <2>3, <1>4
    <3>2. QED
      BY <2>2, <3>1 DEF TransfersPaired, PartnersMirror
  <2>4. CASE txs[u].transfer = txs[t].transfer
    <3>1. IsLeg(txs[t])
      BY <2>4 DEF TransfersPaired, LegsAreMarked
    <3>2. \A z \in {u, v} : txs'[z] = row \/ txs'[z] = SyncedLeg(txs[z], row)
      BY <2>4, <3>1, <1>3, <1>4
    <3>3. QED
      BY <2>2, <3>2, <1>5
  <2>5. QED
    BY <2>3, <2>4
<1>10. QED
  BY <1>7, <1>8, <1>9 DEF TransfersPaired

(* A deletion takes both legs or none. *)
LEMMA DeleteKeepsPairs ==
  ASSUME TypeOK, TransfersPaired, NEW t \in TxId, Delete(t)
  PROVE  TransfersPaired'
<1>1. ASSUME NEW u \in TxId
      PROVE  txs'[u] = IF u \in DeletedWith(t)
                       THEN [txs[u] EXCEPT !.state = "deleted"] ELSE txs[u]
  BY DEF Delete
<1>2. \A u \in TxId :
        /\ txs'[u].type = txs[u].type /\ txs'[u].wallet = txs[u].wallet
        /\ txs'[u].transfer = txs[u].transfer /\ txs'[u].amount = txs[u].amount
        /\ txs'[u].currency = txs[u].currency /\ txs'[u].rate = txs[u].rate
        /\ txs'[u].base = txs[u].base /\ txs'[u].date = txs[u].date
  BY <1>1 DEF TypeOK, TxRow
<1>3. \A u \in TxId : txs'[u].state = IF u \in DeletedWith(t) THEN "deleted" ELSE txs[u].state
  BY <1>1 DEF TypeOK, TxRow
<1>4. LegsAreMarked'
  BY <1>2, <1>3 DEF TransfersPaired, LegsAreMarked, IsLeg
<1>5. LegsHavePartners'
  BY <1>2 DEF TransfersPaired, LegsHavePartners, IsLeg
<1>6. ASSUME NEW u \in TxId, NEW v \in TxId, u # v,
             txs[u].transfer = txs[v].transfer, txs[u].transfer # Nil
      PROVE  u \in DeletedWith(t) <=> v \in DeletedWith(t)
  <2>1. IsLeg(txs[u]) /\ IsLeg(txs[v]) /\ txs[u].state = txs[v].state
    BY <1>6 DEF TransfersPaired, LegsAreMarked, PartnersMirror
  <2>2. QED
    BY <1>6, <2>1 DEF DeletedWith, LegsOf, Live
<1>7. PartnersMirror'
  BY <1>2, <1>3, <1>6 DEF TransfersPaired, PartnersMirror
<1>8. QED
  BY <1>4, <1>5, <1>7 DEF TransfersPaired

(* Transfers stay pairs whatever happens to them and around them. *)
THEOREM TransfersStayPaired == Spec => []TransfersPaired
<1>1. Init => TransfersPaired
  BY DEF Init, TransfersPaired, LegsAreMarked, LegsHavePartners, PartnersMirror, IsLeg, LegTypes
<1>2. TypeOK /\ TransfersPaired /\ [Next]_vars => TransfersPaired'
  <2> SUFFICES ASSUME TypeOK, TransfersPaired, [Next]_vars
               PROVE  TransfersPaired'
    OBVIOUS
  <2>0. UNCHANGED txs => TransfersPaired'
    BY DEF TransfersPaired, LegsAreMarked, LegsHavePartners, PartnersMirror
  <2>1. ASSUME NEW t \in TxId, NEW type \in {"income", "expense"},
               NEW w \in WalletId \cup {Nil}, NEW a \in Amounts, NEW c \in Currency,
               NEW d \in Dates, Create(t, type, w, a, c, d)
        PROVE  TransfersPaired'
    BY <2>1, CreateKeepsPairs
  <2>2. ASSUME NEW out \in TxId, NEW in \in TxId, NEW from \in WalletId, NEW to \in WalletId,
               NEW x \in TransferId, NEW a \in Amounts, NEW c \in Currency, NEW d \in Dates,
               Transfer(out, in, from, to, x, a, c, d)
        PROVE  TransfersPaired'
    BY <2>2, TransferKeepsPairs
  <2>3. ASSUME NEW t \in TxId, NEW k \in {"income", "expense", Nil},
               NEW w \in WalletId \cup {Nil}, NEW a \in Amounts \cup {Nil},
               NEW c \in Currency \cup {Nil}, NEW d \in Dates \cup {Nil},
               Update(t, k, w, a, c, d)
        PROVE  TransfersPaired'
    BY <2>3, UpdateKeepsPairs
  <2>4. ASSUME NEW t \in TxId, Delete(t)
        PROVE  TransfersPaired'
    BY <2>4, DeleteKeepsPairs
  <2>5. ASSUME NEW w \in WalletId, NEW n \in WalletName, NEW b \in Openings,
               CreateWallet(w, n, b)
        PROVE  TransfersPaired'
    BY <2>0, <2>5 DEF CreateWallet
  <2>6. ASSUME NEW w \in WalletId, NEW n \in WalletName \cup {Nil},
               NEW b \in Openings \cup {Nil}, NEW s \in {"active", "archived", Nil},
               UpdateWallet(w, n, b, s)
        PROVE  TransfersPaired'
    BY <2>0, <2>6 DEF UpdateWallet
  <2>7. ASSUME NEW w \in WalletId, DeleteWallet(w)
        PROVE  TransfersPaired'
    BY <2>0, <2>7 DEF DeleteWallet
  <2>8. CASE UNCHANGED vars
    BY <2>0, <2>8 DEF vars
  <2>9. QED
    BY <2>1, <2>2, <2>3, <2>4, <2>5, <2>6, <2>7, <2>8 DEF Next, TxNext, WalletNext
<1>3. QED
  BY <1>1, <1>2, TypeCorrect, PTL DEF Spec

-----------------------------------------------------------------------------
(***************************************************************************)
(* Money and wallets.                                                      *)
(***************************************************************************)

(* A row that is priced anew shows what it was computed from.              *)
LEMMA PricedRow ==
  ASSUME NEW m \in Nat, NEW c \in Currency, NEW r \in ResolvableRates(c), NEW row,
         row.amount = InColumn(m), row.currency = c, row.rate = InColumn(r),
         row.base = InColumn(BaseAmount(m, c, r)), row.base > 0
  PROVE  BaseFits(row)
<1>1. r \in Nat /\ (c = "JOD" => r = One)
  BY ResolvableRatesType
<1>2. m \in ReadAs(row.amount) /\ r \in ReadAs(row.rate)
  BY <1>1, WrittenReadsBack
<1>3. c = "JOD" => row.rate = One /\ row.base = row.amount
  BY <1>1, ExactInColumn DEF BaseAmount
<1>4. QED
  BY <1>2, <1>3 DEF BaseFits

(* A row that fits reads the same when it is written again. *)
LEMMA RowThatFits ==
  ASSUME NEW row \in TxRow, BaseFits(row)
  PROVE  /\ InColumn(row.amount) = row.amount
         /\ InColumn(row.rate) = row.rate
         /\ InColumn(row.base) = row.base
<1>1. PICK a \in ReadAs(row.amount), r \in ReadAs(row.rate) :
        row.base = InColumn(BaseAmount(a, row.currency, r))
  BY DEF BaseFits
<1>2. /\ a \in Nat /\ InColumn(a) = row.amount
      /\ r \in Nat /\ InColumn(r) = row.rate
  <2>1. row.amount \in Int /\ row.rate \in Int /\ Fine \in Int
    BY MoneyAssumption DEF TxRow
  <2>2. QED
    BY <2>1 DEF ReadAs
<1>3. BaseAmount(a, row.currency, r) \in Int
  BY <1>2, BaseAmountType DEF TxRow
<1>4. QED
  BY <1>1, <1>2, <1>3, InColumnAgain

(* The base amount fits the amount and the rate a row shows: an edit       *)
(* recomputes it whenever it changes what it is computed from, and a leg   *)
(* takes the amount, currency, rate and base of its partner together, as   *)
(* they were read back.                                                    *)
THEOREM BaseStaysMatched == Spec => []BaseMatchesRate
<1>1. Init => BaseMatchesRate
  BY DEF Init, BaseMatchesRate
<1>2. TypeOK /\ BaseMatchesRate /\ [Next]_vars => BaseMatchesRate'
  <2> SUFFICES ASSUME TypeOK, BaseMatchesRate, [Next]_vars
               PROVE  BaseMatchesRate'
    OBVIOUS
  <2>0. UNCHANGED txs => BaseMatchesRate'
    BY DEF BaseMatchesRate
  <2>1. ASSUME NEW t \in TxId, NEW type \in {"income", "expense"},
               NEW w \in WalletId \cup {Nil}, NEW a \in Amounts, NEW c \in Currency,
               NEW d \in Dates, Create(t, type, w, a, c, d)
        PROVE  BaseMatchesRate'
    <3>1. PICK r \in ResolvableRates(c) :
            /\ txs' = [txs EXCEPT ![t] = Stored(NewRow(type, w, Nil, a, c, r, d))]
            /\ WellFormed(Stored(NewRow(type, w, Nil, a, c, r, d)))
      BY <2>1 DEF Create
    <3> DEFINE row == Stored(NewRow(type, w, Nil, a, c, r, d))
    <3>2. \A u \in TxId : txs'[u] = IF u = t THEN row ELSE txs[u]
      BY <3>1 DEF TypeOK
    <3>3. /\ row.amount = InColumn(a) /\ row.currency = c /\ row.rate = InColumn(r)
          /\ row.base = InColumn(BaseAmount(a, c, r)) /\ row.base > 0
      BY <3>1, StoredNewRow DEF WellFormed
    <3>4. a \in Nat
      BY InputAssumption
    <3> HIDE DEF row
    <3>5. BaseFits(row)
      BY <3>3, <3>4, PricedRow
    <3>6. QED
      BY <3>2, <3>5 DEF BaseMatchesRate
  <2>2. ASSUME NEW out \in TxId, NEW in \in TxId, NEW from \in WalletId, NEW to \in WalletId,
               NEW x \in TransferId, NEW a \in Amounts, NEW c \in Currency, NEW d \in Dates,
               Transfer(out, in, from, to, x, a, c, d)
        PROVE  BaseMatchesRate'
    <3>1. PICK r \in ResolvableRates(c) :
            /\ txs' = [txs EXCEPT ![out] = Stored(NewRow("transfer_out", from, x, a, c, r, d)),
                                  ![in] = Stored(NewRow("transfer_in", to, x, a, c, r, d))]
            /\ WellFormed(Stored(NewRow("transfer_out", from, x, a, c, r, d)))
            /\ WellFormed(Stored(NewRow("transfer_in", to, x, a, c, r, d)))
      BY <2>2 DEF Transfer
    <3> DEFINE outLeg == Stored(NewRow("transfer_out", from, x, a, c, r, d))
               inLeg == Stored(NewRow("transfer_in", to, x, a, c, r, d))
    <3>2. \A u \in TxId : txs'[u] \in {txs[u], outLeg, inLeg}
      BY <3>1 DEF TypeOK
    <3>3. \A u \in TxId : txs'[u] \in {outLeg, inLeg} \/ txs'[u] = txs[u]
      BY <3>2
    <3>4. ASSUME NEW row \in {outLeg, inLeg}
          PROVE  /\ row.amount = InColumn(a) /\ row.currency = c /\ row.rate = InColumn(r)
                 /\ row.base = InColumn(BaseAmount(a, c, r)) /\ row.base > 0
      BY <3>1, StoredNewRow DEF WellFormed
    <3>5. a \in Nat
      BY InputAssumption
    <3> HIDE DEF outLeg, inLeg
    <3>6. \A row \in {outLeg, inLeg} : BaseFits(row)
      BY <3>4, <3>5, PricedRow
    <3>7. QED
      BY <3>3, <3>6 DEF BaseMatchesRate
  <2>3. ASSUME NEW t \in TxId, NEW k \in {"income", "expense", Nil},
               NEW w \in WalletId \cup {Nil}, NEW a \in Amounts \cup {Nil},
               NEW c \in Currency \cup {Nil}, NEW d \in Dates \cup {Nil},
               Update(t, k, w, a, c, d)
        PROVE  BaseMatchesRate'
    <3> DEFINE raw(r) == EditedRow(txs[t], Given(k, txs[t].type), w, a, c, d, r)
    <3>1. PICK r \in ResolvableRates(Given(c, txs[t].currency)) :
            /\ txs' = AfterUpdate(t, Stored(raw(r)))
            /\ WellFormed(Stored(raw(r)))
      BY <2>3 DEF Update
    <3> DEFINE new == raw(r)
               row == Stored(new)
    <3>2. txs[t] \in TxRow /\ Given(c, txs[t].currency) \in Currency
      BY DEF Given, TypeOK, TxRow
    <3>3. new \in TxRow
      BY <3>2, EditedRowType
    <3>4. /\ new.amount = Given(a, txs[t].amount)
          /\ new.currency = Given(c, txs[t].currency)
          /\ new.rate = IF a # Nil \/ c # Nil THEN r ELSE txs[t].rate
          /\ new.base = IF a # Nil \/ c # Nil THEN BaseAmount(new.amount, new.currency, r)
                        ELSE txs[t].base
      BY <3>2 DEF EditedRow, TxRow
    <3>5. row.base > 0
      BY <3>1 DEF WellFormed
    <3> HIDE DEF raw, new
    <3>6. /\ row.amount = InColumn(new.amount) /\ row.rate = InColumn(new.rate)
          /\ row.base = InColumn(new.base) /\ row.currency = new.currency
      BY <3>3, StoredFields
    <3> HIDE DEF row
    <3>7. BaseFits(row)
      <4>1. CASE a # Nil \/ c # Nil
        <5>1. new.amount \in Nat
          BY <3>3 DEF TxRow
        <5>2. new.rate = r /\ new.base = BaseAmount(new.amount, new.currency, r)
          BY <3>4, <4>1
        <5>3. r \in ResolvableRates(new.currency) /\ new.currency \in Currency
          BY <3>2, <3>4
        <5>4. QED
          BY <3>5, <3>6, <5>1, <5>2, <5>3, PricedRow
      <4>2. CASE a = Nil /\ c = Nil
        <5>1. BaseFits(txs[t])
          BY <2>3 DEF BaseMatchesRate, Update, Live
        <5>2. /\ row.amount = txs[t].amount /\ row.rate = txs[t].rate
              /\ row.base = txs[t].base /\ row.currency = txs[t].currency
          BY <3>2, <3>4, <3>6, <4>2, <5>1, RowThatFits DEF Given
        <5>3. QED
          BY <5>1, <5>2 DEF BaseFits
      <4>3. QED
        BY <4>1, <4>2
    <3>8. ASSUME NEW u \in TxId
          PROVE  txs'[u] \in {row, txs[u], SyncedLeg(txs[u], row)}
      BY <3>1 DEF AfterUpdate, row, new
    <3>9. ASSUME NEW u \in TxId
          PROVE  BaseFits(SyncedLeg(txs[u], row)) /\ SyncedLeg(txs[u], row).state = txs[u].state
      <4>1. /\ SyncedLeg(txs[u], row).amount = row.amount
            /\ SyncedLeg(txs[u], row).currency = row.currency
            /\ SyncedLeg(txs[u], row).rate = row.rate
            /\ SyncedLeg(txs[u], row).base = row.base
            /\ SyncedLeg(txs[u], row).state = txs[u].state
        BY DEF SyncedLeg, TypeOK, TxRow
      <4>2. QED
        BY <3>7, <4>1 DEF BaseFits
    <3>10. QED
      BY <3>7, <3>8, <3>9 DEF BaseMatchesRate
  <2>4. ASSUME NEW t \in TxId, Delete(t)
        PROVE  BaseMatchesRate'
    <3>1. \A u \in TxId : txs'[u] \in {txs[u], [txs[u] EXCEPT !.state = "deleted"]}
      BY <2>4 DEF Delete
    <3>2. \A u \in TxId : u \in DeletedWith(t) => Live(u)
      BY <2>4 DEF DeletedWith, Delete
    <3>3. \A u \in TxId : /\ txs'[u].amount = txs[u].amount /\ txs'[u].currency = txs[u].currency
                          /\ txs'[u].rate = txs[u].rate /\ txs'[u].base = txs[u].base
      BY <3>1 DEF TypeOK, TxRow
    <3>4. \A u \in TxId : txs'[u].state # "unused" => txs[u].state # "unused"
      BY <2>4, <3>2 DEF Delete, Live
    <3>5. QED
      BY <3>3, <3>4 DEF BaseMatchesRate, BaseFits
  <2>5. ASSUME NEW w \in WalletId, NEW n \in WalletName, NEW b \in Openings,
               CreateWallet(w, n, b)
        PROVE  BaseMatchesRate'
    BY <2>0, <2>5 DEF CreateWallet
  <2>6. ASSUME NEW w \in WalletId, NEW n \in WalletName \cup {Nil},
               NEW b \in Openings \cup {Nil}, NEW s \in {"active", "archived", Nil},
               UpdateWallet(w, n, b, s)
        PROVE  BaseMatchesRate'
    BY <2>0, <2>6 DEF UpdateWallet
  <2>7. ASSUME NEW w \in WalletId, DeleteWallet(w)
        PROVE  BaseMatchesRate'
    BY <2>0, <2>7 DEF DeleteWallet
  <2>8. CASE UNCHANGED vars
    BY <2>0, <2>8 DEF vars
  <2>9. QED
    BY <2>1, <2>2, <2>3, <2>4, <2>5, <2>6, <2>7, <2>8 DEF Next, TxNext, WalletNext
<1>3. QED
  BY <1>1, <1>2, TypeCorrect, PTL DEF Spec

(* No live row names a deleted wallet: rows only join active wallets, and  *)
(* a wallet that a live row names is not deleted.                          *)
THEOREM LiveRowsKeepWallets == Spec => []LiveRowsHaveWallets
<1>1. Init => LiveRowsHaveWallets
  BY DEF Init, LiveRowsHaveWallets, Live
<1>2. TypeOK /\ LiveRowsHaveWallets /\ [Next]_vars => LiveRowsHaveWallets'
  <2> SUFFICES ASSUME TypeOK, LiveRowsHaveWallets, [Next]_vars
               PROVE  LiveRowsHaveWallets'
    OBVIOUS
  <2>1. ASSUME NEW t \in TxId, NEW type \in {"income", "expense"},
               NEW w \in WalletId \cup {Nil}, NEW a \in Amounts, NEW c \in Currency,
               NEW d \in Dates, Create(t, type, w, a, c, d)
        PROVE  LiveRowsHaveWallets'
    BY <2>1, StoredNewRow DEF Create, LiveRowsHaveWallets, Live, WalletExists, Usable, TypeOK
  <2>2. ASSUME NEW out \in TxId, NEW in \in TxId, NEW from \in WalletId, NEW to \in WalletId,
               NEW x \in TransferId, NEW a \in Amounts, NEW c \in Currency, NEW d \in Dates,
               Transfer(out, in, from, to, x, a, c, d)
        PROVE  LiveRowsHaveWallets'
    BY <2>2, StoredNewRow DEF Transfer, LiveRowsHaveWallets, Live, WalletExists, Usable, TypeOK
  <2>3. ASSUME NEW t \in TxId, NEW k \in {"income", "expense", Nil},
               NEW w \in WalletId \cup {Nil}, NEW a \in Amounts \cup {Nil},
               NEW c \in Currency \cup {Nil}, NEW d \in Dates \cup {Nil},
               Update(t, k, w, a, c, d)
        PROVE  LiveRowsHaveWallets'
    <3>1. PICK r \in ResolvableRates(Given(c, txs[t].currency)) :
            txs' = AfterUpdate(t, Stored(EditedRow(txs[t], Given(k, txs[t].type), w, a, c, d, r)))
      BY <2>3 DEF Update
    <3> DEFINE row == Stored(EditedRow(txs[t], Given(k, txs[t].type), w, a, c, d, r))
    <3>2. row.state = "live" /\ row.wallet = Given(w, txs[t].wallet)
      BY <2>3 DEF EditedRow, Stored, TypeOK, TxRow, Update, Live
    <3> HIDE DEF row
    <3>3. ASSUME NEW u \in TxId
          PROVE  \/ u = t /\ txs'[u] = row
                 \/ txs'[u].state = txs[u].state /\ txs'[u].wallet = txs[u].wallet
      BY <3>1 DEF AfterUpdate, row, SyncedLeg, TypeOK, TxRow
    <3>4. QED
      BY <2>3, <3>2, <3>3 DEF LiveRowsHaveWallets, Live, WalletExists, Usable, Update, Given
  <2>4. ASSUME NEW t \in TxId, Delete(t)
        PROVE  LiveRowsHaveWallets'
    BY <2>4 DEF Delete, LiveRowsHaveWallets, Live, WalletExists, TypeOK, TxRow
  <2>5. ASSUME NEW w \in WalletId, NEW n \in WalletName, NEW b \in Openings,
               CreateWallet(w, n, b)
        PROVE  LiveRowsHaveWallets'
    BY <2>5 DEF CreateWallet, LiveRowsHaveWallets, Live, WalletExists, TypeOK
  <2>6. ASSUME NEW w \in WalletId, NEW n \in WalletName \cup {Nil},
               NEW b \in Openings \cup {Nil}, NEW s \in {"active", "archived", Nil},
               UpdateWallet(w, n, b, s)
        PROVE  LiveRowsHaveWallets'
    BY <2>6 DEF UpdateWallet, LiveRowsHaveWallets, Live, WalletExists, TypeOK, Given
  <2>7. ASSUME NEW w \in WalletId, DeleteWallet(w)
        PROVE  LiveRowsHaveWallets'
    BY <2>7 DEF DeleteWallet, InUse, LiveRowsHaveWallets, Live, WalletExists, TypeOK
  <2>8. CASE UNCHANGED vars
    BY <2>8 DEF vars, LiveRowsHaveWallets, Live, WalletExists
  <2>9. QED
    BY <2>1, <2>2, <2>3, <2>4, <2>5, <2>6, <2>7, <2>8 DEF Next, TxNext, WalletNext
<1>3. QED
  BY <1>1, <1>2, TypeCorrect, PTL DEF Spec

(* Wallet names stay unique although no constraint of the table says so.   *)
THEOREM WalletNamesStayUnique == Spec => []WalletNamesUnique
<1>1. Init => WalletNamesUnique
  BY DEF Init, WalletNamesUnique, WalletExists
<1>2. TypeOK /\ WalletNamesUnique /\ [Next]_vars => WalletNamesUnique'
  <2> SUFFICES ASSUME TypeOK, WalletNamesUnique, [Next]_vars
               PROVE  WalletNamesUnique'
    OBVIOUS
  <2>0. UNCHANGED wallets => WalletNamesUnique'
    BY DEF WalletNamesUnique, WalletExists
  <2>1. ASSUME NEW t \in TxId, NEW type \in {"income", "expense"},
               NEW w \in WalletId \cup {Nil}, NEW a \in Amounts, NEW c \in Currency,
               NEW d \in Dates, Create(t, type, w, a, c, d)
        PROVE  WalletNamesUnique'
    BY <2>0, <2>1 DEF Create
  <2>2. ASSUME NEW out \in TxId, NEW in \in TxId, NEW from \in WalletId, NEW to \in WalletId,
               NEW x \in TransferId, NEW a \in Amounts, NEW c \in Currency, NEW d \in Dates,
               Transfer(out, in, from, to, x, a, c, d)
        PROVE  WalletNamesUnique'
    BY <2>0, <2>2 DEF Transfer
  <2>3. ASSUME NEW t \in TxId, NEW k \in {"income", "expense", Nil},
               NEW w \in WalletId \cup {Nil}, NEW a \in Amounts \cup {Nil},
               NEW c \in Currency \cup {Nil}, NEW d \in Dates \cup {Nil},
               Update(t, k, w, a, c, d)
        PROVE  WalletNamesUnique'
    BY <2>0, <2>3 DEF Update
  <2>4. ASSUME NEW t \in TxId, Delete(t)
        PROVE  WalletNamesUnique'
    BY <2>0, <2>4 DEF Delete
  <2>5. ASSUME NEW w \in WalletId, NEW n \in WalletName, NEW b \in Openings,
               CreateWallet(w, n, b)
        PROVE  WalletNamesUnique'
    BY <2>5 DEF CreateWallet, NameTaken, WalletNamesUnique, WalletExists, TypeOK
  <2>6. ASSUME NEW w \in WalletId, NEW n \in WalletName \cup {Nil},
               NEW b \in Openings \cup {Nil}, NEW s \in {"active", "archived", Nil},
               UpdateWallet(w, n, b, s)
        PROVE  WalletNamesUnique'
    BY <2>6 DEF UpdateWallet, WalletNamesUnique, WalletExists, TypeOK, WalletRow, Given
  <2>7. ASSUME NEW w \in WalletId, DeleteWallet(w)
        PROVE  WalletNamesUnique'
    BY <2>7 DEF DeleteWallet, WalletNamesUnique, WalletExists, TypeOK
  <2>8. CASE UNCHANGED vars
    BY <2>0, <2>8 DEF vars
  <2>9. QED
    BY <2>1, <2>2, <2>3, <2>4, <2>5, <2>6, <2>7, <2>8 DEF Next, TxNext, WalletNext
<1>3. QED
  BY <1>1, <1>2, TypeCorrect, PTL DEF Spec

(* Archiving a wallet closes it to new rows, whatever route they take. *)
THEOREM ActiveWalletsOnly == Spec => OnlyActiveWalletsGain
<1>1. TypeOK /\ [Next]_vars => [RowsJoinActiveWallets]_vars
  <2> SUFFICES ASSUME TypeOK, Next
               PROVE  RowsJoinActiveWallets
    OBVIOUS
  <2>1. ASSUME NEW t \in TxId, NEW type \in {"income", "expense"},
               NEW w \in WalletId \cup {Nil}, NEW a \in Amounts, NEW c \in Currency,
               NEW d \in Dates, Create(t, type, w, a, c, d)
        PROVE  RowsJoinActiveWallets
    BY <2>1, NilAssumption, StoredNewRow DEF Create, RowsJoinActiveWallets, Live, Usable, TypeOK
  <2>2. ASSUME NEW out \in TxId, NEW in \in TxId, NEW from \in WalletId, NEW to \in WalletId,
               NEW x \in TransferId, NEW a \in Amounts, NEW c \in Currency, NEW d \in Dates,
               Transfer(out, in, from, to, x, a, c, d)
        PROVE  RowsJoinActiveWallets
    BY <2>2, StoredNewRow DEF Transfer, RowsJoinActiveWallets, Live, Usable, TypeOK
  <2>3. ASSUME NEW t \in TxId, NEW k \in {"income", "expense", Nil},
               NEW w \in WalletId \cup {Nil}, NEW a \in Amounts \cup {Nil},
               NEW c \in Currency \cup {Nil}, NEW d \in Dates \cup {Nil},
               Update(t, k, w, a, c, d)
        PROVE  RowsJoinActiveWallets
    <3>1. PICK r \in ResolvableRates(Given(c, txs[t].currency)) :
            txs' = AfterUpdate(t, Stored(EditedRow(txs[t], Given(k, txs[t].type), w, a, c, d, r)))
      BY <2>3 DEF Update
    <3> DEFINE row == Stored(EditedRow(txs[t], Given(k, txs[t].type), w, a, c, d, r))
    <3>2. row.wallet = Given(w, txs[t].wallet)
      BY DEF EditedRow, Stored, TypeOK, TxRow
    <3> HIDE DEF row
    <3>3. ASSUME NEW u \in TxId
          PROVE  \/ u = t /\ txs'[u] = row
                 \/ txs'[u].state = txs[u].state /\ txs'[u].wallet = txs[u].wallet
      BY <3>1 DEF AfterUpdate, row, SyncedLeg, TypeOK, TxRow
    <3>4. QED
      BY <2>3, <3>2, <3>3 DEF RowsJoinActiveWallets, Live, Usable, Update, Given
  <2>4. ASSUME NEW t \in TxId, Delete(t)
        PROVE  RowsJoinActiveWallets
    BY <2>4 DEF Delete, RowsJoinActiveWallets, Live, TypeOK, TxRow
  <2>5. ASSUME NEW w \in WalletId, NEW n \in WalletName, NEW b \in Openings,
               CreateWallet(w, n, b)
        PROVE  RowsJoinActiveWallets
    BY <2>5 DEF CreateWallet, RowsJoinActiveWallets, Live
  <2>6. ASSUME NEW w \in WalletId, NEW n \in WalletName \cup {Nil},
               NEW b \in Openings \cup {Nil}, NEW s \in {"active", "archived", Nil},
               UpdateWallet(w, n, b, s)
        PROVE  RowsJoinActiveWallets
    BY <2>6 DEF UpdateWallet, RowsJoinActiveWallets, Live
  <2>7. ASSUME NEW w \in WalletId, DeleteWallet(w)
        PROVE  RowsJoinActiveWallets
    BY <2>7 DEF DeleteWallet, RowsJoinActiveWallets, Live
  <2>8. QED
    BY <2>1, <2>2, <2>3, <2>4, <2>5, <2>6, <2>7 DEF Next, TxNext, WalletNext
<1>2. QED
  BY <1>1, TypeCorrect, PTL DEF Spec, OnlyActiveWalletsGain

(* No request rewrites a deleted row or turns a transfer leg into          *)
(* something else.                                                         *)
THEOREM HistoryStaysFinal == Spec => HistoryIsFinal
<1>1. TypeOK /\ TransfersPaired /\ [Next]_vars => [RowsKeepHistory]_vars
  <2> SUFFICES ASSUME TypeOK, TransfersPaired, Next
               PROVE  RowsKeepHistory
    OBVIOUS
  <2>1. ASSUME NEW t \in TxId, NEW type \in {"income", "expense"},
               NEW w \in WalletId \cup {Nil}, NEW a \in Amounts, NEW c \in Currency,
               NEW d \in Dates, Create(t, type, w, a, c, d)
        PROVE  RowsKeepHistory
    BY <2>1, StoredNewRow DEF Create, RowsKeepHistory, TypeOK, TransfersPaired, LegsAreMarked
  <2>2. ASSUME NEW out \in TxId, NEW in \in TxId, NEW from \in WalletId, NEW to \in WalletId,
               NEW x \in TransferId, NEW a \in Amounts, NEW c \in Currency, NEW d \in Dates,
               Transfer(out, in, from, to, x, a, c, d)
        PROVE  RowsKeepHistory
    BY <2>2, StoredNewRow DEF Transfer, RowsKeepHistory, TypeOK, TransfersPaired, LegsAreMarked
  <2>3. ASSUME NEW t \in TxId, NEW k \in {"income", "expense", Nil},
               NEW w \in WalletId \cup {Nil}, NEW a \in Amounts \cup {Nil},
               NEW c \in Currency \cup {Nil}, NEW d \in Dates \cup {Nil},
               Update(t, k, w, a, c, d)
        PROVE  RowsKeepHistory
    <3>1. PICK r \in ResolvableRates(Given(c, txs[t].currency)) :
            txs' = AfterUpdate(t, Stored(EditedRow(txs[t], Given(k, txs[t].type), w, a, c, d, r)))
      BY <2>3 DEF Update
    <3> DEFINE row == Stored(EditedRow(txs[t], Given(k, txs[t].type), w, a, c, d, r))
    <3>2. /\ row.state = "live" /\ row.transfer = txs[t].transfer
          /\ IsLeg(txs[t]) => row.type = txs[t].type /\ row.wallet = txs[t].wallet
      BY <2>3 DEF EditedRow, Stored, TypeOK, TxRow, Update, Live, Given
    <3> HIDE DEF row
    <3>3. ASSUME NEW u \in TxId
          PROVE  \/ u = t /\ txs'[u] = row
                 \/ txs'[u] = txs[u]
                 \/ /\ Live(u) /\ txs'[u].state = txs[u].state
                    /\ txs'[u].wallet = txs[u].wallet /\ txs'[u].type = txs[u].type
                    /\ txs'[u].transfer = txs[u].transfer
      BY <3>1, ZenonT(30) DEF AfterUpdate, row, SyncedLeg, TypeOK, TxRow
    <3>4. QED
      BY <2>3, <3>2, <3>3 DEF RowsKeepHistory, Live, Update
  <2>4. ASSUME NEW t \in TxId, Delete(t)
        PROVE  RowsKeepHistory
    BY <2>4 DEF Delete, DeletedWith, LegsOf, RowsKeepHistory, Live, TypeOK, TxRow
  <2>5. ASSUME NEW w \in WalletId, NEW n \in WalletName, NEW b \in Openings,
               CreateWallet(w, n, b)
        PROVE  RowsKeepHistory
    BY <2>5 DEF CreateWallet, RowsKeepHistory
  <2>6. ASSUME NEW w \in WalletId, NEW n \in WalletName \cup {Nil},
               NEW b \in Openings \cup {Nil}, NEW s \in {"active", "archived", Nil},
               UpdateWallet(w, n, b, s)
        PROVE  RowsKeepHistory
    BY <2>6 DEF UpdateWallet, RowsKeepHistory
  <2>7. ASSUME NEW w \in WalletId, DeleteWallet(w)
        PROVE  RowsKeepHistory
    BY <2>7 DEF DeleteWallet, RowsKeepHistory
  <2>8. QED
    BY <2>1, <2>2, <2>3, <2>4, <2>5, <2>6, <2>7 DEF Next, TxNext, WalletNext
<1>2. QED
  BY <1>1, TypeCorrect, TransfersStayPaired, PTL DEF Spec, HistoryIsFinal

-----------------------------------------------------------------------------
(***************************************************************************)
(* Refinement: the rows implement the book of transfers.                   *)
(***************************************************************************)

(* A transfer whose legs a step does not touch stays what it was. *)
LEMMA UntouchedTransfer ==
  ASSUME NEW x \in TransferId, LegsOf(x)' = LegsOf(x),
         \A t \in LegsOf(x) : txs'[t] = txs[t]
  PROVE  TransferOf(x)' = TransferOf(x)
<1> DEFINE legs == LegsOf(x)
<1>1. (\E t \in legs : Live(t))' <=> (\E t \in legs : Live(t))
  BY DEF Live
<1>2. {txs[t].wallet : t \in {u \in legs : txs[u].type = "transfer_out"}}'
        = {txs[t].wallet : t \in {u \in legs : txs[u].type = "transfer_out"}}
  OBVIOUS
<1>3. {txs[t].wallet : t \in {u \in legs : txs[u].type = "transfer_in"}}'
        = {txs[t].wallet : t \in {u \in legs : txs[u].type = "transfer_in"}}
  OBVIOUS
<1>4. {TermsOf(txs[t]) : t \in legs}' = {TermsOf(txs[t]) : t \in legs}
  BY DEF TermsOf
<1>5. QED
  BY <1>1, <1>2, <1>3, <1>4 DEF TransferOf

(* One transfer changes as the book allows and the others are untouched:   *)
(* that is a step of the book.                                             *)
LEMMA BookStep ==
  ASSUME NEW x \in TransferId,
         \A y \in TransferId \ {x} : TransferOf(y)' = TransferOf(y),
         LET old == TransferOf(x)
             new == TransferOf(x)'
         IN  \/ /\ old = Book!NotOpened /\ new.status = "open"
                /\ Book!Between(new) /\ Book!Agreed(new)
             \/ /\ old.status = "open" /\ new = [old EXCEPT !.terms = new.terms]
                /\ Book!Agreed(new)
             \/ old.status = "open" /\ new = [old EXCEPT !.status = "cancelled"]
  PROVE  Book!Next
BY DEF Book!Next, Book!Open, Book!Amend, Book!Cancel

(* transfer() opens a transfer. *)
LEMMA TransferOpens ==
  ASSUME TypeOK, TransfersPaired, NEW out \in TxId, NEW in \in TxId,
         NEW from \in WalletId, NEW to \in WalletId, NEW x \in TransferId,
         NEW a \in Amounts, NEW c \in Currency, NEW d \in Dates,
         Transfer(out, in, from, to, x, a, c, d)
  PROVE  Book!Next
<1>1. PICK r \in ResolvableRates(c) :
        txs' = [txs EXCEPT ![out] = Stored(NewRow("transfer_out", from, x, a, c, r, d)),
                           ![in] = Stored(NewRow("transfer_in", to, x, a, c, r, d))]
  BY DEF Transfer
<1>2. /\ txs'[out] = Stored(NewRow("transfer_out", from, x, a, c, r, d))
      /\ txs'[in] = Stored(NewRow("transfer_in", to, x, a, c, r, d))
      /\ \A u \in TxId \ {out, in} : txs'[u] = txs[u]
  BY <1>1 DEF TypeOK, Transfer
<1>3. txs[out].transfer = Nil /\ txs[in].transfer = Nil
  BY DEF Transfer, TransfersPaired, LegsAreMarked
<1>4. ASSUME NEW y \in TransferId \ {x}
      PROVE  TransferOf(y)' = TransferOf(y)
  <2>1. out \notin LegsOf(y) /\ in \notin LegsOf(y)
    BY <1>3, NilAssumption DEF LegsOf
  <2>2. LegsOf(y)' = LegsOf(y)
    BY <1>2, <1>3, NilAssumption, StoredNewRow DEF LegsOf
  <2>3. QED
    BY <1>2, <2>1, <2>2, UntouchedTransfer DEF LegsOf
<1>5. LegsOf(x) = {} /\ LegsOf(x)' = {out, in}
  <2>1. LegsOf(x) = {}
    BY DEF Transfer
  <2>2. txs'[out].transfer = x /\ txs'[in].transfer = x
    BY <1>2, StoredNewRow
  <2>3. \A u \in TxId : txs'[u].transfer = x <=> u \in {out, in}
    BY <1>2, <2>1, <2>2 DEF LegsOf
  <2>4. QED
    BY <2>1, <2>3 DEF LegsOf
<1>6. TransferOf(x) = Book!NotOpened
  BY <1>5 DEF TransferOf, Book!NotOpened
<1> DEFINE new == TransferOf(x)'
           terms == [amount |-> InColumn(a), currency |-> c, rate |-> InColumn(r),
                     base |-> InColumn(BaseAmount(a, c, r)), date |-> d]
<1>7. /\ new.status = "open"
      /\ new.from = {from}
      /\ new.to = {to}
      /\ new.terms = {terms}
  <2>1. \E t \in {out, in} : Live(t)'
    BY <1>2, StoredNewRow DEF Live
  <2>2. {txs'[t].wallet : t \in {u \in {out, in} : txs'[u].type = "transfer_out"}} = {from}
    BY <1>2, StoredNewRow
  <2>3. {txs'[t].wallet : t \in {u \in {out, in} : txs'[u].type = "transfer_in"}} = {to}
    BY <1>2, StoredNewRow
  <2>4. TermsOf(txs'[out]) = terms /\ TermsOf(txs'[in]) = terms
    BY <1>2, StoredNewRow DEF TermsOf
  <2>5. {TermsOf(txs'[t]) : t \in {out, in}} = {terms}
    BY <2>4
  <2>6. QED
    BY <1>5, <2>1, <2>2, <2>3, <2>5 DEF TransferOf
<1>8. terms \in Terms
  <2>1. r \in Nat /\ a \in Nat
    BY InputAssumption, ResolvableRatesType
  <2>2. InColumn(a) \in Nat /\ InColumn(r) \in Nat
    BY <2>1, WrittenReadsBack
  <2>3. InColumn(BaseAmount(a, c, r)) \in Int
    BY <2>1, BaseAmountType, InColumnNear, MoneyAssumption
  <2>4. QED
    BY <2>2, <2>3 DEF Terms
<1>9. Book!Between(new) /\ Book!Agreed(new)
  BY <1>7, <1>8 DEF Book!Between, Book!Agreed, Transfer
<1>10. QED
  BY <1>4, <1>6, <1>7, <1>9, BookStep

(* update() of a leg amends its transfer: what it writes to the row it     *)
(* also writes to the other leg.                                           *)
LEMMA UpdateAmends ==
  ASSUME TypeOK, TypeOK', TransfersPaired, NEW t \in TxId, NEW k \in {"income", "expense", Nil},
         NEW w \in WalletId \cup {Nil}, NEW a \in Amounts \cup {Nil},
         NEW c \in Currency \cup {Nil}, NEW d \in Dates \cup {Nil},
         Update(t, k, w, a, c, d)
  PROVE  Book!Next \/ \A x \in TransferId : TransferOf(x)' = TransferOf(x)
<1>1. PICK r : txs' = AfterUpdate(t, Stored(EditedRow(txs[t], Given(k, txs[t].type), w, a, c, d, r)))
  BY DEF Update
<1> DEFINE row == Stored(EditedRow(txs[t], Given(k, txs[t].type), w, a, c, d, r))
<1>2. /\ row.state = "live" /\ row.transfer = txs[t].transfer
      /\ IsLeg(row) <=> IsLeg(txs[t])
      /\ IsLeg(txs[t]) => row.type = txs[t].type /\ row.wallet = txs[t].wallet
  BY DEF EditedRow, Stored, Given, Update, TypeOK, TxRow, IsLeg, LegTypes, Live
<1> HIDE DEF row
<1>3. txs'[t] = row
  BY <1>1 DEF AfterUpdate, row
<1>4. \A u \in TxId : txs'[u].transfer = txs[u].transfer
  <2>1. \A u \in TxId : SyncedLeg(txs[u], row).transfer = txs[u].transfer
    BY DEF SyncedLeg, TypeOK, TxRow
  <2>2. QED
    BY <1>1, <1>2, <2>1 DEF AfterUpdate, row
<1>5. \A y \in TransferId : LegsOf(y)' = LegsOf(y)
  BY <1>4 DEF LegsOf
<1>6. ASSUME NEW y \in TransferId, y # txs[t].transfer \/ ~IsLeg(txs[t])
      PROVE  TransferOf(y)' = TransferOf(y)
  <2>1. t \notin LegsOf(y)
    BY <1>6, NilAssumption DEF LegsOf, TransfersPaired, LegsAreMarked
  <2>2. \A u \in LegsOf(y) : txs'[u] = txs[u]
    BY <1>1, <1>2, <1>6, <2>1 DEF AfterUpdate, row, LegsOf
  <2>3. QED
    BY <1>5, <2>2, UntouchedTransfer
<1>7. CASE ~IsLeg(txs[t])
  BY <1>6, <1>7
<1>8. CASE IsLeg(txs[t])
  <2>0. PICK x \in TransferId : x = txs[t].transfer
    BY <1>8 DEF TransfersPaired, LegsAreMarked, TypeOK, TxRow
  <2>1. t \in LegsOf(x)
    BY <2>0 DEF LegsOf
  <2>2. \A u \in LegsOf(x) : Live(u) /\ IsLeg(txs[u])
    BY <1>8, <2>0, NilAssumption
    DEF LegsOf, Live, Update, TransfersPaired, PartnersMirror, LegsAreMarked
  <2>3. \A u \in LegsOf(x) : u = t \/ txs'[u] = SyncedLeg(txs[u], row)
    BY <1>1, <1>2, <1>8, <2>0, <2>2 DEF AfterUpdate, row, LegsOf
  <2>4. ASSUME NEW u \in LegsOf(x)
        PROVE  /\ txs'[u].state = "live" /\ txs'[u].type = txs[u].type
               /\ txs'[u].wallet = txs[u].wallet
               /\ TermsOf(txs'[u]) = TermsOf(row)
    <3>1. CASE u = t
      BY <3>1, <1>2, <1>3, <1>8
    <3>2. CASE u # t
      BY <3>2, <2>2, <2>3, ZenonT(30) DEF SyncedLeg, TermsOf, TypeOK, TxRow, Live, LegsOf
    <3>3. QED
      BY <3>1, <3>2
  <2>5. TermsOf(row) \in Terms
    BY <1>3 DEF TypeOK, TxRow, TermsOf, Terms
  <2>6. TransferOf(x).status = "open" /\ TransferOf(x)'.status = "open"
    BY <1>5, <2>1, <2>2, <2>4 DEF TransferOf, Live
  <2>7. /\ TransferOf(x)'.from = TransferOf(x).from
        /\ TransferOf(x)'.to = TransferOf(x).to
    BY <1>5, <2>1, <2>4 DEF TransferOf
  <2>8. TransferOf(x)'.terms = {TermsOf(row)}
    <3>1. TransferOf(x)'.terms = {TermsOf(txs'[u]) : u \in LegsOf(x)}
      BY <1>5, <2>1 DEF TransferOf
    <3>2. QED
      BY <3>1, <2>1, <2>4
  <2>9. TransferOf(x)' = [TransferOf(x) EXCEPT !.terms = TransferOf(x)'.terms]
    BY <2>6, <2>7 DEF TransferOf
  <2>10. Book!Agreed(TransferOf(x)')
    BY <2>5, <2>8 DEF Book!Agreed
  <2>11. QED
    BY <1>6, <2>0, <2>6, <2>9, <2>10, BookStep
<1>9. QED
  BY <1>7, <1>8

(* delete() of a leg cancels its transfer. *)
LEMMA DeleteCancels ==
  ASSUME TypeOK, TransfersPaired, NEW t \in TxId, Delete(t)
  PROVE  Book!Next \/ \A x \in TransferId : TransferOf(x)' = TransferOf(x)
<1>1. \A u \in TxId : txs'[u] = IF u \in DeletedWith(t)
                                THEN [txs[u] EXCEPT !.state = "deleted"] ELSE txs[u]
  BY DEF Delete
<1>2. \A u \in TxId : /\ txs'[u].transfer = txs[u].transfer /\ txs'[u].type = txs[u].type
                      /\ txs'[u].wallet = txs[u].wallet
                      /\ TermsOf(txs'[u]) = TermsOf(txs[u])
  BY <1>1 DEF TypeOK, TxRow, TermsOf
<1>3. \A y \in TransferId : LegsOf(y)' = LegsOf(y)
  BY <1>2 DEF LegsOf
<1>4. ASSUME NEW y \in TransferId, y # txs[t].transfer \/ ~IsLeg(txs[t])
      PROVE  TransferOf(y)' = TransferOf(y)
  <2>1. t \notin LegsOf(y)
    BY <1>4, NilAssumption DEF LegsOf, TransfersPaired, LegsAreMarked
  <2>2. \A u \in LegsOf(y) : txs'[u] = txs[u]
    BY <1>1, <1>4, <2>1 DEF DeletedWith, LegsOf
  <2>3. QED
    BY <1>3, <2>2, UntouchedTransfer
<1>5. CASE ~IsLeg(txs[t])
  BY <1>4, <1>5
<1>6. CASE IsLeg(txs[t])
  <2>0. PICK x \in TransferId : x = txs[t].transfer
    BY <1>6 DEF TransfersPaired, LegsAreMarked, TypeOK, TxRow
  <2>1. t \in LegsOf(x)
    BY <2>0 DEF LegsOf
  <2>2. \A u \in LegsOf(x) : txs'[u].state = "deleted"
    <3>1. \A u \in LegsOf(x) : Live(u)
      BY <2>0, <1>6, NilAssumption DEF LegsOf, Live, Delete, TransfersPaired, PartnersMirror, LegsAreMarked
    <3>2. \A u \in LegsOf(x) : u \in DeletedWith(t)
      BY <1>6, <2>0, <3>1 DEF DeletedWith
    <3>3. QED
      BY <1>1, <3>2 DEF LegsOf, TypeOK, TxRow
  <2>3. TransferOf(x).status = "open" /\ TransferOf(x)'.status = "cancelled"
    BY <1>3, <2>1, <2>2 DEF TransferOf, Live, Delete
  <2>4. /\ TransferOf(x)'.from = TransferOf(x).from
        /\ TransferOf(x)'.to = TransferOf(x).to
        /\ TransferOf(x)'.terms = TransferOf(x).terms
    BY <1>2, <1>3, <2>1 DEF TransferOf, LegsOf
  <2>5. TransferOf(x)' = [TransferOf(x) EXCEPT !.status = "cancelled"]
    BY <2>3, <2>4 DEF TransferOf
  <2>6. QED
    BY <1>4, <2>0, <2>3, <2>5, BookStep
<1>7. QED
  BY <1>5, <1>6

(* The two-row representation implements the book of transfers. *)
THEOREM LedgerImplementsBook == Spec => ImplementsBook
<1> DEFINE book == [x \in TransferId |-> TransferOf(x)]
<1>1. Init => Book!Init
  <2> SUFFICES ASSUME Init
               PROVE  Book!Init
    OBVIOUS
  <2>1. \A x \in TransferId : LegsOf(x) = {}
    BY NilAssumption DEF Init, LegsOf
  <2>2. \A x \in TransferId : TransferOf(x) = Book!NotOpened
    BY <2>1 DEF TransferOf, Book!NotOpened
  <2>3. QED
    BY <2>2 DEF Book!Init
<1>2. TypeOK /\ TypeOK' /\ TransfersPaired /\ [Next]_vars => [Book!Next]_book
  <2> SUFFICES ASSUME TypeOK, TypeOK', TransfersPaired, [Next]_vars
               PROVE  Book!Next \/ \A x \in TransferId : TransferOf(x)' = TransferOf(x)
    OBVIOUS
  <2>0. UNCHANGED txs => \A x \in TransferId : TransferOf(x)' = TransferOf(x)
    BY UntouchedTransfer DEF LegsOf
  <2>1. ASSUME NEW t \in TxId, NEW type \in {"income", "expense"},
               NEW w \in WalletId \cup {Nil}, NEW a \in Amounts, NEW c \in Currency,
               NEW d \in Dates, Create(t, type, w, a, c, d)
        PROVE  Book!Next \/ \A x \in TransferId : TransferOf(x)' = TransferOf(x)
    <3>1. PICK r : txs' = [txs EXCEPT ![t] = Stored(NewRow(type, w, Nil, a, c, r, d))]
      BY <2>1 DEF Create
    <3>2. /\ txs'[t].transfer = Nil /\ txs[t].transfer = Nil
          /\ \A u \in TxId \ {t} : txs'[u] = txs[u]
      BY <2>1, <3>1, StoredNewRow DEF TypeOK, Create, TransfersPaired, LegsAreMarked
    <3>3. \A x \in TransferId : LegsOf(x)' = LegsOf(x) /\ \A u \in LegsOf(x) : txs'[u] = txs[u]
      BY <3>2, NilAssumption DEF LegsOf
    <3>4. QED
      BY <3>3, UntouchedTransfer
  <2>2. ASSUME NEW out \in TxId, NEW in \in TxId, NEW from \in WalletId, NEW to \in WalletId,
               NEW x \in TransferId, NEW a \in Amounts, NEW c \in Currency, NEW d \in Dates,
               Transfer(out, in, from, to, x, a, c, d)
        PROVE  Book!Next \/ \A y \in TransferId : TransferOf(y)' = TransferOf(y)
    BY <2>2, TransferOpens
  <2>3. ASSUME NEW t \in TxId, NEW k \in {"income", "expense", Nil},
               NEW w \in WalletId \cup {Nil}, NEW a \in Amounts \cup {Nil},
               NEW c \in Currency \cup {Nil}, NEW d \in Dates \cup {Nil},
               Update(t, k, w, a, c, d)
        PROVE  Book!Next \/ \A x \in TransferId : TransferOf(x)' = TransferOf(x)
    BY <2>3, UpdateAmends
  <2>4. ASSUME NEW t \in TxId, Delete(t)
        PROVE  Book!Next \/ \A x \in TransferId : TransferOf(x)' = TransferOf(x)
    BY <2>4, DeleteCancels
  <2>5. ASSUME NEW w \in WalletId, NEW n \in WalletName, NEW b \in Openings,
               CreateWallet(w, n, b)
        PROVE  Book!Next \/ \A x \in TransferId : TransferOf(x)' = TransferOf(x)
    BY <2>0, <2>5 DEF CreateWallet
  <2>6. ASSUME NEW w \in WalletId, NEW n \in WalletName \cup {Nil},
               NEW b \in Openings \cup {Nil}, NEW s \in {"active", "archived", Nil},
               UpdateWallet(w, n, b, s)
        PROVE  Book!Next \/ \A x \in TransferId : TransferOf(x)' = TransferOf(x)
    BY <2>0, <2>6 DEF UpdateWallet
  <2>7. ASSUME NEW w \in WalletId, DeleteWallet(w)
        PROVE  Book!Next \/ \A x \in TransferId : TransferOf(x)' = TransferOf(x)
    BY <2>0, <2>7 DEF DeleteWallet
  <2>8. CASE UNCHANGED vars
    BY <2>0, <2>8 DEF vars
  <2>9. QED
    BY <2>1, <2>2, <2>3, <2>4, <2>5, <2>6, <2>7, <2>8 DEF Next, TxNext, WalletNext
<1>3. QED
  BY <1>1, <1>2, TypeCorrect, TransfersStayPaired, PTL DEF Spec, ImplementsBook, Book!Spec
-----------------------------------------------------------------------------
(***************************************************************************)
(* Money.  The signed amounts of the rows are a function, so that sums of  *)
(* them can be taken apart by the lemmas of FoldProofs.                    *)
(***************************************************************************)
LiveLegs == {t \in TxId : Live(t) /\ IsLeg(txs[t])}
LiveOwn == {t \in TxId : Live(t) /\ ~IsLeg(txs[t])}
LiveIn(w) == {t \in TxId : Live(t) /\ txs[t].wallet = w}
There == {w \in WalletId : WalletExists(w)}

(* What a row adds to a balance is an integer. *)
LEMMA SignedType ==
  ASSUME TypeOK
  PROVE  \A t \in TxId : Signed[t] \in Int /\ Signed[t] = SignedBase(txs[t])
BY DEF TypeOK, TxRow, Signed, SignedBase

(* So is a sum over any rows. *)
LEMMA SumBaseType ==
  ASSUME TypeOK, NEW S \in SUBSET TxId
  PROVE  IsFiniteSet(S) /\ SumBase(S) \in Int
<1>1. IsFiniteSet(S)
  BY IdAssumption, FS_Subset
<1>2. \A t \in S : Signed[t] \in Int
  BY SignedType
<1> QED BY <1>1, <1>2, SumInt DEF SumBase

(* Two sets of rows that do not meet are summed apart. *)
LEMMA SumBaseUnion ==
  ASSUME TypeOK, NEW R \in SUBSET TxId, NEW S \in SUBSET TxId, R \cap S = {}
  PROVE  SumBase(R \cup S) = SumBase(R) + SumBase(S)
<1>1. IsFiniteSet(R) /\ IsFiniteSet(S)
  BY SumBaseType
<1>2. \A t \in R \cup S : Signed[t] \in Int
  BY SignedType
<1> QED BY <1>1, <1>2, SumUnion DEF SumBase

(* The other leg of a live leg is a live leg, it has the same amount with  *)
(* the opposite sign, and its other leg is the first.                      *)
LEMMA PartnerOfLeg ==
  ASSUME TypeOK, TransfersPaired, NEW t \in LiveLegs, NEW u \in TxId \ {t},
         txs[u].transfer = txs[t].transfer
  PROVE  /\ u \in LiveLegs
         /\ SignedBase(txs[u]) = -SignedBase(txs[t])
         /\ \A v \in TxId \ {u} : txs[v].transfer = txs[u].transfer => v = t
<1>1. t \in TxId /\ u \in TxId /\ u # t /\ IsLeg(txs[t]) /\ txs[t].transfer # Nil
  BY DEF LiveLegs, TransfersPaired, LegsAreMarked
<1>2. IsLeg(txs[u])
  BY <1>1 DEF TransfersPaired, LegsAreMarked
<1>3. txs[t].type # txs[u].type /\ txs[t].state = txs[u].state /\ txs[t].base = txs[u].base
  BY <1>1 DEF TransfersPaired, PartnersMirror
<1>4. u \in LiveLegs
  BY <1>1, <1>2, <1>3 DEF LiveLegs, Live
<1>5. txs[t].base \in Int
  BY <1>1 DEF TypeOK, TxRow
<1>6. SignedBase(txs[u]) = -SignedBase(txs[t])
  BY <1>1, <1>2, <1>3, <1>5 DEF SignedBase, IsLeg, LegTypes
<1>7. ASSUME NEW v \in TxId \ {u}, txs[v].transfer = txs[u].transfer, v # t
      PROVE  FALSE
  <2>1. txs[v].type # txs[t].type /\ txs[v].type # txs[u].type /\ IsLeg(txs[v])
    BY <1>1, <1>7 DEF TransfersPaired, PartnersMirror, LegsAreMarked
  <2> QED BY <1>1, <1>2, <1>3, <2>1 DEF IsLeg, LegTypes
<1> QED BY <1>4, <1>6, <1>7

(* The live legs cancel: what a transfer takes out it puts in.             *)
LEMMA LegsCancel ==
  ASSUME TypeOK, TransfersPaired
  PROVE  SumBase(LiveLegs) = 0
<1> DEFINE Other(t) == CHOOSE u \in TxId \ {t} : txs[u].transfer = txs[t].transfer
           other == [t \in LiveLegs |-> Other(t)]
           opposite == [t \in LiveLegs |-> -Signed[t]]
<1>1. LiveLegs \in SUBSET TxId /\ IsFiniteSet(LiveLegs) /\ SumBase(LiveLegs) \in Int
  BY SumBaseType DEF LiveLegs
<1>2. ASSUME NEW t \in LiveLegs
      PROVE  other[t] \in TxId \ {t} /\ txs[other[t]].transfer = txs[t].transfer
  <2>1. \E u \in TxId \ {t} : txs[u].transfer = txs[t].transfer
    BY DEF LiveLegs, TransfersPaired, LegsHavePartners
  <2>2. Other(t) \in TxId \ {t} /\ txs[Other(t)].transfer = txs[t].transfer
    BY <2>1
  <2> QED BY <2>2
<1> HIDE DEF other
<1>3. ASSUME NEW t \in LiveLegs
      PROVE  /\ other[t] \in LiveLegs
             /\ opposite[t] \in Int
             /\ opposite[t] = Signed[other[t]]
             /\ other[other[t]] = t
  <2>1. /\ other[t] \in LiveLegs
        /\ SignedBase(txs[other[t]]) = -SignedBase(txs[t])
        /\ \A v \in TxId \ {other[t]} : txs[v].transfer = txs[other[t]].transfer => v = t
    BY <1>2, PartnerOfLeg
  <2>2. other[other[t]] = t
    BY <1>2, <2>1
  <2> QED BY <1>1, <2>1, <2>2, SignedType
<1>4. /\ \A t, u \in LiveLegs : other[t] = other[u] => t = u
      /\ \A u \in LiveLegs : \E t \in LiveLegs : other[t] = u
  BY <1>3
<1>5. SumFunctionOnSet(opposite, LiveLegs) = SumFunctionOnSet(Signed, LiveLegs)
  <2> HIDE DEF opposite
  <2> QED BY <1>1, <1>3, <1>4, SumReindexed
<1>6. SumFunctionOnSet(opposite, LiveLegs) = -SumFunctionOnSet(Signed, LiveLegs)
  <2>1. \A t \in LiveLegs : Signed[t] \in Int /\ opposite[t] = -Signed[t]
    BY <1>1, SignedType
  <2> HIDE DEF opposite
  <2> QED BY <1>1, <2>1, SumNegates
<1> QED BY <1>1, <1>5, <1>6 DEF SumBase

(* Counted wallet by wallet, the rows come to those that are no legs.      *)
LEMMA SumByWallet ==
  ASSUME TypeOK, TransfersPaired, LiveRowsHaveWallets
  PROVE  SumFunctionOnSet([w \in There |-> SumBase(LiveIn(w))], There)
           = SumBase({t \in LiveOwn : txs[t].wallet # Nil})
<1> DEFINE named == {t \in TxId : Live(t) /\ txs[t].wallet # Nil}
           own == {t \in LiveOwn : txs[t].wallet # Nil}
           key == [t \in TxId |-> txs[t].wallet]
<1>1. IsFiniteSet(named) /\ IsFiniteSet(There) /\ \A t \in named : Signed[t] \in Int
  BY IdAssumption, FS_Subset, SignedType DEF There
<1>2. \A t \in named : key[t] \in There
  BY DEF LiveRowsHaveWallets, There, TypeOK, TxRow
<1>3. SumFunctionOnSet([w \in There |-> SumFunctionOnSet(Signed, {t \in named : key[t] = w})], There)
        = SumFunctionOnSet(Signed, named)
  <2> HIDE DEF named, key
  <2> QED BY <1>1, <1>2, SumGroups
<1>4. ASSUME NEW w \in There
      PROVE  {t \in named : key[t] = w} = LiveIn(w)
  BY NilAssumption DEF There, LiveIn
<1>5. [w \in There |-> SumFunctionOnSet(Signed, {t \in named : key[t] = w})]
        = [w \in There |-> SumBase(LiveIn(w))]
  <2> HIDE DEF named, key
  <2> QED BY <1>4 DEF SumBase
<1>6. named = LiveLegs \cup own /\ LiveLegs \cap own = {}
  BY DEF LiveLegs, LiveOwn, TransfersPaired, LegsAreMarked
<1>7. LiveLegs \in SUBSET TxId /\ own \in SUBSET TxId
  BY DEF LiveLegs, LiveOwn
<1> HIDE DEF named, own
<1>8. SumBase(named) = SumBase(own)
  BY <1>6, <1>7, SumBaseUnion, SumBaseType, LegsCancel
<1> QED BY <1>3, <1>5, <1>8 DEF SumBase, own

(* Transfers neither make nor lose money: an invariant of the rows that    *)
(* are paired and of the wallets that live rows name.                      *)
LEMMA WalletsAddUp ==
  ASSUME TypeOK, TransfersPaired, LiveRowsHaveWallets
  PROVE  TransfersNetToZero
<1> DEFINE held == [w \in There |-> Balance(w)]
           opened == [w \in There |-> wallets[w].opening]
           moved == [w \in There |-> SumBase(LiveIn(w))]
<1>1. IsFiniteSet(There)
  BY IdAssumption, FS_Subset DEF There
<1>2. ASSUME NEW w \in There
      PROVE  opened[w] \in Int /\ moved[w] \in Int /\ held[w] = opened[w] + moved[w]
  <2>1. LiveIn(w) \in SUBSET TxId /\ wallets[w].opening \in Int
    BY DEF LiveIn, There, TypeOK, WalletRow
  <2> QED BY <2>1, SumBaseType DEF Balance, LiveIn
<1>3. DOMAIN held = There /\ DOMAIN opened = There
  OBVIOUS
<1> HIDE DEF held, opened, moved
<1>4. SumFunctionOnSet(held, There) = SumFunctionOnSet(opened, There) + SumFunctionOnSet(moved, There)
  BY <1>1, <1>2, SumAdds
<1>5. SumFunctionOnSet(moved, There) = SumBase({t \in LiveOwn : txs[t].wallet # Nil})
  BY SumByWallet DEF moved
<1>6. {t \in LiveOwn : txs[t].wallet # Nil}
        = {t \in TxId : Live(t) /\ ~IsLeg(txs[t]) /\ txs[t].wallet # Nil}
  BY DEF LiveOwn
<1>7. SumFunction(held) = SumFunctionOnSet(held, There)
      /\ SumFunction(opened) = SumFunctionOnSet(opened, There)
  BY <1>3 DEF SumFunction
<1> QED BY <1>4, <1>5, <1>6, <1>7 DEF TransfersNetToZero, There, held, opened

(* The wallets together hold their initial balances plus what came in      *)
(* minus what went out, after any sequence of requests.                    *)
THEOREM MoneyIsKept == Spec => []TransfersNetToZero
BY WalletsAddUp, TypeCorrect, TransfersStayPaired, LiveRowsKeepWallets, PTL

-----------------------------------------------------------------------------
(***************************************************************************)
(* The views of Reports over the rows of Ledger.                           *)
(***************************************************************************)

(* Every row that was inserted has a date. *)
RowsHaveDates == \A t \in TxId : txs[t].state # "unused" => txs[t].date \in Dates

(* No request leaves a row without its date. *)
THEOREM DatesStay == Spec => []RowsHaveDates
<1>1. Init => RowsHaveDates
  BY DEF Init, RowsHaveDates
<1>2. TypeOK /\ RowsHaveDates /\ [Next]_vars => RowsHaveDates'
  <2> SUFFICES ASSUME TypeOK, RowsHaveDates, [Next]_vars
               PROVE  RowsHaveDates'
    OBVIOUS
  <2>1. ASSUME NEW t \in TxId, NEW type \in {"income", "expense"},
               NEW w \in WalletId \cup {Nil}, NEW a \in Amounts, NEW c \in Currency,
               NEW d \in Dates, Create(t, type, w, a, c, d)
        PROVE  RowsHaveDates'
    <3>1. PICK r \in ResolvableRates(c) :
            txs' = [txs EXCEPT ![t] = Stored(NewRow(type, w, Nil, a, c, r, d))]
      BY <2>1 DEF Create
    <3> QED BY <3>1, StoredNewRow DEF RowsHaveDates, TypeOK
  <2>2. ASSUME NEW out \in TxId, NEW in \in TxId, NEW from \in WalletId, NEW to \in WalletId,
               NEW x \in TransferId, NEW a \in Amounts, NEW c \in Currency, NEW d \in Dates,
               Transfer(out, in, from, to, x, a, c, d)
        PROVE  RowsHaveDates'
    <3>1. PICK r \in ResolvableRates(c) :
            txs' = [txs EXCEPT ![out] = Stored(NewRow("transfer_out", from, x, a, c, r, d)),
                               ![in] = Stored(NewRow("transfer_in", to, x, a, c, r, d))]
      BY <2>2 DEF Transfer
    <3> QED BY <3>1, StoredNewRow DEF RowsHaveDates, TypeOK
  <2>3. ASSUME NEW t \in TxId, NEW k \in {"income", "expense", Nil},
               NEW w \in WalletId \cup {Nil}, NEW a \in Amounts \cup {Nil},
               NEW c \in Currency \cup {Nil}, NEW d \in Dates \cup {Nil},
               Update(t, k, w, a, c, d)
        PROVE  RowsHaveDates'
    <3>1. PICK r \in ResolvableRates(Given(c, txs[t].currency)) :
            txs' = AfterUpdate(t, Stored(EditedRow(txs[t], Given(k, txs[t].type), w, a, c, d, r)))
      BY <2>3 DEF Update
    <3> DEFINE row == Stored(EditedRow(txs[t], Given(k, txs[t].type), w, a, c, d, r))
    <3>2. row.date \in Dates
      <4>1. txs[t] \in TxRow /\ txs[t].date \in Dates
        BY <2>3 DEF Update, RowsHaveDates, Live, TypeOK
      <4>2. row.date = Given(d, txs[t].date)
        BY <4>1 DEF EditedRow, Stored, TxRow
      <4> QED BY <4>1, <4>2 DEF Given
    <3> HIDE DEF row
    <3>3. ASSUME NEW u \in TxId
          PROVE  txs'[u] = txs[u] \/ txs'[u].date = row.date
      <4>1. txs'[u] \in {row, SyncedLeg(txs[u], row), txs[u]}
        BY <3>1 DEF AfterUpdate, row
      <4>2. SyncedLeg(txs[u], row).date = row.date
        BY DEF SyncedLeg, TypeOK, TxRow
      <4> QED BY <4>1, <4>2
    <3> QED BY <3>2, <3>3 DEF RowsHaveDates
  <2>4. ASSUME NEW t \in TxId, Delete(t)
        PROVE  RowsHaveDates'
    <3>1. ASSUME NEW u \in TxId
          PROVE  txs'[u].date = txs[u].date /\ (txs[u].state = "unused" => txs'[u] = txs[u])
      BY <2>4 DEF Delete, DeletedWith, Live, TypeOK, TxRow
    <3> QED BY <3>1 DEF RowsHaveDates
  <2>5. ASSUME WalletNext PROVE RowsHaveDates'
    BY <2>5 DEF WalletNext, CreateWallet, UpdateWallet, DeleteWallet, RowsHaveDates
  <2>6. CASE UNCHANGED vars
    BY <2>6 DEF vars, RowsHaveDates
  <2>7. QED
    BY <2>1, <2>2, <2>3, <2>4, <2>5, <2>6 DEF Next, TxNext
<1>3. QED
  BY <1>1, <1>2, TypeCorrect, PTL DEF Spec

(* The sums and listings of the views are those of FoldProofs. *)
LEMMA ViewsFold ==
  /\ \A f, S : Views!SumFunctionOnSet(f, S) = SumFunctionOnSet(f, S)
  /\ \A f : Views!SumFunction(f) = SumFunctionOnSet(f, DOMAIN f)
  /\ \A S, key : Views!Ordered(S, key) = Ordered(S, key)
<1>1. ASSUME NEW f, NEW S PROVE Views!SumFunctionOnSet(f, S) = SumFunctionOnSet(f, S)
  BY Zenon DEF Views!SumFunctionOnSet, Views!FoldFunctionOnSet, Views!MapThenFoldSet,
               SumFunctionOnSet, FoldFunctionOnSet, MapThenFoldSet
<1>2. ASSUME NEW f PROVE Views!SumFunction(f) = SumFunctionOnSet(f, DOMAIN f)
  BY <1>1, Zenon DEF Views!SumFunction
<1>3. ASSUME NEW S, NEW key PROVE Views!Ordered(S, key) = Ordered(S, key)
  BY Zenon DEF Views!Ordered, Views!FoldSet, Views!MapThenFoldSet, Views!Inserted,
               Views!Cardinality, Views!IsFiniteSet,
               Ordered, FoldSet, MapThenFoldSet, Inserted, Cardinality, IsFiniteSet
<1> QED BY <1>1, <1>2, <1>3

(* The base amounts of the rows, of either sign. *)
BaseOf == [t \in TxId |-> txs[t].base]

(* What the views read of the table. *)
LEMMA TableReads ==
  ASSUME TypeOK, NEW S
  PROVE  /\ DOMAIN Table(S) = TxId
         /\ Views!Own(Table(S)) = LiveOwn
         /\ \A R \in SUBSET TxId : Views!Total(Table(S), R) = SumFunctionOnSet(BaseOf, R)
         /\ \A R \in SUBSET TxId : Views!OfType(Table(S), R, "income") = {t \in R : txs[t].type = "income"}
         /\ \A t \in TxId : Table(S)[t].date = txs[t].date
         /\ \A t \in TxId : Table(S)[t].category = IF IsLeg(txs[t]) THEN "Transfer"
                                                 ELSE IF t \in S THEN "Savings" ELSE "Other"
<1>1. DOMAIN Table(S) = TxId
  BY DEF Table
<1>2. \A t \in TxId : /\ Table(S)[t].state = txs[t].state /\ Table(S)[t].type = txs[t].type
                      /\ Table(S)[t].base = txs[t].base /\ Table(S)[t].date = txs[t].date
                      /\ Table(S)[t].category = IF IsLeg(txs[t]) THEN "Transfer"
                                                ELSE IF t \in S THEN "Savings" ELSE "Other"
  BY DEF Table
<1>3. Views!Own(Table(S)) = LiveOwn
  BY <1>1, <1>2 DEF Views!Own, Views!Live, Views!TransferTypes, LiveOwn, Live, IsLeg, LegTypes
<1>4. ASSUME NEW R \in SUBSET TxId
      PROVE  Views!Total(Table(S), R) = SumFunctionOnSet(BaseOf, R)
  <2> DEFINE g == [t \in R |-> Table(S)[t].base]
  <2>1. IsFiniteSet(R)
    BY SumBaseType
  <2>2. DOMAIN g = R /\ \A t \in R : g[t] = BaseOf[t]
    BY <1>2 DEF BaseOf
  <2> HIDE DEF g
  <2>3. SumFunctionOnSet(g, R) = SumFunctionOnSet(BaseOf, R)
    BY <2>1, <2>2, SumAgree
  <2>4. Views!SumFunction(g) = SumFunctionOnSet(g, R)
    BY <2>2, ViewsFold
  <2>5. Views!Total(Table(S), R) = Views!SumFunction(g)
    BY DEF Views!Total, g
  <2> QED BY <2>3, <2>4, <2>5
<1> QED BY <1>1, <1>2, <1>3, <1>4 DEF Views!OfType

(* Income less expenses is the signed sum: of the rows in any part of the  *)
(* table that holds no legs.                                               *)
LEMMA IncomeLessExpenses ==
  ASSUME TypeOK, NEW R \in SUBSET LiveOwn
  PROVE  LET I == {t \in R : txs[t].type = "income"}
         IN  /\ SumFunctionOnSet(BaseOf, I) \in Int
             /\ SumFunctionOnSet(BaseOf, R \ I) \in Int
             /\ SumBase(R) = SumFunctionOnSet(BaseOf, I) - SumFunctionOnSet(BaseOf, R \ I)
             /\ SumBase(R) = 2 * SumFunctionOnSet(BaseOf, I) - SumFunctionOnSet(BaseOf, R)
<1> DEFINE I == {t \in R : txs[t].type = "income"}
           E == R \ I
<1>1. /\ R \in SUBSET TxId /\ I \in SUBSET TxId /\ E \in SUBSET TxId
      /\ R = I \cup E /\ I \cap E = {}
  BY DEF LiveOwn
<1>2. IsFiniteSet(I) /\ IsFiniteSet(E)
  BY <1>1, SumBaseType
<1>3. \A t \in TxId : BaseOf[t] \in Int
  BY DEF BaseOf, TypeOK, TxRow
<1>4. \A t \in I : Signed[t] = BaseOf[t]
  BY <1>1, SignedType DEF BaseOf, SignedBase
<1>5. \A t \in E : Signed[t] = -BaseOf[t]
  BY <1>1, SignedType DEF BaseOf, SignedBase, LiveOwn, IsLeg, LegTypes
<1> HIDE DEF I, E
<1>6. SumBase(I) = SumFunctionOnSet(BaseOf, I)
  BY <1>2, <1>4, SumAgree DEF SumBase
<1>7. SumBase(E) = -SumFunctionOnSet(BaseOf, E)
  BY <1>1, <1>2, <1>3, <1>5, SumNegates DEF SumBase
<1>8. SumFunctionOnSet(BaseOf, I) \in Int /\ SumFunctionOnSet(BaseOf, E) \in Int
  BY <1>1, <1>2, <1>3, SumInt
<1>9. SumBase(R) = SumBase(I) + SumBase(E)
  BY <1>1, SumBaseUnion
<1>10. SumFunctionOnSet(BaseOf, R) = SumFunctionOnSet(BaseOf, I) + SumFunctionOnSet(BaseOf, E)
  BY <1>1, <1>2, <1>3, SumUnion
<1> QED BY <1>6, <1>7, <1>8, <1>9, <1>10 DEF I, E

(* Counted wallet by wallet or row by row, it is the same money.           *)
LEMMA WorthOfRows ==
  ASSUME TypeOK, TransfersPaired, LiveRowsHaveWallets
  PROVE  Worth = SumBase(LiveOwn)
<1> DEFINE gained == [w \in There |-> Balance(w) - wallets[w].opening]
           moved == [w \in There |-> SumBase(LiveIn(w))]
           named == {t \in LiveOwn : txs[t].wallet # Nil}
           loose == {t \in TxId : Live(t) /\ txs[t].wallet = Nil}
<1>1. IsFiniteSet(There)
  BY IdAssumption, FS_Subset DEF There
<1>2. ASSUME NEW w \in There
      PROVE  gained[w] = moved[w]
  <2>1. LiveIn(w) \in SUBSET TxId /\ wallets[w].opening \in Int
    BY DEF LiveIn, There, TypeOK, WalletRow
  <2> QED BY <2>1, SumBaseType DEF Balance, LiveIn
<1>3. DOMAIN gained = There
  OBVIOUS
<1> HIDE DEF gained, moved
<1>4. SumFunctionOnSet(gained, There) = SumFunctionOnSet(moved, There)
  BY <1>1, <1>2, SumAgree
<1>5. SumFunctionOnSet(moved, There) = SumBase(named)
  BY SumByWallet DEF moved
<1>6. LiveOwn = named \cup loose /\ named \cap loose = {}
      /\ named \in SUBSET TxId /\ loose \in SUBSET TxId
  BY DEF LiveOwn, TransfersPaired, LegsAreMarked
<1>7. SumBase(LiveOwn) = SumBase(named) + SumBase(loose)
  <2> HIDE DEF named, loose
  <2> QED BY <1>6, SumBaseUnion
<1>8. SumFunction(gained) = SumFunctionOnSet(gained, There)
  BY <1>3 DEF SumFunction
<1> QED BY <1>4, <1>5, <1>7, <1>8 DEF Worth, gained, There

(* The names of the savings categories: Transfer may be one of them. *)
SavingsNames == {{"Savings"}, {"Savings", "Transfer"}}

(* The dashboard, without the savings S. *)
LEMMA DashboardOfRows ==
  ASSUME TypeOK, NEW S \in SUBSET LiveOwn, NEW savings \in SavingsNames
  PROVE  LET all == Views!TotalsByType(Table(S), Nil, savings)
         IN  all.income - all.expenses = SumBase(LiveOwn \ S)
<1> DEFINE R == LiveOwn \ S
           I == {t \in R : txs[t].type = "income"}
<1>1. Views!Without(Table(S), Views!Own(Table(S)), savings) = R
  BY TableReads DEF Views!Without, LiveOwn, SavingsNames
<1>2. R \in SUBSET LiveOwn /\ R \in SUBSET TxId /\ I \in SUBSET TxId /\ R \ I \in SUBSET TxId
  BY DEF LiveOwn
<1>3. Views!OfType(Table(S), R, "income") = I
  BY <1>2, TableReads
<1> HIDE DEF R, I
<1>4. Views!TotalsByType(Table(S), Nil, savings)
        = [income |-> Views!Total(Table(S), I), expenses |-> Views!Total(Table(S), R \ I)]
  BY <1>1, <1>3 DEF Views!TotalsByType
<1>5. /\ Views!Total(Table(S), I) = SumFunctionOnSet(BaseOf, I)
      /\ Views!Total(Table(S), R \ I) = SumFunctionOnSet(BaseOf, R \ I)
  BY <1>2, TableReads
<1>6. SumBase(R) = SumFunctionOnSet(BaseOf, I) - SumFunctionOnSet(BaseOf, R \ I)
  BY <1>2, IncomeLessExpenses DEF I
<1> QED BY <1>4, <1>5, <1>6 DEF R

(* The trend ends with all rows that are no legs.                          *)
LEMMA TrendOfRows ==
  ASSUME TypeOK, RowsHaveDates, NEW S
  PROVE  LastWorth(Views!NetWorthTrend(Table(S))) = Views!Rounded(SumBase(LiveOwn))
<1> DEFINE T == Table(S)
           month == [t \in LiveOwn |-> Views!Month(txs[t].date)]
           M == {Views!Month(T[t].date) : t \in Views!Own(T)}
           months == Views!Ascending(M)
           n == Len(months)
           Of(m) == Views!InMonth(T, Views!Own(T), m)
           net == [m \in M |-> SumBase(Of(m))]
           Net(i) == Views!MonthlyNet(T)[i].net
           nets == [i \in 1..n |-> Net(i)]
<1>1. LiveOwn \in SUBSET TxId /\ IsFiniteSet(LiveOwn) /\ \A t \in LiveOwn : txs[t].date \in Int
  BY SumBaseType, ReportsAssumption DEF LiveOwn, RowsHaveDates, Live
<1>2. M = Range(month) /\ IsFiniteSet(M) /\ M \subseteq Int
  <2>1. M = Range(month)
    BY <1>1, TableReads DEF Range
  <2>2. month \in [LiveOwn -> Int]
    BY <1>1, ReportsAssumption DEF Views!Month
  <2>3. month \in Surjection(LiveOwn, Range(month)) /\ Range(month) \subseteq Int
    <3> HIDE DEF month
    <3> QED BY <2>2, Fun_RangeProperties
  <2>4. IsFiniteSet(Range(month))
    <3> HIDE DEF month
    <3> QED BY <1>1, <2>3, FS_Surjection
  <2> HIDE DEF M
  <2> QED BY <2>1, <2>3, <2>4
<1>3. ASSUME NEW m \in M
      PROVE  Of(m) = {t \in LiveOwn : month[t] = m}
  <2>1. ASSUME NEW t \in LiveOwn
        PROVE  Views!Month(txs[t].date) = m <=>
                 (m * MonthLength <= txs[t].date /\ txs[t].date < (m + 1) * MonthLength)
    BY <1>1, <1>2, ReportsAssumption, DivBounds DEF Views!Month
  <2>2. Of(m) = {t \in LiveOwn : m * MonthLength <= txs[t].date /\ txs[t].date < (m + 1) * MonthLength}
    BY <1>1, TableReads DEF Views!InMonth
  <2> HIDE DEF Of, M
  <2> QED BY <2>1, <2>2
<1>4. SumFunctionOnSet(net, M) = SumBase(LiveOwn)
  <2>1. \A t \in LiveOwn : Signed[t] \in Int /\ month[t] \in M
    BY <1>1, SignedType, TableReads
  <2>2. SumFunctionOnSet([m \in M |-> SumFunctionOnSet(Signed, {t \in LiveOwn : month[t] = m})], M)
          = SumFunctionOnSet(Signed, LiveOwn)
    <3> HIDE DEF M, month
    <3> QED BY <1>1, <1>2, <2>1, SumGroups
  <2>3. \A m \in M : net[m] = SumFunctionOnSet(Signed, {t \in LiveOwn : month[t] = m})
    <3> HIDE DEF M, month, Of
    <3> QED BY <1>3 DEF SumBase
  <2>4. net = [m \in M |-> SumFunctionOnSet(Signed, {t \in LiveOwn : month[t] = m})]
    <3> HIDE DEF M, month, Of
    <3> QED BY <2>3
  <2> HIDE DEF net
  <2> QED BY <2>2, <2>4 DEF SumBase
<1>5. Lists(months, M)
  <2> HIDE DEF M
  <2>1. Lists(Ordered(M, [x \in M |-> x]), M)
    BY <1>2, OrderedLists
  <2>2. months = Ordered(M, [x \in M |-> x])
    BY ViewsFold DEF Views!Ascending
  <2> QED BY <2>1, <2>2
<1>6. n \in Nat /\ DOMAIN months = 1..n /\ \A i \in 1..n : months[i] \in M
  <2> HIDE DEF months, M
  <2> QED BY <1>5 DEF Lists
<1>7. /\ DOMAIN Views!MonthlyNet(T) = 1..n
      /\ \A i \in 1..n : Net(i) = SumBase(Of(months[i])) /\ Net(i) \in Int
  <2> DEFINE In(m) == Views!OfType(T, Of(m), "income")
             entry(i) == [month |-> months[i],
                          net |-> 2 * Views!Total(T, In(months[i])) - Views!Total(T, Of(months[i]))]
  <2>1. Views!MonthlyNet(T) = [i \in DOMAIN months |-> entry(i)]
    BY DEF Views!MonthlyNet
  <2>2. ASSUME NEW m \in M
        PROVE  /\ 2 * Views!Total(T, In(m)) - Views!Total(T, Of(m)) = SumBase(Of(m))
               /\ SumBase(Of(m)) \in Int
    <3>1. Of(m) \in SUBSET LiveOwn
      BY <1>3
    <3> DEFINE R == Of(m)
               I == {t \in R : txs[t].type = "income"}
    <3> HIDE DEF Of, M, T
    <3>2. R \in SUBSET TxId /\ I \in SUBSET TxId
      BY <1>1, <3>1
    <3>3. In(m) = I
      BY <3>2, TableReads DEF T
    <3>4. SumBase(R) = 2 * SumFunctionOnSet(BaseOf, I) - SumFunctionOnSet(BaseOf, R)
      BY <3>1, IncomeLessExpenses
    <3>5. Views!Total(T, I) = SumFunctionOnSet(BaseOf, I)
          /\ Views!Total(T, R) = SumFunctionOnSet(BaseOf, R)
      BY <3>2, TableReads DEF T
    <3>6. SumBase(R) \in Int
      BY <3>2, SumBaseType
    <3> HIDE DEF I
    <3> QED BY <3>3, <3>4, <3>5, <3>6
  <2> HIDE DEF In, Of, months, n, M, T
  <2>3. \A i \in 1..n : Views!MonthlyNet(T)[i].net
                         = 2 * Views!Total(T, In(months[i])) - Views!Total(T, Of(months[i]))
    BY <1>6, <2>1
  <2> QED BY <1>6, <2>1, <2>2, <2>3
<1>8. SumFunctionOnSet(nets, 1..n) = SumFunctionOnSet(net, M)
  <2>1. \A i \in 1..n : nets[i] \in Int /\ nets[i] = net[months[i]]
    <3> HIDE DEF Net, Of, months, n, M
    <3> QED BY <1>6, <1>7
  <2>2. SumFunctionOnSet(nets, 1..Len(months)) = SumFunctionOnSet(net, M)
    <3> HIDE DEF nets, net, months, M
    <3> QED BY <1>2, <1>5, <2>1, SumListed
  <2> QED BY <2>2
<1> DEFINE trend == Views!NetWorthTrend(T)
           worth(i) == Views!Rounded(Views!SumFunction([j \in 1..i |-> Net(j)]))
<1>9. trend = [i \in 1..n |-> [month |-> Views!MonthlyNet(T)[i].month, net_worth |-> worth(i)]]
  <2> HIDE DEF n, T
  <2> QED BY <1>7 DEF Views!NetWorthTrend
<1>10. Len(trend) = n /\ (trend = <<>> <=> n = 0)
  <2>1. trend = [i \in 1..n |-> trend[i]]
    <3> HIDE DEF worth, n, T
    <3> QED BY <1>9
  <2> HIDE DEF trend, n
  <2> QED BY <1>6, <2>1, LengthOfListing
<1>11. CASE n = 0
  <2>1. M = {}
    <3> HIDE DEF M, months
    <3> QED BY <1>5, <1>11 DEF Lists
  <2>2. SumFunctionOnSet(net, M) = 0
    <3> HIDE DEF net, M
    <3> QED BY <2>1, SumEmpty
  <2>3. SumBase(LiveOwn) = 0
    BY <1>4, <2>2
  <2>4. Views!Rounded(0) = 0
    <3>1. 0 \div CentSize = 0 /\ 0 % CentSize = 0 /\ CentSize \in Nat /\ CentSize > 0
      BY ReportsAssumption
    <3> QED BY <3>1 DEF Views!Rounded
  <2> HIDE DEF trend, n
  <2> QED BY <1>10, <1>11, <2>3, <2>4 DEF LastWorth, trend
<1>12. CASE n # 0
  <2>1. n \in 1..n
    BY <1>6, <1>12
  <2>2. worth(n) = Views!Rounded(SumBase(LiveOwn))
    <3>1. Views!SumFunction(nets) = SumFunctionOnSet(nets, 1..n)
      <4>1. DOMAIN nets = 1..n
        OBVIOUS
      <4> HIDE DEF nets, n
      <4> QED BY <4>1, ViewsFold
    <3>2. worth(n) = Views!Rounded(Views!SumFunction(nets))
      OBVIOUS
    <3> HIDE DEF worth, nets, n, net, M
    <3> QED BY <1>4, <1>8, <3>1, <3>2
  <2>3. trend[n].net_worth = worth(n)
    <3> HIDE DEF worth, n, T
    <3> QED BY <1>9, <2>1
  <2> HIDE DEF trend, n, worth
  <2> QED BY <1>10, <1>12, <2>2, <2>3 DEF LastWorth, trend
<1> QED BY <1>11, <1>12

(* What the legs carry is twice what the transfers moved. *)
LEMMA LegsCarryTwice ==
  ASSUME TypeOK, TransfersPaired
  PROVE  SumFunctionOnSet(BaseOf, LiveLegs) = 2 * Moved
<1> DEFINE In == {t \in TxId : Live(t) /\ txs[t].type = "transfer_in"}
           Out == {t \in TxId : Live(t) /\ txs[t].type = "transfer_out"}
<1>1. /\ In \in SUBSET TxId /\ Out \in SUBSET TxId
      /\ LiveLegs = In \cup Out /\ In \cap Out = {}
  BY DEF LiveLegs, IsLeg, LegTypes
<1>2. IsFiniteSet(In) /\ IsFiniteSet(Out)
  BY <1>1, SumBaseType
<1>3. \A t \in TxId : BaseOf[t] \in Int
  BY DEF BaseOf, TypeOK, TxRow
<1>4. \A t \in In : Signed[t] = BaseOf[t]
  BY <1>1, SignedType DEF BaseOf, SignedBase
<1>5. \A t \in Out : Signed[t] = -BaseOf[t]
  BY <1>1, SignedType DEF BaseOf, SignedBase
<1>6. Moved = SumBase(In)
  BY DEF Moved
<1> HIDE DEF In, Out
<1>7. SumBase(In) = SumFunctionOnSet(BaseOf, In)
  BY <1>2, <1>4, SumAgree DEF SumBase
<1>8. SumBase(Out) = -SumFunctionOnSet(BaseOf, Out)
  BY <1>1, <1>2, <1>3, <1>5, SumNegates DEF SumBase
<1>9. SumFunctionOnSet(BaseOf, In) \in Int /\ SumFunctionOnSet(BaseOf, Out) \in Int
  BY <1>1, <1>2, <1>3, SumInt
<1>10. SumBase(In) + SumBase(Out) = 0
  BY <1>1, SumBaseUnion, LegsCancel
<1>11. SumFunctionOnSet(BaseOf, LiveLegs)
         = SumFunctionOnSet(BaseOf, In) + SumFunctionOnSet(BaseOf, Out)
  BY <1>1, <1>2, <1>3, SumUnion
<1> QED BY <1>6, <1>7, <1>8, <1>9, <1>10, <1>11

(* The savings, which the dashboard shows unsigned, and the transfers if   *)
(* their category is one of them.                                          *)
LEMMA SavingsOfRows ==
  ASSUME TypeOK, TransfersPaired, NEW S \in SUBSET LiveOwn, \A t \in S : txs[t].type = "expense",
         NEW savings \in SavingsNames
  PROVE  Views!SumByCategories(Table(S), savings)
           = (IF "Transfer" \in savings THEN 2 * Moved ELSE 0) - SumBase(S)
<1> DEFINE L == IF "Transfer" \in savings THEN LiveLegs ELSE {}
<1>1. /\ S \in SUBSET TxId /\ IsFiniteSet(S)
      /\ L \in SUBSET TxId /\ IsFiniteSet(L) /\ S \cap L = {}
  <2>1. S \in SUBSET TxId /\ L \in SUBSET TxId /\ S \cap L = {}
    BY DEF LiveOwn, LiveLegs
  <2> QED BY <2>1, SumBaseType
<1>2. {t \in Views!Live(Table(S)) : Table(S)[t].category \in savings} = S \cup L
  <2>1. Views!Live(Table(S)) = LiveOwn \cup LiveLegs
    BY TableReads DEF Views!Live, LiveOwn, LiveLegs, Live, Table
  <2>2. \A t \in LiveOwn : Table(S)[t].category \in savings <=> t \in S
    BY TableReads DEF LiveOwn, SavingsNames
  <2>3. \A t \in LiveLegs : Table(S)[t].category \in savings <=> t \in L
    BY TableReads DEF LiveLegs, SavingsNames
  <2>4. L \subseteq LiveLegs /\ LiveOwn \cap LiveLegs = {}
    BY DEF LiveOwn, LiveLegs
  <2> HIDE DEF L
  <2> QED BY <2>1, <2>2, <2>3, <2>4
<1>3. \A t \in TxId : BaseOf[t] \in Int
  BY DEF BaseOf, TypeOK, TxRow
<1>4. \A t \in S : Signed[t] = -BaseOf[t]
  BY <1>1, SignedType DEF BaseOf, SignedBase, TypeOK, TxRow
<1>5. SumFunctionOnSet(BaseOf, L) = IF "Transfer" \in savings THEN 2 * Moved ELSE 0
  BY LegsCarryTwice, SumEmpty
<1> HIDE DEF L
<1>6. Views!SumByCategories(Table(S), savings) = SumFunctionOnSet(BaseOf, S \cup L)
  <2>1. S \cup L \in SUBSET TxId
    BY <1>1
  <2>2. Views!SumByCategories(Table(S), savings) = Views!Total(Table(S), S \cup L)
    BY <1>2 DEF Views!SumByCategories
  <2> QED BY <2>1, <2>2, TableReads
<1>7. SumFunctionOnSet(BaseOf, S \cup L) = SumFunctionOnSet(BaseOf, S) + SumFunctionOnSet(BaseOf, L)
  BY <1>1, <1>3, SumUnion
<1>8. SumFunctionOnSet(Signed, S) = -SumFunctionOnSet(BaseOf, S)
  BY <1>1, <1>3, <1>4, SumNegates
<1>9. SumFunctionOnSet(BaseOf, S) \in Int /\ SumFunctionOnSet(BaseOf, L) \in Int
  BY <1>1, <1>3, SumInt
<1> QED BY <1>5, <1>6, <1>7, <1>8, <1>9 DEF SumBase

(* The net worth trend, the dashboard and what agents are told agree with  *)
(* the wallets, whichever rows are savings, and whichever type the         *)
(* category has that the legs of transfers are filed under.                *)
THEOREM ReportsStayMatched == Spec => []ReportsMatchWallets
<1>1. TypeOK /\ TransfersPaired /\ LiveRowsHaveWallets /\ RowsHaveDates => ReportsMatchWallets
  <2> SUFFICES ASSUME TypeOK, TransfersPaired, LiveRowsHaveWallets, RowsHaveDates,
                      NEW S \in SUBSET {t \in TxId : Live(t) /\ ~IsLeg(txs[t])},
                      NEW savings \in {{"Savings"}, {"Savings", "Transfer"}}
               PROVE  LET T == Table(S)
                          dashboard == Views!Dashboard(T, savings, 0)
                          counted == IF "Transfer" \in savings THEN 2 * Moved ELSE 0
                      IN  /\ LastWorth(Views!NetWorthTrend(T)) = Views!Rounded(Worth)
                          /\ dashboard.balance + SumBase(S) = Worth
                          /\ (\A t \in S : txs[t].type = "expense") =>
                               dashboard.total_savings = counted - SumBase(S)
                          /\ Views!McpBalance(T, savings) = dashboard.balance
                          /\ Views!McpNetWorth(T, savings).net_worth = dashboard.balance
    BY Zenon DEF ReportsMatchWallets
  <2> DEFINE T == Table(S)
             all == Views!TotalsByType(T, Nil, savings)
             dashboard == Views!Dashboard(T, savings, 0)
             counted == IF "Transfer" \in savings THEN 2 * Moved ELSE 0
  <2>1. S \in SUBSET LiveOwn /\ savings \in SavingsNames
    BY DEF LiveOwn, SavingsNames
  <2>2. Worth = SumBase(LiveOwn)
    BY WorthOfRows
  <2>3. LastWorth(Views!NetWorthTrend(T)) = Views!Rounded(Worth)
    BY <2>2, TrendOfRows
  <2>4. all.income - all.expenses = SumBase(LiveOwn \ S)
    BY <2>1, DashboardOfRows
  <2>5. /\ dashboard.balance = all.income - all.expenses
        /\ dashboard.total_savings = Views!SumByCategories(T, savings)
        /\ Views!McpBalance(T, savings) = all.income - all.expenses
        /\ Views!McpNetWorth(T, savings).net_worth = all.income - all.expenses
    <3> HIDE DEF T
    <3> QED BY DEF Views!Dashboard, Views!McpBalance, Views!McpNetWorth
  <2>6. SumBase(LiveOwn \ S) + SumBase(S) = SumBase(LiveOwn)
    <3>1. LiveOwn \ S \in SUBSET TxId /\ S \in SUBSET TxId /\ (LiveOwn \ S) \cap S = {}
          /\ LiveOwn = (LiveOwn \ S) \cup S
      BY <2>1 DEF LiveOwn
    <3> QED BY <3>1, SumBaseUnion
  <2>7. (\A t \in S : txs[t].type = "expense") =>
          Views!SumByCategories(T, savings) = counted - SumBase(S)
    BY <2>1, SavingsOfRows
  <2> HIDE DEF T, all, dashboard, counted
  <2> QED BY <2>2, <2>3, <2>4, <2>5, <2>6, <2>7 DEF T, dashboard, counted
<1> QED
  BY <1>1, TypeCorrect, TransfersStayPaired, LiveRowsKeepWallets, DatesStay, PTL
=============================================================================
