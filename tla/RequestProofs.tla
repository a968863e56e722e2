---------------------------- MODULE RequestProofs ----------------------------
(***************************************************************************)
(* LedgerRequests for any number of threads, rows, wallets and transfers.  *)
(* What a thread has read may be stale in every column but those that make *)
(* a row a leg; the invariant says what nevertheless holds of what it has  *)
(* in its hands.                                                           *)
(***************************************************************************)
EXTENDS LedgerRequests, LedgerProofs

Used(t) == txs[t].state # "unused"

(* Two rows agree on what makes a row a leg. *)
SameKind(new, old) ==
  /\ IsLeg(new) <=> IsLeg(old)
  /\ IsLeg(old) => new.type = old.type /\ new.wallet = old.wallet

(* An UPDATE of these columns leaves a leg a leg and makes none. *)
KindKept(changes, old) ==
  IF IsLeg(old) THEN "type" \notin DOMAIN changes /\ "wallet" \notin DOMAIN changes
  ELSE "type" \in DOMAIN changes => changes["type"] \notin LegTypes

IsOwn(row) == row \in TxRow /\ row.state = "live" /\ ~IsLeg(row) /\ row.transfer = Nil

(* The two legs of a transfer of which there are no rows yet. *)
IsPair(out, in) ==
  /\ out \in TxRow /\ in \in TxRow /\ out.state = "live" /\ in.state = "live"
  /\ out.type = "transfer_out" /\ in.type = "transfer_in"
  /\ out.wallet # Nil /\ in.wallet # Nil /\ out.wallet # in.wallet
  /\ out.transfer # Nil /\ in.transfer = out.transfer
  /\ LegsOf(out.transfer) = {}

Insertable(rows) ==
  \/ Len(rows) = 1 /\ IsOwn(rows[1])
  \/ Len(rows) = 2 /\ IsPair(rows[1], rows[2])

(* Whoever is in S is there with the other legs of his transfer. *)
Whole(S) ==
  \A u \in S : Used(u) /\ \A v \in TxId :
    txs[v].transfer = txs[u].transfer /\ txs[u].transfer # Nil => v \in S

RequestOK(r) ==
  /\ r.pc = "insert" => Insertable(r.rows)
  /\ r.pc \notin {"idle", "insert"} => r.tx \in TxId /\ Used(r.tx)
  /\ r.pc = "select" =>
       Len(r.rows) = 1 /\ r.rows[1] \in TxRow /\ SameKind(r.rows[1], txs[r.tx])
  /\ r.pc = "legs" => Len(r.rows) = 1 /\ r.rows[1] \in TxRow /\ r.rows[1].transfer # Nil
  /\ r.pc \in {"flush", "flushLeg"} => KindKept(r.changes, txs[r.tx])
  /\ r.pc = "flushLeg" => IsLeg(txs[r.tx])
  /\ r.pc = "flushMark" => r.tx \in r.victims /\ Whole(r.victims)

(* Two requests about to insert have not drawn the same transfer_id. *)
Apart ==
  \A p, q \in Req :
    p # q /\ req[p].pc = "insert" /\ req[q].pc = "insert" =>
      req[p].rows[1].transfer = Nil \/ req[p].rows[1].transfer # req[q].rows[1].transfer

OverlapInv ==
  RequestTypeOK /\ PairsSurviveOverlap /\ (\A q \in Req : RequestOK(req[q])) /\ Apart

-----------------------------------------------------------------------------
(***************************************************************************)
(* What the steps of the other threads leave of a request.                 *)
(***************************************************************************)
RowsFixed ==
  \A t \in TxId : Used(t) =>
    /\ txs'[t].state # "unused" /\ txs'[t].transfer = txs[t].transfer
    /\ SameKind(txs'[t], txs[t])

(* No row comes back, and a live row has the wallet it had, or one that    *)
(* the foreign key has found.                                              *)
LawfulWrite ==
  \A t \in TxId :
    /\ txs[t].state = "deleted" => txs'[t].state = "deleted"
    /\ txs'[t].state = "live" /\ txs'[t].wallet # Nil =>
         \/ txs[t].state = "live" /\ txs'[t].wallet = txs[t].wallet
         \/ ForeignKeys => WalletExists(txs'[t].wallet)

(* A thread at rest.                                                       *)
LEMMA IdleRequest == IsRequest(Idle) /\ RequestOK(Idle) /\ Idle.pc = "idle"
<1>1. DOMAIN <<>> = {} /\ <<>> \in Seq(TxRow)
  OBVIOUS
<1>2. QED
  BY <1>1 DEF IsRequest, Idle, RequestOK, Steps

(* What a request has in its hands stays good while used rows keep what    *)
(* makes them legs, and transfers their legs.                              *)
LEMMA RequestStays ==
  ASSUME RequestTypeOK, TypeOK', LegsAreMarked, RowsFixed, NEW q \in Req, RequestOK(req[q]),
         req'[q] = req[q],
         \A t \in TxId : txs'[t].transfer = txs[t].transfer \/ LegsOf(txs'[t].transfer) = {},
         req[q].pc = "insert" =>
           \A t \in TxId : txs'[t].transfer = req[q].rows[1].transfer =>
             txs'[t].transfer = Nil \/ txs[t].transfer = txs'[t].transfer
  PROVE  RequestOK(req[q])'
<1> DEFINE r == req[q]
<1>0. IsRequest(r) /\ TypeOK
  BY DEF RequestTypeOK
<1>1. r.pc = "insert" => Insertable(r.rows)'
  <2>1. ASSUME r.pc = "insert", Len(r.rows) = 2, IsPair(r.rows[1], r.rows[2])
        PROVE  IsPair(r.rows[1], r.rows[2])'
    <3>1. LegsOf(r.rows[1].transfer)' = {}
      BY <2>1 DEF LegsOf, IsPair
    <3>2. QED
      BY <2>1, <3>1 DEF IsPair
  <2>2. QED
    BY <2>1 DEF RequestOK, Insertable, IsOwn
<1>2. r.pc \notin {"idle", "insert"} => r.tx \in TxId /\ Used(r.tx)'
  BY DEF RequestOK, RowsFixed, Used
<1>3. r.pc = "select" =>
        Len(r.rows) = 1 /\ r.rows[1] \in TxRow /\ SameKind(r.rows[1], txs'[r.tx])
  BY DEF RequestOK, RowsFixed, SameKind
<1>4. /\ r.pc \in {"flush", "flushLeg"} => KindKept(r.changes, txs'[r.tx])
      /\ r.pc = "flushLeg" => IsLeg(txs'[r.tx])
  BY DEF RequestOK, RowsFixed, SameKind, KindKept
<1>5. r.pc = "flushMark" => r.tx \in r.victims /\ Whole(r.victims)'
  <2> SUFFICES ASSUME r.pc = "flushMark", NEW u \in r.victims
               PROVE  /\ txs'[u].state # "unused"
                      /\ \A v \in TxId :
                           txs'[v].transfer = txs'[u].transfer /\ txs'[u].transfer # Nil =>
                             v \in r.victims
    BY DEF RequestOK, Whole, Used
  <2>1. u \in TxId /\ Used(u) /\ txs'[u].transfer = txs[u].transfer /\ txs'[u].state # "unused"
    BY <1>0 DEF RequestOK, Whole, IsRequest, RowsFixed
  <2>2. ASSUME NEW v \in TxId, txs'[v].transfer = txs'[u].transfer, txs'[u].transfer # Nil
        PROVE  v \in r.victims
    <3>1. u \in LegsOf(txs'[v].transfer)
      BY <2>1, <2>2 DEF LegsOf
    <3>2. txs[v].transfer = txs[u].transfer
      BY <3>1, <2>1, <2>2
    <3>3. QED
      BY <2>1, <2>2, <3>2 DEF RequestOK, Whole
  <2>3. QED
    BY <2>1, <2>2
<1> HIDE DEF r
<1>6. r.pc = "legs" => Len(r.rows) = 1 /\ r.rows[1] \in TxRow /\ r.rows[1].transfer # Nil
  BY DEF RequestOK, r
<1>7. QED
  BY <1>1, <1>2, <1>3, <1>4, <1>5, <1>6 DEF RequestOK, r

(* A step that reads, and leaves the request r in the hands of thread q.   *)
LEMMA ReadKeeps ==
  ASSUME OverlapInv, UNCHANGED vars, NEW q \in Req, NEW r, IsRequest(r), RequestOK(r),
         req' = [req EXCEPT ![q] = r],
         r.pc = "insert" =>
           \/ r.rows[1].transfer = Nil
           \/ \A p \in Req :
                req[p].pc = "insert" => req[p].rows[1].transfer # r.rows[1].transfer
  PROVE  OverlapInv'
<1>1. txs' = txs /\ wallets' = wallets
  BY DEF vars
<1>2. /\ DOMAIN req' = Req /\ req'[q] = r
      /\ \A p \in Req : p # q => req'[p] = req[p]
  BY DEF OverlapInv, RequestTypeOK
<1>3. RequestTypeOK'
  BY <1>1, <1>2 DEF OverlapInv, RequestTypeOK, TypeOK, IsRequest
<1>4. PairsSurviveOverlap'
  BY <1>1 DEF OverlapInv, PairsSurviveOverlap, LegsAreMarked, LegsHavePartners,
              PartnersLiveAndDieTogether
<1>5. ASSUME NEW p \in Req
      PROVE  RequestOK(req[p])'
  <2>1. RequestOK(req'[p])
    BY <1>2 DEF OverlapInv
  <2>2. QED
    BY <2>1, <1>1 DEF RequestOK, Used, Insertable, IsOwn, IsPair, LegsOf, Whole
<1>6. Apart'
  <2>1. \A p, o \in Req :
          p # o /\ p # q /\ o # q /\ req'[p].pc = "insert" /\ req'[o].pc = "insert" =>
            \/ req'[p].rows[1].transfer = Nil
            \/ req'[p].rows[1].transfer # req'[o].rows[1].transfer
    BY <1>2 DEF OverlapInv, Apart
  <2>2. QED
    BY <2>1, <1>2 DEF Apart
<1>7. QED
  BY <1>3, <1>4, <1>5, <1>6 DEF OverlapInv

(* A step that writes rows there are, and ends the request of thread q.    *)
LEMMA WriteKeeps ==
  ASSUME OverlapInv, NEW q \in Req, req' = [req EXCEPT ![q] = Idle], UNCHANGED wallets,
         txs' \in [TxId -> TxRow], RowsFixed,
         \A t \in TxId : txs'[t].transfer = txs[t].transfer /\ (~Used(t) => txs'[t] = txs[t]),
         \A t, u \in TxId :
           t # u /\ txs[t].transfer = txs[u].transfer /\ txs[t].transfer # Nil =>
             txs'[t].state = txs'[u].state
  PROVE  OverlapInv'
<1>1. /\ DOMAIN req' = Req /\ req'[q] = Idle
      /\ \A p \in Req : p # q => req'[p] = req[p]
  BY DEF OverlapInv, RequestTypeOK
<1>2. RequestTypeOK'
  BY <1>1, IdleRequest DEF OverlapInv, RequestTypeOK, TypeOK, IsRequest
<1>3. LegsAreMarked'
  BY DEF OverlapInv, PairsSurviveOverlap, LegsAreMarked, RowsFixed, Used, SameKind
<1>4. LegsHavePartners'
  BY DEF OverlapInv, PairsSurviveOverlap, LegsAreMarked, LegsHavePartners, RowsFixed, Used,
         SameKind
<1>5. PartnersLiveAndDieTogether'
  <2> SUFFICES ASSUME NEW t \in TxId, NEW u \in TxId, t # u,
                      txs'[t].transfer = txs'[u].transfer, txs'[t].transfer # Nil
               PROVE  /\ txs'[t].type # txs'[u].type /\ txs'[t].wallet # txs'[u].wallet
                      /\ txs'[t].state = txs'[u].state
    BY DEF PartnersLiveAndDieTogether
  <2>1. txs[t].transfer = txs[u].transfer /\ txs[t].transfer # Nil
    OBVIOUS
  <2>2. IsLeg(txs[t]) /\ IsLeg(txs[u]) /\ Used(t) /\ Used(u)
    BY <2>1 DEF OverlapInv, PairsSurviveOverlap, LegsAreMarked, Used
  <2>3. /\ txs'[t].type = txs[t].type /\ txs'[t].wallet = txs[t].wallet
        /\ txs'[u].type = txs[u].type /\ txs'[u].wallet = txs[u].wallet
    BY <2>2 DEF RowsFixed, SameKind
  <2>4. QED
    BY <2>1, <2>3 DEF OverlapInv, PairsSurviveOverlap, PartnersLiveAndDieTogether
<1>6. ASSUME NEW p \in Req
      PROVE  RequestOK(req[p])'
  <2>1. CASE p = q
    BY <2>1, <1>1, IdleRequest DEF RequestOK
  <2>2. CASE p # q
    BY <2>2, <1>1, <1>2, RequestStays DEF OverlapInv, PairsSurviveOverlap, RequestTypeOK
  <2>3. QED
    BY <2>1, <2>2
<1>7. Apart'
  <2>1. \A p \in Req : req'[p].pc = "insert" => req'[p] = req[p]
    BY <1>1, IdleRequest
  <2>2. QED
    BY <2>1 DEF OverlapInv, Apart
<1>8. QED
  BY <1>2, <1>3, <1>4, <1>5, <1>6, <1>7 DEF OverlapInv, PairsSurviveOverlap

-----------------------------------------------------------------------------
(***************************************************************************)
(* The columns of an UPDATE.                                               *)
(***************************************************************************)

(* What differs is a column, with the new value it is to have.             *)
LEMMA ChangedColumns ==
  ASSUME NEW new \in TxRow, NEW seen \in TxRow
  PROVE  /\ DOMAIN Changed(new, seen) \subseteq Columns
         /\ \A c \in DOMAIN Changed(new, seen) : Changed(new, seen)[c] \in ColumnType[c]
         /\ "type" \in DOMAIN Changed(new, seen) =>
              new.type # seen.type /\ Changed(new, seen)["type"] = new.type
         /\ "wallet" \in DOMAIN Changed(new, seen) => new.wallet # seen.wallet
<1>1. /\ DOMAIN Changed(new, seen) = {c \in Columns : new[c] # seen[c]}
      /\ \A c \in DOMAIN Changed(new, seen) : Changed(new, seen)[c] = new[c]
  BY DEF Changed
<1>2. \A c \in Columns : new[c] \in ColumnType[c]
  BY DEF Columns, ColumnType, TxRow
<1>3. QED
  BY <1>1, <1>2

(* An UPDATE keeps the shape of a row, and the columns it does not know.   *)
LEMMA WrittenRow ==
  ASSUME NEW row \in TxRow, NEW changes, DOMAIN changes \subseteq Columns,
         \A c \in DOMAIN changes : changes[c] \in ColumnType[c]
  PROVE  /\ Written(row, changes) \in TxRow
         /\ Written(row, changes).state = row.state
         /\ Written(row, changes).transfer = row.transfer
         /\ Written(row, changes).type = Column(row, changes, "type")
         /\ Written(row, changes).wallet = Column(row, changes, "wallet")
<1>1. /\ Column(row, changes, "type") \in TxTypes
      /\ Column(row, changes, "wallet") \in WalletId \cup {Nil}
      /\ Column(row, changes, "amount") \in Nat
      /\ Column(row, changes, "currency") \in Currency
      /\ Column(row, changes, "rate") \in Nat
      /\ Column(row, changes, "base") \in Int
      /\ Column(row, changes, "date") \in Dates \cup {Nil}
  BY DEF Column, ColumnType, TxRow
<1>2. QED
  BY <1>1 DEF Written, TxRow

(* An UPDATE of columns that keep its kind leaves a row of its kind.       *)
LEMMA WrittenKind ==
  ASSUME NEW row \in TxRow, NEW changes, DOMAIN changes \subseteq Columns,
         \A c \in DOMAIN changes : changes[c] \in ColumnType[c],
         KindKept(changes, row)
  PROVE  SameKind(Written(row, changes), row)
BY WrittenRow DEF KindKept, SameKind, IsLeg, Column

(* What the columns make of the written row is a row of its kind as well.  *)
LEMMA WrittenStored ==
  ASSUME NEW row \in TxRow, NEW changes, DOMAIN changes \subseteq Columns,
         \A c \in DOMAIN changes : changes[c] \in ColumnType[c],
         KindKept(changes, row)
  PROVE  /\ Stored(Written(row, changes)) \in TxRow
         /\ Stored(Written(row, changes)).state = row.state
         /\ Stored(Written(row, changes)).transfer = row.transfer
         /\ SameKind(Stored(Written(row, changes)), row)
<1> DEFINE new == Written(row, changes)
<1>1. /\ new \in TxRow /\ new.state = row.state /\ new.transfer = row.transfer
      /\ SameKind(new, row)
  BY WrittenRow, WrittenKind
<1> HIDE DEF new
<1>2. /\ Stored(new) \in TxRow /\ Stored(new).state = new.state
      /\ Stored(new).transfer = new.transfer /\ Stored(new).type = new.type
      /\ Stored(new).wallet = new.wallet
  BY <1>1, StoredType, StoredFields
<1>3. SameKind(Stored(new), row)
  BY <1>1, <1>2 DEF SameKind, IsLeg
<1>4. QED
  BY <1>1, <1>2, <1>3 DEF new

-----------------------------------------------------------------------------
(***************************************************************************)
(* One lemma per step of a request.                                        *)
(***************************************************************************)

(* create(): the row in its hands is no leg.                               *)
LEMMA BeginCreateKeeps ==
  ASSUME OverlapInv, NEW q \in Req, NEW type \in {"income", "expense"},
         NEW w \in WalletId \cup {Nil}, NEW a \in Amounts, NEW c \in Currency,
         NEW d \in Dates, BeginCreate(q, type, w, a, c, d)
  PROVE  OverlapInv'
<1>1. PICK rate \in ResolvableRates(c) :
        req' = [req EXCEPT ![q] =
                 [Idle EXCEPT !.pc = "insert", !.rows = <<NewRow(type, w, Nil, a, c, rate, d)>>]]
  BY DEF BeginCreate
<1> DEFINE row == NewRow(type, w, Nil, a, c, rate, d)
           r == [Idle EXCEPT !.pc = "insert", !.rows = <<row>>]
<1>2. row \in TxRow
  BY NewRowType DEF TxTypes
<1>3. IsOwn(row)
  BY <1>2 DEF IsOwn, NewRow, IsLeg, LegTypes
<1> HIDE DEF row
<1>4. IsRequest(r)
  BY <1>2, IdleRequest DEF IsRequest, Idle, Steps
<1>5. r.pc = "insert" /\ Len(r.rows) = 1 /\ r.rows[1] = row
  BY DEF Idle
<1>6. RequestOK(r) /\ r.rows[1].transfer = Nil
  BY <1>3, <1>5 DEF RequestOK, Insertable, IsOwn
<1> HIDE DEF r
<1>7. UNCHANGED vars /\ req' = [req EXCEPT ![q] = r]
  BY <1>1 DEF BeginCreate, r, row
<1>8. QED
  BY <1>4, <1>6, <1>7, ReadKeeps

(* transfer(): two legs, with a transfer_id nobody else has.               *)
LEMMA BeginTransferKeeps ==
  ASSUME OverlapInv, NEW q \in Req, NEW from \in WalletId, NEW to \in WalletId,
         NEW a \in Amounts, NEW c \in Currency, NEW d \in Dates,
         BeginTransfer(q, from, to, a, c, d)
  PROVE  OverlapInv'
<1>1. PICK rate \in ResolvableRates(c), x \in FreshTransfers :
        req' = [req EXCEPT ![q] =
                 [Idle EXCEPT !.pc = "insert",
                              !.rows = <<NewRow("transfer_out", from, x, a, c, rate, d),
                                         NewRow("transfer_in", to, x, a, c, rate, d)>>]]
  BY DEF BeginTransfer
<1> DEFINE out == NewRow("transfer_out", from, x, a, c, rate, d)
           in == NewRow("transfer_in", to, x, a, c, rate, d)
           r == [Idle EXCEPT !.pc = "insert", !.rows = <<out, in>>]
<1>2. x \in TransferId /\ LegsOf(x) = {} /\ x \notin Reserved
  BY DEF FreshTransfers
<1>3. out \in TxRow /\ in \in TxRow
  BY <1>2, NewRowType DEF TxTypes, LegTypes
<1>4. IsPair(out, in)
  BY <1>2, <1>3, NilAssumption DEF IsPair, NewRow, BeginTransfer
<1>5. out.transfer = x
  BY DEF NewRow
<1> HIDE DEF out, in
<1>6. IsRequest(r)
  BY <1>3, IdleRequest DEF IsRequest, Idle, Steps
<1>7. r.pc = "insert" /\ Len(r.rows) = 2 /\ r.rows[1] = out /\ r.rows[2] = in
  BY DEF Idle
<1>8. RequestOK(r)
  BY <1>4, <1>7 DEF RequestOK, Insertable
<1>9. ASSUME NEW p \in Req, req[p].pc = "insert"
      PROVE  req[p].rows[1].transfer # x
  <2>1. 1 \in DOMAIN req[p].rows
    BY <1>9 DEF OverlapInv, RequestTypeOK, IsRequest, RequestOK, Insertable
  <2>2. QED
    BY <1>2, <2>1 DEF Reserved
<1> HIDE DEF r
<1>10. UNCHANGED vars /\ req' = [req EXCEPT ![q] = r]
  BY <1>1 DEF BeginTransfer, r, out, in
<1>11. QED
  BY <1>5, <1>6, <1>7, <1>8, <1>9, <1>10, ReadKeeps

(* update(): the edited row is a leg if the row it was read from is one.   *)
LEMMA BeginUpdateKeeps ==
  ASSUME OverlapInv, NEW q \in Req, NEW t \in TxId, NEW k \in {"income", "expense", Nil},
         NEW w \in WalletId \cup {Nil}, NEW a \in Amounts \cup {Nil},
         NEW c \in Currency \cup {Nil}, NEW d \in Dates \cup {Nil},
         BeginUpdate(q, t, k, w, a, c, d)
  PROVE  OverlapInv'
<1>1. PICK rate \in ResolvableRates(Given(c, txs[t].currency)) :
        req' = [req EXCEPT ![q] =
                 [Idle EXCEPT !.pc = "select", !.tx = t,
                    !.rows = <<EditedRow(txs[t], Given(k, txs[t].type), w, a, c, d, rate)>>]]
  BY DEF BeginUpdate
<1> DEFINE row == EditedRow(txs[t], Given(k, txs[t].type), w, a, c, d, rate)
           r == [Idle EXCEPT !.pc = "select", !.tx = t, !.rows = <<row>>]
<1>2. txs[t] \in TxRow /\ Used(t)
  BY DEF OverlapInv, RequestTypeOK, TypeOK, BeginUpdate, Live, Used
<1>3. row \in TxRow
  BY <1>2, EditedRowType, ZenonT(30)
<1>4. row.type = Given(k, txs[t].type) /\ row.wallet = Given(w, txs[t].wallet)
  BY <1>2 DEF EditedRow, TxRow
<1>5. SameKind(row, txs[t])
  BY <1>4 DEF SameKind, IsLeg, Given, LegTypes, BeginUpdate
<1> HIDE DEF row
<1>6. IsRequest(r)
  BY <1>3, IdleRequest DEF IsRequest, Idle, Steps
<1>7. r.pc = "select" /\ r.tx = t /\ Len(r.rows) = 1 /\ r.rows[1] = row
  BY DEF Idle
<1>8. RequestOK(r)
  BY <1>2, <1>3, <1>5, <1>7 DEF RequestOK
<1> HIDE DEF r
<1>9. UNCHANGED vars /\ req' = [req EXCEPT ![q] = r]
  BY <1>1 DEF BeginUpdate, r, row
<1>10. QED
  BY <1>6, <1>7, <1>8, <1>9, ReadKeeps

(* The columns that differ are none that make the row a leg.               *)
LEMMA SelectKeeps ==
  ASSUME OverlapInv, NEW q \in Req, Select(q)
  PROVE  OverlapInv'
<1> DEFINE t == req[q].tx
           new == req[q].rows[1]
           changes == Changed(new, txs[t])
           pc == IF DOMAIN changes = {} THEN "refresh" ELSE "flush"
           r == [Idle EXCEPT !.pc = pc, !.tx = t, !.changes = changes]
<1>1. t \in TxId /\ Used(t) /\ new \in TxRow /\ SameKind(new, txs[t]) /\ txs[t] \in TxRow
  BY DEF OverlapInv, RequestOK, Select, RequestTypeOK, TypeOK
<1>2. /\ DOMAIN changes \subseteq Columns
      /\ \A c \in DOMAIN changes : changes[c] \in ColumnType[c]
  BY <1>1, ChangedColumns
<1>3. KindKept(changes, txs[t])
  BY <1>1, ChangedColumns DEF KindKept, SameKind, IsLeg
<1> HIDE DEF t, new, changes
<1>4. IsRequest(r)
  BY <1>1, <1>2, IdleRequest DEF IsRequest, Idle, Steps
<1>5. r.pc \in {"refresh", "flush"} /\ r.tx = t /\ r.changes = changes
  BY DEF Idle
<1>6. RequestOK(r)
  BY <1>1, <1>3, <1>5 DEF RequestOK
<1> HIDE DEF r
<1>7. UNCHANGED vars /\ req' = [req EXCEPT ![q] = r]
  BY DEF Select, r, t, new, changes
<1>8. QED
  BY <1>4, <1>5, <1>6, <1>7, ReadKeeps

(* The row as it is by now, if it is a leg, goes on to its partner.        *)
LEMMA RefreshKeeps ==
  ASSUME OverlapInv, NEW q \in Req, Refresh(q)
  PROVE  OverlapInv'
<1> DEFINE t == req[q].tx
           r == [Idle EXCEPT !.pc = "legs", !.tx = t, !.rows = <<txs[t]>>]
<1>1. t \in TxId /\ Used(t) /\ txs[t] \in TxRow
  BY DEF OverlapInv, RequestOK, Refresh, RequestTypeOK, TypeOK
<1>2. CASE ~IsLeg(txs[t])
  BY <1>2, ReadKeeps, IdleRequest DEF Refresh, Done
<1>3. CASE IsLeg(txs[t])
  <2> HIDE DEF t
  <2>1. IsRequest(r)
    BY <1>1, IdleRequest DEF IsRequest, Idle, Steps
  <2>2. r.pc = "legs" /\ r.tx = t /\ Len(r.rows) = 1 /\ r.rows[1] = txs[t]
    BY DEF Idle
  <2>3. txs[t].transfer # Nil
    BY <1>1, <1>3 DEF OverlapInv, PairsSurviveOverlap, LegsAreMarked
  <2>4. RequestOK(r)
    BY <1>1, <2>2, <2>3 DEF RequestOK
  <2> HIDE DEF r
  <2>5. UNCHANGED vars /\ req' = [req EXCEPT ![q] = r]
    BY <1>3 DEF Refresh, r, t
  <2>6. QED
    BY <2>1, <2>2, <2>4, <2>5, ReadKeeps
<1>4. QED
  BY <1>2, <1>3

(* A leg that follows its partner keeps its direction and its wallet.      *)
LEMMA SelectLegKeeps ==
  ASSUME OverlapInv, NEW q \in Req, SelectLeg(q)
  PROVE  OverlapInv'
<1> DEFINE row == req[q].rows[1]
           legs == {u \in LegsOf(row.transfer) \ {req[q].tx} : Live(u)}
<1>1. CASE legs = {}
  BY <1>1, ReadKeeps, IdleRequest DEF SelectLeg, Done
<1>2. CASE legs # {}
  <2>1. PICK u \in legs :
          req' = [req EXCEPT ![q] =
                   [Idle EXCEPT !.pc = "flushLeg", !.tx = u,
                                !.changes = Changed(SyncedLeg(txs[u], row), txs[u])]]
    BY <1>2 DEF SelectLeg
  <2> DEFINE new == SyncedLeg(txs[u], row)
             changes == Changed(new, txs[u])
             r == [Idle EXCEPT !.pc = "flushLeg", !.tx = u, !.changes = changes]
  <2>2. u \in TxId /\ Used(u) /\ txs[u] \in TxRow /\ txs[u].transfer = row.transfer
    BY DEF LegsOf, Live, Used, OverlapInv, RequestTypeOK, TypeOK
  <2>3. row \in TxRow /\ row.transfer # Nil
    BY DEF SelectLeg, OverlapInv, RequestOK
  <2>4. new \in TxRow /\ new.type = txs[u].type /\ new.wallet = txs[u].wallet
    BY <2>2, <2>3 DEF SyncedLeg, TxRow
  <2> HIDE DEF new
  <2>5. /\ DOMAIN changes \subseteq Columns
        /\ \A c \in DOMAIN changes : changes[c] \in ColumnType[c]
        /\ "type" \notin DOMAIN changes /\ "wallet" \notin DOMAIN changes
    BY <2>2, <2>4, ChangedColumns
  <2> HIDE DEF changes
  <2>6. KindKept(changes, txs[u]) /\ IsLeg(txs[u])
    BY <2>2, <2>3, <2>5 DEF KindKept, OverlapInv, PairsSurviveOverlap, LegsAreMarked
  <2>7. IsRequest(r)
    BY <2>2, <2>5, IdleRequest DEF IsRequest, Idle, Steps
  <2>8. r.pc = "flushLeg" /\ r.tx = u /\ r.changes = changes
    BY DEF Idle
  <2>9. RequestOK(r)
    BY <2>2, <2>6, <2>8 DEF RequestOK
  <2> HIDE DEF r
  <2>10. UNCHANGED vars /\ req' = [req EXCEPT ![q] = r]
    BY <2>1 DEF SelectLeg, r, changes, new
  <2>11. QED
    BY <2>7, <2>8, <2>9, <2>10, ReadKeeps
<1>3. QED
  BY <1>1, <1>2

(* delete(): the row is there.                                             *)
LEMMA BeginDeleteKeeps ==
  ASSUME OverlapInv, NEW q \in Req, NEW t \in TxId, BeginDelete(q, t)
  PROVE  OverlapInv'
<1> DEFINE r == [Idle EXCEPT !.pc = "mark", !.tx = t]
<1>1. IsRequest(r)
  BY IdleRequest DEF IsRequest, Idle, Steps
<1>2. r.pc = "mark" /\ r.tx = t
  BY DEF Idle
<1>3. RequestOK(r)
  BY <1>2 DEF RequestOK, BeginDelete, Live, Used
<1> HIDE DEF r
<1>4. UNCHANGED vars /\ req' = [req EXCEPT ![q] = r]
  BY DEF BeginDelete, r
<1>5. QED
  BY <1>1, <1>2, <1>3, <1>4, ReadKeeps

(* What delete() finds are whole transfers: partners are live together.    *)
LEMMA MarkKeeps ==
  ASSUME OverlapInv, NEW q \in Req, Mark(q)
  PROVE  OverlapInv'
<1> DEFINE t == req[q].tx
           found == {u \in DeletedWith(t) : Live(u)}
<1>1. t \in TxId /\ Used(t)
  BY DEF Mark, OverlapInv, RequestOK
<1>2. CASE found = {}
  BY <1>2, ReadKeeps, IdleRequest DEF Mark, Done
<1>3. CASE found # {}
  <2>1. PICK first \in found :
          req' = [req EXCEPT ![q] = [Idle EXCEPT !.pc = "flushMark", !.tx = first,
                                                 !.victims = found]]
    BY <1>3 DEF Mark
  <2> DEFINE r == [Idle EXCEPT !.pc = "flushMark", !.tx = first, !.victims = found]
  <2>2. found \subseteq TxId /\ \A u \in found : Used(u)
    BY <1>1 DEF DeletedWith, LegsOf, Live, Used
  <2>3. Whole(found)
    <3> SUFFICES ASSUME NEW u \in found, NEW v \in TxId,
                        txs[v].transfer = txs[u].transfer, txs[u].transfer # Nil
                 PROVE  v \in found
      BY <2>2 DEF Whole
    <3>1. IsLeg(txs[u]) /\ Live(u) /\ Live(v)
      BY <2>2 DEF Live, OverlapInv, PairsSurviveOverlap, LegsAreMarked,
                  PartnersLiveAndDieTogether
    <3>2. IsLeg(txs[t]) /\ u \in LegsOf(txs[t].transfer)
      BY <3>1 DEF DeletedWith
    <3>3. QED
      BY <3>1, <3>2 DEF DeletedWith, LegsOf
  <2> HIDE DEF found
  <2>4. IsRequest(r)
    BY <2>2, IdleRequest DEF IsRequest, Idle, Steps
  <2>5. r.pc = "flushMark" /\ r.tx = first /\ r.victims = found
    BY DEF Idle
  <2>6. RequestOK(r)
    BY <2>2, <2>3, <2>5 DEF RequestOK
  <2> HIDE DEF r
  <2>7. UNCHANGED vars /\ req' = [req EXCEPT ![q] = r]
    BY <2>1 DEF Mark, r
  <2>8. QED
    BY <2>4, <2>5, <2>6, <2>7, ReadKeeps
<1>4. QED
  BY <1>2, <1>3

(* A request that fails leaves no trace.                                   *)
LEMMA AbortKeeps ==
  ASSUME OverlapInv, NEW q \in Req, Abort(q)
  PROVE  OverlapInv'
BY ReadKeeps, IdleRequest DEF Abort, Done

(* The UPDATE leaves a leg a leg, and so does what it copies to the other. *)
LEMMA FlushKeeps ==
  ASSUME OverlapInv, NEW q \in Req, Flush(q)
  PROVE  OverlapInv' /\ LawfulWrite
<1> DEFINE t == req[q].tx
           changes == req[q].changes
           row == Stored(Written(txs[t], changes))
<1>1. /\ t \in TxId /\ Used(t) /\ txs[t] \in TxRow /\ KindKept(changes, txs[t])
      /\ DOMAIN changes \subseteq Columns
      /\ \A c \in DOMAIN changes : changes[c] \in ColumnType[c]
  BY DEF OverlapInv, RequestOK, Flush, RequestTypeOK, TypeOK, IsRequest
<1>2. /\ row \in TxRow /\ row.state = txs[t].state /\ row.transfer = txs[t].transfer
      /\ SameKind(row, txs[t])
  BY <1>1, WrittenStored
<1>3. txs' = AfterUpdate(t, row) /\ req' = [req EXCEPT ![q] = Idle] /\ UNCHANGED wallets
  BY DEF Flush, Done
<1> HIDE DEF row, t, changes
<1>4. ASSUME NEW u \in TxId
      PROVE  /\ txs'[u] \in TxRow /\ txs'[u].state = txs[u].state
             /\ txs'[u].transfer = txs[u].transfer /\ SameKind(txs'[u], txs[u])
             /\ ~Used(u) => txs'[u] = txs[u]
             /\ u = t => txs'[u] = row
             /\ u # t => txs'[u].wallet = txs[u].wallet
  <2>1. txs[u] \in TxRow
    BY DEF OverlapInv, RequestTypeOK, TypeOK
  <2>2. CASE u = t
    BY <2>2, <1>1, <1>2, <1>3 DEF AfterUpdate
  <2>3. CASE u # t /\ txs'[u] = txs[u]
    BY <2>1, <2>3 DEF SameKind
  <2>4. CASE u # t /\ txs'[u] = SyncedLeg(txs[u], row) /\ Live(u)
    BY <2>1, <2>4, <1>2 DEF SyncedLeg, TxRow, SameKind, IsLeg, Live, Used
  <2>5. QED
    BY <2>2, <2>3, <2>4, <1>3 DEF AfterUpdate
<1>5. txs' \in [TxId -> TxRow]
  BY <1>3, <1>4 DEF AfterUpdate
<1>6. RowsFixed
  BY <1>4 DEF RowsFixed, Used
<1>7. \A u, v \in TxId :
        u # v /\ txs[u].transfer = txs[v].transfer /\ txs[u].transfer # Nil =>
          txs'[u].state = txs'[v].state
  BY <1>4 DEF OverlapInv, PairsSurviveOverlap, PartnersLiveAndDieTogether
<1>8. LawfulWrite
  <2>1. ForeignKeys /\ row.wallet # Nil => WalletExists(row.wallet)
    BY DEF Flush, row, t, changes
  <2>2. QED
    BY <1>4, <2>1 DEF LawfulWrite
<1>9. QED
  BY <1>3, <1>4, <1>5, <1>6, <1>7, <1>8, WriteKeeps

(* The other leg follows, and keeps its direction and its wallet.          *)
LEMMA FlushLegKeeps ==
  ASSUME OverlapInv, NEW q \in Req, FlushLeg(q)
  PROVE  OverlapInv' /\ LawfulWrite
<1> DEFINE t == req[q].tx
           changes == req[q].changes
           row == Stored(Written(txs[t], changes))
<1>1. /\ t \in TxId /\ Used(t) /\ txs[t] \in TxRow
      /\ KindKept(changes, txs[t]) /\ IsLeg(txs[t])
      /\ DOMAIN changes \subseteq Columns
      /\ \A c \in DOMAIN changes : changes[c] \in ColumnType[c]
  BY DEF OverlapInv, RequestOK, FlushLeg, RequestTypeOK, TypeOK, IsRequest
<1>2. /\ row \in TxRow /\ row.state = txs[t].state /\ row.transfer = txs[t].transfer
      /\ SameKind(row, txs[t])
  BY <1>1, WrittenStored
<1>3. txs' = [txs EXCEPT ![t] = row] /\ req' = [req EXCEPT ![q] = Idle] /\ UNCHANGED wallets
  BY DEF FlushLeg, Done
<1> HIDE DEF row, t, changes
<1>4. txs' \in [TxId -> TxRow]
  BY <1>2, <1>3 DEF OverlapInv, RequestTypeOK, TypeOK
<1>5. ASSUME NEW u \in TxId
      PROVE  /\ txs'[u].state = txs[u].state
             /\ txs'[u].transfer = txs[u].transfer /\ SameKind(txs'[u], txs[u])
             /\ ~Used(u) => txs'[u] = txs[u]
  BY <1>1, <1>2, <1>3 DEF OverlapInv, RequestTypeOK, TypeOK, SameKind
<1>6. RowsFixed
  BY <1>5 DEF RowsFixed, Used
<1>7. \A u, v \in TxId :
        u # v /\ txs[u].transfer = txs[v].transfer /\ txs[u].transfer # Nil =>
          txs'[u].state = txs'[v].state
  BY <1>5 DEF OverlapInv, PairsSurviveOverlap, PartnersLiveAndDieTogether
<1>8. LawfulWrite
  BY <1>1, <1>2, <1>3, <1>5 DEF LawfulWrite, SameKind, OverlapInv, RequestTypeOK, TypeOK
<1>9. QED
  BY <1>3, <1>4, <1>5, <1>6, <1>7, <1>8, WriteKeeps

(* Whole transfers are marked, so that no leg outlives its partner.        *)
LEMMA FlushMarkKeeps ==
  ASSUME OverlapInv, NEW q \in Req, FlushMark(q)
  PROVE  OverlapInv' /\ LawfulWrite
<1> DEFINE victims == req[q].victims
<1>1. Whole(victims) /\ victims \subseteq TxId
  BY DEF FlushMark, OverlapInv, RequestOK, RequestTypeOK, IsRequest
<1>2. /\ txs' = [u \in TxId |-> IF u \in victims
                                THEN [txs[u] EXCEPT !.state = "deleted"] ELSE txs[u]]
      /\ req' = [req EXCEPT ![q] = Idle] /\ UNCHANGED wallets
  BY DEF FlushMark, Done
<1> HIDE DEF victims
<1>3. ASSUME NEW u \in TxId
      PROVE  /\ txs'[u] \in TxRow
             /\ txs'[u].state = IF u \in victims THEN "deleted" ELSE txs[u].state
             /\ txs'[u].transfer = txs[u].transfer /\ SameKind(txs'[u], txs[u])
             /\ ~Used(u) => txs'[u] = txs[u]
             /\ txs'[u].wallet = txs[u].wallet
  <2>1. txs[u] \in TxRow
    BY DEF OverlapInv, RequestTypeOK, TypeOK
  <2>2. CASE u \in victims
    <3>1. Used(u)
      BY <2>2, <1>1 DEF Whole
    <3>2. txs'[u] = [txs[u] EXCEPT !.state = "deleted"]
      BY <2>2, <1>2
    <3>3. QED
      BY <2>1, <2>2, <3>1, <3>2 DEF TxRow, SameKind, IsLeg
  <2>3. CASE u \notin victims
    BY <2>1, <2>3, <1>2 DEF SameKind
  <2>4. QED
    BY <2>2, <2>3
<1>4. txs' \in [TxId -> TxRow]
  BY <1>2, <1>3
<1>5. RowsFixed
  BY <1>3 DEF RowsFixed, Used
<1>6. \A u, v \in TxId :
        u # v /\ txs[u].transfer = txs[v].transfer /\ txs[u].transfer # Nil =>
          txs'[u].state = txs'[v].state
  BY <1>1, <1>3 DEF Whole, OverlapInv, PairsSurviveOverlap, PartnersLiveAndDieTogether
<1>7. LawfulWrite
  BY <1>3 DEF LawfulWrite
<1>8. QED
  BY <1>2, <1>3, <1>4, <1>5, <1>6, <1>7, WriteKeeps

(* New rows are rows of their own, or both legs of a new transfer.         *)
LEMMA InsertKeeps ==
  ASSUME OverlapInv, NEW q \in Req, Insert(q)
  PROVE  OverlapInv' /\ LawfulWrite
<1> DEFINE sent == req[q].rows
           rows == [i \in DOMAIN sent |-> Stored(sent[i])]
<1>0. /\ sent \in Seq(TxRow) /\ Insertable(sent) /\ req[q].pc = "insert"
      /\ txs \in [TxId -> TxRow]
  BY DEF Insert, OverlapInv, RequestOK, RequestTypeOK, IsRequest, TypeOK
<1>1. PICK ids \in [DOMAIN rows -> {t \in TxId : txs[t].state = "unused"}] :
        /\ \A i, j \in DOMAIN rows : i # j => ids[i] # ids[j]
        /\ txs' = [t \in TxId |-> IF \E i \in DOMAIN rows : ids[i] = t
                                  THEN rows[CHOOSE i \in DOMAIN rows : ids[i] = t]
                                  ELSE txs[t]]
  <2>1. PICK ids \in [DOMAIN sent -> {t \in TxId : txs[t].state = "unused"}] :
          /\ \A i, j \in DOMAIN sent : i # j => ids[i] # ids[j]
          /\ txs' = [t \in TxId |-> IF \E i \in DOMAIN sent : ids[i] = t
                                    THEN Stored(sent[CHOOSE i \in DOMAIN sent : ids[i] = t])
                                    ELSE txs[t]]
    BY DEF Insert
  <2> HIDE DEF sent
  <2>2. ASSUME NEW t \in TxId, \E i \in DOMAIN sent : ids[i] = t
        PROVE  Stored(sent[CHOOSE i \in DOMAIN sent : ids[i] = t]) =
                 rows[CHOOSE i \in DOMAIN sent : ids[i] = t]
    BY <2>2
  <2>3. DOMAIN rows = DOMAIN sent
    OBVIOUS
  <2> HIDE DEF rows
  <2>4. txs' = [t \in TxId |-> IF \E i \in DOMAIN sent : ids[i] = t
                              THEN rows[CHOOSE i \in DOMAIN sent : ids[i] = t]
                              ELSE txs[t]]
    BY <2>1, <2>2
  <2>5. QED
    BY <2>1, <2>3, <2>4
<1>2. /\ rows \in Seq(TxRow) /\ Insertable(rows) /\ rows[1].transfer = sent[1].transfer
      /\ \A i \in DOMAIN sent : rows[i].wallet = sent[i].wallet
  <2> HIDE DEF sent
  <2>1. ASSUME NEW i \in DOMAIN sent
        PROVE  /\ rows[i] \in TxRow /\ rows[i].state = sent[i].state
               /\ rows[i].type = sent[i].type /\ rows[i].wallet = sent[i].wallet
               /\ rows[i].transfer = sent[i].transfer
    <3>1. sent[i] \in TxRow /\ rows[i] = Stored(sent[i])
      BY <1>0
    <3>2. QED
      BY <3>1, StoredType, StoredFields
  <2>2. DOMAIN rows = 1..Len(sent) /\ Len(sent) \in Nat
    BY <1>0
  <2>3. rows \in Seq(TxRow) /\ Len(rows) = Len(sent)
    <3> DEFINE n == Len(sent)
    <3>1. rows \in [1..n -> TxRow] /\ n \in Nat
      BY <2>1, <2>2
    <3> HIDE DEF rows, n
    <3>2. rows \in Seq(TxRow) /\ Len(rows) = n
      BY <3>1
    <3>3. QED
      BY <3>2 DEF n
  <2> HIDE DEF rows
  <2>4. 1 \in DOMAIN sent
    BY <1>0 DEF Insertable
  <2>5. Insertable(rows)
    BY <1>0, <2>1, <2>3, <2>4 DEF Insertable, IsOwn, IsPair, IsLeg
  <2>6. QED
    BY <2>1, <2>3, <2>4, <2>5
<1> HIDE DEF rows
<1>3. /\ UNCHANGED wallets /\ req' = [req EXCEPT ![q] = Idle]
      /\ DOMAIN req' = Req /\ req'[q] = Idle
      /\ \A p \in Req : p # q => req'[p] = req[p]
  BY DEF Insert, Done, OverlapInv, RequestTypeOK
<1>4. \A t \in TxId : ~Used(t) => txs[t].transfer = Nil /\ ~IsLeg(txs[t])
  BY DEF Used, OverlapInv, PairsSurviveOverlap, LegsAreMarked
<1>5. \A i \in DOMAIN rows : ids[i] \in TxId /\ ~Used(ids[i]) /\ txs'[ids[i]] = rows[i]
  <2> SUFFICES ASSUME NEW i \in DOMAIN rows
               PROVE  ids[i] \in TxId /\ ~Used(ids[i]) /\ txs'[ids[i]] = rows[i]
    OBVIOUS
  <2>1. ids[i] \in TxId /\ ~Used(ids[i])
    BY <1>1 DEF Used
  <2>2. (CHOOSE j \in DOMAIN rows : ids[j] = ids[i]) = i
    BY <1>1
  <2>3. QED
    BY <1>1, <2>1, <2>2
<1>6. \A t \in TxId : txs'[t] = txs[t] \/ \E i \in DOMAIN rows : t = ids[i]
  BY <1>1
<1>7. TypeOK'
  <2>1. ASSUME NEW t \in TxId
        PROVE  txs'[t] \in TxRow
    <3>1. \A i \in DOMAIN rows : rows[i] \in TxRow
      BY <1>2
    <3>2. txs[t] \in TxRow
      BY <1>0
    <3>3. QED
      BY <1>5, <1>6, <3>1, <3>2
  <2>2. QED
    BY <1>1, <1>3, <2>1 DEF TypeOK, OverlapInv, RequestTypeOK
<1>8. RequestTypeOK'
  BY <1>3, <1>7, IdleRequest DEF OverlapInv, RequestTypeOK, IsRequest
<1>9. RowsFixed
  BY <1>5, <1>6 DEF RowsFixed, Used, SameKind
<1>10. /\ PairsSurviveOverlap'
       /\ \A t \in TxId : txs'[t].transfer = txs[t].transfer \/ LegsOf(txs'[t].transfer) = {}
       /\ \A t \in TxId : txs'[t].transfer = txs[t].transfer
                           \/ txs'[t].transfer = rows[1].transfer
  <2>1. CASE Len(rows) = 1 /\ IsOwn(rows[1])
    <3>1. DOMAIN rows = {1}
      BY <1>2, <2>1
    <3>2. \A t \in TxId :
            \/ txs'[t] = txs[t]
            \/ /\ txs'[t].transfer = Nil /\ ~IsLeg(txs'[t])
               /\ txs[t].transfer = Nil /\ ~IsLeg(txs[t])
      BY <1>4, <1>5, <1>6, <2>1, <3>1 DEF IsOwn
    <3>3. LegsAreMarked'
      BY <3>2 DEF OverlapInv, PairsSurviveOverlap, LegsAreMarked
    <3>4. LegsHavePartners'
      BY <3>2 DEF OverlapInv, PairsSurviveOverlap, LegsAreMarked, LegsHavePartners
    <3>5. PartnersLiveAndDieTogether'
      BY <3>2 DEF OverlapInv, PairsSurviveOverlap, PartnersLiveAndDieTogether
    <3>6. QED
      BY <3>2, <3>3, <3>4, <3>5 DEF PairsSurviveOverlap
  <2>2. CASE Len(rows) = 2 /\ IsPair(rows[1], rows[2])
    <3>1. DOMAIN rows = {1, 2}
      BY <1>2, <2>2
    <3> DEFINE out == ids[1]
               in == ids[2]
               x == rows[1].transfer
    <3>2. /\ out \in TxId /\ in \in TxId /\ out # in /\ ~Used(out) /\ ~Used(in)
          /\ txs'[out] = rows[1] /\ txs'[in] = rows[2]
          /\ \A t \in TxId \ {out, in} : txs'[t] = txs[t]
      BY <1>1, <1>5, <1>6, <3>1
    <3>3. /\ txs'[out].transfer = x /\ txs'[in].transfer = x /\ x # Nil
          /\ txs'[out].type = "transfer_out" /\ txs'[in].type = "transfer_in"
          /\ txs'[out].wallet # Nil /\ txs'[in].wallet # Nil
          /\ txs'[out].wallet # txs'[in].wallet
          /\ txs'[out].state = "live" /\ txs'[in].state = "live"
          /\ LegsOf(x) = {}
      BY <2>2, <3>2 DEF IsPair
    <3> HIDE DEF out, in, x
    <3>4. \A t \in TxId \ {out, in} : txs'[t].transfer # x
      BY <3>2, <3>3 DEF LegsOf
    <3>5. LegsAreMarked'
      BY <3>2, <3>3 DEF OverlapInv, PairsSurviveOverlap, LegsAreMarked, IsLeg, LegTypes
    <3>6. LegsHavePartners'
      <4> SUFFICES ASSUME NEW t \in TxId, IsLeg(txs'[t])
                   PROVE  \E u \in TxId \ {t} : txs'[u].transfer = txs'[t].transfer
        BY DEF LegsHavePartners
      <4>1. CASE t \in {out, in}
        BY <4>1, <3>2, <3>3
      <4>2. CASE t \notin {out, in}
        <5>1. txs'[t] = txs[t]
          BY <4>2, <3>2
        <5>2. PICK u \in TxId \ {t} : txs[u].transfer = txs[t].transfer
          BY <5>1 DEF OverlapInv, PairsSurviveOverlap, LegsHavePartners
        <5>3. txs[t].transfer # Nil
          BY <5>1 DEF OverlapInv, PairsSurviveOverlap, LegsAreMarked
        <5>4. u \notin {out, in}
          BY <5>2, <5>3, <3>2, <1>4
        <5>5. QED
          BY <5>1, <5>2, <5>4, <3>2
      <4>3. QED
        BY <4>1, <4>2
    <3>7. PartnersLiveAndDieTogether'
      <4> SUFFICES ASSUME NEW t \in TxId, NEW u \in TxId, t # u,
                          txs'[t].transfer = txs'[u].transfer, txs'[t].transfer # Nil
                   PROVE  /\ txs'[t].type # txs'[u].type
                          /\ txs'[t].wallet # txs'[u].wallet
                          /\ txs'[t].state = txs'[u].state
        BY DEF PartnersLiveAndDieTogether
      <4>1. CASE t \in {out, in}
        <5>1. u \in {out, in}
          BY <4>1, <3>3, <3>4
        <5>2. QED
          BY <4>1, <5>1, <3>3
      <4>2. CASE t \notin {out, in}
        <5>1. u \notin {out, in}
          BY <4>2, <3>3, <3>4
        <5>2. QED
          BY <4>2, <5>1, <3>2
          DEF OverlapInv, PairsSurviveOverlap, PartnersLiveAndDieTogether
      <4>3. QED
        BY <4>1, <4>2
    <3>8. \A t \in TxId : txs'[t].transfer = txs[t].transfer \/ txs'[t].transfer = x
      BY <3>2, <3>3
    <3>9. QED
      BY <3>3, <3>5, <3>6, <3>7, <3>8 DEF PairsSurviveOverlap, x
  <2>3. QED
    BY <1>2, <2>1, <2>2 DEF Insertable
<1>11. ASSUME NEW p \in Req, p # q, req[p].pc = "insert"
       PROVE  \A t \in TxId : txs'[t].transfer = req[p].rows[1].transfer =>
                txs'[t].transfer = Nil \/ txs[t].transfer = txs'[t].transfer
  BY <1>0, <1>2, <1>10, <1>11 DEF OverlapInv, Apart, sent
<1>12. ASSUME NEW p \in Req
       PROVE  RequestOK(req[p])'
  <2>1. CASE p = q
    BY <2>1, <1>3, IdleRequest DEF RequestOK
  <2>2. CASE p # q
    <3>1. RequestOK(req[p]) /\ req'[p] = req[p] /\ RequestTypeOK /\ LegsAreMarked
      BY <2>2, <1>3 DEF OverlapInv, PairsSurviveOverlap
    <3>2. QED
      BY <2>2, <3>1, <1>7, <1>9, <1>10, <1>11, RequestStays
  <2>3. QED
    BY <2>1, <2>2
<1>13. Apart'
  <2>1. \A p \in Req : req'[p].pc = "insert" => req'[p] = req[p]
    BY <1>3, IdleRequest
  <2>2. QED
    BY <2>1 DEF OverlapInv, Apart
<1>14. LawfulWrite
  <2>1. \A i \in DOMAIN rows :
          ForeignKeys /\ rows[i].wallet # Nil => WalletExists(rows[i].wallet)
    <3>1. ASSUME NEW i \in DOMAIN sent
          PROVE  ForeignKeys /\ sent[i].wallet # Nil => WalletExists(sent[i].wallet)
      BY DEF Insert, KeysHold, sent
    <3>2. DOMAIN rows = DOMAIN sent
      BY DEF rows
    <3>3. QED
      BY <1>2, <3>1, <3>2
  <2>2. QED
    BY <1>5, <1>6, <2>1 DEF LawfulWrite, Used
<1>15. QED
  BY <1>8, <1>10, <1>12, <1>13, <1>14 DEF OverlapInv

(* The requests about wallets do not touch a transaction.                  *)
LEMMA WalletKeeps ==
  ASSUME OverlapInv, WalletNext, UNCHANGED req
  PROVE  OverlapInv'
<1>1. txs' = txs /\ wallets' \in [WalletId -> WalletRow]
  <2>0. wallets \in [WalletId -> WalletRow]
    BY DEF OverlapInv, RequestTypeOK, TypeOK
  <2>1. ASSUME NEW w \in WalletId, NEW n \in WalletName, NEW b \in Openings,
               CreateWallet(w, n, b)
        PROVE  txs' = txs /\ wallets' \in [WalletId -> WalletRow]
    <3>1. InColumn(b) \in Int
      BY InputAssumption, InColumnNear, MoneyAssumption
    <3>2. QED
      BY <2>0, <2>1, <3>1 DEF CreateWallet, WalletRow
  <2>2. ASSUME NEW w \in WalletId, NEW n \in WalletName \cup {Nil},
               NEW b \in Openings \cup {Nil}, NEW s \in {"active", "archived", Nil},
               UpdateWallet(w, n, b, s)
        PROVE  txs' = txs /\ wallets' \in [WalletId -> WalletRow]
    <3>1. Given(b, wallets[w].opening) \in Int
      BY <2>0, InputAssumption DEF WalletRow, Given
    <3>2. InColumn(Given(b, wallets[w].opening)) \in Int
      BY <3>1, InColumnNear, MoneyAssumption
    <3>3. /\ Given(n, wallets[w].name) \in WalletName \cup {Nil}
          /\ Given(s, wallets[w].state) \in {"active", "archived"}
      BY <2>0, <2>2 DEF UpdateWallet, WalletRow, Given, WalletExists
    <3>4. QED
      BY <2>0, <2>2, <3>2, <3>3 DEF UpdateWallet, WalletRow
  <2>3. ASSUME NEW w \in WalletId, DeleteWallet(w)
        PROVE  txs' = txs /\ wallets' \in [WalletId -> WalletRow]
    BY <2>0, <2>3 DEF DeleteWallet, WalletRow
  <2>4. QED
    BY <2>1, <2>2, <2>3 DEF WalletNext
<1>2. RequestTypeOK'
  BY <1>1 DEF OverlapInv, RequestTypeOK, TypeOK, IsRequest
<1>3. PairsSurviveOverlap'
  BY <1>1 DEF OverlapInv, PairsSurviveOverlap, LegsAreMarked, LegsHavePartners,
              PartnersLiveAndDieTogether
<1>4. ASSUME NEW p \in Req
      PROVE  RequestOK(req[p])'
  BY <1>1 DEF OverlapInv, RequestOK, Used, Insertable, IsOwn, IsPair, LegsOf, Whole
<1>5. QED
  BY <1>2, <1>3, <1>4 DEF OverlapInv, Apart

-----------------------------------------------------------------------------
(* Every step keeps the invariant, and what is no request about a wallet   *)
(* writes lawfully.                                                        *)
LEMMA RequestStep ==
  ASSUME OverlapInv, [RequestNext]_allVars
  PROVE  /\ OverlapInv'
         /\ ~WalletNext => LawfulWrite /\ UNCHANGED wallets
<1>1. UNCHANGED vars => LawfulWrite /\ UNCHANGED wallets
  BY DEF LawfulWrite, vars
<1>2. ASSUME NEW q \in Req, Begin(q)
      PROVE  OverlapInv' /\ UNCHANGED vars
  <2>0. UNCHANGED vars
    BY <1>2, ZenonT(30) DEF Begin, BeginCreate, BeginTransfer, BeginUpdate, BeginDelete
  <2>1. ASSUME NEW type \in {"income", "expense"}, NEW w \in WalletId \cup {Nil},
               NEW a \in Amounts, NEW c \in Currency, NEW d \in Dates,
               BeginCreate(q, type, w, a, c, d)
        PROVE  OverlapInv'
    BY <2>1, BeginCreateKeeps
  <2>2. ASSUME NEW from \in WalletId, NEW to \in WalletId,
               NEW a \in Amounts, NEW c \in Currency, NEW d \in Dates,
               BeginTransfer(q, from, to, a, c, d)
        PROVE  OverlapInv'
    BY <2>2, BeginTransferKeeps
  <2>3. ASSUME NEW t \in TxId, NEW k \in {"income", "expense", Nil},
               NEW w \in WalletId \cup {Nil}, NEW a \in Amounts \cup {Nil},
               NEW c \in Currency \cup {Nil}, NEW d \in Dates \cup {Nil},
               BeginUpdate(q, t, k, w, a, c, d)
        PROVE  OverlapInv'
    BY <2>3, BeginUpdateKeeps
  <2>4. ASSUME NEW t \in TxId, BeginDelete(q, t)
        PROVE  OverlapInv'
    BY <2>4, BeginDeleteKeeps
  <2>5. QED
    BY <1>2, <2>0, <2>1, <2>2, <2>3, <2>4 DEF Begin
<1>3. ASSUME NEW q \in Req, Continue(q)
      PROVE  OverlapInv' /\ LawfulWrite /\ UNCHANGED wallets
  <2>1. CASE Insert(q) \/ Flush(q) \/ FlushLeg(q) \/ FlushMark(q)
    <3>1. UNCHANGED wallets
      BY <2>1 DEF Insert, Flush, FlushLeg, FlushMark
    <3>2. QED
      BY <2>1, <3>1, InsertKeeps, FlushKeeps, FlushLegKeeps, FlushMarkKeeps
  <2>2. CASE Select(q) \/ Refresh(q) \/ SelectLeg(q) \/ Mark(q) \/ Abort(q)
    <3>1. UNCHANGED vars
      BY <2>2 DEF Select, Refresh, SelectLeg, Mark, Abort
    <3>2. QED
      BY <1>1, <2>2, <3>1, SelectKeeps, RefreshKeeps, SelectLegKeeps, MarkKeeps, AbortKeeps
  <2>3. QED
    BY <1>3, <2>1, <2>2 DEF Continue
<1>4. CASE WalletNext /\ UNCHANGED req
  BY <1>4, WalletKeeps
<1>5. CASE UNCHANGED allVars
  <2>1. UNCHANGED vars /\ req' = req
    BY <1>5 DEF allVars, vars
  <2>2. PairsSurviveOverlap'
    BY <2>1 DEF OverlapInv, PairsSurviveOverlap, LegsAreMarked, LegsHavePartners,
                PartnersLiveAndDieTogether, vars
  <2>3. RequestTypeOK'
    BY <2>1 DEF OverlapInv, RequestTypeOK, TypeOK, IsRequest, vars
  <2>4. ASSUME NEW p \in Req
        PROVE  RequestOK(req[p])'
    BY <2>1 DEF OverlapInv, RequestOK, Used, Insertable, IsOwn, IsPair, LegsOf, Whole, vars
  <2>5. OverlapInv'
    BY <2>1, <2>2, <2>3, <2>4 DEF OverlapInv, Apart
  <2>6. QED
    BY <1>1, <2>1, <2>5
<1>6. QED
  BY <1>1, <1>2, <1>3, <1>4, <1>5 DEF RequestNext, Serve

(* With nothing in flight and no row there is nothing to violate.          *)
LEMMA RequestStart == RequestInit => OverlapInv
<1> SUFFICES ASSUME RequestInit
             PROVE  OverlapInv
  OBVIOUS
<1>1. TypeOK
  BY DEF RequestInit, Init, TypeOK, TxRow, WalletRow, TxTypes, LegTypes, Currency
<1>2. DOMAIN req = Req /\ \A q \in Req : req[q] = Idle
  BY DEF RequestInit
<1>3. \A t \in TxId : txs[t].transfer = Nil /\ ~IsLeg(txs[t])
  BY DEF RequestInit, Init, IsLeg, LegTypes
<1>4. PairsSurviveOverlap
  BY <1>3 DEF PairsSurviveOverlap, LegsAreMarked, LegsHavePartners,
              PartnersLiveAndDieTogether
<1>5. QED
  BY <1>1, <1>2, <1>4, IdleRequest DEF OverlapInv, RequestTypeOK, Apart

(* The invariant, and nothing but lawful writes, for good.                 *)
LEMMA OverlapInvariance == RequestSpec => []OverlapInv
<1>1. OverlapInv /\ [RequestNext]_allVars => OverlapInv'
  BY RequestStep
<1>2. QED
  BY <1>1, RequestStart, PTL DEF RequestSpec

(* Every thread's request, and every row, has the shape it should have at  *)
(* all times: an UPDATE sends columns of the table with values of theirs.  *)
THEOREM RequestsTyped == RequestSpec => []RequestTypeOK
<1>1. OverlapInv => RequestTypeOK
  BY DEF OverlapInv
<1>2. QED
  BY <1>1, OverlapInvariance, PTL

(* However many requests overlap, and with whatever they read before the   *)
(* others wrote: a transfer is two legs that go opposite ways between      *)
(* different wallets, and are live or deleted together.                    *)
THEOREM PairsSurvive == RequestSpec => []PairsSurviveOverlap
<1>1. OverlapInv => PairsSurviveOverlap
  BY DEF OverlapInv
<1>2. QED
  BY <1>1, OverlapInvariance, PTL

(* An edit that overlaps a deletion does not undo it.                      *)
THEOREM DeletedStayDeleted == RequestSpec => DeletedForGood
<1>1. OverlapInv /\ [RequestNext]_allVars => [NoRowComesBack]_allVars
  <2> SUFFICES ASSUME OverlapInv, [RequestNext]_allVars
               PROVE  NoRowComesBack
    OBVIOUS
  <2>1. WalletNext => UNCHANGED txs
    BY DEF WalletNext, CreateWallet, UpdateWallet, DeleteWallet
  <2>2. QED
    BY <2>1, RequestStep DEF LawfulWrite, NoRowComesBack
<1>2. QED
  BY <1>1, OverlapInvariance, PTL DEF RequestSpec, DeletedForGood

(* With foreign keys enforced, no overlap of a deletion of a wallet with a *)
(* request that has read it leaves a live row without its wallet.          *)
THEOREM WalletsKeptByKeys == ForeignKeys => (RequestSpec => []LiveRowsHaveWallets)
<1> SUFFICES ASSUME ForeignKeys = TRUE
             PROVE  RequestSpec => []LiveRowsHaveWallets
  BY ForeignKeysAssumption
<1>1. RequestInit => LiveRowsHaveWallets
  BY DEF RequestInit, Init, LiveRowsHaveWallets, Live
<1>2. LiveRowsHaveWallets /\ OverlapInv /\ [RequestNext]_allVars => LiveRowsHaveWallets'
  <2> SUFFICES ASSUME LiveRowsHaveWallets, OverlapInv, [RequestNext]_allVars
               PROVE  LiveRowsHaveWallets'
    OBVIOUS
  <2>0. wallets \in [WalletId -> WalletRow] /\ txs \in [TxId -> TxRow]
    BY DEF OverlapInv, RequestTypeOK, TypeOK
  <2>1. CASE WalletNext
    <3>1. UNCHANGED txs
      BY <2>1 DEF WalletNext, CreateWallet, UpdateWallet, DeleteWallet
    <3>2. ASSUME NEW t \in TxId, Live(t), txs[t].wallet # Nil
          PROVE  WalletExists(txs[t].wallet)'
      <4> DEFINE v == txs[t].wallet
      <4>1. v \in WalletId /\ WalletExists(v)
        BY <2>0, <3>2 DEF LiveRowsHaveWallets, TxRow
      <4>2. ASSUME NEW w \in WalletId, NEW n \in WalletName, NEW b \in Openings,
                   CreateWallet(w, n, b)
            PROVE  WalletExists(v)'
        BY <2>0, <4>1, <4>2, <3>1 DEF CreateWallet, WalletExists
      <4>3. ASSUME NEW w \in WalletId, NEW n \in WalletName \cup {Nil},
                   NEW b \in Openings \cup {Nil}, NEW s \in {"active", "archived", Nil},
                   UpdateWallet(w, n, b, s)
            PROVE  WalletExists(v)'
        BY <2>0, <4>1, <4>3, <3>1 DEF UpdateWallet, WalletExists, Given
      <4>4. ASSUME NEW w \in WalletId, DeleteWallet(w)
            PROVE  WalletExists(v)'
        <5>1. w # v
          BY <4>4, <3>2 DEF DeleteWallet, InUse
        <5>2. QED
          BY <2>0, <4>1, <4>4, <5>1, <3>1 DEF DeleteWallet, WalletExists
      <4>5. QED
        BY <2>1, <4>2, <4>3, <4>4, <3>1 DEF WalletNext
    <3>3. QED
      BY <3>1, <3>2 DEF LiveRowsHaveWallets, Live
  <2>2. CASE ~WalletNext
    <3>1. LawfulWrite /\ UNCHANGED wallets
      BY <2>2, RequestStep
    <3>2. QED
      BY <3>1 DEF LawfulWrite, LiveRowsHaveWallets, Live, WalletExists
  <2>3. QED
    BY <2>1, <2>2
<1>3. QED
  BY <1>1, <1>2, OverlapInvariance, PTL DEF RequestSpec
=============================================================================
