--------------------------- MODULE LedgerRequests ---------------------------
(***************************************************************************)
(* The requests of TransactionService taken apart into the queries they    *)
(* make.  FastAPI runs each request in a thread of its own with a session  *)
(* of its own, on a connection of its own.  The driver sends BEGIN only    *)
(* before the first INSERT or UPDATE, so every SELECT before it reads      *)
(* whatever was committed last; the first write takes SQLite's write lock  *)
(* and keeps it to the commit.  A request is therefore a series of reads,  *)
(* each a step, and then one step that writes and commits.                 *)
(*                                                                         *)
(* A repository update() selects the row anew and sends only the columns   *)
(* that differ from it; if none does, it sends nothing and takes no lock.  *)
(* What a request computes is compared and sent with all its digits; what  *)
(* it reads back is what the columns keep.                                 *)
(*                                                                         *)
(* The requests of WalletService are single steps here, as in Ledger.      *)
(***************************************************************************)
EXTENDS Ledger, Sequences

CONSTANT Req  \* the requests in flight at a time, one per server thread

VARIABLE req  \* Req -> what the thread has read and is about to write

allVars == <<txs, wallets, req>>

Columns == {"type", "wallet", "amount", "currency", "rate", "base", "date"}

Idle == [pc |-> "idle", tx |-> Nil, rows |-> <<>>, changes |-> <<>>, victims |-> {}]

Steps == {"idle", "insert", "select", "flush", "refresh", "legs", "flushLeg", "mark", "flushMark"}

ColumnType ==
  [type |-> TxTypes, wallet |-> WalletId \cup {Nil}, amount |-> Nat, currency |-> Currency,
   rate |-> Nat, base |-> Int, date |-> Dates \cup {Nil}]

IsRequest(r) ==
  /\ DOMAIN r = DOMAIN Idle
  /\ r.pc \in Steps
  /\ r.tx \in TxId \cup {Nil}      \* the row it works on
  /\ r.rows \in Seq(TxRow)         \* the domain objects in its hands
  /\ DOMAIN r.changes \subseteq Columns  \* the columns an UPDATE will send
  /\ \A c \in DOMAIN r.changes : r.changes[c] \in ColumnType[c]
  /\ r.victims \subseteq TxId      \* the rows delete() found

(* Slip: every attribute of the row is compared, is_deleted with them. *)
ChangedAnywhere(new, seen) ==
  LET differ == {c \in DOMAIN seen : new[c] # seen[c]} IN [c \in differ |-> new[c]]

(* The columns of the new row that differ from the row as it was selected. *)
Changed(new, seen) ==
  LET differ == {c \in Columns : new[c] # seen[c]} IN [c \in differ |-> new[c]]

(* Slip: the row is saved as it was read, is_deleted included. *)
WrittenBack(row, changes) ==
  [row EXCEPT !.state = "live",
              !.amount = IF "amount" \in DOMAIN changes THEN changes["amount"] ELSE @]

(* The row after an UPDATE of those columns. *)
Column(row, changes, c) == IF c \in DOMAIN changes THEN changes[c] ELSE row[c]

Written(row, changes) ==
  [row EXCEPT !.type = Column(row, changes, "type"),
              !.wallet = Column(row, changes, "wallet"),
              !.amount = Column(row, changes, "amount"),
              !.currency = Column(row, changes, "currency"),
              !.rate = Column(row, changes, "rate"),
              !.base = Column(row, changes, "base"),
              !.date = Column(row, changes, "date")]

Reserved == UNION {{r.transfer : r \in {req[q].rows[i] : i \in DOMAIN req[q].rows}} : q \in Req}

FreshTransfers == {x \in TransferId \ Reserved : LegsOf(x) = {}}

Done(q) == req' = [req EXCEPT ![q] = Idle]

-----------------------------------------------------------------------------
BeginCreate(q, type, w, a, c, d) ==
  /\ req[q] = Idle
  /\ w # Nil => Usable(w)
  /\ \E r \in ResolvableRates(c) :
       LET row == NewRow(type, w, Nil, a, c, r, d)
       IN  /\ WellFormed(row)
           /\ req' = [req EXCEPT ![q] = [Idle EXCEPT !.pc = "insert", !.rows = <<row>>]]
  /\ UNCHANGED vars

BeginTransfer(q, from, to, a, c, d) ==
  /\ req[q] = Idle
  /\ from # to /\ a > 0
  /\ Usable(from) /\ Usable(to)
  /\ \E r \in ResolvableRates(c), x \in FreshTransfers :
       LET out == NewRow("transfer_out", from, x, a, c, r, d)
           in == NewRow("transfer_in", to, x, a, c, r, d)
       IN  /\ WellFormed(out) /\ WellFormed(in)
           /\ req' = [req EXCEPT ![q] = [Idle EXCEPT !.pc = "insert", !.rows = <<out, in>>]]
  /\ UNCHANGED vars

(* Slip: the pragma is not set on the connection. *)
KeysIgnored(rows) == TRUE

(* The wallets a foreign key asks for when rows are inserted. *)
KeysHold(rows) ==
  ForeignKeys => \A i \in DOMAIN rows : rows[i].wallet # Nil => WalletExists(rows[i].wallet)

(* Both legs are inserted, read back and committed by one request.         *)
Insert(q) ==
  LET rows == req[q].rows
  IN  /\ req[q].pc = "insert"
      /\ KeysHold(rows)
      /\ \A i \in DOMAIN rows : WellFormed(Stored(rows[i]))
      /\ \E ids \in [DOMAIN rows -> {t \in TxId : txs[t].state = "unused"}] :
           /\ \A i, j \in DOMAIN rows : i # j => ids[i] # ids[j]
           /\ txs' = [t \in TxId |-> IF \E i \in DOMAIN rows : ids[i] = t
                                     THEN Stored(rows[CHOOSE i \in DOMAIN rows : ids[i] = t])
                                     ELSE txs[t]]
      /\ Done(q)
      /\ UNCHANGED wallets

-----------------------------------------------------------------------------
(* get() and the checks of update(); the new values stay in memory. *)
BeginUpdate(q, t, k, w, a, c, d) ==
  /\ req[q] = Idle
  /\ Live(t)
  /\ IsLeg(txs[t]) => k = Nil /\ w = Nil
  /\ w # Nil => Usable(w)
  /\ \E r \in ResolvableRates(Given(c, txs[t].currency)) :
       LET row == EditedRow(txs[t], Given(k, txs[t].type), w, a, c, d, r)
       IN  req' = [req EXCEPT ![q] = [Idle EXCEPT !.pc = "select", !.tx = t, !.rows = <<row>>]]
  /\ UNCHANGED vars

(* The SELECT of the repository's update(): the row is found even if it    *)
(* was deleted since.  If nothing differs from it there is nothing to send.*)
Select(q) ==
  LET t == req[q].tx
      changes == Changed(req[q].rows[1], txs[t])
  IN  /\ req[q].pc = "select"
      /\ req' = [req EXCEPT ![q] =
                   [Idle EXCEPT !.pc = IF DOMAIN changes = {} THEN "refresh" ELSE "flush",
                                !.tx = t, !.changes = changes]]
      /\ UNCHANGED vars

(* The UPDATE takes the lock, the refreshed row is copied to the other     *)
(* leg, and the session commits.                                           *)
Flush(q) ==
  LET t == req[q].tx
      row == Stored(Written(txs[t], req[q].changes))
  IN  /\ req[q].pc = "flush"
      /\ WellFormed(row)
      /\ ForeignKeys /\ row.wallet # Nil => WalletExists(row.wallet)
      /\ txs' = AfterUpdate(t, row)
      /\ Done(q)
      /\ UNCHANGED wallets

(* No UPDATE, hence no lock: the refresh returns what is committed by now, *)
(* and a leg goes on to its partner with that.                             *)
Refresh(q) ==
  LET t == req[q].tx
      now == txs[t]
  IN  /\ req[q].pc = "refresh"
      /\ IF IsLeg(now)
         THEN req' = [req EXCEPT ![q] = [Idle EXCEPT !.pc = "legs", !.tx = t, !.rows = <<now>>]]
         ELSE Done(q)
      /\ UNCHANGED vars

(* find_by_transfer_id, and the SELECT of the repository's update(). *)
SelectLeg(q) ==
  LET row == req[q].rows[1]
      legs == {u \in LegsOf(row.transfer) \ {req[q].tx} : Live(u)}
  IN  /\ req[q].pc = "legs"
      /\ IF legs = {} THEN Done(q)
         ELSE \E u \in legs :
                req' = [req EXCEPT ![q] =
                         [Idle EXCEPT !.pc = "flushLeg", !.tx = u,
                                      !.changes = Changed(SyncedLeg(txs[u], row), txs[u])]]
      /\ UNCHANGED vars

FlushLeg(q) ==
  LET u == req[q].tx
  IN  /\ req[q].pc = "flushLeg"
      /\ txs' = [txs EXCEPT ![u] = Stored(Written(@, req[q].changes))]
      /\ Done(q)
      /\ UNCHANGED wallets

-----------------------------------------------------------------------------
BeginDelete(q, t) ==
  /\ req[q] = Idle
  /\ Live(t)
  /\ req' = [req EXCEPT ![q] = [Idle EXCEPT !.pc = "mark", !.tx = t]]
  /\ UNCHANGED vars

(* What find_by_transfer_id returns, or the row itself if it is still      *)
(* live; tx becomes the first of them, the one soft_delete() selects now.  *)
Mark(q) ==
  LET found == {u \in DeletedWith(req[q].tx) : Live(u)}
  IN  /\ req[q].pc = "mark"
      /\ IF found = {} THEN Done(q)
         ELSE \E first \in found :
                req' = [req EXCEPT ![q] = [Idle EXCEPT !.pc = "flushMark", !.tx = first,
                                                       !.victims = found]]
      /\ UNCHANGED vars

(* Slip: a row that is gone is skipped and the first one forgotten. *)
FlushMarkOthers(q) ==
  LET victims == req[q].victims
  IN  /\ req[q].pc = "flushMark"
      /\ txs' = [u \in TxId |-> IF u \in victims \ {req[q].tx}
                                THEN [txs[u] EXCEPT !.state = "deleted"] ELSE txs[u]]
      /\ Done(q)
      /\ UNCHANGED wallets

(* The first row is marked without another look; the others are selected   *)
(* under the lock, and one that is gone raises NotFoundError, which rolls  *)
(* everything back.                                                        *)
FlushMark(q) ==
  LET victims == req[q].victims
  IN  /\ req[q].pc = "flushMark"
      /\ \A u \in victims \ {req[q].tx} : Live(u)
      /\ txs' = [u \in TxId |-> IF u \in victims
                                THEN [txs[u] EXCEPT !.state = "deleted"] ELSE txs[u]]
      /\ Done(q)
      /\ UNCHANGED wallets

(***************************************************************************)
(* A request may end anywhere without a trace: an exception, "database is  *)
(* locked" after the busy timeout, or the end of the process.              *)
(***************************************************************************)
Abort(q) ==
  /\ req[q] # Idle
  /\ Done(q)
  /\ UNCHANGED vars

-----------------------------------------------------------------------------
RequestInit == Init /\ req = [q \in Req |-> Idle]

Begin(q) ==
  \/ \E type \in {"income", "expense"}, w \in WalletId \cup {Nil},
        a \in Amounts, c \in Currency, d \in Dates : BeginCreate(q, type, w, a, c, d)
  \/ \E from, to \in WalletId, a \in Amounts, c \in Currency, d \in Dates :
       BeginTransfer(q, from, to, a, c, d)
  \/ \E t \in TxId, k \in {"income", "expense", Nil}, w \in WalletId \cup {Nil},
        a \in Amounts \cup {Nil}, c \in Currency \cup {Nil}, d \in Dates \cup {Nil} :
       BeginUpdate(q, t, k, w, a, c, d)
  \/ \E t \in TxId : BeginDelete(q, t)

Continue(q) ==
  \/ Insert(q)
  \/ Select(q) \/ Flush(q) \/ Refresh(q) \/ SelectLeg(q) \/ FlushLeg(q)
  \/ Mark(q) \/ FlushMark(q)
  \/ Abort(q)

Serve == \E q \in Req : Begin(q) \/ Continue(q)

RequestNext ==
  \/ Serve
  \/ WalletNext /\ UNCHANGED req

RequestSpec == RequestInit /\ [][RequestNext]_allVars

-----------------------------------------------------------------------------
RequestTypeOK ==
  /\ TypeOK
  /\ DOMAIN req = Req
  /\ \A q \in Req : IsRequest(req[q])

(* Two legs of one transfer go in opposite directions between different    *)
(* wallets, and no request, however it overlaps with others, leaves one of *)
(* them live without the other ("otherwise money would appear or vanish",  *)
(* transaction_service.delete).                                            *)
PartnersLiveAndDieTogether ==
  \A t, u \in TxId :
    (t # u /\ txs[t].transfer = txs[u].transfer /\ txs[t].transfer # Nil) =>
      /\ txs[t].type # txs[u].type
      /\ txs[t].wallet # txs[u].wallet
      /\ txs[t].state = txs[u].state

PairsSurviveOverlap == LegsAreMarked /\ LegsHavePartners /\ PartnersLiveAndDieTogether

(* A request that read a row before it was deleted does not bring it back: *)
(* the repository's update() never assigns is_deleted.                     *)
NoRowComesBack ==
  \A t \in TxId : txs[t].state = "deleted" => txs'[t].state = "deleted"

DeletedForGood == [][NoRowComesBack]_allVars

(* The legs of a live transfer agree ("Keep both legs of a transfer in     *)
(* sync for amount/date/description edits", transaction_service.update).   *)
LegsInSync ==
  \A t, u \in TxId :
    (Live(t) /\ Live(u) /\ txs[t].transfer = txs[u].transfer /\ txs[t].transfer # Nil) =>
      TermsOf(txs[t]) = TermsOf(txs[u])
=============================================================================
