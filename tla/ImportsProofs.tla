--------------------------- MODULE ImportsProofs ----------------------------
(***************************************************************************)
(* Imports for any number of vaults, connections, transactions, rows,      *)
(* sheets and days.  The invariant follows what a bank reported through    *)
(* the pass: a transaction that was due when it was fetched is still to be *)
(* imported or is recorded, as long as the pass has not failed; and it     *)
(* follows the database through its drafts, which forget no row and move   *)
(* no last_sync_at.                                                        *)
(***************************************************************************)
EXTENDS Imports, FoldProofs

(* What a session that has written, and its commit, keep of a database.    *)
Keeps(d, e) ==
  /\ \A r \in Rows : d.rows[r] > 0 => e.rows[r] > 0
  /\ \A i \in Conn : e.conns[i].there => d.conns[i].there /\ e.conns[i].last = d.conns[i].last

OfDay(rows, t) == {r \in Rows : rows[r] > 0 /\ r.date = Posting[t].date}

(* Of the transactions a row may stand for, none was recorded in spite of  *)
(* the duplicate test.                                                     *)
Told(row, late) == \A u \in Tx : RowOf[u] = row => Exact(u) /\ u \notin late

Once(rows, late) ==
  \A t \in Tx :
    OfDay(rows, t) = {RowOf[t]} /\ Told(RowOf[t], late) => rows[RowOf[t]] = 1

Found(rows, t) ==
  \E r \in OfDay(rows, t) :
    r.description = Posting[t].description /\ r.amount = RowOf[t].amount

(* Alone on its day the row of t is new.                                   *)
Fresh(rows, t) == OfDay(rows, t) \subseteq {RowOf[t]} => rows[RowOf[t]] = 0

WritersOK ==
  \A v \in Vault :
    /\ Once(db[v].rows, overtaken)
    /\ writer[v] # "none" => Keeps(db[v], draft[v]) /\ Once(draft[v].rows, overtaken)

(* The pass knows the last_sync_at of the connections that it has not come *)
(* to yet, as far as they are there.                                       *)
LoopOK ==
  /\ loop.op # "idle" => loop.of \in Vault
  /\ loop.op = "pass" => ~loop.dead
  /\ loop.dead => loop.left = {}
  /\ loop.op \in {"import", "manual"} =>
       /\ loop.session \in Vault /\ loop.conn \in Conn
       /\ loop.fetched \in 0..today /\ today <= loop.fetched + 1
  /\ loop.op \in {"pass", "import"} =>
       \A due \in loop.todo :
         /\ db[loop.of].conns[due[1]].there => db[loop.of].conns[due[1]].last = due[2]
         /\ \A other \in loop.todo : other[1] = due[1] => other = due
         /\ loop.op = "import" => due[1] # loop.conn

(* Of connection c of vault v the transaction t was due.                   *)
WasDue(t, v, c) ==
  /\ Account[t] = <<v, c>> /\ t \in Wanted
  /\ db[v].conns[c].there
  /\ db[v].conns[c].last # Nil => db[v].conns[c].last <= Posting[t].date

(* What was there to be fetched is still to be imported, or is recorded.   *)
FetchOK ==
  loop.op = "import" /\ ~loop.down /\ ~loop.dead /\ loop.of = loop.session =>
    \A t \in posted :
      WasDue(t, loop.of, loop.conn) /\ Posting[t].date < loop.fetched =>
        t \in loop.left \/ Found(Seen.rows, t)

(* What the test let through is still new to the table when it is          *)
(* inserted, unless it was overtaken.                                      *)
PendingOK ==
  loop.pending # Nil =>
    /\ loop.op \in {"import", "manual"} /\ ~loop.dead
    /\ loop.pending \in loop.left /\ loop.pending \in Tx /\ Accepted(loop.pending)
    /\ Exact(loop.pending) /\ loop.pending \notin overtaken => Fresh(Seen.rows, loop.pending)

ImportInv == TypeOK /\ WritersOK /\ LoopOK /\ FetchOK /\ PendingOK

(* The row of a deleted connection is a row without its date.              *)
LEMMA NoConnOK == NoConn \in ConnRow /\ ~NoConn.there /\ NoConn.last = Nil
PROOF
  BY DEF NoConn, ConnRow

(* A loop at rest has nothing to do.                                       *)
LEMMA IdleOK ==
  Idle \in Loop /\ Idle.op = "idle" /\ Idle.todo = {} /\ ~Idle.dead /\ Idle.pending = Nil
PROOF
  BY DEF Idle, Loop

(* One more row.                                                           *)
LEMMA AddKeeps ==
  ASSUME NEW rows \in [Rows -> 0..MaxCopies], NEW row
  PROVE  /\ Add(rows, row) \in [Rows -> 0..MaxCopies]
         /\ \A r \in Rows : rows[r] > 0 => Add(rows, row)[r] > 0
         /\ \A r \in Rows : r # row => Add(rows, row)[r] = rows[r]
         /\ row \in Rows => Add(rows, row)[row] > 0
         /\ row \in Rows /\ rows[row] = 0 => Add(rows, row)[row] = 1
PROOF
  <1> USE SyncAssumption
  <1>1. CASE row \notin Rows
    BY <1>1 DEF Add
  <1>2. CASE row \in Rows
    <2> DEFINE n == IF rows[row] < MaxCopies THEN rows[row] + 1 ELSE rows[row]
    <2>1. rows[row] \in 0..MaxCopies
      BY <1>2
    <2>2. n \in 0..MaxCopies /\ n > 0 /\ (rows[row] = 0 => n = 1)
      BY <2>1
    <2>3. Add(rows, row) = [rows EXCEPT ![row] = n]
      BY DEF Add
    <2> HIDE DEF n
    <2> QED
      BY <1>2, <2>2, <2>3
  <1> QED
    BY <1>1, <1>2

(* The row made of a reported transaction has its date and says it is the  *)
(* bank's; the table has room for it if it is of a day of the table or if  *)
(* create() makes it.                                                      *)
LEMMA RowOfFacts ==
  ASSUME NEW t \in Tx
  PROVE  /\ RowOf[t].date = Posting[t].date /\ RowOf[t].source = "bank"
         /\ RowOf[t].amount = InColumn(Posting[t].amount)
         /\ RowOf[t].description = Posting[t].description
         /\ t \in Wanted => RowOf[t] \in Rows
PROOF
  BY SyncAssumption DEF RowOf, StoredRow, Asked

(* What the duplicate test takes for t is found, and what it lets through, *)
(* if its amount is exact, is fresh.                                       *)
LEMMA Tested ==
  ASSUME NEW rows \in [Rows -> 0..MaxCopies], NEW t \in Tx, NEW dup \in Duplicate(rows, t)
  PROVE  /\ dup \in BOOLEAN
         /\ dup => Found(rows, t)
         /\ ~dup /\ Exact(t) /\ t \in Wanted => Fresh(rows, t)
PROOF
  <1>1. RowOf[t].amount = InColumn(Posting[t].amount) /\ RowOf[t].date = Posting[t].date
        /\ RowOf[t].description = Posting[t].description /\ (t \in Wanted => RowOf[t] \in Rows)
    BY RowOfFacts
  <1>2. CASE FoundOn(rows, t) = {}
    <2>1. dup = FALSE
      BY <1>2 DEF Duplicate
    <2>2. ASSUME t \in Wanted
          PROVE  rows[RowOf[t]] = 0
      <3>1. RowOf[t] \in Rows /\ ~(rows[RowOf[t]] > 0)
        BY <1>1, <1>2, <2>2 DEF FoundOn
      <3> QED
        BY <3>1
    <2> QED
      BY <2>1, <2>2 DEF Fresh
  <1>3. CASE FoundOn(rows, t) # {}
    <2>1. PICK r \in FoundOn(rows, t) : dup = LooksLike(r, t)
      BY <1>3 DEF Duplicate
    <2>2. r \in OfDay(rows, t) /\ r \in Rows
      BY <2>1 DEF FoundOn, OfDay
    <2>3. LooksLike(r, t) \in BOOLEAN
      BY DEF LooksLike
    <2>4. ASSUME dup
          PROVE  Found(rows, t)
      <3>1. r.description = Posting[t].description /\ r.amount = Posting[t].amount
        BY <2>1, <2>4 DEF LooksLike
      <3>2. InColumn(r.amount) = r.amount
        BY <2>2, SyncAssumption
      <3>3. r.amount = RowOf[t].amount
        BY <1>1, <3>1, <3>2
      <3> QED
        BY <2>2, <3>1, <3>3 DEF Found
    <2>5. ASSUME ~dup, Exact(t), OfDay(rows, t) \subseteq {RowOf[t]}
          PROVE  FALSE
      <3>1. r = RowOf[t]
        BY <2>2, <2>5
      <3>2. LooksLike(r, t)
        BY <1>1, <2>5, <3>1 DEF LooksLike, Exact
      <3> QED
        BY <2>1, <2>5, <3>2
    <2> QED
      BY <2>1, <2>3, <2>4, <2>5 DEF Fresh
  <1> QED
    BY <1>2, <1>3

(* What was recorded once stays so when more are overtaken.                *)
LEMMA OnceLater ==
  ASSUME NEW rows, NEW late, NEW later, late \subseteq later, Once(rows, late)
  PROVE  Once(rows, later)
PROOF
  BY DEF Once, Told

(* A row that comes in alone on its day, or from a user, or when it cannot *)
(* be told from those that the test misses.                                *)
LEMMA AddOnce ==
  ASSUME NEW late, NEW rows \in [Rows -> 0..MaxCopies], Once(rows, late), NEW row,
         \/ row.source # "bank"
         \/ \E t \in Tx : row = RowOf[t] /\ (Exact(t) /\ t \notin late => Fresh(rows, t))
  PROVE  Once(Add(rows, row), late)
PROOF
  <1> DEFINE more == Add(rows, row)
  <1>1. /\ more \in [Rows -> 0..MaxCopies]
        /\ \A r \in Rows : rows[r] > 0 => more[r] > 0
        /\ \A r \in Rows : r # row => more[r] = rows[r]
        /\ row \in Rows => more[row] > 0
        /\ row \in Rows /\ rows[row] = 0 => more[row] = 1
    BY AddKeeps
  <1> HIDE DEF more
  <1> SUFFICES ASSUME NEW u \in Tx, OfDay(more, u) = {RowOf[u]}, Told(RowOf[u], late)
               PROVE  more[RowOf[u]] = 1
    BY DEF Once, more
  <1>2. RowOf[u] \in Rows /\ RowOf[u].date = Posting[u].date /\ RowOf[u].source = "bank"
    BY RowOfFacts DEF OfDay
  <1>3. OfDay(rows, u) \subseteq OfDay(more, u)
    BY <1>1 DEF OfDay
  <1>4. CASE row # RowOf[u]
    <2>1. more[RowOf[u]] = rows[RowOf[u]] /\ more[RowOf[u]] > 0
      BY <1>1, <1>2, <1>4 DEF OfDay
    <2>2. RowOf[u] \in OfDay(rows, u)
      BY <1>2, <2>1 DEF OfDay
    <2>3. OfDay(rows, u) = {RowOf[u]}
      BY <1>3, <2>2
    <2> QED
      BY <2>1, <2>3 DEF Once
  <1>5. CASE row = RowOf[u]
    <2>1. PICK t \in Tx : row = RowOf[t] /\ (Exact(t) /\ t \notin late => Fresh(rows, t))
      BY <1>2, <1>5
    <2>2. Posting[t].date = Posting[u].date /\ Fresh(rows, t)
      BY <1>2, <1>5, <2>1, RowOfFacts DEF Told
    <2>3. OfDay(rows, t) \subseteq {RowOf[t]}
      BY <1>3, <1>5, <2>1, <2>2 DEF OfDay
    <2>4. rows[row] = 0
      BY <2>1, <2>2, <2>3 DEF Fresh
    <2> QED
      BY <1>1, <1>2, <1>5, <2>4
  <1> QED
    BY <1>4, <1>5

(* What the test found in a database it finds in one that keeps its rows.  *)
LEMMA KeepsFound ==
  ASSUME NEW d, NEW e, Keeps(d, e), NEW t, Found(d.rows, t)
  PROVE  Found(e.rows, t)
PROOF
  BY DEF Keeps, Found, OfDay

-----------------------------------------------------------------------------
(* Empty databases, no session and a loop at rest satisfy the invariant.   *)
LEMMA ImportInit ==
  ASSUME Init
  PROVE  ImportInv
PROOF
  <1> USE SyncAssumption
  <1> DEFINE conns(v) == [i \in Conn |-> IF <<v, i>> \in Configured
                                         THEN [there |-> TRUE, active |-> TRUE, last |-> Nil]
                                         ELSE NoConn]
             rows == [r \in Rows |-> 0]
  <1>1. /\ today = 0 /\ posted = {} /\ open \in Vault /\ loop = Idle /\ events = 0
        /\ overtaken = {}
        /\ db = [v \in Vault |-> [rows |-> rows, conns |-> conns(v)]]
        /\ draft = [v \in Vault |-> Nil] /\ writer = [v \in Vault |-> "none"]
    BY DEF Init
  <1>2. ASSUME NEW v \in Vault
        PROVE  IsDatabase(db[v]) /\ Once(db[v].rows, {})
    <2>1. db[v].rows = rows /\ db[v].conns = conns(v)
      BY <1>1
    <2>2. ASSUME NEW i \in Conn
          PROVE  conns(v)[i] \in ConnRow /\ (~conns(v)[i].there => conns(v)[i] = NoConn)
      BY NoConnOK DEF ConnRow
    <2>3. conns(v) \in [Conn -> ConnRow] /\ rows \in [Rows -> 0..MaxCopies]
      <3> HIDE DEF conns
      <3>1. conns(v) = [i \in Conn |-> conns(v)[i]]
        BY DEF conns
      <3> QED
        BY <2>2, <3>1
    <2>4. db[v] \in [rows: [Rows -> 0..MaxCopies], conns: [Conn -> ConnRow]]
      <3> HIDE DEF conns, rows
      <3> QED
        BY <1>1, <2>3
    <2>5. Once(db[v].rows, {})
      <3>1. \A t \in Tx : OfDay(rows, t) = {}
        BY DEF OfDay
      <3> QED
        BY <2>1, <3>1 DEF Once
    <2> HIDE DEF conns, rows
    <2> QED
      BY <2>1, <2>2, <2>4, <2>5 DEF IsDatabase
  <1>3. TypeOK
    BY <1>1, <1>2, IdleOK DEF TypeOK
  <1>4. WritersOK /\ LoopOK /\ FetchOK /\ PendingOK
    BY <1>1, <1>2, IdleOK DEF WritersOK, LoopOK, FetchOK, PendingOK
  <1> QED
    BY <1>3, <1>4 DEF ImportInv

(* A loop that stays as it is, and what it sees, keep what is pending.     *)
LEMMA PendingStays ==
  ASSUME ImportInv, UNCHANGED <<loop, overtaken>>, loop.session \in Vault => Seen' = Seen
  PROVE  PendingOK'
PROOF
  <1> SUFFICES ASSUME loop.pending # Nil
               PROVE  PendingOK'
    BY DEF PendingOK
  <1>1. Seen' = Seen
    BY DEF ImportInv, PendingOK, LoopOK
  <1> QED
    BY <1>1 DEF ImportInv, PendingOK, Accepted

(* The first write of a request.                                           *)
LEMMA WriteInv ==
  ASSUME ImportInv, NEW data, Write(data), IsDatabase(data), Keeps(db[open], data),
         Once(data.rows, overtaken)
  PROVE  ImportInv'
PROOF
  <1>1. /\ writer[open] = "none" /\ open \in Vault
        /\ draft' = [draft EXCEPT ![open] = data] /\ writer' = [writer EXCEPT ![open] = "request"]
        /\ UNCHANGED <<today, posted, open, db, loop, overtaken>>
        /\ events' \in 0..MaxEvents
    <2>1. events \in 0..MaxEvents /\ events < MaxEvents /\ events' = events + 1
      BY DEF ImportInv, TypeOK, Write, Happens
    <2>2. events' \in 0..MaxEvents
      BY <2>1, SyncAssumption
    <2> QED
      BY <2>2 DEF ImportInv, TypeOK, Write
  <1>2. ASSUME NEW v \in Vault
        PROVE  \/ v = open /\ writer'[v] = "request" /\ draft'[v] = data
               \/ v # open /\ writer'[v] = writer[v] /\ draft'[v] = draft[v]
    BY <1>1 DEF ImportInv, TypeOK
  <1>3. TypeOK'
    <2>1. DOMAIN draft' = Vault /\ DOMAIN writer' = Vault
      BY <1>1 DEF ImportInv, TypeOK
    <2> QED
      BY <1>1, <1>2, <2>1 DEF ImportInv, TypeOK
  <1>4. WritersOK'
    BY <1>1, <1>2 DEF ImportInv, WritersOK
  <1>5. LoopOK'
    BY <1>1 DEF ImportInv, LoopOK
  <1>6. ASSUME loop.session \in Vault
        PROVE  Seen' = Seen
    BY <1>1, <1>2, <1>6 DEF Seen
  <1>7. FetchOK'
    <2>1. loop.op = "import" => loop.session \in Vault
      BY DEF ImportInv, LoopOK
    <2> QED
      BY <1>1, <1>6, <2>1 DEF ImportInv, FetchOK, WasDue
  <1>8. PendingOK'
    BY <1>1, <1>6, PendingStays
  <1> QED
    BY <1>3, <1>4, <1>5, <1>7, <1>8 DEF ImportInv

(* A row entered by hand is never the bank's.                              *)
LEMMA EnterInv ==
  ASSUME ImportInv, NEW row \in Entered, Enter(row)
  PROVE  ImportInv'
PROOF
  <1> DEFINE d == db[open]
             e == [d EXCEPT !.rows = Add(@, row)]
  <1>1. IsDatabase(d) /\ Once(d.rows, overtaken)
    BY DEF ImportInv, TypeOK, WritersOK
  <1>2. d.rows \in [Rows -> 0..MaxCopies] /\ d \in [rows: [Rows -> 0..MaxCopies], conns: [Conn -> ConnRow]]
    BY <1>1 DEF IsDatabase
  <1>3. e.rows = Add(d.rows, row) /\ e.conns = d.conns
    BY <1>2
  <1>4. Write(e)
    BY DEF Enter
  <1>5. /\ Add(d.rows, row) \in [Rows -> 0..MaxCopies]
        /\ \A r \in Rows : d.rows[r] > 0 => Add(d.rows, row)[r] > 0
        /\ Once(Add(d.rows, row), overtaken)
    BY <1>1, <1>2, AddKeeps, AddOnce, SyncAssumption
  <1>6. e \in [rows: [Rows -> 0..MaxCopies], conns: [Conn -> ConnRow]]
    BY <1>2, <1>5
  <1> HIDE DEF e, d
  <1> QED
    BY <1>1, <1>3, <1>4, <1>5, <1>6, WriteInv DEF IsDatabase, Keeps, d

(* Switching a connection on or off keeps its date.                        *)
LEMMA SetActiveInv ==
  ASSUME ImportInv, NEW i \in Conn, NEW active \in BOOLEAN, SetActive(i, active)
  PROVE  ImportInv'
PROOF
  <1> DEFINE d == db[open]
             c == [d.conns[i] EXCEPT !.active = active]
             e == [d EXCEPT !.conns[i] = c]
  <1>1. IsDatabase(d) /\ Once(d.rows, overtaken) /\ d.conns[i].there
    BY DEF ImportInv, TypeOK, WritersOK, SetActive
  <1>2. d \in [rows: [Rows -> 0..MaxCopies], conns: [Conn -> ConnRow]]
    BY <1>1 DEF IsDatabase
  <1>3. c \in ConnRow /\ c.there = d.conns[i].there /\ c.last = d.conns[i].last
    BY <1>2 DEF ConnRow
  <1>4. Write(e)
    BY <1>2 DEF SetActive
  <1> HIDE DEF c
  <1>5. /\ e.rows = d.rows /\ e.conns[i] = c /\ \A j \in Conn : j # i => e.conns[j] = d.conns[j]
        /\ e \in [rows: [Rows -> 0..MaxCopies], conns: [Conn -> ConnRow]]
    BY <1>2, <1>3
  <1> HIDE DEF e, d
  <1>6. IsDatabase(e) /\ Keeps(d, e)
    BY <1>1, <1>3, <1>5 DEF IsDatabase, Keeps
  <1> QED
    BY <1>1, <1>4, <1>5, <1>6, WriteInv DEF d

(* A deleted connection forgets its date.                                  *)
LEMMA DeleteConnInv ==
  ASSUME ImportInv, NEW i \in Conn, DeleteConn(i)
  PROVE  ImportInv'
PROOF
  <1> DEFINE d == db[open]
             e == [d EXCEPT !.conns[i] = NoConn]
  <1>1. IsDatabase(d) /\ Once(d.rows, overtaken) /\ Write(e)
    BY DEF ImportInv, TypeOK, WritersOK, DeleteConn
  <1>2. d \in [rows: [Rows -> 0..MaxCopies], conns: [Conn -> ConnRow]]
    BY <1>1 DEF IsDatabase
  <1>3. /\ e.rows = d.rows /\ e.conns[i] = NoConn /\ \A j \in Conn : j # i => e.conns[j] = d.conns[j]
        /\ e \in [rows: [Rows -> 0..MaxCopies], conns: [Conn -> ConnRow]]
    BY <1>2, NoConnOK
  <1> HIDE DEF e
  <1>4. IsDatabase(e) /\ Keeps(d, e)
    BY <1>1, <1>3, NoConnOK DEF IsDatabase, Keeps
  <1> QED
    BY <1>1, <1>3, <1>4, WriteInv

(* A file brings its rows a number of times, and none of the bank's.       *)
LEMMA BringsTyped ==
  ASSUME NEW sheet \in DOMAIN Brings, NEW r \in Rows
  PROVE  Brings[sheet][r] \in Nat /\ (r.source = "bank" => Brings[sheet][r] = 0)
PROOF
  <1> DEFINE read == Csv!ParseCsv(Written(sheet), Categories)
             lines == {n \in DOMAIN sheet.rows :
                         read[n] # Nil /\ Creatable(read[n]) /\ FromFile(read[n]) = r}
  <1>1. sheet \in Sheets /\ Brings[sheet][r] = Cardinality(lines)
    BY DEF Brings
  <1>2. IsFiniteSet(lines)
    <2>1. lines \subseteq DOMAIN sheet.rows
      OBVIOUS
    <2> QED
      BY <1>1, <2>1, FS_Subset, SheetsAssumption
  <1>3. r.source = "bank" => lines = {}
    BY DEF FromFile, StoredRow
  <1> HIDE DEF lines
  <1> QED
    BY <1>1, <1>2, <1>3, FS_CardinalityType, FS_EmptySet

(* A sheet adds rows, and none of the bank's.                              *)
LEMMA UploadInv ==
  ASSUME ImportInv, NEW sheet \in DOMAIN Brings, Upload(sheet)
  PROVE  ImportInv'
PROOF
  <1> DEFINE d == db[open]
             more == [r \in Rows |-> Capped(d.rows[r] + Brings[sheet][r])]
             e == [d EXCEPT !.rows = more]
  <1>1. IsDatabase(d) /\ Once(d.rows, overtaken)
    BY DEF ImportInv, TypeOK, WritersOK, Upload, Write
  <1>2. d \in [rows: [Rows -> 0..MaxCopies], conns: [Conn -> ConnRow]]
    BY <1>1 DEF IsDatabase
  <1>3. Write(e)
    BY DEF Upload
  <1>4. ASSUME NEW r \in Rows
        PROVE  /\ more[r] \in 0..MaxCopies /\ (d.rows[r] > 0 => more[r] > 0)
               /\ (r.source = "bank" => more[r] = d.rows[r])
    <2>1. d.rows[r] \in 0..MaxCopies /\ Brings[sheet][r] \in Nat
      BY <1>2, BringsTyped
    <2>2. more[r] = IF d.rows[r] + Brings[sheet][r] < MaxCopies THEN d.rows[r] + Brings[sheet][r] ELSE MaxCopies
      BY DEF Capped
    <2>3. more[r] \in 0..MaxCopies /\ (d.rows[r] > 0 => more[r] > 0)
      BY <2>1, <2>2, SyncAssumption
    <2>4. ASSUME r.source = "bank"
          PROVE  more[r] = d.rows[r]
      <3>1. Brings[sheet][r] = 0
        BY <2>4, BringsTyped
      <3> QED
        BY <2>1, <2>2, <3>1, SyncAssumption
    <2> QED
      BY <2>3, <2>4
  <1>5. more \in [Rows -> 0..MaxCopies]
    BY <1>4
  <1>6. Once(more, overtaken)
    <2> HIDE DEF more
    <2> SUFFICES ASSUME NEW t \in Tx, OfDay(more, t) = {RowOf[t]}, Told(RowOf[t], overtaken)
                 PROVE  more[RowOf[t]] = 1
      BY DEF Once
    <2>1. RowOf[t] \in Rows /\ RowOf[t].source = "bank" /\ RowOf[t].date = Posting[t].date
          /\ more[RowOf[t]] > 0
      BY RowOfFacts DEF OfDay
    <2>2. more[RowOf[t]] = d.rows[RowOf[t]]
      BY <1>4, <2>1
    <2>3. RowOf[t] \in OfDay(d.rows, t)
      BY <2>1, <2>2 DEF OfDay
    <2>4. OfDay(d.rows, t) \subseteq OfDay(more, t)
      BY <1>4 DEF OfDay
    <2>5. OfDay(d.rows, t) = {RowOf[t]}
      BY <2>3, <2>4
    <2> QED
      BY <1>1, <2>2, <2>5 DEF Once
  <1> HIDE DEF more
  <1>7. e.rows = more /\ e.conns = d.conns /\ e \in [rows: [Rows -> 0..MaxCopies], conns: [Conn -> ConnRow]]
    BY <1>2, <1>5
  <1> HIDE DEF e, d
  <1>8. IsDatabase(e) /\ Keeps(d, e) /\ Once(e.rows, overtaken)
    BY <1>1, <1>4, <1>6, <1>7 DEF IsDatabase, Keeps
  <1> QED
    BY <1>3, <1>8, WriteInv DEF d

(* The end of a request: the draft becomes the database, or is rolled      *)
(* back.                                                                   *)
LEMMA CommitInv ==
  ASSUME ImportInv, NEW v \in Vault, Commit(v)
  PROVE  ImportInv'
PROOF
  <1>1. /\ writer[v] = "request" /\ UNCHANGED <<today, posted, open, loop, events>>
        /\ overtaken \subseteq overtaken' /\ overtaken' \subseteq Tx
        /\ db' = [db EXCEPT ![v] = draft[v]] /\ draft' = [draft EXCEPT ![v] = Nil]
        /\ writer' = [writer EXCEPT ![v] = "none"]
    BY DEF Commit, ImportInv, TypeOK
  <1>2. Keeps(db[v], draft[v]) /\ Once(draft[v].rows, overtaken) /\ IsDatabase(draft[v])
    BY <1>1 DEF ImportInv, WritersOK, TypeOK
  <1>3. ASSUME NEW u \in Vault
        PROVE  \/ u = v /\ db'[u] = draft[v] /\ draft'[u] = Nil /\ writer'[u] = "none"
               \/ u # v /\ db'[u] = db[u] /\ draft'[u] = draft[u] /\ writer'[u] = writer[u]
    BY <1>1 DEF ImportInv, TypeOK
  <1>4. TypeOK'
    <2>1. DOMAIN db' = Vault /\ DOMAIN draft' = Vault /\ DOMAIN writer' = Vault
      BY <1>1 DEF ImportInv, TypeOK
    <2> QED
      BY <1>1, <1>2, <1>3, <2>1 DEF ImportInv, TypeOK
  <1>5. WritersOK'
    BY <1>1, <1>2, <1>3, OnceLater DEF ImportInv, WritersOK
  <1>6. ASSUME NEW u \in Vault, NEW i \in Conn, db'[u].conns[i].there
        PROVE  db[u].conns[i].there /\ db'[u].conns[i].last = db[u].conns[i].last
    BY <1>2, <1>3, <1>6 DEF Keeps
  <1>7. LoopOK'
    <2>1. \A due \in loop.todo : due[1] \in Conn
      BY DEF ImportInv, TypeOK, Loop
    <2> QED
      BY <1>1, <1>6, <2>1 DEF ImportInv, LoopOK
  <1>8. FetchOK'
    <2> SUFFICES ASSUME loop.op = "import", ~loop.down, ~loop.dead, loop.of = loop.session,
                        NEW t \in posted, WasDue(t, loop.of, loop.conn)', Posting[t].date < loop.fetched
                 PROVE  t \in loop.left \/ Found(Seen.rows, t)'
      BY <1>1 DEF FetchOK
    <2>1. loop.of \in Vault /\ loop.session \in Vault /\ loop.conn \in Conn
      BY DEF ImportInv, LoopOK
    <2>2. WasDue(t, loop.of, loop.conn)
      BY <1>1, <1>6, <2>1 DEF WasDue
    <2>3. t \in loop.left \/ Found(Seen.rows, t)
      BY <2>2 DEF ImportInv, FetchOK
    <2>4. Seen' = Seen \/ (Seen = db[v] /\ Seen' = draft[v])
      BY <1>1, <1>3, <2>1 DEF Seen
    <2> QED
      BY <1>2, <2>3, <2>4, KeepsFound
  <1>9. PendingOK'
    <2> DEFINE t == loop.pending
    <2> SUFFICES ASSUME t # Nil, Exact(t), t \notin overtaken'
                 PROVE  Fresh(Seen.rows, t)'
      BY <1>1 DEF PendingOK, ImportInv, Accepted
    <2>1. t \in Tx /\ t \in Wanted /\ Fresh(Seen.rows, t) /\ loop.session \in Vault
      BY <1>1 DEF ImportInv, PendingOK, Accepted, LoopOK
    <2>2. CASE v # loop.session
      <3>1. Seen' = Seen
        BY <1>1, <1>3, <2>1, <2>2 DEF Seen
      <3> QED
        BY <1>1, <2>1, <3>1 DEF Fresh, OfDay
    <2>3. CASE v = loop.session
      <3>1. Seen = db[v] /\ Seen' = draft[v]
        BY <1>1, <1>3, <2>3 DEF Seen
      <3>2. ~(draft[v].rows[RowOf[t]] > db[v].rows[RowOf[t]])
        BY <2>1, <2>3 DEF Commit
      <3>3. RowOf[t] \in Rows
        BY <2>1, RowOfFacts
      <3>4. draft[v].rows[RowOf[t]] \in Nat /\ db[v].rows[RowOf[t]] \in Nat
        BY <1>2, <3>3, SyncAssumption DEF IsDatabase, ImportInv, TypeOK
      <3>5. OfDay(db[v].rows, t) \subseteq OfDay(draft[v].rows, t)
        BY <1>2 DEF OfDay, Keeps
      <3>6. Fresh(draft[v].rows, t)
        <4>1. SUFFICES ASSUME OfDay(draft[v].rows, t) \subseteq {RowOf[t]}
                       PROVE  draft[v].rows[RowOf[t]] = 0
          BY DEF Fresh
        <4>2. OfDay(db[v].rows, t) \subseteq {RowOf[t]}
          BY <3>5, <4>1
        <4>3. db[v].rows[RowOf[t]] = 0
          BY <2>1, <3>1, <4>2 DEF Fresh
        <4> QED
          BY <3>2, <3>4, <4>3
      <3> QED
        BY <1>1, <3>1, <3>6 DEF Fresh, OfDay
    <2> QED
      BY <2>2, <2>3
  <1> QED
    BY <1>4, <1>5, <1>7, <1>8, <1>9 DEF ImportInv

(* A day that ends and a transaction that is posted change no database.    *)
LEMMA WorldInv ==
  ASSUME ImportInv, Tick \/ \E t \in Tx : Post(t)
  PROVE  ImportInv'
PROOF
  <1> USE SyncAssumption
  <1>1. UNCHANGED <<open, db, draft, writer, loop, events, overtaken>>
    BY DEF Tick, Post
  <1>2. today' \in 0..MaxDay /\ today' >= today /\ posted' \subseteq Tx
    BY DEF ImportInv, TypeOK, Tick, Post
  <1>3. TypeOK'
    BY <1>1, <1>2 DEF ImportInv, TypeOK
  <1>4. WritersOK'
    BY <1>1 DEF ImportInv, WritersOK
  <1>5. LoopOK'
    <2>1. ASSUME loop.op \in {"import", "manual"}
          PROVE  loop.fetched \in 0..today' /\ today' <= loop.fetched + 1
      <3>1. loop.fetched \in 0..today /\ today <= loop.fetched + 1 /\ today \in 0..MaxDay
        BY <2>1 DEF ImportInv, LoopOK, TypeOK
      <3>2. CASE Tick
        <4>1. loop.fetched = today /\ today' = today + 1
          BY <3>1, <3>2 DEF Tick
        <4> QED
          BY <3>1, <4>1
      <3>3. CASE UNCHANGED today
        BY <3>1, <3>3
      <3> QED
        BY <3>2, <3>3 DEF Post
    <2> QED
      BY <1>1, <2>1 DEF ImportInv, LoopOK
  <1>6. FetchOK'
    <2>1. Seen' = Seen
      BY <1>1 DEF Seen
    <2>2. ASSUME NEW t \in posted', t \notin posted, loop.op = "import"
          PROVE  ~(Posting[t].date < loop.fetched)
      <3>1. Posting[t].date = today
        BY <2>2 DEF Tick, Post
      <3>2. loop.fetched \in 0..today /\ today \in 0..MaxDay
        BY <2>2 DEF ImportInv, LoopOK, TypeOK
      <3> QED
        BY <3>1, <3>2
    <2> QED
      BY <1>1, <2>1, <2>2 DEF ImportInv, FetchOK, WasDue
  <1>7. PendingOK'
    BY <1>1, PendingStays DEF Seen
  <1> QED
    BY <1>3, <1>4, <1>5, <1>6, <1>7 DEF ImportInv

(* The loop turns to something else and nothing is written.                *)
LEMMA TurnInv ==
  ASSUME ImportInv, UNCHANGED <<today, posted, open, db, draft, writer, overtaken>>,
         events' \in 0..MaxEvents, loop' \in Loop, loop'.pending = Nil,
         \A v \in Vault : writer[v] # "loop", LoopOK', FetchOK'
  PROVE  ImportInv'
PROOF
  <1>1. TypeOK'
    BY DEF ImportInv, TypeOK
  <1>2. WritersOK' /\ PendingOK'
    BY DEF ImportInv, WritersOK, PendingOK
  <1> QED
    BY <1>1, <1>2 DEF ImportInv

(* The events the environment is allowed stay within their bound.          *)
LEMMA EventsTyped ==
  ASSUME events \in 0..MaxEvents, Happens \/ UNCHANGED events
  PROVE  events' \in 0..MaxEvents
PROOF
  BY SyncAssumption DEF Happens

(* A pass opens its session on the vault that is open now.                 *)
LEMMA StartPassInv ==
  ASSUME ImportInv, StartPass
  PROVE  ImportInv'
PROOF
  <1>1. /\ loop.op = "idle" /\ UNCHANGED <<today, posted, open, db, draft, writer, events, overtaken>>
        /\ open \in Vault /\ IsDatabase(db[open]) /\ events \in 0..MaxEvents
        /\ \A v \in Vault : writer[v] # "loop"
    BY DEF ImportInv, TypeOK, StartPass
  <1>2. Due(open) \in SUBSET (Conn \X (0..MaxDay \cup {Nil}))
    BY <1>1 DEF Due, IsDatabase, ConnRow
  <1>3. /\ loop' \in Loop /\ loop'.op = "pass" /\ loop'.of = open /\ loop'.todo = Due(open)
        /\ ~loop'.dead /\ loop'.pending = Nil
    BY <1>1, <1>2 DEF StartPass, Idle, Loop
  <1>4. LoopOK'
    BY <1>1, <1>3 DEF LoopOK, Due
  <1>5. FetchOK'
    BY <1>3 DEF FetchOK
  <1> QED
    BY <1>1, <1>3, <1>4, <1>5, TurnInv

(* The loop takes a connection, or none is left, and fetches for it.       *)
LEMMA NextConnInv ==
  ASSUME ImportInv, NextConn
  PROVE  ImportInv'
PROOF
  <1>1. /\ loop.op = "pass" /\ UNCHANGED <<today, posted, open, db, draft, writer, overtaken>>
        /\ open \in Vault /\ events \in 0..MaxEvents /\ today \in 0..MaxDay /\ posted \subseteq Tx
        /\ loop \in Loop /\ loop.of \in Vault /\ ~loop.dead /\ loop.pending = Nil
        /\ \A v \in Vault : writer[v] # "loop"
    BY DEF ImportInv, TypeOK, LoopOK, PendingOK, NextConn
  <1>2. PICK due \in loop.todo, down \in BOOLEAN :
          /\ Happens \/ UNCHANGED events
          /\ loop' = [loop EXCEPT !.op = "import", !.todo = @ \ {due}, !.conn = due[1],
                                  !.session = open, !.down = down, !.fetched = today,
                                  !.left = Fetch(<<loop.of, due[1]>>, due[2], down)]
    BY DEF NextConn
  <1>3. due[1] \in Conn /\ loop.todo \in SUBSET (Conn \X (0..MaxDay \cup {Nil}))
    BY <1>1 DEF Loop
  <1>4. Fetch(<<loop.of, due[1]>>, due[2], down) \subseteq Tx
    BY <1>1 DEF Fetch, Reported
  <1>5. /\ loop' \in Loop /\ loop'.op = "import" /\ loop'.of = loop.of /\ loop'.todo = loop.todo \ {due}
        /\ loop'.conn = due[1] /\ loop'.session = open /\ loop'.down = down /\ loop'.fetched = today
        /\ loop'.left = Fetch(<<loop.of, due[1]>>, due[2], down) /\ ~loop'.dead /\ loop'.pending = Nil
    BY <1>1, <1>2, <1>3, <1>4 DEF Loop
  <1>6. \A d \in loop.todo :
          /\ db[loop.of].conns[d[1]].there => db[loop.of].conns[d[1]].last = d[2]
          /\ \A other \in loop.todo : other[1] = d[1] => other = d
    BY <1>1 DEF ImportInv, LoopOK
  <1>7. LoopOK'
    <2>1. today \in 0..today /\ today <= today + 1
      BY <1>1
    <2> QED
      BY <1>1, <1>3, <1>5, <1>6, <2>1 DEF LoopOK
  <1>8. FetchOK'
    <2> SUFFICES ASSUME ~down, NEW t \in posted, WasDue(t, loop.of, due[1])
                 PROVE  t \in loop'.left
      BY <1>1, <1>5 DEF FetchOK, WasDue
    <2>1. Account[t] = <<loop.of, due[1]>> /\ (due[2] # Nil => Posting[t].date >= due[2])
      <3>1. due[2] = db[loop.of].conns[due[1]].last /\ due[2] \in 0..MaxDay \cup {Nil}
        BY <1>1, <1>3, <1>6 DEF WasDue
      <3>2. Posting[t].date \in 0..MaxDay
        BY <1>1, SyncAssumption
      <3> QED
        BY <3>1, <3>2, SyncAssumption DEF WasDue
    <2> QED
      BY <1>5, <2>1 DEF Fetch, Reported
  <1> QED
    BY <1>1, <1>2, <1>5, <1>7, <1>8, EventsTyped, TurnInv

(* A sync by hand fetches with the session of its request.                 *)
LEMMA ManualSyncInv ==
  ASSUME ImportInv, NEW i \in Conn, ManualSync(i)
  PROVE  ImportInv'
PROOF
  <1>1. /\ loop.op = "idle" /\ UNCHANGED <<today, posted, open, db, draft, writer, overtaken>>
        /\ open \in Vault /\ events \in 0..MaxEvents /\ today \in 0..MaxDay /\ posted \subseteq Tx
        /\ \A v \in Vault : writer[v] # "loop"
    BY DEF ImportInv, TypeOK, ManualSync
  <1>2. events' \in 0..MaxEvents
    BY <1>1, EventsTyped DEF ManualSync
  <1>3. /\ loop' \in Loop /\ loop'.op = "manual" /\ loop'.of = open /\ loop'.conn = i
        /\ loop'.session = open /\ loop'.fetched = today /\ ~loop'.dead
        /\ loop'.pending = Nil
    <2>1. Fetch(<<open, i>>, db[open].conns[i].last, FALSE) \subseteq Tx
      BY <1>1 DEF Fetch, Reported
    <2> QED
      BY <1>1, <2>1 DEF ManualSync, Idle, Loop
  <1>4. LoopOK'
    <2>1. today \in 0..today /\ today <= today + 1
      BY <1>1
    <2> QED
      BY <1>1, <1>3, <2>1 DEF LoopOK
  <1>5. FetchOK'
    BY <1>3 DEF FetchOK
  <1> QED
    BY <1>1, <1>2, <1>3, <1>4, <1>5, TurnInv

(* A sync by hand hands its rows to the commit of its request.             *)
LEMMA FinishManualInv ==
  ASSUME ImportInv, FinishManual
  PROVE  ImportInv'
PROOF
  <1>1. /\ loop.op = "manual" /\ loop.session \in Vault /\ loop' = Idle
        /\ writer' = [writer EXCEPT ![loop.session] = IF @ = "loop" THEN "request" ELSE @]
        /\ UNCHANGED <<today, posted, open, db, draft, events, overtaken>>
    BY DEF ImportInv, LoopOK, FinishManual
  <1>2. ASSUME NEW v \in Vault
        PROVE  writer'[v] = IF writer[v] = "loop" THEN "request" ELSE writer[v]
    BY <1>1 DEF ImportInv, TypeOK
  <1>3. TypeOK'
    <2>1. DOMAIN writer' = Vault
      BY <1>1 DEF ImportInv, TypeOK
    <2> QED
      BY <1>1, <1>2, <2>1, IdleOK DEF ImportInv, TypeOK
  <1>4. WritersOK'
    BY <1>1, <1>2 DEF ImportInv, WritersOK
  <1> QED
    BY <1>1, <1>3, <1>4, IdleOK DEF ImportInv, LoopOK, FetchOK, PendingOK

(* Another vault opens, under the loop's session.                          *)
LEMMA SwitchInv ==
  ASSUME ImportInv, NEW v \in Vault, Switch(v)
  PROVE  ImportInv'
PROOF
  <1>1. UNCHANGED <<today, posted, db, draft, writer, loop, overtaken>> /\ open' = v /\ events' \in 0..MaxEvents
    BY EventsTyped DEF ImportInv, TypeOK, Switch
  <1>2. TypeOK'
    BY <1>1 DEF ImportInv, TypeOK
  <1>3. Seen' = Seen
    BY <1>1 DEF Seen
  <1>4. WritersOK' /\ LoopOK'
    BY <1>1 DEF ImportInv, WritersOK, LoopOK
  <1>5. FetchOK'
    BY <1>1, <1>3 DEF ImportInv, FetchOK, WasDue
  <1>6. PendingOK'
    BY <1>1, <1>3, PendingStays
  <1> QED
    BY <1>2, <1>4, <1>5, <1>6 DEF ImportInv

(* The end of the process forgets the drafts and the loop.                 *)
LEMMA RestartInv ==
  ASSUME ImportInv, Restart
  PROVE  ImportInv'
PROOF
  <1>1. /\ UNCHANGED <<today, posted, open, db, overtaken>> /\ events' \in 0..MaxEvents /\ loop' = Idle
        /\ draft' = [v \in Vault |-> Nil] /\ writer' = [v \in Vault |-> "none"]
    BY EventsTyped DEF ImportInv, TypeOK, Restart
  <1>2. TypeOK'
    BY <1>1, IdleOK DEF ImportInv, TypeOK
  <1> QED
    BY <1>1, <1>2, IdleOK DEF ImportInv, WritersOK, LoopOK, FetchOK, PendingOK

(* What the session of the loop has seen of its vault.                     *)
LEMMA SeenKeeps ==
  ASSUME ImportInv, loop.session \in Vault
  PROVE  /\ IsDatabase(Seen) /\ Once(Seen.rows, overtaken) /\ Keeps(db[loop.session], Seen)
         /\ Seen \in [rows: [Rows -> 0..MaxCopies], conns: [Conn -> ConnRow]]
PROOF
  <1>1. CASE writer[loop.session] = "loop"
    BY <1>1 DEF Seen, ImportInv, TypeOK, WritersOK, IsDatabase
  <1>2. CASE writer[loop.session] # "loop"
    BY <1>2 DEF Seen, ImportInv, TypeOK, WritersOK, Keeps, IsDatabase
  <1> QED
    BY <1>1, <1>2

(* One reported transaction is passed over, or found to be new.            *)
LEMMA LookForInv ==
  ASSUME ImportInv, NEW t \in Tx, LookFor(t)
  PROVE  ImportInv'
PROOF
  <1>1. /\ loop.op \in {"import", "manual"} /\ t \in loop.left /\ ~loop.dead /\ loop.pending = Nil
        /\ UNCHANGED <<today, posted, open, db, draft, writer, events, overtaken>>
        /\ loop.session \in Vault /\ loop \in Loop
    BY DEF ImportInv, TypeOK, LoopOK, LookFor
  <1>2. PICK dup \in Duplicate(Seen.rows, t) :
          loop' = IF dup \/ ~Accepted(t) THEN [loop EXCEPT !.left = @ \ {t}]
                  ELSE [loop EXCEPT !.pending = t]
    BY DEF LookFor
  <1>3. Seen.rows \in [Rows -> 0..MaxCopies]
    BY <1>1, SeenKeeps DEF IsDatabase
  <1>4. /\ dup \in BOOLEAN /\ (dup => Found(Seen.rows, t))
        /\ (~dup /\ Exact(t) /\ t \in Wanted => Fresh(Seen.rows, t))
    BY <1>2, <1>3, Tested
  <1>5. /\ loop' \in Loop /\ loop'.op = loop.op /\ loop'.of = loop.of /\ loop'.session = loop.session
        /\ loop'.conn = loop.conn /\ loop'.todo = loop.todo /\ loop'.fetched = loop.fetched
        /\ loop'.down = loop.down /\ loop'.dead = loop.dead
        /\ \/ (dup \/ ~Accepted(t)) /\ loop'.left = loop.left \ {t} /\ loop'.pending = Nil
           \/ ~dup /\ Accepted(t) /\ loop'.left = loop.left /\ loop'.pending = t
    BY <1>1, <1>2, <1>4 DEF Loop
  <1>6. Seen' = Seen
    BY <1>1, <1>5 DEF Seen
  <1>7. TypeOK'
    BY <1>1, <1>5 DEF ImportInv, TypeOK
  <1>8. WritersOK'
    BY <1>1 DEF ImportInv, WritersOK
  <1>9. LoopOK'
    <2>1. loop.op # "pass"
      BY <1>1
    <2> QED
      BY <1>1, <1>5, <2>1 DEF ImportInv, LoopOK
  <1>10. FetchOK'
    <2> SUFFICES ASSUME loop.op = "import", ~loop.down, loop.of = loop.session,
                        NEW u \in posted, WasDue(u, loop.of, loop.conn), Posting[u].date < loop.fetched
                 PROVE  u \in loop'.left \/ Found(Seen.rows, u)
      BY <1>1, <1>5, <1>6 DEF FetchOK, WasDue
    <2>1. u \in loop.left \/ Found(Seen.rows, u)
      BY <1>1 DEF ImportInv, FetchOK
    <2>2. ASSUME u = t
          PROVE  u \in loop'.left \/ Found(Seen.rows, u)
      <3>1. Accepted(t)
        BY <2>2 DEF Accepted, WasDue
      <3> QED
        BY <1>1, <1>4, <1>5, <2>2, <3>1
    <2> QED
      BY <1>5, <2>1, <2>2
  <1>11. PendingOK'
    <2> SUFFICES ASSUME loop'.pending # Nil
                 PROVE  PendingOK'
      BY DEF PendingOK
    <2>1. ~dup /\ Accepted(t) /\ t \in Wanted /\ loop'.left = loop.left /\ loop'.pending = t
      BY <1>5 DEF Accepted
    <2>2. Accepted(t)'
      BY <1>5, <2>1 DEF Accepted
    <2> QED
      BY <1>1, <1>4, <1>5, <1>6, <2>1, <2>2 DEF PendingOK
  <1> QED
    BY <1>7, <1>8, <1>9, <1>10, <1>11 DEF ImportInv

(* What was found to be new is recorded, once, or the session dies of it.  *)
LEMMA InsertOneInv ==
  ASSUME ImportInv, InsertOne
  PROVE  ImportInv'
PROOF
  <1> DEFINE s == loop.session
             t == loop.pending
             d == Seen
  <1>1. /\ loop.op \in {"import", "manual"} /\ ~loop.dead /\ t # Nil /\ t \in loop.left /\ t \in Tx
        /\ UNCHANGED <<today, posted, open, db, events, overtaken>>
        /\ s \in Vault /\ loop \in Loop /\ DOMAIN writer = Vault /\ DOMAIN draft = Vault
        /\ (Exact(t) /\ t \notin overtaken => Fresh(d.rows, t)) /\ t \in Wanted
    BY DEF ImportInv, TypeOK, LoopOK, PendingOK, Accepted, InsertOne
  <1>2. /\ IsDatabase(d) /\ Once(d.rows, overtaken) /\ Keeps(db[s], d)
        /\ d \in [rows: [Rows -> 0..MaxCopies], conns: [Conn -> ConnRow]]
        /\ d.rows \in [Rows -> 0..MaxCopies]
    BY <1>1, SeenKeeps DEF IsDatabase
  <1>3. \/ /\ writer[s] = "request" /\ UNCHANGED <<draft, writer>>
           /\ loop' = [loop EXCEPT !.left = {}, !.pending = Nil, !.dead = TRUE]
        \/ /\ writer[s] # "request"
           /\ loop' = [loop EXCEPT !.left = @ \ {t}, !.pending = Nil]
           /\ draft' = [draft EXCEPT ![s] = [d EXCEPT !.rows = Add(@, RowOf[t])]]
           /\ writer' = [writer EXCEPT ![s] = "loop"]
    BY DEF InsertOne
  <1> HIDE DEF d
  <1>4. /\ loop' \in Loop /\ loop'.op = loop.op /\ loop'.of = loop.of /\ loop'.session = s
        /\ loop'.conn = loop.conn /\ loop'.todo = loop.todo /\ loop'.fetched = loop.fetched
        /\ loop'.down = loop.down /\ loop'.pending = Nil
        /\ \/ writer[s] = "request" /\ loop'.dead /\ loop'.left = {}
           \/ writer[s] # "request" /\ ~loop'.dead /\ loop'.left = loop.left \ {t}
    <2>1. CASE writer[s] = "request"
      <3>1. loop' = [loop EXCEPT !.left = {}, !.pending = Nil, !.dead = TRUE]
        BY <1>3, <2>1
      <3> QED
        BY <1>1, <2>1, <3>1 DEF Loop
    <2>2. CASE writer[s] # "request"
      <3>1. loop' = [loop EXCEPT !.left = @ \ {t}, !.pending = Nil]
        BY <1>3, <2>2
      <3>2. loop.left \ {t} \subseteq Tx
        BY <1>1 DEF Loop
      <3> QED
        BY <1>1, <2>2, <3>1, <3>2 DEF Loop
    <2> QED
      BY <2>1, <2>2
  <1>5. LoopOK'
    <2>1. loop.op # "pass"
      BY <1>1
    <2> QED
      BY <1>1, <1>4, <2>1 DEF ImportInv, LoopOK
  <1>6. PendingOK'
    BY <1>4 DEF PendingOK
  <1>7. CASE writer[s] = "request"
    <2>1. UNCHANGED <<draft, writer>>
      BY <1>3, <1>7
    <2>2. TypeOK'
      BY <1>1, <1>4, <1>7, <2>1 DEF ImportInv, TypeOK
    <2>3. WritersOK'
      BY <1>1, <2>1 DEF ImportInv, WritersOK
    <2>4. FetchOK'
      BY <1>4, <1>7 DEF FetchOK
    <2> QED
      BY <1>5, <1>6, <2>2, <2>3, <2>4 DEF ImportInv
  <1>8. CASE writer[s] # "request"
    <2> DEFINE rows == Add(d.rows, RowOf[t])
               e == [d EXCEPT !.rows = rows]
    <2>1. /\ rows \in [Rows -> 0..MaxCopies] /\ RowOf[t] \in Rows /\ rows[RowOf[t]] > 0
          /\ \A r \in Rows : d.rows[r] > 0 => rows[r] > 0
      BY <1>1, <1>2, AddKeeps, RowOfFacts
    <2>2. Once(rows, overtaken)
      BY <1>1, <1>2, AddOnce
    <2> HIDE DEF rows
    <2>3. e.rows = rows /\ e.conns = d.conns /\ e \in [rows: [Rows -> 0..MaxCopies], conns: [Conn -> ConnRow]]
      BY <1>2, <2>1
    <2>4. draft' = [draft EXCEPT ![s] = e] /\ writer' = [writer EXCEPT ![s] = "loop"]
      BY <1>3, <1>8 DEF rows
    <2>5. /\ draft'[s] = e /\ writer'[s] = "loop" /\ DOMAIN draft' = Vault /\ DOMAIN writer' = Vault
          /\ \A v \in Vault : v # s => draft'[v] = draft[v] /\ writer'[v] = writer[v]
      BY <1>1, <2>4
    <2> HIDE DEF e
    <2>6. IsDatabase(e) /\ Keeps(db[s], e) /\ Keeps(d, e)
      BY <1>2, <2>1, <2>3 DEF IsDatabase, Keeps
    <2>7. TypeOK'
      BY <1>1, <1>4, <2>5, <2>6 DEF ImportInv, TypeOK
    <2>8. WritersOK'
      BY <1>1, <2>2, <2>3, <2>5, <2>6 DEF ImportInv, WritersOK
    <2>9. Seen' = e
      BY <1>4, <2>5 DEF Seen
    <2>10. Found(e.rows, t)
      BY <1>1, <2>1, <2>3, RowOfFacts DEF Found, OfDay
    <2>11. FetchOK'
      <3> SUFFICES ASSUME loop.op = "import", ~loop.down, loop.of = s,
                          NEW u \in posted, WasDue(u, loop.of, loop.conn), Posting[u].date < loop.fetched
                   PROVE  u \in loop.left \ {t} \/ Found(e.rows, u)
        BY <1>1, <1>4, <1>8, <2>9 DEF FetchOK, WasDue
      <3>1. u \in loop.left \/ Found(d.rows, u)
        BY <1>1 DEF ImportInv, FetchOK, d
      <3> QED
        BY <2>6, <2>10, <3>1, KeepsFound
    <2> QED
      BY <1>5, <1>6, <2>7, <2>8, <2>11 DEF ImportInv
  <1> QED
    BY <1>7, <1>8

(* The database with a connection's date moved is a database with its      *)
(* rows kept.                                                              *)
LEMMA SyncedKeeps ==
  ASSUME ImportInv, loop.session \in Vault, NEW i \in Conn
  PROVE  LET e == Synced(i)
             d == db[loop.session]
         IN  /\ IsDatabase(e) /\ Once(e.rows, overtaken)
             /\ \A j \in Conn : e.conns[j].there => d.conns[j].there
             /\ \A j \in Conn : e.conns[j].there /\ j # i => e.conns[j].last = d.conns[j].last
             /\ \A j \in Conn : e.conns[j].last # d.conns[j].last /\ e.conns[j].last # Nil =>
                  j = i /\ e.conns[j].last = today /\ d.conns[j].there /\ e.rows = Seen.rows
PROOF
  <1> DEFINE d == db[loop.session]
             x == Seen
  <1>1. /\ IsDatabase(x) /\ Once(x.rows, overtaken) /\ Keeps(d, x)
        /\ x \in [rows: [Rows -> 0..MaxCopies], conns: [Conn -> ConnRow]]
    BY SeenKeeps
  <1>2. IsDatabase(d) /\ Once(d.rows, overtaken) /\ today \in 0..MaxDay
    BY DEF ImportInv, TypeOK, WritersOK
  <1>3. CASE ~x.conns[i].there
    BY <1>2, <1>3 DEF Synced
  <1>4. CASE x.conns[i].there
    <2> DEFINE c == [x.conns[i] EXCEPT !.last = today]
               e == [x EXCEPT !.conns[i] = c]
    <2>1. Synced(i) = e
      BY <1>1, <1>4 DEF Synced
    <2>2. c \in ConnRow /\ c.there /\ c.last = today
      BY <1>1, <1>2, <1>4 DEF ConnRow
    <2> HIDE DEF c, x
    <2>3. /\ e.rows = x.rows /\ e.conns[i] = c /\ \A j \in Conn : j # i => e.conns[j] = x.conns[j]
          /\ e \in [rows: [Rows -> 0..MaxCopies], conns: [Conn -> ConnRow]]
      BY <1>1, <2>2
    <2> HIDE DEF e
    <2>4. IsDatabase(e) /\ Once(e.rows, overtaken)
      BY <1>1, <2>2, <2>3 DEF IsDatabase
    <2>5. /\ \A j \in Conn : e.conns[j].there => d.conns[j].there
          /\ \A j \in Conn : e.conns[j].there /\ j # i => e.conns[j].last = d.conns[j].last
      BY <1>1, <1>4, <2>2, <2>3 DEF Keeps
    <2>6. ASSUME NEW j \in Conn, e.conns[j].last # d.conns[j].last, e.conns[j].last # Nil
          PROVE  j = i /\ e.conns[j].last = today /\ d.conns[j].there /\ e.rows = x.rows
      <3>1. e.conns[j].there
        BY <2>4, <2>6, NoConnOK DEF IsDatabase
      <3> QED
        BY <2>2, <2>3, <2>5, <2>6, <3>1
    <2> QED
      BY <2>1, <2>4, <2>5, <2>6 DEF x
  <1> QED
    BY <1>3, <1>4

(* What the end of a connection's turn changes: at most its database, by   *)
(* the commit.                                                             *)
LEMMA FinishConnFacts ==
  ASSUME ImportInv, FinishConn
  PROVE  /\ loop.op = "import" /\ loop.left = {} /\ loop.session \in Vault /\ loop.conn \in Conn
         /\ UNCHANGED <<today, posted, open, events, overtaken>>
         /\ \/ db' = db
            \/ ~loop.dead /\ db' = [db EXCEPT ![loop.session] = Synced(loop.conn)] /\ writer[loop.session] # "request"
         /\ IF writer[loop.session] = "loop"
            THEN draft' = [draft EXCEPT ![loop.session] = Nil] /\ writer' = [writer EXCEPT ![loop.session] = "none"]
            ELSE UNCHANGED <<draft, writer>>
         /\ loop' = Idle \/ loop' = [Idle EXCEPT !.op = "pass", !.of = loop.of, !.todo = loop.todo]
PROOF
  <1>1. loop.op = "import"
    BY DEF FinishConn
  <1> QED
    BY <1>1 DEF ImportInv, LoopOK, FinishConn, AfterConn

(* The end of a connection's turn.                                         *)
LEMMA FinishConnInv ==
  ASSUME ImportInv, FinishConn
  PROVE  ImportInv'
PROOF
  <1> DEFINE s == loop.session
             e == Synced(loop.conn)
  <1>1. /\ loop.op = "import" /\ loop.left = {} /\ s \in Vault /\ loop.conn \in Conn
        /\ UNCHANGED <<today, posted, open, events, overtaken>>
        /\ \/ db' = db
           \/ ~loop.dead /\ db' = [db EXCEPT ![s] = e] /\ writer[s] # "request"
        /\ IF writer[s] = "loop"
           THEN draft' = [draft EXCEPT ![s] = Nil] /\ writer' = [writer EXCEPT ![s] = "none"]
           ELSE UNCHANGED <<draft, writer>>
        /\ loop' = Idle \/ loop' = [Idle EXCEPT !.op = "pass", !.of = loop.of, !.todo = loop.todo]
    BY FinishConnFacts
  <1>2. /\ IsDatabase(e) /\ Once(e.rows, overtaken)
        /\ \A j \in Conn : e.conns[j].there => db[s].conns[j].there
        /\ \A j \in Conn : e.conns[j].there /\ j # loop.conn => e.conns[j].last = db[s].conns[j].last
    BY <1>1, SyncedKeeps
  <1> HIDE DEF e
  <1>3. /\ DOMAIN db' = Vault /\ DOMAIN draft' = Vault /\ DOMAIN writer' = Vault
        /\ \A v \in Vault : v # s => db'[v] = db[v] /\ draft'[v] = draft[v] /\ writer'[v] = writer[v]
        /\ db'[s] = db[s] \/ (db'[s] = e /\ writer[s] # "request")
        /\ IF writer[s] = "loop" THEN draft'[s] = Nil /\ writer'[s] = "none"
           ELSE draft'[s] = draft[s] /\ writer'[s] = writer[s]
    BY <1>1 DEF ImportInv, TypeOK
  <1>4. /\ loop' \in Loop /\ loop'.op \in {"idle", "pass"} /\ ~loop'.dead /\ loop'.pending = Nil
        /\ loop'.op = "pass" => loop'.of = loop.of /\ loop'.todo = loop.todo
    <2>1. loop.of \in Vault \cup {Nil} /\ loop.todo \in SUBSET (Conn \X (0..MaxDay \cup {Nil}))
      BY DEF ImportInv, TypeOK, Loop
    <2>2. CASE loop' = Idle
      BY <2>2, IdleOK
    <2>3. CASE loop' = [Idle EXCEPT !.op = "pass", !.of = loop.of, !.todo = loop.todo]
      <3>1. loop' \in Loop
        BY <2>1, <2>3, IdleOK DEF Loop
      <3>2. loop'.op = "pass" /\ ~loop'.dead /\ loop'.of = loop.of /\ loop'.todo = loop.todo
            /\ loop'.pending = Nil
        BY <2>3 DEF Idle
      <3> QED
        BY <3>1, <3>2
    <2> QED
      BY <1>1, <2>2, <2>3
  <1>5. TypeOK'
    <2>1. \A v \in Vault : writer[v] = "loop" => v = s
      BY DEF ImportInv, TypeOK
    <2> QED
      BY <1>1, <1>2, <1>3, <1>4, <2>1 DEF ImportInv, TypeOK
  <1>6. WritersOK'
    <2>1. ASSUME NEW v \in Vault, v # s
          PROVE  Once(db'[v].rows, overtaken) /\ (writer'[v] # "none" => Keeps(db'[v], draft'[v]) /\ Once(draft'[v].rows, overtaken))
      BY <1>3, <2>1 DEF ImportInv, WritersOK
    <2>2. Once(db'[s].rows, overtaken) /\ (writer'[s] # "none" => Keeps(db'[s], draft'[s]) /\ Once(draft'[s].rows, overtaken))
      <3>1. writer[s] \in {"none", "loop", "request"}
        BY <1>1 DEF ImportInv, TypeOK
      <3> QED
        BY <1>1, <1>2, <1>3, <3>1 DEF ImportInv, WritersOK
    <2> QED
      BY <1>1, <2>1, <2>2 DEF WritersOK
  <1>7. LoopOK'
    <2>1. ASSUME loop'.op = "pass", NEW due \in loop.todo
          PROVE  db'[loop.of].conns[due[1]].there => db'[loop.of].conns[due[1]].last = due[2]
      <3>1. /\ due[1] \in Conn /\ loop.of \in Vault /\ due[1] # loop.conn
            /\ (db[loop.of].conns[due[1]].there => db[loop.of].conns[due[1]].last = due[2])
        BY <1>1 DEF ImportInv, LoopOK, TypeOK, Loop
      <3> QED
        BY <1>2, <1>3, <3>1
    <2>2. loop'.op = "pass" => loop.of \in Vault /\ \A due, other \in loop.todo : other[1] = due[1] => other = due
      BY <1>1 DEF ImportInv, LoopOK
    <2> QED
      BY <1>4, <2>1, <2>2 DEF LoopOK
  <1>8. FetchOK' /\ PendingOK'
    BY <1>4 DEF FetchOK, PendingOK
  <1> QED
    BY <1>5, <1>6, <1>7, <1>8 DEF ImportInv

(* Every step keeps the invariant.                                         *)
LEMMA ImportStep ==
  ASSUME ImportInv, [Next]_vars
  PROVE  ImportInv'
PROOF
  <1>1. CASE SyncStep
    BY <1>1, StartPassInv, NextConnInv, LookForInv, InsertOneInv, FinishConnInv, FinishManualInv
       DEF SyncStep
  <1>2. CASE Requests
    BY <1>2, ManualSyncInv, DeleteConnInv, SetActiveInv, EnterInv DEF Requests
  <1>3. CASE UNCHANGED vars
    BY <1>3, PendingStays DEF vars, ImportInv, TypeOK, WritersOK, LoopOK, FetchOK, WasDue, Seen
  <1> QED
    BY <1>1, <1>2, <1>3, WorldInv, CommitInv, SwitchInv, RestartInv, UploadInv DEF Next, SyncNext

(* The invariant holds in every state.                                     *)
LEMMA ImportInvariance == Spec => []ImportInv
PROOF
  BY ImportInit, ImportStep, PTL DEF Spec

-----------------------------------------------------------------------------
(* Databases, drafts and the loop keep their shape, whoever writes.        *)
THEOREM TypeCorrect == Spec => []TypeOK
PROOF
  <1>1. ImportInv => TypeOK
    BY DEF ImportInv
  <1> QED
    BY <1>1, ImportInvariance, PTL

(* What a bank reports alone on its day and without more digits than the   *)
(* column has is recorded at most once, if no other sync records it        *)
(* between the test and the insertion, however passes, manual syncs,       *)
(* requests, uploads and restarts follow each other.                       *)
THEOREM RecordedOnce == Spec => []ImportedOnce
PROOF
  <1>1. ImportInv => ImportedOnce
    <2> SUFFICES ASSUME ImportInv, NEW t \in Tx, RowsOnDayOf(t) = {RowOf[t]},
                        \A u \in Tx : RowOf[u] = RowOf[t] => Exact(u) /\ u \notin overtaken
                 PROVE  db[Account[t][1]].rows[RowOf[t]] = 1
      BY DEF ImportedOnce
    <2>1. Account[t][1] \in Vault
      BY SyncAssumption
    <2> QED
      BY <2>1 DEF ImportInv, WritersOK, Once, OfDay, RowsOnDayOf, Told
  <1> QED
    BY <1>1, ImportInvariance, PTL

(* The scheduler passes over a transaction in the three cases only.        *)
THEOREM PassedOver == Spec => NothingElsePassedOver
PROOF
  <1>1. ASSUME ImportInv, [Next]_vars
        PROVE  [PassedOverOnlyBy]_vars
    <2> SUFFICES ASSUME NEW t \in Tx, PassesOver(t), ~loop.down, loop.of = loop.session
                 PROVE  Posting[t].date = loop.fetched /\ loop.fetched < today
      BY DEF PassedOverOnlyBy
    <2> DEFINE v == Account[t][1]
               i == Account[t][2]
               from == db[v].conns[i].last
               to == db'[v].conns[i].last
    <2>1. /\ to # from /\ to # Nil /\ t \in posted /\ t \in Wanted
          /\ Posting[t].date < to /\ (from # Nil => Posting[t].date >= from) /\ ~Recorded(t)'
      BY DEF PassesOver
    <2>2. v \in Vault /\ i \in Conn /\ Account[t] = <<v, i>> /\ Posting[t].date \in 0..MaxDay
      BY SyncAssumption
    <2>3. CASE FinishConn
      <3> DEFINE s == loop.session
                 e == Synced(loop.conn)
      <3>1. /\ loop.op = "import" /\ loop.left = {} /\ s \in Vault /\ loop.conn \in Conn
            /\ db' = db \/ (~loop.dead /\ db' = [db EXCEPT ![s] = e])
            /\ UNCHANGED <<today, posted>>
        BY <1>1, <2>3, FinishConnFacts
      <3>2. db' # db /\ DOMAIN db = Vault
        BY <1>1, <2>1 DEF ImportInv, TypeOK
      <3>3. v = s /\ db'[v] = e /\ ~loop.dead
        BY <2>1, <2>2, <3>1, <3>2
      <3>4. i = loop.conn /\ to = today /\ db[v].conns[i].there /\ db'[v].rows = Seen.rows
        <4>1. \A j \in Conn : e.conns[j].last # db[s].conns[j].last /\ e.conns[j].last # Nil =>
                j = loop.conn /\ e.conns[j].last = today /\ db[s].conns[j].there /\ e.rows = Seen.rows
          BY <1>1, <3>1, SyncedKeeps
        <4> HIDE DEF e
        <4> QED
          BY <2>1, <2>2, <3>3, <4>1
      <3> HIDE DEF e
      <3>5. ~Found(Seen.rows, t)
        BY <2>1, <3>4 DEF Recorded, RowsOnDayOf, Found, OfDay
      <3>6. from \in 0..MaxDay \cup {Nil}
        BY <1>1, <2>2 DEF ImportInv, TypeOK, IsDatabase, ConnRow
      <3>7. WasDue(t, loop.of, loop.conn)
        BY <2>1, <2>2, <3>3, <3>4, <3>6, SyncAssumption DEF WasDue
      <3>8. ~(Posting[t].date < loop.fetched)
        BY <1>1, <2>1, <3>1, <3>3, <3>5, <3>7 DEF ImportInv, FetchOK
      <3>9. loop.fetched \in 0..today /\ today <= loop.fetched + 1 /\ today \in 0..MaxDay
        BY <1>1, <3>1 DEF ImportInv, LoopOK, TypeOK
      <3> QED
        BY <2>1, <2>2, <3>4, <3>8, <3>9, SyncAssumption
    <2>4. ASSUME NEW u \in Vault, Commit(u)
          PROVE  FALSE
      <3>1. /\ Keeps(db[u], draft[u]) /\ IsDatabase(draft[u])
            /\ db' = [db EXCEPT ![u] = draft[u]] /\ DOMAIN db = Vault
        BY <1>1, <2>4 DEF Commit, ImportInv, WritersOK, TypeOK
      <3>2. v = u /\ db'[v] = draft[u]
        BY <2>1, <2>2, <3>1
      <3> QED
        BY <2>1, <2>2, <3>1, <3>2, NoConnOK DEF Keeps, IsDatabase
    <2>5. CASE UNCHANGED db
      BY <2>1, <2>5
    <2> QED
      BY <1>1, <2>3, <2>4, <2>5
         DEF Next, SyncNext, SyncStep, Requests, Tick, Post, StartPass, NextConn, LookFor, InsertOne, FinishManual,
             ManualSync, DeleteConn, SetActive, Enter, Upload, Write, Switch, Restart, vars
  <1> QED
    BY <1>1, ImportInvariance, PTL DEF Spec, NothingElsePassedOver
-----------------------------------------------------------------------------
(* The sums and listings of the views are those of FoldProofs. *)
LEMMA ViewsFold ==
  /\ \A f, S : Views!SumFunctionOnSet(f, S) = SumFunctionOnSet(f, S)
  /\ \A f : Views!SumFunction(f) = SumFunctionOnSet(f, DOMAIN f)
  /\ \A S, key : Views!Ordered(S, key) = Ordered(S, key)
PROOF
  <1>1. ASSUME NEW f, NEW S PROVE Views!SumFunctionOnSet(f, S) = SumFunctionOnSet(f, S)
    BY Zenon DEF Views!SumFunctionOnSet, Views!FoldFunctionOnSet, Views!MapThenFoldSet,
                 SumFunctionOnSet, FoldFunctionOnSet, MapThenFoldSet
  <1>2. ASSUME NEW f PROVE Views!SumFunction(f) = SumFunctionOnSet(f, DOMAIN f)
    BY <1>1, Zenon DEF Views!SumFunction
  <1>3. ASSUME NEW S, NEW key PROVE Views!Ordered(S, key) = Ordered(S, key)
    BY Zenon DEF Views!Ordered, Views!FoldSet, Views!MapThenFoldSet, Views!Inserted,
                 Views!Cardinality, Views!IsFiniteSet,
                 Ordered, FoldSet, MapThenFoldSet, Inserted, Cardinality, IsFiniteSet
  <1> QED
    BY <1>1, <1>2, <1>3

(* The table of a user whose rows are no legs of transfers: no import      *)
(* makes any.                                                              *)
IsTable(T) ==
  /\ IsFiniteSet(DOMAIN T)
  /\ \A t \in DOMAIN T :
       /\ T[t].type \in {"income", "expense"} /\ T[t].category # Nil
       /\ T[t].base \in Int /\ T[t].date \in Int

BaseIn(T) == [t \in DOMAIN T |-> T[t].base]

(* The rows of a month that are no savings, what was earned by them, what  *)
(* was spent, and what was spent on one category.                          *)
MonthRows(T, m) ==
  {t \in DOMAIN T : /\ T[t].state = "live" /\ T[t].category \notin Savings
                    /\ m * MonthLength <= T[t].date /\ T[t].date < (m + 1) * MonthLength}
Earned(T, m) == {t \in MonthRows(T, m) : T[t].type = "income"}
Spent(T, m) == {t \in MonthRows(T, m) : T[t].type = "expense"}
SpentOn(T, m, c) == {t \in Spent(T, m) : T[t].category = c}

(* Whatever the rows of a vault, they make a table.                        *)
LEMMA TableOK ==
  ASSUME NEW rows \in [Rows -> 0..MaxCopies]
  PROVE  IsTable(Table(rows))
PROOF
  <1> DEFINE D == {<<r, n>> : r \in {y \in Rows : rows[y] > 0}, n \in 1..MaxCopies}
             T == Table(rows)
  <1>1. DOMAIN T = D
    BY DEF Table
  <1>2. IsFiniteSet(D)
    <2>1. IsFiniteSet(1..MaxCopies)
      BY SyncAssumption, FS_Interval
    <2>2. IsFiniteSet(Rows \X (1..MaxCopies))
      BY <2>1, ViewsAssumption, FS_Product
    <2>3. D \subseteq Rows \X (1..MaxCopies)
      OBVIOUS
    <2> HIDE DEF D
    <2> QED
      BY <2>2, <2>3, FS_Subset
  <1>3. ASSUME NEW t \in D
        PROVE  /\ T[t].type \in {"income", "expense"} /\ T[t].category # Nil
               /\ T[t].base \in Int /\ T[t].date \in Int
    <2>1. t[1] \in Rows
      OBVIOUS
    <2>2. t[1].date \in Int /\ t[1].category # Nil /\ t[1].base \in Int
      BY <2>1, ViewsAssumption
    <2>3. /\ T[t].type = IF CategoryType[t[1].category] = "income" THEN "income" ELSE "expense"
          /\ T[t].category = t[1].category /\ T[t].base = t[1].base /\ T[t].date = t[1].date
      BY DEF Table
    <2> HIDE DEF T, D
    <2> QED
      BY <2>2, <2>3
  <1> HIDE DEF D
  <1> QED
    BY <1>1, <1>2, <1>3 DEF IsTable

(* The bounds of a month, half open or inclusive.                          *)
LEMMA MonthBounds ==
  ASSUME NEW m \in 0..(Months - 1)
  PROVE  LET first == m * MonthLength
             last == first + MonthLength - 1
         IN  /\ first \in Nat /\ last \in Nat /\ m \in Nat
             /\ m # Nil /\ first # Nil /\ last # Nil
             /\ \A d \in Int : d < (m + 1) * MonthLength <=> d <= last
PROOF
  <1>1. m \in Nat /\ MonthLength \in Nat \ {0}
    BY ViewsAssumption
  <1>2. m * MonthLength \in Nat /\ (m + 1) * MonthLength = m * MonthLength + MonthLength
    BY <1>1
  <1> DEFINE first == m * MonthLength
  <1> HIDE DEF first
  <1>3. first \in Nat /\ (m + 1) * MonthLength = first + MonthLength
    BY <1>2 DEF first
  <1> QED
    BY <1>1, <1>3, ViewsAssumption DEF first

(* What the queries of a month read, by any of their bounds.               *)
LEMMA MonthReads ==
  ASSUME NEW T, IsTable(T), NEW m \in 0..(Months - 1)
  PROVE  LET first == m * MonthLength
             last == first + MonthLength - 1
         IN  /\ Views!Own(T) = Views!Live(T)
             /\ Views!Without(T, Views!InMonth(T, Views!Live(T), m), Savings) = MonthRows(T, m)
             /\ Views!Without(T, Views!Between(T, Views!Live(T), first, last), Savings)
                  = MonthRows(T, m)
             /\ Views!OfType(T, MonthRows(T, m), "income") = Earned(T, m)
             /\ Views!OfType(T, MonthRows(T, m), "expense") = Spent(T, m)
             /\ MonthRows(T, m) \ Earned(T, m) = Spent(T, m)
             /\ IsFiniteSet(MonthRows(T, m)) /\ IsFiniteSet(Earned(T, m)) /\ IsFiniteSet(Spent(T, m))
             /\ MonthRows(T, m) \subseteq DOMAIN T
PROOF
  <1> DEFINE first == m * MonthLength
             last == first + MonthLength - 1
  <1>1. Views!Own(T) = Views!Live(T)
    BY DEF IsTable, Views!Own, Views!Live, Views!TransferTypes
  <1>2. Views!Without(T, Views!InMonth(T, Views!Live(T), m), Savings) = MonthRows(T, m)
    BY DEF Views!Without, Views!InMonth, Views!Live, MonthRows
  <1>3. Views!Without(T, Views!Between(T, Views!Live(T), first, last), Savings) = MonthRows(T, m)
    <2>1. \A d \in Int : d < (m + 1) * MonthLength <=> d <= last
      BY MonthBounds
    <2>2. \A t \in DOMAIN T : T[t].date < (m + 1) * MonthLength <=> T[t].date <= last
      BY <2>1 DEF IsTable
    <2>3. first = m * MonthLength
      OBVIOUS
    <2> HIDE DEF first, last
    <2> QED
      BY <2>2, <2>3 DEF Views!Without, Views!Between, Views!Live, MonthRows
  <1>4. MonthRows(T, m) \subseteq DOMAIN T /\ MonthRows(T, m) \ Earned(T, m) = Spent(T, m)
    BY DEF IsTable, MonthRows, Earned, Spent
  <1>5. /\ Views!OfType(T, MonthRows(T, m), "income") = Earned(T, m)
        /\ Views!OfType(T, MonthRows(T, m), "expense") = Spent(T, m)
    BY DEF Views!OfType, Earned, Spent
  <1>6. Earned(T, m) \subseteq DOMAIN T /\ Spent(T, m) \subseteq DOMAIN T
    BY <1>4 DEF Earned, Spent
  <1>7. IsFiniteSet(MonthRows(T, m)) /\ IsFiniteSet(Earned(T, m)) /\ IsFiniteSet(Spent(T, m))
    BY <1>4, <1>6, FS_Subset DEF IsTable
  <1> HIDE DEF first, last
  <1> QED
    BY <1>1, <1>2, <1>3, <1>4, <1>5, <1>7 DEF first, last

(* A total is the sum of the base amounts.                                 *)
LEMMA TotalOf ==
  ASSUME NEW T, IsTable(T), NEW S \in SUBSET DOMAIN T
  PROVE  /\ Views!Total(T, S) = SumFunctionOnSet(BaseIn(T), S)
         /\ IsFiniteSet(S) /\ \A t \in S : BaseIn(T)[t] \in Int
         /\ SumFunctionOnSet(BaseIn(T), S) \in Int
PROOF
  <1> DEFINE g == [t \in S |-> T[t].base]
  <1>1. IsFiniteSet(S) /\ \A t \in S : BaseIn(T)[t] \in Int
    BY FS_Subset DEF IsTable, BaseIn
  <1>2. DOMAIN g = S /\ \A t \in S : g[t] = BaseIn(T)[t]
    BY DEF BaseIn
  <1>3. Views!Total(T, S) = Views!SumFunction(g)
    BY DEF Views!Total
  <1> HIDE DEF g
  <1>4. SumFunctionOnSet(g, S) = SumFunctionOnSet(BaseIn(T), S)
    BY <1>1, <1>2, SumAgree
  <1> QED
    BY <1>1, <1>2, <1>3, <1>4, ViewsFold, SumInt

(* totals_by_type() of a month is what was earned and what was spent.      *)
LEMMA MonthTotals ==
  ASSUME NEW T, IsTable(T), NEW m \in 0..(Months - 1)
  PROVE  Views!TotalsByType(T, m, Savings)
           = [income |-> SumFunctionOnSet(BaseIn(T), Earned(T, m)),
              expenses |-> SumFunctionOnSet(BaseIn(T), Spent(T, m))]
PROOF
  <1>1. Views!TotalsByType(T, m, Savings)
          = [income |-> Views!Total(T, Earned(T, m)), expenses |-> Views!Total(T, Spent(T, m))]
    <2>1. Views!Without(T, IF m = Nil THEN Views!Own(T) ELSE Views!InMonth(T, Views!Own(T), m),
                        Savings) = MonthRows(T, m)
      BY MonthReads, MonthBounds
    <2> QED
      BY <2>1, MonthReads DEF Views!TotalsByType
  <1>2. Earned(T, m) \in SUBSET DOMAIN T /\ Spent(T, m) \in SUBSET DOMAIN T
    BY MonthReads DEF Earned, Spent
  <1> QED
    BY <1>1, <1>2, TotalOf

(* The rows of S of which key says k. *)
GroupOf(S, key, k) == {t \in S : key[t] = k}

(* g has the totals of the rows S, grouped by key into the groups K.       *)
IsGrouped(g, T, S, key, K) ==
  /\ S \subseteq DOMAIN T
  /\ \A t \in S : key[t] \in K
  /\ \A k \in K : \E t \in S : key[t] = k
  /\ \A k \in K : g[k] = Views!Total(T, GroupOf(S, key, k))

(* The groups of a query sum to what it reads.                             *)
LEMMA GroupsOf ==
  ASSUME NEW T, IsTable(T), NEW S, NEW key, NEW K, NEW g, IsGrouped(g, T, S, key, K)
  PROVE  /\ IsFiniteSet(K)
         /\ \A k \in K : g[k] = SumFunctionOnSet(BaseIn(T), GroupOf(S, key, k)) /\ g[k] \in Int
         /\ SumFunctionOnSet(g, K) = SumFunctionOnSet(BaseIn(T), S)
PROOF
  <1> DEFINE f == BaseIn(T)
             sum == [k \in K |-> SumFunctionOnSet(f, {t \in S : key[t] = k})]
  <1>0. /\ S \in SUBSET DOMAIN T
        /\ (\A t \in S : key[t] \in K) /\ \A k \in K : \E t \in S : key[t] = k
        /\ \A k \in K : g[k] = Views!Total(T, GroupOf(S, key, k))
    BY DEF IsGrouped
  <1>1. IsFiniteSet(S) /\ \A t \in S : f[t] \in Int
    BY <1>0, TotalOf
  <1> HIDE DEF f
  <1>2. /\ IsFiniteSet(K)
        /\ \A k \in K : SumFunctionOnSet(f, {t \in S : key[t] = k}) \in Int
        /\ SumFunctionOnSet(sum, K) = SumFunctionOnSet(f, S)
    BY <1>0, <1>1, GroupsAddUp
  <1>3. ASSUME NEW k \in K
        PROVE  g[k] = SumFunctionOnSet(f, {t \in S : key[t] = k})
    <2>1. {t \in S : key[t] = k} \in SUBSET DOMAIN T
      BY <1>0
    <2>2. Views!Total(T, {t \in S : key[t] = k}) = SumFunctionOnSet(f, {t \in S : key[t] = k})
      BY <2>1, TotalOf DEF f
    <2> QED
      BY <1>0, <2>2 DEF GroupOf
  <1>4. SumFunctionOnSet(g, K) = SumFunctionOnSet(sum, K)
    <2>1. \A k \in K : g[k] = sum[k]
      BY <1>3
    <2> HIDE DEF sum
    <2> QED
      BY <1>2, <2>1, SumAgree
  <1> QED
    BY <1>2, <1>3, <1>4 DEF f, GroupOf

(* Rounding moves a figure by half a hundredth at most.                    *)
LEMMA RoundedNear ==
  ASSUME NEW x \in Int
  PROVE  /\ Views!Rounded(x) \in Int
         /\ -CentSize <= 2 * (Views!Rounded(x) - x) /\ 2 * (Views!Rounded(x) - x) <= CentSize
PROOF
  <1> DEFINE q == x \div CentSize
             r == x % CentSize
  <1>1. CentSize \in Nat \ {0}
    BY ViewsAssumption
  <1>2. q \in Int /\ r \in 0..(CentSize - 1) /\ x = CentSize * q + r
    BY <1>1
  <1>3. \/ Views!Rounded(x) = CentSize * q /\ 2 * r <= CentSize
        \/ Views!Rounded(x) = CentSize * (q + 1) /\ 2 * r >= CentSize
    BY <1>1, <1>2 DEF Views!Rounded
  <1> DEFINE p == CentSize * q
  <1>4. p \in Int /\ CentSize * (q + 1) = p + CentSize
    BY <1>1, <1>2
  <1> HIDE DEF q, r, p
  <1> QED
    BY <1>1, <1>2, <1>3, <1>4 DEF p

(* What was spent on the categories of a month sums to what was spent.     *)
LEMMA SpendingOf ==
  ASSUME NEW T, IsTable(T), NEW m \in 0..(Months - 1)
  PROVE  LET spending == Views!MonthlySpending(T, m, Savings)
             K == {T[t].category : t \in Spent(T, m)}
         IN  /\ spending = [c \in K |-> spending[c]] /\ DOMAIN spending = K
             /\ IsFiniteSet(K) /\ \A c \in K : spending[c] \in Int
             /\ \A c \in K : spending[c] = SumFunctionOnSet(BaseIn(T), SpentOn(T, m, c))
             /\ SumFunctionOnSet(spending, K) = SumFunctionOnSet(BaseIn(T), Spent(T, m))
PROOF
  <1> DEFINE S == Spent(T, m)
             K == {T[t].category : t \in S}
             key == [t \in DOMAIN T |-> T[t].category]
             spending == Views!MonthlySpending(T, m, Savings)
  <1>1. S \in SUBSET DOMAIN T
    BY MonthReads DEF Spent
  <1>2. Views!OfType(T, Views!Without(T, Views!InMonth(T, Views!Own(T), m), Savings), "expense") = S
    BY MonthReads
  <1>3. spending = [c \in K |-> Views!Total(T, {t \in S : T[t].category = c})]
    <2> HIDE DEF S
    <2> QED
      BY <1>2 DEF Views!MonthlySpending, Views!GroupedSum
  <1>4. ASSUME NEW c PROVE {t \in S : T[t].category = c} = {t \in S : key[t] = c}
    BY <1>1
  <1>5. (\A t \in S : key[t] \in K) /\ \A k \in K : \E t \in S : key[t] = k
    BY <1>1
  <1>6. spending = [c \in K |-> Views!Total(T, {t \in S : key[t] = c})]
    <2> HIDE DEF S, K, key, spending
    <2> QED
      BY <1>3, <1>4 DEF S
  <1> HIDE DEF S, K, key, spending
  <1>7. /\ IsFiniteSet(K) /\ \A c \in K : spending[c] \in Int
        /\ \A c \in K : spending[c] = SumFunctionOnSet(BaseIn(T), GroupOf(S, key, c))
        /\ SumFunctionOnSet(spending, K) = SumFunctionOnSet(BaseIn(T), S)
    <2>1. IsGrouped(spending, T, S, key, K)
      BY <1>1, <1>5, <1>6 DEF IsGrouped, GroupOf
    <2>2. /\ IsFiniteSet(K)
          /\ \A c \in K : spending[c] = SumFunctionOnSet(BaseIn(T), GroupOf(S, key, c)) /\ spending[c] \in Int
          /\ SumFunctionOnSet(spending, K) = SumFunctionOnSet(BaseIn(T), S)
      BY ONLY IsTable(T), <2>1, GroupsOf
    <2> QED
      BY ONLY <2>2
  <1>8. ASSUME NEW c PROVE SpentOn(T, m, c) = GroupOf(S, key, c)
    BY <1>4 DEF SpentOn, S, GroupOf
  <1>9. \A c \in K : spending[c] = SumFunctionOnSet(BaseIn(T), SpentOn(T, m, c))
    BY <1>7, <1>8
  <1>10. spending = [c \in K |-> spending[c]] /\ DOMAIN spending = K
    BY <1>6
  <1> QED
    BY <1>7, <1>9, <1>10 DEF S, K, spending

(* The links of the Sankey view are the categories' figures, rounded.      *)
LEMMA SankeyNear ==
  ASSUME NEW T, IsTable(T), NEW m \in 0..(Months - 1)
  PROVE  LET links == Views!Sankey(T, Savings, m).links
         IN  Near(SumFunction(links), SumFunctionOnSet(BaseIn(T), Spent(T, m)), Len(links))
PROOF
  <1> DEFINE spending == Views!MonthlySpending(T, m, Savings)
             K == {T[t].category : t \in Spent(T, m)}
             cats == Views!Ordered(DOMAIN spending, [k \in DOMAIN spending |-> -spending[k]])
             n == Len(cats)
             links == Views!Sankey(T, Savings, m).links
             exact == [i \in 1..n |-> spending[cats[i]]]
  <1>1. /\ DOMAIN spending = K /\ IsFiniteSet(K) /\ \A c \in K : spending[c] \in Int
        /\ SumFunctionOnSet(spending, K) = SumFunctionOnSet(BaseIn(T), Spent(T, m))
    BY SpendingOf
  <1> HIDE DEF spending, K
  <1>2. Lists(cats, K)
    BY <1>1, ViewsFold, OrderedLists
  <1>3. links = [i \in DOMAIN cats |-> Views!Rounded(spending[cats[i]])]
    BY DEF Views!Sankey, spending
  <1> HIDE DEF cats, links
  <1>4. n \in Nat /\ DOMAIN cats = 1..n /\ \A i \in 1..n : cats[i] \in K
    BY <1>2 DEF Lists
  <1>5. /\ DOMAIN links = 1..n /\ links = [i \in 1..n |-> links[i]]
        /\ \A i \in 1..n : links[i] = Views!Rounded(spending[cats[i]])
    BY <1>3, <1>4
  <1> HIDE DEF n
  <1>6. Len(links) = n
    BY <1>4, <1>5, LengthOfListing
  <1>7. SumFunctionOnSet(exact, 1..n) = SumFunctionOnSet(spending, K)
    <2>1. \A i \in 1..Len(cats) : exact[i] \in Int /\ exact[i] = spending[cats[i]]
      BY <1>1, <1>4 DEF n
    <2> HIDE DEF exact
    <2>2. IsFiniteSet(K)
      BY <1>1
    <2>3. SumFunctionOnSet(exact, 1..Len(cats)) = SumFunctionOnSet(spending, K)
      BY ONLY <1>2, <2>1, <2>2, SumListed
    <2> QED
      BY <2>3 DEF n
  <1>8. \A i \in 1..n : /\ links[i] \in Int /\ exact[i] \in Int
                        /\ -CentSize <= 2 * (links[i] - exact[i])
                        /\ 2 * (links[i] - exact[i]) <= CentSize
    BY <1>1, <1>4, <1>5, RoundedNear
  <1>9. IsFiniteSet(1..n) /\ Cardinality(1..n) = n
    BY <1>4, FS_Interval
  <1> HIDE DEF exact
  <1> DEFINE d == 2 * (SumFunctionOnSet(links, 1..n) - SumFunctionOnSet(exact, 1..n))
  <1>10. -(n * CentSize) <= d /\ d <= n * CentSize
    BY <1>8, <1>9, ViewsAssumption, SumNear
  <1>11. SumFunction(links) = SumFunctionOnSet(links, 1..n)
    BY <1>5 DEF SumFunction
  <1>12. -n * CentSize = -(n * CentSize)
    BY <1>4, ViewsAssumption
  <1> QED
    BY <1>1, <1>6, <1>7, <1>10, <1>11, <1>12 DEF Near, links

(* The cells of the heatmap are the figures of a day's categories, rounded.*)
LEMMA HeatmapNear ==
  ASSUME NEW T, IsTable(T), NEW m \in 0..(Months - 1)
  PROVE  LET heatmap == Views!Heatmap(T, Savings, m)
         IN  Near(SumFunction(heatmap), SumFunctionOnSet(BaseIn(T), Spent(T, m)),
                  Cardinality(DOMAIN heatmap))
PROOF
  <1> DEFINE S == Spent(T, m)
             key == [t \in DOMAIN T |-> <<T[t].date % MonthLength, T[t].category>>]
             K == {<<T[t].date % MonthLength, T[t].category>> : t \in S}
             daily == Views!DailySpending(T, m, Savings)
             heatmap == Views!Heatmap(T, Savings, m)
  <1>1. S \in SUBSET DOMAIN T
    BY MonthReads DEF Spent
  <1>2. Views!OfType(T, Views!Without(T, Views!InMonth(T, Views!Live(T), m), Savings), "expense") = S
    BY MonthReads
  <1>3. daily = [k \in K |-> Views!Total(T, {t \in S : <<T[t].date % MonthLength, T[t].category>> = k})]
    <2> HIDE DEF S
    <2> QED
      BY <1>2 DEF Views!DailySpending, Views!GroupedSum
  <1>4. ASSUME NEW k
        PROVE  {t \in S : <<T[t].date % MonthLength, T[t].category>> = k} = {t \in S : key[t] = k}
    BY <1>1
  <1>5. (\A t \in S : key[t] \in K) /\ \A k \in K : \E t \in S : key[t] = k
    BY <1>1
  <1>6. daily = [k \in K |-> Views!Total(T, {t \in S : key[t] = k})]
    <2> HIDE DEF S, K, key, daily
    <2> QED
      BY <1>3, <1>4 DEF S
  <1>7. heatmap = [k \in DOMAIN daily |-> Views!Rounded(daily[k])]
    BY DEF Views!Heatmap
  <1> HIDE DEF S, K, key, daily, heatmap
  <1>8. /\ IsFiniteSet(K) /\ \A k \in K : daily[k] \in Int
        /\ SumFunctionOnSet(daily, K) = SumFunctionOnSet(BaseIn(T), S)
    <2>1. IsGrouped(daily, T, S, key, K)
      BY <1>1, <1>5, <1>6 DEF IsGrouped, GroupOf
    <2>2. /\ IsFiniteSet(K)
          /\ \A k \in K : daily[k] = SumFunctionOnSet(BaseIn(T), GroupOf(S, key, k)) /\ daily[k] \in Int
          /\ SumFunctionOnSet(daily, K) = SumFunctionOnSet(BaseIn(T), S)
      BY ONLY IsTable(T), <2>1, GroupsOf
    <2> QED
      BY ONLY <2>2
  <1>9. DOMAIN heatmap = K /\ \A k \in K : heatmap[k] = Views!Rounded(daily[k])
    BY <1>6, <1>7
  <1>10. \A k \in K : /\ heatmap[k] \in Int /\ daily[k] \in Int
                      /\ -CentSize <= 2 * (heatmap[k] - daily[k])
                      /\ 2 * (heatmap[k] - daily[k]) <= CentSize
    BY <1>8, <1>9, RoundedNear
  <1> DEFINE d == 2 * (SumFunctionOnSet(heatmap, K) - SumFunctionOnSet(daily, K))
             n == Cardinality(K)
  <1>11. n \in Nat /\ -(n * CentSize) <= d /\ d <= n * CentSize
    BY <1>8, <1>10, ViewsAssumption, SumNear
  <1>12. SumFunction(heatmap) = SumFunctionOnSet(heatmap, K)
    BY <1>9 DEF SumFunction
  <1>13. -n * CentSize = -(n * CentSize)
    BY <1>11, ViewsAssumption
  <1> QED
    BY <1>8, <1>9, <1>11, <1>12, <1>13 DEF Near, heatmap, S

(* The cash flow ends with what the month left over, rounded once; without *)
(* any row of the month it is empty.                                       *)
LEMMA FlowEnds ==
  ASSUME NEW T, IsTable(T), NEW m \in 0..(Months - 1)
  PROVE  LET first == m * MonthLength
             flow == Views!CashFlow(T, Savings, first, first + MonthLength - 1)
             earned == SumFunctionOnSet(BaseIn(T), Earned(T, m))
             spent == SumFunctionOnSet(BaseIn(T), Spent(T, m))
         IN  /\ flow # <<>> => flow[Len(flow)].balance = Views!Rounded(earned - spent)
             /\ flow = <<>> => earned = 0 /\ spent = 0
PROOF
  <1> DEFINE first == m * MonthLength
             last == first + MonthLength - 1
             R == MonthRows(T, m)
             D == {T[t].date : t \in R}
             key == [t \in DOMAIN T |-> T[t].date]
             days == Views!Ascending(D)
             n == Len(days)
             In(d) == {t \in Earned(T, m) : key[t] = d}
             Out(d) == {t \in Spent(T, m) : key[t] = d}
             in == [d \in D |-> SumFunctionOnSet(BaseIn(T), In(d))]
             out == [d \in D |-> SumFunctionOnSet(BaseIn(T), Out(d))]
             net == [d \in D |-> in[d] - out[d]]
             daily == Views!DailyFlow(T, first, last, Savings)
             Net(i) == daily[i].income - daily[i].expenses
             nets == [i \in 1..n |-> Net(i)]
             flow == Views!CashFlow(T, Savings, first, last)
             earned == SumFunctionOnSet(BaseIn(T), Earned(T, m))
             spent == SumFunctionOnSet(BaseIn(T), Spent(T, m))
  <1>1. /\ Views!Without(T, Views!Between(T, Views!Own(T), first, last), Savings) = R
        /\ R \subseteq DOMAIN T /\ IsFiniteSet(R)
        /\ R \ Earned(T, m) = Spent(T, m) /\ Earned(T, m) \subseteq R /\ Spent(T, m) \subseteq R
    BY MonthReads DEF Earned, Spent
  <1>2. /\ \A t \in R : key[t] \in D /\ key[t] = T[t].date
        /\ \A d \in D : \E t \in R : key[t] = d
    BY <1>1
  <1> HIDE DEF first, last
  <1>3. IsFiniteSet(D)
    <2> DEFINE f == BaseIn(T)
    <2>1. IsFiniteSet(R) /\ \A t \in R : f[t] \in Int /\ key[t] \in D
      BY <1>1, <1>2, TotalOf
    <2>2. \A d \in D : \E t \in R : key[t] = d
      BY <1>2
    <2> HIDE DEF R, D, key, f
    <2>3. IsFiniteSet(D)
          /\ SumFunctionOnSet([d \in D |-> SumFunctionOnSet(f, {t \in R : key[t] = d})], D)
               = SumFunctionOnSet(f, R)
      BY ONLY <2>1, <2>2, GroupsAddUp
    <2> QED
      BY <2>3
  <1>4. Lists(days, D)
    <2> HIDE DEF D
    <2>1. Lists(Ordered(D, [x \in D |-> x]), D)
      BY <1>3, OrderedLists
    <2> QED
      BY <2>1, ViewsFold DEF Views!Ascending
  <1>5. n \in Nat /\ DOMAIN days = 1..n /\ \A i \in 1..n : days[i] \in D
    <2> HIDE DEF days, D
    <2> QED
      BY <1>4 DEF Lists
  <1>6. ASSUME NEW d
        PROVE  /\ In(d) \in SUBSET DOMAIN T /\ Out(d) \in SUBSET DOMAIN T
               /\ Views!Total(T, In(d)) = SumFunctionOnSet(BaseIn(T), In(d))
               /\ Views!Total(T, Out(d)) = SumFunctionOnSet(BaseIn(T), Out(d))
               /\ SumFunctionOnSet(BaseIn(T), In(d)) \in Int
               /\ SumFunctionOnSet(BaseIn(T), Out(d)) \in Int
    <2>1. In(d) \in SUBSET DOMAIN T /\ Out(d) \in SUBSET DOMAIN T
      BY <1>1
    <2> HIDE DEF In, Out
    <2> QED
      BY <2>1, TotalOf
  <1>7. /\ DOMAIN daily = 1..n
        /\ \A i \in 1..n : Net(i) = net[days[i]] /\ Net(i) \in Int
    <2> DEFINE On(d) == {t \in R : T[t].date = d}
               entry(d) == [date |-> d, income |-> Views!Total(T, Views!OfType(T, On(d), "income")),
                            expenses |-> Views!Total(T, On(d) \ Views!OfType(T, On(d), "income"))]
    <2>1. daily = [i \in DOMAIN days |-> entry(days[i])]
      <3> HIDE DEF R
      <3> QED
        BY <1>1 DEF Views!DailyFlow, R
    <2>2. ASSUME NEW d \in D
          PROVE  entry(d).income = in[d] /\ entry(d).expenses = out[d] /\ in[d] \in Int /\ out[d] \in Int
      <3>1. Views!OfType(T, On(d), "income") = In(d)
        BY <1>1 DEF Views!OfType, Earned
      <3>2. On(d) \ In(d) = Out(d)
        BY <1>1
      <3> HIDE DEF On, In, Out, D
      <3>3. entry(d).income = Views!Total(T, In(d)) /\ entry(d).expenses = Views!Total(T, Out(d))
        BY <3>1, <3>2
      <3> HIDE DEF entry
      <3> QED
        BY <1>6, <3>3
    <2> HIDE DEF entry, in, out, days, n, D, daily
    <2>3. \A i \in 1..n : daily[i] = entry(days[i])
      BY <1>5, <2>1
    <2>4. DOMAIN daily = 1..n
      BY <1>5, <2>1
    <2> QED
      BY <1>5, <2>2, <2>3, <2>4
  <1>8. /\ \A d \in D : in[d] \in Int /\ out[d] \in Int
        /\ \A d \in D : net[d] = in[d] - out[d]
    <2> HIDE DEF In, Out, D
    <2> QED
      BY <1>6
  <1>9. SumFunctionOnSet(in, D) = earned /\ SumFunctionOnSet(out, D) = spent
        /\ earned \in Int /\ spent \in Int
    <2>1. Earned(T, m) \in SUBSET DOMAIN T /\ Spent(T, m) \in SUBSET DOMAIN T
      BY <1>1
    <2>2. /\ \A t \in Earned(T, m) : key[t] \in D
          /\ \A t \in Spent(T, m) : key[t] \in D
      BY <1>1, <1>2
    <2> DEFINE f == BaseIn(T)
    <2>3. /\ IsFiniteSet(Earned(T, m)) /\ \A t \in Earned(T, m) : f[t] \in Int
          /\ IsFiniteSet(Spent(T, m)) /\ \A t \in Spent(T, m) : f[t] \in Int
          /\ earned \in Int /\ spent \in Int
      BY <2>1, TotalOf
    <2> HIDE DEF f, D, key
    <2>4. SumFunctionOnSet([d \in D |-> SumFunctionOnSet(f, {t \in Earned(T, m) : key[t] = d})], D)
            = SumFunctionOnSet(f, Earned(T, m))
      BY <1>3, <2>2, <2>3, SumGroups
    <2>5. SumFunctionOnSet([d \in D |-> SumFunctionOnSet(f, {t \in Spent(T, m) : key[t] = d})], D)
            = SumFunctionOnSet(f, Spent(T, m))
      BY <1>3, <2>2, <2>3, SumGroups
    <2> QED
      BY <2>3, <2>4, <2>5 DEF f
  <1>10. SumFunctionOnSet(net, D) = earned - spent
    <2> HIDE DEF net, in, out, D, earned, spent
    <2>1. SumFunctionOnSet(net, D) = SumFunctionOnSet(in, D) - SumFunctionOnSet(out, D)
      BY <1>3, <1>8, SumSubtracts
    <2> QED
      BY <1>9, <2>1
  <1>11. SumFunctionOnSet(nets, 1..n) = SumFunctionOnSet(net, D)
    <2>1. \A i \in 1..Len(days) : nets[i] \in Int /\ nets[i] = net[days[i]]
      BY <1>7
    <2> HIDE DEF nets, net, days, D
    <2>2. SumFunctionOnSet(nets, 1..Len(days)) = SumFunctionOnSet(net, D)
      BY <1>3, <1>4, <2>1, SumListed
    <2> QED
      BY <2>2
  <1> DEFINE balance(i) == Views!Rounded(Views!SumFunction([j \in 1..i |-> Net(j)]))
             line(i) == [date |-> daily[i].date, income |-> Views!Rounded(daily[i].income),
                         expenses |-> Views!Rounded(daily[i].expenses), balance |-> balance(i)]
  <1>12. flow = [i \in 1..n |-> line(i)]
    <2> HIDE DEF n, daily
    <2> QED
      BY <1>7 DEF Views!CashFlow, daily
  <1>13. Len(flow) = n /\ (flow = <<>> <=> n = 0)
    <2>1. flow = [i \in 1..n |-> flow[i]]
      <3> HIDE DEF line, n
      <3> QED
        BY <1>12
    <2> HIDE DEF flow, n
    <2> QED
      BY <1>5, <2>1, LengthOfListing
  <1>14. ASSUME flow # <<>>
         PROVE  flow[Len(flow)].balance = Views!Rounded(earned - spent)
    <2>1. n \in 1..n
      BY <1>5, <1>13, <1>14
    <2>2. flow[n].balance = balance(n)
      <3> HIDE DEF n, balance, daily, flow
      <3> QED
        BY <1>12, <2>1
    <2>3. balance(n) = Views!Rounded(Views!SumFunction(nets))
      OBVIOUS
    <2>4. Views!SumFunction(nets) = SumFunctionOnSet(nets, 1..n)
      <3>1. DOMAIN nets = 1..n
        OBVIOUS
      <3> HIDE DEF nets, n
      <3> QED
        BY <3>1, ViewsFold
    <2> HIDE DEF flow, n, balance, nets, net, D, earned, spent
    <2> QED
      BY <1>10, <1>11, <1>13, <2>2, <2>3, <2>4
  <1>15. ASSUME flow = <<>>
         PROVE  earned = 0 /\ spent = 0
    <2>1. D = {}
      <3> HIDE DEF D, days, flow
      <3> QED
        BY <1>4, <1>13, <1>15 DEF Lists
    <2>2. R = {}
      BY <1>2, <2>1
    <2>3. Earned(T, m) = {} /\ Spent(T, m) = {}
      BY <1>1, <2>2
    <2> QED
      BY <2>3, SumEmpty
  <1> HIDE DEF flow, earned, spent
  <1> QED
    BY <1>14, <1>15 DEF flow, earned, spent, first, last

(* The smaller of two numbers. *)
LEMMA MinOfTwo ==
  ASSUME NEW x \in Int, NEW y \in Int
  PROVE  Views!Min({x, y}) = IF x <= y THEN x ELSE y
PROOF
  <1> DEFINE z == IF x <= y THEN x ELSE y
  <1>1. z \in {x, y} /\ \A e \in {x, y} : z <= e
    OBVIOUS
  <1>2. \A w \in {x, y} : (\A e \in {x, y} : w <= e) => w = z
    OBVIOUS
  <1> HIDE DEF z
  <1>3. Views!Min({x, y}) = z
    BY <1>1, <1>2 DEF Views!Min
  <1> QED
    BY <1>3 DEF z

(* The pages of two on which the expenses of a category are listed show    *)
(* what was spent on it: every row is on one page.                         *)
LEMMA PagesAddUp ==
  ASSUME NEW T, IsTable(T), NEW m \in 0..(Months - 1),
         NEW c, \E t \in Spent(T, m) : c = T[t].category
  PROVE  LET first == m * MonthLength
             f == [Views!NoFilter EXCEPT !.category = c, !.type = "expense",
                                         !.from = first, !.to = first + MonthLength - 1]
             Page(p) == Views!FindByUser(T, f, p, 2)
             OnPage(p) == LET items == Page(p).items
                          IN  SumFunction([i \in DOMAIN items |-> T[items[i]].base])
             Pages == 1..((Page(1).total + 1) \div 2)
         IN  SumFunction([p \in Pages |-> OnPage(p)]) = SumFunctionOnSet(BaseIn(T), SpentOn(T, m, c))
PROOF
  <1> DEFINE first == m * MonthLength
             last == first + MonthLength - 1
             f == [Views!NoFilter EXCEPT !.category = c, !.type = "expense",
                                         !.from = first, !.to = last]
             Page(p) == Views!FindByUser(T, f, p, 2)
             OnPage(p) == LET items == Page(p).items
                          IN  SumFunction([i \in DOMAIN items |-> T[items[i]].base])
             found == {t \in Views!Live(T) : Views!Matches(T[t], f)}
             rows == Views!Ordered(found, [t \in found |-> -T[t].date])
             N == Len(rows)
             low(p) == 2 * p - 1
             high(p) == IF 2 * p <= N THEN 2 * p ELSE N
             P == (N + 1) \div 2
             g == [i \in 1..N |-> T[rows[i]].base]
             key == [i \in 1..N |-> (i + 1) \div 2]
             On(p) == {i \in 1..N : key[i] = p}
  <1>1. found = SpentOn(T, m, c) /\ found \in SUBSET DOMAIN T
    <2>1. c # Nil /\ c \notin Savings
      BY MonthReads DEF IsTable, Spent, MonthRows
    <2>2. /\ f.category = c /\ f.type = "expense" /\ f.from = first /\ f.to = last
          /\ f.currency = Nil /\ f.source = Nil /\ f.wallet = Nil
      BY DEF Views!NoFilter
    <2>3. first # Nil /\ last # Nil /\ "expense" # Nil
          /\ \A d \in Int : d < (m + 1) * MonthLength <=> d <= last
      BY MonthBounds, ViewsAssumption
    <2> HIDE DEF f
    <2>4. ASSUME NEW t \in DOMAIN T
          PROVE  Views!Matches(T[t], f) <=> /\ T[t].category = c /\ T[t].type = "expense"
                                            /\ T[t].date >= first /\ T[t].date <= last
      BY <2>1, <2>2, <2>3 DEF Views!Matches
    <2>5. ASSUME NEW t \in DOMAIN T
          PROVE  /\ T[t].date >= first <=> m * MonthLength <= T[t].date
                 /\ T[t].date <= last <=> T[t].date < (m + 1) * MonthLength
      BY <2>3, MonthBounds DEF IsTable
    <2> HIDE DEF first, last
    <2>6. found = SpentOn(T, m, c)
      BY <2>1, <2>4, <2>5 DEF Views!Live, SpentOn, Spent, MonthRows
    <2> QED
      BY <2>6 DEF Views!Live
  <1>2. IsFiniteSet(found) /\ \A t \in found : BaseIn(T)[t] \in Int /\ BaseIn(T)[t] = T[t].base
    BY <1>1, TotalOf DEF BaseIn
  <1> HIDE DEF found
  <1>3. Lists(rows, found)
    BY <1>2, ViewsFold, OrderedLists
  <1> HIDE DEF rows
  <1>4. N \in Nat /\ \A i \in 1..N : rows[i] \in found
    BY <1>3 DEF Lists
  <1> HIDE DEF first, last, f
  <1>5. ASSUME NEW p \in Nat \ {0}
        PROVE  Page(p) = [items |-> SubSeq(rows, low(p), high(p)), total |-> N]
    <2>1. ~(p < 1) /\ ~(2 < 1) /\ (p - 1) * 2 + 1 = 2 * p - 1 /\ p * 2 = 2 * p /\ 2 * p \in Int
      OBVIOUS
    <2>2. Views!Min({2 * p, N}) = high(p)
      BY <1>4, <2>1, MinOfTwo
    <2>3. Page(p) = [items |-> SubSeq(rows, (p - 1) * 2 + 1, Views!Min({p * 2, N})), total |-> N]
      <3> HIDE DEF high, low
      <3> QED
        BY <2>1 DEF Views!FindByUser, found, rows
    <2> HIDE DEF high
    <2> QED
      BY <2>1, <2>2, <2>3
  <1>6. P \in Nat /\ \A i \in 1..N : \A p \in 1..P : key[i] = p <=> i \in low(p)..high(p)
    <2>1. P \in Nat
      BY <1>4
    <2>2. ASSUME NEW i \in 1..N, NEW p \in 1..P
          PROVE  key[i] = p <=> i \in low(p)..high(p)
      <3>1. key[i] = p <=> p * 2 <= i + 1 /\ i + 1 < (p + 1) * 2
        BY <1>4, DivBounds
      <3> QED
        BY <1>4, <3>1
    <2> QED
      BY <2>1, <2>2
  <1>7. ASSUME NEW p \in 1..P
        PROVE  1 <= low(p) /\ low(p) <= high(p) /\ high(p) <= N /\ low(p) \in Nat /\ high(p) \in Nat
    <2>1. 2 * P <= N + 1
      BY <1>4
    <2> QED
      BY <1>4, <2>1
  <1>8. \A i \in 1..N : key[i] \in 1..P /\ g[i] \in Int
    <2>1. ASSUME NEW i \in 1..N PROVE key[i] \in 1..P
      BY <1>4
    <2> QED
      BY <1>2, <1>4, <2>1
  <1>9. ASSUME NEW p \in 1..P
        PROVE  OnPage(p) = SumFunctionOnSet(g, On(p))
    <2> DEFINE items == SubSeq(rows, low(p), high(p))
               l == low(p)
               h == high(p)
               n == h - l + 1
               base == [i \in DOMAIN items |-> T[items[i]].base]
    <2>1. Page(p).items = items
      <3>1. p \in Nat \ {0}
        BY <1>6
      <3> HIDE DEF Page, low, high
      <3> QED
        BY <1>5, <3>1
    <2>2. l \in Nat /\ h \in Nat /\ 1 <= l /\ l <= h /\ h <= N
      BY <1>7
    <2> HIDE DEF l, h
    <2>3. On(p) = l..h
      <3>1. \A i \in 1..N : key[i] = p <=> i \in l..h
        BY <1>6 DEF l, h
      <3>2. l..h \subseteq 1..N
        BY <1>4, <2>2
      <3> HIDE DEF key
      <3> QED
        BY <3>1, <3>2
    <2>4. DOMAIN items = 1..n /\ \A i \in 1..n : items[i] = rows[l + i - 1]
      <3>1. \A i \in l..h : rows[i] \in found
        BY <1>4, <2>2
      <3>2. /\ SubSeq(rows, l, h) \in Seq(found)
            /\ Len(SubSeq(rows, l, h)) = IF l <= h THEN h - l + 1 ELSE 0
            /\ \A i \in 1..(h - l + 1) : SubSeq(rows, l, h)[i] = rows[l + i - 1]
        BY <2>2, <3>1, SubSeqProperties
      <3> QED
        BY <2>2, <3>2 DEF l, h
    <2> HIDE DEF items
    <2>5. DOMAIN base = 1..n /\ \A i \in 1..n : base[i] \in Int /\ base[i] = g[l + i - 1]
      <3>1. \A i \in 1..n : l + i - 1 \in 1..N
        BY <1>4, <2>2
      <3>2. \A i \in 1..n : base[i] = T[rows[l + i - 1]].base
        BY <2>4
      <3>3. \A i \in 1..n : g[l + i - 1] = T[rows[l + i - 1]].base /\ g[l + i - 1] \in Int
        BY <1>8, <3>1
      <3> QED
        BY <2>4, <3>2, <3>3
    <2>6. SumFunctionOnSet(base, 1..n) = SumFunctionOnSet(g, l..h)
      <3> HIDE DEF base, g
      <3> QED
        BY <2>2, <2>5, SumShifted, SMTT(30)
    <2>7. OnPage(p) = SumFunctionOnSet(base, 1..n)
      <3>1. OnPage(p) = SumFunction(base)
        <4> HIDE DEF Page
        <4> QED
          BY <2>1
      <3>2. SumFunction(base) = SumFunctionOnSet(base, DOMAIN base)
        <4> HIDE DEF base
        <4> QED
          BY DEF SumFunction
      <3>3. DOMAIN base = 1..n
        BY <2>5
      <3> HIDE DEF base, OnPage
      <3> QED
        BY <3>1, <3>2, <3>3
    <2> HIDE DEF OnPage, On, base, g
    <2> QED
      BY <2>3, <2>6, <2>7
  <1>10. SumFunctionOnSet([p \in 1..P |-> SumFunctionOnSet(g, On(p))], 1..P) = SumFunctionOnSet(g, 1..N)
    <2> DEFINE I == 1..N
               K == 1..P
    <2>1. IsFiniteSet(I) /\ IsFiniteSet(K) /\ \A i \in I : g[i] \in Int /\ key[i] \in K
      BY <1>4, <1>6, <1>8, FS_Interval
    <2> HIDE DEF g, key, I, K
    <2>2. SumFunctionOnSet([p \in K |-> SumFunctionOnSet(g, {i \in I : key[i] = p})], K)
            = SumFunctionOnSet(g, I)
      BY ONLY <2>1, SumGroups
    <2> QED
      BY <2>2 DEF I, K
  <1>11. SumFunctionOnSet(g, 1..N) = SumFunctionOnSet(BaseIn(T), found)
    <2>1. \A i \in 1..Len(rows) : g[i] \in Int /\ g[i] = BaseIn(T)[rows[i]]
      BY <1>2, <1>4
    <2> DEFINE e == BaseIn(T)
    <2>2. \A i \in 1..Len(rows) : g[i] \in Int /\ g[i] = e[rows[i]]
      BY <2>1
    <2> HIDE DEF g, e
    <2>3. SumFunctionOnSet(g, 1..Len(rows)) = SumFunctionOnSet(e, found)
      BY ONLY <1>2, <1>3, <2>2, SumListed
    <2> QED
      BY <2>3 DEF e
  <1> DEFINE all == [p \in 1..P |-> OnPage(p)]
  <1>12. Page(1).total = N
    <2> HIDE DEF Page, low, high, N
    <2> QED
      BY <1>5
  <1>13. SumFunction(all) = SumFunctionOnSet(all, 1..P)
    <2>1. DOMAIN all = 1..P
      OBVIOUS
    <2> HIDE DEF all
    <2> QED
      BY <2>1 DEF SumFunction
  <1>14. all = [p \in 1..P |-> SumFunctionOnSet(g, On(p))]
    <2> HIDE DEF OnPage, g, On
    <2> QED
      BY <1>9
  <1>15. SumFunction(all) = SumFunctionOnSet(BaseIn(T), SpentOn(T, m, c))
    <2> HIDE DEF all, g, On, N
    <2> QED
      BY <1>1, <1>10, <1>11, <1>13, <1>14
  <1> HIDE DEF N
  <1> QED
    BY <1>12, <1>15 DEF first, last, f

(* Whatever the rows of a vault, its views of a month agree.               *)
LEMMA AllAgree ==
  ASSUME NEW T, IsTable(T), NEW m \in 0..(Months - 1)
  PROVE  Agree(T, m)
PROOF
  <1> DEFINE first == m * MonthLength
             last == first + MonthLength - 1
             month == Views!TotalsByType(T, m, Savings)
             sankey == Views!Sankey(T, Savings, m)
             heatmap == Views!Heatmap(T, Savings, m)
             spending == Views!McpSpending(T, Savings, m)
             flow == Views!CashFlow(T, Savings, first, last)
             f(c) == [Views!NoFilter EXCEPT !.category = c, !.type = "expense",
                                            !.from = first, !.to = last]
             Page(c, p) == Views!FindByUser(T, f(c), p, 2)
             OnPage(c, p) == LET items == Page(c, p).items
                             IN  SumFunction([i \in DOMAIN items |-> T[items[i]].base])
             Pages(c) == 1..((Page(c, 1).total + 1) \div 2)
             earned == SumFunctionOnSet(BaseIn(T), Earned(T, m))
             spent == SumFunctionOnSet(BaseIn(T), Spent(T, m))
  <1>1. month.income = earned /\ month.expenses = spent
    BY MonthTotals
  <1>2. /\ SumFunction(spending) = spent
        /\ \A c \in DOMAIN spending :
             /\ c \in {T[t].category : t \in Spent(T, m)}
             /\ spending[c] = SumFunctionOnSet(BaseIn(T), SpentOn(T, m, c))
    <2>1. spending = Views!MonthlySpending(T, m, Savings)
      BY DEF Views!McpSpending
    <2> HIDE DEF spending
    <2> QED
      BY <2>1, SpendingOf DEF SumFunction
  <1>3. ASSUME NEW c \in DOMAIN spending
        PROVE  SumFunction([p \in Pages(c) |-> OnPage(c, p)]) = spending[c]
    <2>1. \E t \in Spent(T, m) : c = T[t].category
      BY <1>2
    <2> HIDE DEF spending
    <2>2. SumFunction([p \in Pages(c) |-> OnPage(c, p)])
            = SumFunctionOnSet(BaseIn(T), SpentOn(T, m, c))
      BY ONLY IsTable(T), m \in 0..(Months - 1), <2>1, PagesAddUp, Zenon
    <2> QED
      BY <1>2, <2>2
  <1>4. Near(SumFunction(sankey.links), month.expenses, Len(sankey.links))
    BY <1>1, SankeyNear
  <1>5. Near(SumFunction(heatmap), month.expenses, Cardinality(DOMAIN heatmap))
    BY <1>1, HeatmapNear
  <1>6. /\ flow # <<>> => flow[Len(flow)].balance = Views!Rounded(month.income - month.expenses)
        /\ flow = <<>> => month.income = 0 /\ month.expenses = 0
    BY <1>1, FlowEnds
  <1> QED
    BY <1>1, <1>2, <1>3, <1>4, <1>5, <1>6 DEF Agree

(* Whatever has come in, by whichever way and in whatever order, the views *)
(* of every month of every vault agree with each other.                    *)
THEOREM ViewsAgree == Spec => []ViewsOfAMonthAgree
PROOF
  <1>1. TypeOK => ViewsOfAMonthAgree
    <2> SUFFICES ASSUME TypeOK, NEW v \in Vault
                 PROVE  <<db[v].rows, TRUE>> \in Verdicts
      BY DEF ViewsOfAMonthAgree
    <2> DEFINE rows == db[v].rows
    <2>1. rows \in [Rows -> 0..MaxCopies]
      BY DEF TypeOK, IsDatabase
    <2> HIDE DEF rows
    <2>2. \A m \in 0..(Months - 1) : Agree(Table(rows), m)
      BY <2>1, TableOK, AllAgree
    <2>3. (\A m \in 0..(Months - 1) : Agree(Table(rows), m)) = TRUE
      BY <2>2
    <2>4. <<rows, TRUE>> \in Verdicts
      BY <2>1, <2>3 DEF Verdicts
    <2> QED
      BY <2>4 DEF rows
  <1> QED
    BY <1>1, TypeCorrect, PTL

-----------------------------------------------------------------------------
(* The names by which a header tells that its column has field f. *)
Names(f) == {f} \cup Csv!Aliases[f]

(* A header names one field at most.                                       *)
LEMMA FieldNamed ==
  ASSUME NEW f \in Csv!Fields, NEW h \in Names(f)
  PROVE  FieldOf(h) = f
PROOF
  <1> DEFINE D == {"transaction_date", "date", "trans date", "transaction date", "value date"}
             A == {"amount_original", "amount", "debit", "credit"}
             C == {"currency_original", "currency", "ccy"}
             M == {"description", "memo", "details", "narration", "particulars"}
             K == {"category", "type", "trans type"}
  <1>a. Names("transaction_date") = D
    BY Zenon DEF Names, Csv!Aliases
  <1>b. Names("amount_original") = A
    BY Zenon DEF Names, Csv!Aliases
  <1>c. Names("currency_original") = C
    BY Zenon DEF Names, Csv!Aliases
  <1>d. Names("description") = M
    BY Zenon DEF Names, Csv!Aliases
  <1>e. Names("category") = K
    BY Zenon DEF Names, Csv!Aliases
  <1>f. \A x \in D : x \notin A /\ x \notin C /\ x \notin M /\ x \notin K
    BY Zenon
  <1>g. \A x \in A : x \notin C /\ x \notin M /\ x \notin K
    BY Zenon
  <1>h. (\A x \in C : x \notin M /\ x \notin K) /\ \A x \in M : x \notin K
    BY Zenon
  <1>1. ASSUME NEW g \in Csv!Fields, h \in Names(g)
        PROVE  g = f
    <2>1. /\ g \in {"transaction_date", "amount_original", "currency_original", "category", "description"}
          /\ f \in {"transaction_date", "amount_original", "currency_original", "category", "description"}
      BY DEF Csv!Fields
    <2>2. h \in Names(f) /\ h \in Names(g)
      BY <1>1
    <2> HIDE DEF D, A, C, M, K
    <2> QED
      BY ONLY <1>a, <1>b, <1>c, <1>d, <1>e, <1>f, <1>g, <1>h, <2>1, <2>2
  <1>2. CASE h \in Csv!Fields
    <2>1. h \in Names(h)
      BY DEF Names
    <2> QED
      BY <1>1, <1>2, <2>1 DEF FieldOf
  <1>3. CASE h \notin Csv!Fields
    <2>1. h \in Csv!Aliases[f]
      BY <1>3 DEF Names
    <2>2. \A g \in Csv!Fields : h \in Csv!Aliases[g] => g = f
      BY <1>1 DEF Names
    <2>3. FieldOf(h) = CHOOSE g \in Csv!Fields : h \in Csv!Aliases[g]
      BY <1>3 DEF FieldOf
    <2> QED
      BY <2>1, <2>2, <2>3
  <1> QED
    BY <1>2, <1>3

(* The column that is found for a field is there, and is the field's.      *)
LEMMA ColumnFound ==
  ASSUME NEW sheet \in Sheets, NEW f \in Csv!Fields, Csv!Column(sheet.columns, f) # Nil
  PROVE  LET i == Csv!Column(sheet.columns, f)
         IN  i \in 1..Len(sheet.columns) /\ FieldOf(sheet.columns[i]) = f
PROOF
  <1> DEFINE h == sheet.columns
             exact == {i \in DOMAIN h : h[i] = f}
             aliased == {i \in DOMAIN h : h[i] \in Csv!Aliases[f]}
             i == Csv!Column(h, f)
  <1>1. Len(h) \in Nat /\ DOMAIN h = 1..Len(h) /\ IsFiniteSet(1..Len(h))
    BY SheetsAssumption, FS_Interval
  <1>2. /\ exact \subseteq 1..Len(h) /\ aliased \subseteq 1..Len(h)
        /\ IsFiniteSet(exact) /\ IsFiniteSet(aliased)
    <2>1. exact \subseteq 1..Len(h) /\ aliased \subseteq 1..Len(h)
      BY <1>1
    <2> HIDE DEF exact, aliased
    <2> QED
      BY <1>1, <2>1, FS_Subset
  <1>3. i = IF exact # {} THEN Csv!Max(exact) ELSE IF aliased # {} THEN Csv!Min(aliased) ELSE Nil
    BY DEF Csv!Column
  <1>4. ASSUME exact # {}
        PROVE  Csv!Max(exact) \in exact
    <2>1. \A x \in exact : x \in Int
      BY <1>1, <1>2
    <2> HIDE DEF exact
    <2>2. \E x \in exact : \A y \in exact : x >= y
      BY <1>2, <1>4, <2>1, LargestAndSmallest
    <2> QED
      BY <2>2 DEF Csv!Max
  <1>5. ASSUME aliased # {}
        PROVE  Csv!Min(aliased) \in aliased
    <2>1. \A x \in aliased : x \in Int
      BY <1>1, <1>2
    <2> HIDE DEF aliased
    <2>2. \E x \in aliased : \A y \in aliased : x <= y
      BY <1>2, <1>5, <2>1, LargestAndSmallest
    <2> QED
      BY <2>2 DEF Csv!Min
  <1>6. i \in exact \cup aliased
    <2> HIDE DEF exact, aliased, i
    <2> QED
      BY <1>3, <1>4, <1>5 DEF i
  <1>7. i \in 1..Len(h) /\ h[i] \in Names(f)
    <2> HIDE DEF i
    <2> QED
      BY <1>2, <1>6 DEF Names
  <1> QED
    BY <1>7, FieldNamed

(* What parse_row() finds for a field is what was written of it, and       *)
(* nothing if there is no column.                                          *)
LEMMA CellRead ==
  ASSUME NEW sheet \in Sheets, NEW n \in DOMAIN sheet.rows, NEW f \in Csv!Fields
  PROVE  LET i == Csv!Column(sheet.columns, f)
         IN  Csv!Cell(Written(sheet).lines[n], i)
               = IF i = Nil THEN Nil ELSE WrittenCell(sheet.rows[n], f, sheet)
PROOF
  <1> DEFINE h == sheet.columns
             i == Csv!Column(h, f)
             line == [j \in DOMAIN h |-> WrittenCell(sheet.rows[n], FieldOf(h[j]), sheet)]
  <1>1. Written(sheet).lines[n] = line
    BY DEF Written
  <1>2. Len(h) \in Nat /\ DOMAIN h = 1..Len(h)
    BY SheetsAssumption
  <1>3. Len(line) = Len(h)
    <2>1. line = [j \in 1..Len(h) |-> line[j]]
      BY <1>2
    <2> HIDE DEF line
    <2> QED
      BY <1>2, <2>1, LengthOfListing
  <1>4. CASE i = Nil
    BY <1>1, <1>4 DEF Csv!Cell
  <1>5. CASE i # Nil
    <2>1. i \in 1..Len(h) /\ FieldOf(h[i]) = f
      BY <1>5, ColumnFound
    <2> HIDE DEF i
    <2>2. line[i] = WrittenCell(sheet.rows[n], f, sheet)
      BY <1>2, <2>1
    <2>3. ~(i > Len(line))
      BY <1>2, <1>3, <2>1
    <2> HIDE DEF line, h
    <2> QED
      BY <1>1, <1>5, <2>2, <2>3 DEF Csv!Cell, i, h
  <1> QED
    BY <1>4, <1>5

(* A date is read as it was written, unless its month was written first    *)
(* and may be taken for its day.                                           *)
LEMMA DateReads ==
  ASSUME NEW d \in 0..(Months * MonthLength - 1), NEW style,
         style = "month-first" => \/ (d % MonthLength) + 1 > Months
                                  \/ (d % MonthLength) + 1 = d \div MonthLength + 1
  PROVE  /\ WrittenDate(d, style) \in SheetCell /\ WrittenDate(d, style).kind = "date"
         /\ Csv!ParseDate(WrittenDate(d, style)) = d
PROOF
  <1> DEFINE L == MonthLength
             month == d \div L + 1
             day == (d % L) + 1
             c == WrittenDate(d, style)
  <1>1. L \in Nat \ {0} /\ Months \in Nat
    BY ViewsAssumption
  <1>2. Months * L \in Int
    BY <1>1
  <1>3. d \in Nat /\ d < Months * L
    BY <1>2
  <1>4. d \div L \in Nat /\ d % L \in 0..(L - 1) /\ d = L * (d \div L) + (d % L)
    <2>1. d \div L \in Int /\ d % L \in 0..(L - 1) /\ d = L * (d \div L) + (d % L)
      BY <1>1, <1>3
    <2>2. ASSUME d \div L < 0 PROVE FALSE
      <3> DEFINE q == d \div L
      <3>1. q + 1 <= 0 /\ q \in Int
        BY <2>1, <2>2
      <3>2. d < (q + 1) * L
        BY <1>1, <1>3, <2>1, DivBounds
      <3>3. PICK k \in Nat : q + 1 = -k
        <4>1. -(q + 1) \in Nat /\ q + 1 = -(-(q + 1))
          BY <3>1
        <4> QED
          BY <4>1
      <3> HIDE DEF q
      <3>4. (q + 1) * L = -(k * L) /\ k * L >= 0
        BY <1>1, <3>3
      <3> QED
        BY <1>1, <1>3, <3>2, <3>4
    <2> QED
      BY <2>1, <2>2
  <1>5. d \div L < Months
    <2> DEFINE q == d \div L
    <2>1. q * L <= d
      BY <1>1, <1>3, DivBounds
    <2>2. ASSUME q >= Months PROVE FALSE
      <3>1. q * L >= Months * L
        <4>1. PICK k \in Nat : q = Months + k
          <5>1. q - Months \in Nat /\ q = Months + (q - Months)
            BY <1>1, <1>4, <2>2
          <5> QED
            BY <5>1
        <4>2. q * L = Months * L + k * L /\ k * L >= 0
          BY <1>1, <4>1
        <4> QED
          BY <1>2, <4>2, <1>1
      <3> QED
        BY <1>2, <1>3, <2>1, <3>1, <1>1, <1>4
    <2> HIDE DEF q
    <2> QED
      BY <1>1, <1>4, <2>2 DEF q
  <1>6. month \in 1..Months /\ day \in 1..L
    BY <1>1, <1>4, <1>5
  <1>7. Csv!DateOf(month, day) = d
    <2> DEFINE q == d \div L
               r == d % L
    <2>1. month = q + 1 /\ day = r + 1 /\ q \in Nat /\ r \in Int /\ d = L * q + r
      BY <1>4
    <2>2. Csv!DateOf(month, day) = (month - 1) * L + day - 1
      BY DEF Csv!DateOf
    <2> HIDE DEF q, r, month, day
    <2>3. month - 1 = q /\ day - 1 = r /\ q * L = L * q /\ q * L \in Int /\ day \in Int
      BY <1>1, <2>1
    <2>4. (month - 1) * L + day - 1 = L * q + r
      <3>1. (month - 1) * L = L * q
        BY <2>3
      <3> QED
        BY <2>1, <2>3, <3>1
    <2> QED
      BY <2>1, <2>2, <2>4
  <1>8. /\ c.kind = "date"
        /\ c.form = IF style \in {"iso", "dash"} THEN style ELSE "slash"
        /\ c.a = IF style \in {"iso", "month-first"} THEN month ELSE day
        /\ c.b = IF style \in {"iso", "month-first"} THEN day ELSE month
        /\ c = [kind |-> c.kind, form |-> c.form, a |-> c.a, b |-> c.b]
    BY DEF WrittenDate
  <1>9. Csv!IsDay(month, day)
    BY <1>6 DEF Csv!IsDay
  <1>10. style = "month-first" /\ Csv!IsDay(day, month) => day = month
    BY <1>1, <1>6 DEF Csv!IsDay
  <1>11. month \in Nat /\ day \in Nat
    BY <1>6
  <1> HIDE DEF month, day, c
  <1>12. c \in SheetCell
    BY <1>8, <1>11 DEF SheetCell
  <1>13. Csv!ParseDate(c) = d
    BY <1>7, <1>8, <1>9, <1>10 DEF Csv!ParseDate
  <1> QED
    BY <1>8, <1>12, <1>13 DEF c

(* A row as it comes in: with a category that the user has, in dinars or   *)
(* dollars.                                                                *)
Filed(row) ==
  [row EXCEPT !.category = IF @ \in Categories THEN @ ELSE "Other",
              !.currency = IF @ = "USD" THEN @ ELSE "JOD"]

(* What stands in the cells of a row.                                      *)
LEMMA CellsOfRow ==
  ASSUME NEW sheet \in Sheets, NEW row \in SheetRow
  PROVE  LET amount == WrittenCell(row, "amount_original", sheet)
             ccy == WrittenCell(row, "currency_original", sheet)
             cat == WrittenCell(row, "category", sheet)
             text == WrittenCell(row, "description", sheet)
         IN  /\ WrittenCell(row, "transaction_date", sheet) = WrittenDate(row.date, sheet.style)
             /\ amount # Nil /\ amount.kind = "number" /\ Csv!ParseAmount(amount) = row.amount
             /\ ccy # Nil /\ ccy.text = row.currency
             /\ cat # Nil /\ cat.text = row.category
             /\ (text = Nil <=> row.description = {}) /\ (text # Nil => text.text = row.description)
PROOF
  <1>1. row # Nil /\ row.amount \in Nat /\ row.category \in Word /\ row.currency \in Word
        /\ row.description \in SUBSET STRING
    <2>1. row # Nil
      BY SheetsAssumption
    <2>2. /\ row.amount \in Nat /\ row.category \in Word /\ row.currency \in Word
          /\ row.description \in SUBSET STRING
      BY DEF SheetRow
    <2> QED
      BY <2>1, <2>2
  <1>2. sheet.signed \in BOOLEAN
    BY SheetsAssumption
  <1> DEFINE v == IF sheet.signed THEN -row.amount ELSE row.amount
  <1>3. v \in Int /\ (IF v < 0 THEN -v ELSE v) = row.amount
    BY <1>1, <1>2
  <1> HIDE DEF v
  <1>4. [kind |-> "number", value |-> v] \in SheetCell
    BY <1>3 DEF SheetCell
  <1>5. /\ [kind |-> "text", text |-> row.currency] \in SheetCell
        /\ [kind |-> "text", text |-> row.category] \in SheetCell
        /\ [kind |-> "text", text |-> row.description] \in SheetCell
    BY <1>1 DEF SheetCell
  <1>6. /\ WrittenCell(row, "transaction_date", sheet) = WrittenDate(row.date, sheet.style)
        /\ WrittenCell(row, "amount_original", sheet) = [kind |-> "number", value |-> v]
        /\ WrittenCell(row, "currency_original", sheet) = [kind |-> "text", text |-> row.currency]
        /\ WrittenCell(row, "category", sheet) = [kind |-> "text", text |-> row.category]
        /\ WrittenCell(row, "description", sheet)
             = IF row.description = {} THEN Nil ELSE [kind |-> "text", text |-> row.description]
    BY <1>1 DEF WrittenCell, v
  <1> QED
    BY <1>3, <1>4, <1>5, <1>6, SheetsAssumption DEF Csv!ParseAmount

(* A line of a file that is clear and complete reads as its row, unless it *)
(* has no amount.                                                          *)
LEMMA RowReads ==
  ASSUME NEW sheet \in Sheets, Csv!Readable(Written(sheet)), Complete(sheet), Clear(sheet),
         NEW n \in DOMAIN sheet.rows
  PROVE  LET row == sheet.rows[n]
             read == Csv!ParseCsv(Written(sheet), Categories)[n]
         IN  /\ row = Nil => read = Nil
             /\ row # Nil => /\ row \in SheetRow
                             /\ read = IF row.amount = 0 THEN Nil ELSE Filed(row)
PROOF
  <1> DEFINE row == sheet.rows[n]
             h == sheet.columns
             line == Written(sheet).lines[n]
             At(f) == Csv!Cell(line, Csv!Column(h, f))
             Missing(f) == Csv!Column(h, f) = Nil
             read == Csv!ParseCsv(Written(sheet), Categories)[n]
  <1>1. Written(sheet).headers = h /\ DOMAIN Written(sheet).lines = DOMAIN sheet.rows
    BY DEF Written
  <1>2. read = Csv!ParseRow(line, h, Categories)
    BY <1>1 DEF Csv!ParseCsv
  <1>3. \A f \in Csv!Fields : At(f) = IF Missing(f) THEN Nil ELSE WrittenCell(row, f, sheet)
    BY CellRead
  <1>4. ~Missing("transaction_date") /\ ~Missing("amount_original")
    BY <1>1 DEF Csv!Readable
  <1> DEFINE date == At("transaction_date")
             amount == At("amount_original")
             ccy == At("currency_original")
             cat == At("category")
             text == At("description")
  <1>5. read = IF \/ date = Nil \/ date.kind # "date" \/ Csv!ParseDate(date) = Nil
                  \/ amount = Nil \/ amount.kind # "number" \/ Csv!ParseAmount(amount) = 0
               THEN Nil
               ELSE [date |-> Csv!ParseDate(date), amount |-> Csv!ParseAmount(amount),
                     currency |-> IF ccy # Nil /\ ccy.text = "USD" THEN "USD" ELSE "JOD",
                     category |-> IF cat # Nil /\ cat.text \in Categories THEN cat.text ELSE "Other",
                     description |-> IF text = Nil THEN {} ELSE text.text]
    <2> HIDE DEF read, line, h
    <2> QED
      BY <1>2 DEF Csv!ParseRow, h
  <1>6. /\ date = WrittenCell(row, "transaction_date", sheet)
        /\ amount = WrittenCell(row, "amount_original", sheet)
        /\ ccy = IF Missing("currency_original") THEN Nil ELSE WrittenCell(row, "currency_original", sheet)
        /\ cat = IF Missing("category") THEN Nil ELSE WrittenCell(row, "category", sheet)
        /\ text = IF Missing("description") THEN Nil ELSE WrittenCell(row, "description", sheet)
    <2> HIDE DEF At, Missing, row
    <2> QED
      BY <1>3, <1>4 DEF Csv!Fields
  <1>7. row # Nil => /\ Missing("currency_original") => row.currency # "USD"
                     /\ Missing("category") /\ row.category \in Categories => row.category = "Other"
                     /\ Missing("description") => row.description = {}
    BY DEF Complete
  <1>8. row \in SheetRow \cup {Nil}
    BY SheetsAssumption
  <1> HIDE DEF row, read, date, amount, ccy, cat, text, Missing, At, h, line
  <1>9. ASSUME row = Nil
        PROVE  read = Nil
    <2>1. date = Nil
      BY <1>6, <1>9 DEF WrittenCell
    <2> QED
      BY <1>5, <2>1
  <1>10. ASSUME row # Nil
         PROVE  row \in SheetRow /\ read = IF row.amount = 0 THEN Nil ELSE Filed(row)
    <2>1. row \in SheetRow
      BY <1>8, <1>10
    <2>2. /\ row.date \in 0..(Months * MonthLength - 1)
          /\ row = [date |-> row.date, amount |-> row.amount, currency |-> row.currency,
                    category |-> row.category, description |-> row.description]
      BY <2>1 DEF SheetRow
    <2>3. sheet.style = "month-first" =>
            \/ (row.date % MonthLength) + 1 > Months
            \/ (row.date % MonthLength) + 1 = row.date \div MonthLength + 1
      BY <1>10 DEF Clear, row
    <2>4. date # Nil /\ date.kind = "date" /\ Csv!ParseDate(date) = row.date /\ row.date # Nil
      <3>1. date = WrittenDate(row.date, sheet.style)
        BY <1>6, <2>1, CellsOfRow
      <3>2. /\ WrittenDate(row.date, sheet.style) \in SheetCell
            /\ WrittenDate(row.date, sheet.style).kind = "date"
            /\ Csv!ParseDate(WrittenDate(row.date, sheet.style)) = row.date
        BY <2>2, <2>3, DateReads
      <3>3. row.date \in Nat
        BY <2>2, ViewsAssumption
      <3> QED
        BY <3>1, <3>2, <3>3, SheetsAssumption, ViewsAssumption
    <2>5. amount # Nil /\ amount.kind = "number" /\ Csv!ParseAmount(amount) = row.amount
      BY <1>6, <2>1, CellsOfRow
    <2>6. (IF ccy # Nil /\ ccy.text = "USD" THEN "USD" ELSE "JOD")
            = IF row.currency = "USD" THEN row.currency ELSE "JOD"
      BY <1>6, <1>7, <1>10, <2>1, <2>2, CellsOfRow
    <2>7. (IF cat # Nil /\ cat.text \in Categories THEN cat.text ELSE "Other")
            = IF row.category \in Categories THEN row.category ELSE "Other"
      BY <1>6, <1>7, <1>10, <2>1, CellsOfRow
    <2>8. (IF text = Nil THEN {} ELSE text.text) = row.description
      BY <1>6, <1>7, <1>10, <2>1, CellsOfRow
    <2> DEFINE c == IF row.category \in Categories THEN row.category ELSE "Other"
               money == IF row.currency = "USD" THEN row.currency ELSE "JOD"
    <2>9. Filed(row) = [date |-> row.date, amount |-> row.amount, currency |-> money,
                        category |-> c, description |-> row.description]
      <3> DEFINE other == [row EXCEPT !.category = c]
      <3>1. other = [date |-> row.date, amount |-> row.amount, currency |-> row.currency,
                     category |-> c, description |-> row.description]
        <4> HIDE DEF c, money
        <4> QED
          BY <2>2
      <3>2. Filed(row) = [other EXCEPT !.currency = money]
        BY <3>1 DEF Filed
      <3> HIDE DEF other, c, money
      <3> QED
        BY <3>1, <3>2
    <2>10. read = IF row.amount = 0 THEN Nil
                  ELSE [date |-> row.date, amount |-> row.amount, currency |-> money,
                        category |-> c, description |-> row.description]
      BY <1>5, <2>4, <2>5, <2>6, <2>7, <2>8
    <2> QED
      BY <2>1, <2>9, <2>10
  <1> QED
    BY <1>9, <1>10 DEF row, read

(* Such a file brings each row as often as it says.                        *)
LEMMA BringsWhatItSays ==
  ASSUME NEW sheet \in DOMAIN Brings, Complete(sheet), Clear(sheet),
         NEW r \in Rows
  PROVE  Brings[sheet][r] = Said(sheet, r)
PROOF
  <1> DEFINE read == Csv!ParseCsv(Written(sheet), Categories)
             brought == {n \in DOMAIN sheet.rows :
                           read[n] # Nil /\ Creatable(read[n]) /\ FromFile(read[n]) = r}
             said == {n \in DOMAIN sheet.rows :
                        sheet.rows[n] # Nil /\ Creatable(Filed(sheet.rows[n]))
                          /\ FromFile(Filed(sheet.rows[n])) = r}
  <1>1. sheet \in Sheets /\ Csv!Readable(Written(sheet)) /\ Brings[sheet][r] = Cardinality(brought)
    BY DEF Brings
  <1>2. Said(sheet, r) = Cardinality(said)
    BY DEF Said, Filed
  <1>3. ASSUME NEW n \in DOMAIN sheet.rows
        PROVE  n \in brought <=> n \in said
    <2> DEFINE row == sheet.rows[n]
    <2>1. /\ row = Nil => read[n] = Nil
          /\ row # Nil => row \in SheetRow /\ read[n] = IF row.amount = 0 THEN Nil ELSE Filed(row)
      BY <1>1, RowReads
    <2>2. ASSUME row # Nil
          PROVE  /\ Filed(row) \in SheetRow /\ Filed(row) # Nil /\ Filed(row).amount = row.amount
      <3>1. row \in SheetRow
        BY <2>1, <2>2
      <3> HIDE DEF row
      <3>2. Filed(row) \in SheetRow /\ Filed(row).amount = row.amount
        BY <3>1 DEF SheetRow, Filed, Word
      <3>3. Nil \notin SheetRow
        BY SheetsAssumption
      <3> QED
        BY <3>2, <3>3
    <2>3. ASSUME row # Nil, Creatable(Filed(row))
          PROVE  row.amount # 0
      <3>1. Filed(row).amount > 0
        BY <2>3 DEF Creatable
      <3> HIDE DEF row
      <3> QED
        BY <2>2, <2>3, <3>1
    <2> HIDE DEF row, read
    <2>4. n \in said <=> row # Nil /\ Creatable(Filed(row)) /\ FromFile(Filed(row)) = r
      BY DEF row
    <2> QED
      BY <2>1, <2>2, <2>3, <2>4
  <1>4. brought = said
    <2> HIDE DEF read
    <2> QED
      BY <1>3
  <1> HIDE DEF brought, said
  <1> QED
    BY <1>1, <1>2, <1>4

(* A file is read as it was written.                                       *)
THEOREM FilesReadAsWritten == Spec => ReadsAsWritten
PROOF
  <1>1. ASSUME TypeOK, NEW sheet \in DOMAIN Brings, Upload(sheet), Complete(sheet), Clear(sheet),
               NEW r \in Rows
        PROVE  draft'[open].rows[r] = Capped(db[open].rows[r] + Said(sheet, r))
    <2> DEFINE d == db[open]
               more == [q \in Rows |-> Capped(d.rows[q] + Brings[sheet][q])]
    <2>1. open \in Vault /\ DOMAIN draft = Vault /\ d \in [rows: [Rows -> 0..MaxCopies], conns: [Conn -> ConnRow]]
      BY <1>1 DEF TypeOK, IsDatabase
    <2>2. draft' = [draft EXCEPT ![open] = [d EXCEPT !.rows = more]]
      BY <1>1 DEF Upload, Write
    <2>3. draft'[open] = [d EXCEPT !.rows = more]
      <3> HIDE DEF d, more
      <3> QED
        BY <2>1, <2>2
    <2>4. draft'[open].rows = more
      <3> HIDE DEF d, more
      <3> QED
        BY <2>1, <2>3
    <2>5. draft'[open].rows[r] = Capped(d.rows[r] + Brings[sheet][r])
      BY <2>4
    <2> QED
      BY <1>1, <2>5, BringsWhatItSays
  <1>2. TypeOK =>
          [\A sheet \in DOMAIN Brings : Upload(sheet) /\ Complete(sheet) /\ Clear(sheet) =>
             \A r \in Rows :
               draft'[open].rows[r] = Capped(db[open].rows[r] + Said(sheet, r))]_vars
    BY <1>1
  <1> QED
    BY <1>2, TypeCorrect, PTL DEF ReadsAsWritten
=============================================================================
