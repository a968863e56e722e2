------------------------------ MODULE BankSync ------------------------------
(***************************************************************************)
(* Bank synchronisation: the scheduler's passes over the connections, the  *)
(* manual sync of one, and the requests and vault switches they meet.      *)
(*                                                                         *)
(* A pass, and the handler of a manual sync, run on the event loop, and as *)
(* nothing in them suspends (the connectors call httpx synchronously) the  *)
(* loop does nothing else meanwhile.  Worker threads do: they commit the   *)
(* sessions of requests and run the handlers of synchronous routes, of     *)
(* which unlocking replaces the engine.  A session that has written holds  *)
(* the write lock of its vault's database until it commits.  Who finds the *)
(* lock taken may see it released in time, which is the commit happening   *)
(* first, or fail when the busy timeout ends.                              *)
(*                                                                         *)
(* The vaults of this model are all unlocked once, each has one user, and  *)
(* its connections are rows of its table from the start.                   *)
(***************************************************************************)
EXTENDS Money, FiniteSets

CONSTANTS
  Vault,
  Conn,         \* ids of rows of bankconnection: each vault counts from 1
  Configured,   \* the connections there are, a set of <<vault, id>>
  Tx,           \* transactions that the banks will post
  Account,      \* Tx -> the connection <<vault, id>> whose account it is on
  Posting,      \* Tx -> [date, amount, currency, description]
  CategoryType, \* category name -> type
  Rate,         \* what a lookup of the exchange rate gives, whatever the day
  Rows,         \* rows that may come to be in the table "transaction"
  Entered,      \* rows that a user may enter
  MaxDay,       \* bound: the last day
  MaxCopies,    \* bound: equal rows that are told apart
  MaxEvents,    \* bound: requests, outages, vault switches and restarts
  Nil

VARIABLES
  today,
  posted,  \* transactions the banks report
  open,    \* the vault whose engine is installed
  db,      \* vault -> its database: rows (how many of each), conns
  draft,   \* vault -> the database as its uncommitted writer sees it, or Nil
  writer,  \* vault -> who holds the write lock: "none", "loop" or "request"
  loop,    \* what the event loop is doing
  events,  \* how many of MaxEvents have happened
  overtaken \* an auxiliary variable that no guard reads, see Commit

vars == <<today, posted, open, db, draft, writer, loop, events, overtaken>>

-----------------------------------------------------------------------------
(* A description is the set of the keyword groups it has a word of; the    *)
(* groups are tried in this order, and "gasoline" has a word of utilities. *)
Keywords == <<"income", "housing", "utilities", "food", "transport">>

Candidates(group) ==
  CASE group = "income" -> <<"Income", "Salary">>
    [] group = "housing" -> <<"Housing">>
    [] group = "utilities" -> <<"Utilities">>
    [] group = "food" -> <<"Food & Drinks", "Food">>
    [] group = "transport" -> <<"Transportation", "Transport">>

FirstIn(seq, S) == seq[CHOOSE i \in DOMAIN seq : seq[i] \in S /\ \A j \in 1..(i - 1) : seq[j] \notin S]

InferCategory(description, valid) ==
  IF description = {} THEN "Other"
  ELSE LET names == Candidates(FirstIn(Keywords, description))
       IN  IF \E i \in DOMAIN names : names[i] \in valid THEN FirstIn(names, valid) ELSE "Other"

(* What create() is asked to record of a transaction. *)
Asked(t) ==
  [date |-> Posting[t].date, amount |-> Posting[t].amount, currency |-> Posting[t].currency,
   description |-> Posting[t].description,
   category |-> InferCategory(Posting[t].description, DOMAIN CategoryType)]

(* What it refuses: an amount that is not positive (a debit that the bank  *)
(* reports with a minus sign) or converts to nothing, another currency, an *)
(* unknown category and that of transfers.                                 *)
Creatable(x) ==
  /\ x.amount > 0
  /\ x.currency \in {"JOD", "USD"}
  /\ BaseAmount(x.amount, x.currency, Rate) > 0
  /\ x.category \in DOMAIN CategoryType
  /\ CategoryType[x.category] # "transfer"

(* The row it makes, as the columns give it back.                          *)
StoredRow(x, source) ==
  [date |-> x.date, amount |-> InColumn(x.amount), currency |-> x.currency,
   category |-> x.category, description |-> x.description, source |-> source,
   base |-> InColumn(BaseAmount(x.amount, x.currency, Rate))]

RowOf == [t \in Tx |-> StoredRow(Asked(t), "bank")]

(* The transactions of which it makes one.                                 *)
Wanted == {t \in Tx : Creatable(Asked(t))}

ASSUME SyncAssumption ==
  /\ MaxDay \in Nat /\ MaxCopies \in Nat \ {0} /\ MaxEvents \in Nat
  /\ Rate \in Nat \ {0}
  /\ Nil \notin Vault /\ Nil \notin 0..MaxDay /\ Nil \notin Tx
  /\ \A t \in Tx :
       /\ Account[t] \in Vault \X Conn /\ Posting[t].date \in 0..MaxDay
       /\ Posting[t].amount \in Int
  /\ \A t \in Wanted : RowOf[t] \in Rows
  /\ \A row \in Rows : InColumn(row.amount) = row.amount
  /\ \A row \in Entered : row.source # "bank"

Add(rows, row) == [rows EXCEPT ![row] = IF @ < MaxCopies THEN @ + 1 ELSE @]

NoConn == [there |-> FALSE, active |-> FALSE, last |-> Nil]
Idle == [op |-> "idle", of |-> Nil, todo |-> {}, conn |-> Nil, session |-> Nil,
         left |-> {}, pending |-> Nil, down |-> FALSE, dead |-> FALSE, fetched |-> Nil]

Init ==
  /\ today = 0
  /\ posted = {}
  /\ open \in Vault
  /\ db = [v \in Vault |->
             [rows |-> [r \in Rows |-> 0],
              conns |-> [i \in Conn |-> IF <<v, i>> \in Configured
                                        THEN [there |-> TRUE, active |-> TRUE, last |-> Nil]
                                        ELSE NoConn]]]
  /\ draft = [v \in Vault |-> Nil]
  /\ writer = [v \in Vault |-> "none"]
  /\ loop = Idle
  /\ events = 0
  /\ overtaken = {}

(* What the session of the event loop reads. *)
Seen == IF writer[loop.session] = "loop" THEN draft[loop.session] ELSE db[loop.session]

Happens == events < MaxEvents /\ events' = events + 1

-----------------------------------------------------------------------------
(* The world: days pass, though not two while one connection is synced,    *)
(* and banks post transactions on their day.                               *)
Tick ==
  /\ today < MaxDay
  /\ loop.fetched \in {Nil, today}
  /\ today' = today + 1
  /\ UNCHANGED <<posted, open, db, draft, writer, loop, events, overtaken>>

Post(t) ==
  /\ t \notin posted
  /\ Posting[t].date = today
  /\ posted' = posted \cup {t}
  /\ UNCHANGED <<today, open, db, draft, writer, loop, events, overtaken>>

-----------------------------------------------------------------------------
(* Slip: only connections that were never synchronised are due. *)
DueOnce(v) == {<<i, db[v].conns[i].last>> : i \in {j \in Conn : db[v].conns[j].active /\ db[v].conns[j].last = Nil}}

(* The active connections of the vault that is open, as a pass reads them. *)
Due(v) == {<<i, db[v].conns[i].last>> : i \in {j \in Conn : db[v].conns[j].active}}

StartPass ==
  /\ loop.op = "idle"
  /\ Due(open) # {}
  /\ loop' = [Idle EXCEPT !.op = "pass", !.of = open, !.todo = Due(open)]
  /\ UNCHANGED <<today, posted, open, db, draft, writer, events, overtaken>>

(* Slip: the bank is asked for what came after the day of the last sync. *)
ReportedAfter(c, from) ==
  {t \in posted : Account[t] = c /\ (from # Nil => Posting[t].date > from)}

(* What the bank answers: everything since the day of the last sync. *)
Reported(c, from) ==
  {t \in posted : Account[t] = c /\ (from # Nil => Posting[t].date >= from)}

(* A failed fetch is an empty list. *)
Fetch(c, from, down) == IF down THEN {} ELSE Reported(c, from)

(* The pass turns to its next connection: the session is bound to the      *)
(* engine that is installed now, the connection is the one it read.        *)
NextConn ==
  /\ loop.op = "pass"
  /\ \E due \in loop.todo, down \in BOOLEAN :
       /\ IF down THEN Happens ELSE UNCHANGED events
       /\ loop' = [loop EXCEPT !.op = "import", !.todo = @ \ {due}, !.conn = due[1],
                               !.session = open, !.down = down, !.fetched = today,
                               !.left = Fetch(<<loop.of, due[1]>>, due[2], down)]
  /\ UNCHANGED <<today, posted, open, db, draft, writer, overtaken>>

(* POST /{conn_id}/sync: active or not; the session is the request's.      *)
ManualSync(i) ==
  /\ loop.op = "idle"
  /\ db[open].conns[i].there
  /\ Happens
  /\ loop' = [Idle EXCEPT !.op = "manual", !.of = open, !.conn = i, !.session = open,
                          !.fetched = today,
                          !.left = Fetch(<<open, i>>, db[open].conns[i].last, FALSE)]
  /\ UNCHANGED <<today, posted, open, db, draft, writer, overtaken>>

(* Slip: the list has no last date, so it begins with a row of a later day. *)
FoundSince(rows, t) == {r \in Rows : rows[r] > 0 /\ r.date >= Posting[t].date}

(* The rows of the day, of which the list of page size 1 has any.          *)
FoundOn(rows, t) == {r \in Rows : rows[r] > 0 /\ r.date = Posting[t].date}

(* What the duplicate test compares: the amount as the bank has it with    *)
(* the one of the column, and neither the currency nor the source.         *)
LooksLike(r, t) == r.description = Posting[t].description /\ r.amount = Posting[t].amount

Duplicate(rows, t) ==
  IF FoundOn(rows, t) = {} THEN {FALSE} ELSE {LooksLike(r, t) : r \in FoundOn(rows, t)}

(* create() finds the category among those of the user, who has none in    *)
(* the database of another vault.                                          *)
Accepted(t) == loop.session = loop.of /\ t \in Wanted

(* One transaction of the list: skipped as a duplicate, refused, or about  *)
(* to be inserted.  The query takes no lock.                               *)
LookFor(t) ==
  /\ loop.op \in {"import", "manual"} /\ loop.pending = Nil
  /\ t \in loop.left
  /\ \E dup \in Duplicate(Seen.rows, t) :
       loop' = IF dup \/ ~Accepted(t) THEN [loop EXCEPT !.left = @ \ {t}]
               ELSE [loop EXCEPT !.pending = t]
  /\ UNCHANGED <<today, posted, open, db, draft, writer, events, overtaken>>

(* The insertion, into whatever the table has become.  A flush that finds  *)
(* the lock taken kills the session, and what is left fails with it.       *)
InsertOne ==
  /\ loop.pending # Nil
  /\ LET s == loop.session
     IN  \/ /\ writer[s] = "request"
            /\ loop' = [loop EXCEPT !.left = {}, !.pending = Nil, !.dead = TRUE]
            /\ UNCHANGED <<draft, writer>>
         \/ /\ writer[s] # "request"
            /\ loop' = [loop EXCEPT !.left = @ \ {loop.pending}, !.pending = Nil]
            /\ draft' = [draft EXCEPT ![s] = [Seen EXCEPT !.rows = Add(@, RowOf[loop.pending])]]
            /\ writer' = [writer EXCEPT ![s] = "loop"]
  /\ UNCHANGED <<today, posted, open, db, events, overtaken>>

(* The pass goes on with the rest of its connections, or ends.  An error   *)
(* at the commit has expired the connection, and naming it in the log ends *)
(* the whole pass.                                                         *)
AfterConn(failed) ==
  IF loop.todo = {} \/ failed THEN Idle
  ELSE [Idle EXCEPT !.op = "pass", !.of = loop.of, !.todo = loop.todo]

(* Slip: the row of the connection is written without a look whether it is *)
(* there.                                                                  *)
SyncedAnyway(i) == [Seen EXCEPT !.conns[i].last = today]

(* The database after the pass has set last_sync_at and committed; the     *)
(* UPDATE of a row that is not there raises and rolls everything back.     *)
Synced(i) == IF Seen.conns[i].there THEN [Seen EXCEPT !.conns[i].last = today] ELSE db[loop.session]

FinishConn ==
  /\ loop.op = "import" /\ loop.left = {}
  /\ LET s == loop.session
         locked == writer[s] = "request"
         failed == ~loop.dead /\ (locked \/ ~Seen.conns[loop.conn].there)
     IN  /\ db' = IF loop.dead \/ locked THEN db ELSE [db EXCEPT ![s] = Synced(loop.conn)]
         /\ loop' = AfterConn(failed)
         /\ IF writer[s] = "loop"
            THEN draft' = [draft EXCEPT ![s] = Nil] /\ writer' = [writer EXCEPT ![s] = "none"]
            ELSE UNCHANGED <<draft, writer>>
  /\ UNCHANGED <<today, posted, open, events, overtaken>>

(* The handler of the manual sync returns; its session commits later, in a *)
(* worker thread, and last_sync_at is left alone.                          *)
FinishManual ==
  /\ loop.op = "manual" /\ loop.left = {}
  /\ loop' = Idle
  /\ writer' = [writer EXCEPT ![loop.session] = IF @ = "loop" THEN "request" ELSE @]
  /\ UNCHANGED <<today, posted, open, db, draft, events, overtaken>>

-----------------------------------------------------------------------------
(* A synchronous request of the open vault flushes its write, and has the  *)
(* lock until it commits.                                                  *)
Write(data) ==
  /\ writer[open] = "none"
  /\ Happens
  /\ draft' = [draft EXCEPT ![open] = data]
  /\ writer' = [writer EXCEPT ![open] = "request"]
  /\ UNCHANGED <<today, posted, open, db, loop, overtaken>>

Enter(row) == Write([db[open] EXCEPT !.rows = Add(@, row)])

SetActive(i, active) ==
  /\ db[open].conns[i].there /\ db[open].conns[i].active # active
  /\ Write([db[open] EXCEPT !.conns[i].active = active])

DeleteConn(i) ==
  /\ db[open].conns[i].there
  /\ Write([db[open] EXCEPT !.conns[i] = NoConn])

(* The request's work comes into the database.  Overtaken is a transaction *)
(* that it brings when the loop has looked for it and is about to insert   *)
(* it.                                                                     *)
Commit(v) ==
  /\ writer[v] = "request"
  /\ db' = [db EXCEPT ![v] = draft[v]]
  /\ draft' = [draft EXCEPT ![v] = Nil]
  /\ writer' = [writer EXCEPT ![v] = "none"]
  /\ overtaken' = overtaken \cup
       {t \in Tx : /\ t = loop.pending /\ v = loop.session
                   /\ draft[v].rows[RowOf[t]] > db[v].rows[RowOf[t]]}
  /\ UNCHANGED <<today, posted, open, loop, events>>

(* Another vault is unlocked: the engine is replaced, sessions keep theirs.*)
Switch(v) ==
  /\ v # open
  /\ Happens
  /\ open' = v
  /\ UNCHANGED <<today, posted, db, draft, writer, loop, overtaken>>

(* The process ends: what is not committed is gone. *)
Restart ==
  /\ Happens
  /\ loop' = Idle
  /\ draft' = [v \in Vault |-> Nil]
  /\ writer' = [v \in Vault |-> "none"]
  /\ UNCHANGED <<today, posted, open, db, overtaken>>

-----------------------------------------------------------------------------
SyncStep == StartPass \/ NextConn \/ (\E t \in Tx : LookFor(t)) \/ InsertOne \/ FinishConn \/ FinishManual

Requests ==
  \/ \E i \in Conn : ManualSync(i) \/ DeleteConn(i) \/ (\E b \in BOOLEAN : SetActive(i, b))
  \/ \E row \in Entered : Enter(row)

SyncNext ==
  \/ Tick \/ (\E t \in Tx : Post(t))
  \/ SyncStep
  \/ Requests
  \/ \E v \in Vault : Commit(v) \/ Switch(v)
  \/ Restart

(* The scheduler's task runs again and again, what is on the event loop    *)
(* goes on, and a request that has returned gets its commit.               *)
SyncFairness == WF_vars(SyncStep) /\ \A v \in Vault : WF_vars(Commit(v))

-----------------------------------------------------------------------------
ConnRow == [there: BOOLEAN, active: BOOLEAN, last: 0..MaxDay \cup {Nil}]

Loop == [op: {"idle", "pass", "import", "manual"}, of: Vault \cup {Nil},
         todo: SUBSET (Conn \X (0..MaxDay \cup {Nil})), conn: Conn \cup {Nil},
         session: Vault \cup {Nil}, left: SUBSET Tx, pending: Tx \cup {Nil}, down: BOOLEAN, dead: BOOLEAN,
         fetched: 0..MaxDay \cup {Nil}]

(* A connection that is gone keeps nothing. *)
IsDatabase(d) ==
  /\ d \in [rows: [Rows -> 0..MaxCopies], conns: [Conn -> ConnRow]]
  /\ \A i \in Conn : ~d.conns[i].there => d.conns[i] = NoConn
=============================================================================
