# ZeroWhisper: specifications and proofs

ZeroWhisper is a self-hosted personal finance application: a FastAPI backend over
SQLite/SQLCipher (`src/backend/app`), a React client (`src/frontend`), an assistant
that turns messages into proposed transactions, and a scheduler that imports bank
transactions. This directory holds TLA+ modules of its core logic, TLC
configurations that check them on small instances, and TLAPS proofs.

## 1. The system

| Component | State it keeps | Operations | What makes it correct |
|---|---|---|---|
| Transaction ledger (`application/transaction_service.py`, `repositories/transaction_repo.py`, `core/domain/transaction.py`) | rows of `transaction`; a transfer is two rows with one `transfer_id` | create, transfer, update (which copies to the other leg), soft delete | a transfer is whole at all times; the base amount belongs to the amount and the rate; deleted rows are final |
| Wallets (`wallet_service.py`, `wallet_repo.py`) | rows of `wallet`; the balance is derived | create, update (rename, archive), delete | live rows have their wallet; names are unique; money is conserved |
| Sessions (`infrastructure/database.py`, `api/deps.py`) | one engine, one session per request | commit or roll back at the end of the request | overlapping requests do not undo one another |
| Vaults (`infrastructure/vault/manager.py`, `routes/setup.py`) | state file, database files, engine, active vault, key in memory | create, unlock, recover, restart | every listed vault has a file of its own that its key opens; queries go to the active vault |
| Categories (`category_service.py`, `category_repo.py`) | rows of `category`, a two-level tree | seed, create, update, delete | one level of nesting; a category in use stays |
| Whisper (`whisper_service.py`) | pending proposals in memory, with a lifetime | parse, confirm, reject | a proposal is recorded at most once |
| Bank sync (`bank_sync_service.py`, `bank_connectors.py`, `scheduler.py`, `routes/banks.py`) | `last_sync_at` per connection; what the loop is doing | scheduled pass, manual sync, switch on or off, delete | what the bank reports and `create()` accepts is imported, and once, with named exceptions: a failed fetch, a pass that began in another vault, or a posting between fetch and midnight loses a transaction; several rows on its day, more digits than the column has, or a commit between test and insertion doubles it |
| CSV import (`csv_parser.py`, `csv_import_service.py`) | none of its own | upload | a file is read as it was written |
| Analytics, dashboard, MCP (`analytics_service.py`, `mcp_service.py`, the queries of `transaction_repo.py`) | none of their own | views of a month, of days, of all time | views that are computed apart tell one story |
| Rate limiter (`core/ratelimit.py`) | per address and path, the times of granted calls | a call | a call is granted exactly if fewer than the maximum were granted in the window before it |
| API keys (`api_key_service.py`, `api_key_repo.py`) | rows of `apikey` | create, use, revoke | a revoked key stays revoked |
| Authentication and client session (`auth_service.py`, `frontend/src/lib/api.ts`, `contexts/AuthContext.tsx`) | two tokens and a name in `localStorage`; per tab, requests and one refresh | log in, request, refresh, retry, log out, load | tokens are of one user; nobody is signed out for no reason; every request settles |
| Exchange rates, AI providers and settings, pages | see section 5 | | |

**How they interact.** Routes build a service on a session and call it; services call
repositories, which flush but never commit; `DatabaseManager.get_session` commits once
at the end of the request, or rolls back. Whisper, bank sync and CSV import reach the
ledger through `TransactionService` only; the views read its table with queries of their
own. A transaction names its wallet by id, its
category by *name*, and its transfer by `transfer_id`. All sessions come from the one
engine that the vault manager installs.

**What is hard.** Synchronous routes run in a thread pool and interleave, asynchronous
ones and the scheduler share the event loop, where a bank is called synchronously and a
write waits for a lock that a worker thread will release. pysqlite opens a transaction only at the
first INSERT or UPDATE, so everything a request reads before that may be stale when it
writes. An open vault does not enforce foreign keys, an encrypted one does. The vault
manager has no lock, and changes a file, a database and memory in separate steps. The
list of hazards, each with its line and the properties for it, is in `PROJECT.json`.

## 2. Modules

| Module | Models | Relation |
|---|---|---|
| `TransferBook` | what the ledger promises of transfers: opened once between two wallets, amended as a whole, cancelled for good | abstract specification |
| `Money` | amounts and rates of any number of digits, the rounding of a conversion and of a column | extended by `Ledger` and `BankSync` |
| `Ledger` | transaction and wallet requests, each one step | implements `TransferBook` (`ImplementsBook`) |
| `LedgerRequests` | the transaction requests taken apart into reads and the writing step | extends `Ledger` |
| `Vault` | vault manager, engine, state file and database files, with crashes | on its own |
| `Categories` | the category tree and how rows are filed under names | on its own |
| `Whisper` | the proposals of the assistant on the server and their cards in the browser | on its own; the ledger is the one step `Write` |
| `Ordering` | `ORDER BY` and `sorted()`: a finite set listed in the order of a key | extended by `Reports` |
| `Reports` | the queries and views over the table of transactions, as operators | instantiated by `LedgerReports` and `Imports` |
| `LedgerReports` | the views over the rows of the ledger | extends `Ledger`, instantiates `Reports` |
| `BankSync` | scheduler, manual syncs, and the requests, switches and restarts they meet | extended by `Imports` |
| `Csv` | the reading of a file, as operators | instantiated by `Imports` |
| `Imports` | bank syncs and uploads into one table, and the views of it | extends `BankSync`, instantiates `Csv` and `Reports` |
| `Callers` | the clock and who calls | extended by the next three |
| `RateLimiter` | the sliding window, step by step in each thread | on its own |
| `ApiKeys` | sessions that create, use and revoke keys | on its own |
| `ClientSession` | tabs, tokens, requests, the refresh, the server's answers | on its own |
| `Access` | the three together, over one clock | extends `RateLimiter`, `ApiKeys`, `ClientSession` |
| `FoldProofs` | what sums and listings compute, for every finite set | extends `Ordering` |
| `LedgerProofs`, `RequestProofs`, `VaultProofs`, `CategoriesProofs`, `WhisperProofs`, `ImportsProofs`, `AccessProofs` | theorems | each extends its module (`LedgerProofs` extends `LedgerReports`, and with it `Ledger`); `RequestProofs` also `LedgerProofs`; `LedgerProofs`, `ImportsProofs` and `AccessProofs` also `FoldProofs` |
| `MCLedger`, `MCLedgerRequests`, `MCVault`, `MCCategories`, `MCWhisper`, `MCImports`, `MCAccess` | instances for TLC | |

Definitions whose comment starts with *Slip:* are not part of the specifications:
each is a definition of the module with a plausible mistake in it, kept to show that the
property it is listed with in `PROJECT.json` notices the mistake.

### Ledger

`txs` and `wallets` are the two tables of one user (every query is filtered by user). A
row starts as `unused`; `live` and `deleted` are `is_deleted`. An archived wallet has
`is_active` false. A request is one step because the session commits once; a refused
request is no step because it is rolled back. A rate lookup returns any rate in `Rates`, which
covers the stored, the fetched and the default rate. Of a category only the direction
it gives a row is kept (the parameter `type` or `k`).

A request may send a `Decimal` of any length, while the columns keep six decimals. So
`Money` counts amounts and rates in units of a grid: `Fine` units are
`MONETARY_PRECISION`, `One` is the number 1. `BaseAmount` is `compute_base_amount`, which
converts the amount and the rate as they were sent and quantizes, half to even. `InColumn` is
what `Numeric(18, 6)` gives back: SQLite keeps a float, which is rounded when it is *read*,
and of the values halfway the set `RoundsUp` says which lie above. Rows hold what
reading gives (`Stored`). Therefore a stored base amount need not be the stored amount at
the stored rate: 1.0000005 USD at 0.71 is kept as 1.000001 with a base of 0.710000. What
holds, and what `BaseMatchesRate` says, is that it is the conversion of *some* amount and
rate that read as the stored ones (`ReadAs`). `SUM` in SQL adds the floats, the model what
is read; they differ by less than half a unit of the sixth decimal for each row.

`ImplementsBook` maps the rows of a `transfer_id` to one entry of the book. The entry
holds the *sets* of what the rows say, so that two legs that disagree are two elements
and no longer an agreed transfer: the refinement fails if any step changes one leg alone.

### LedgerRequests

Each thread (`Req`) holds a request. `Begin...` are the reads and checks; `Insert`,
`Flush`, `FlushLeg` and `FlushMark` take SQLite's write lock, finish and commit, which is
one step because nobody else can write meanwhile and the new rows become visible at the
commit. Reads before the first write are steps of their own. SQLAlchemy compares the row
it selects in `update()` with the assigned values and sends only what differs
(`Changed`, `Written`); if nothing differs there is no UPDATE and no lock (`Refresh`,
`SelectLeg`, `FlushLeg`). `Abort` is an exception, the busy timeout, or the end of the
process. Wallet requests are single steps, as in `Ledger`. The run has the requests overlap
with the one of them that can pull the ground from under a row, the deletion of a wallet
(`BusyNext`), and with foreign keys, as an encrypted vault has them.

### Vault

A key is a pair of passphrase and salt; what PBKDF2 and the recovery phrase preserve of it
is that different pairs are different keys. `files` maps a database file to the key that
opens it, `Plain` for an open vault. `engine` is `DatabaseManager._engine` with the key its
connection creator captured and the connections that know a newer one (`SingletonThreadPool`
keeps a connection per thread). A request goes through the stages *init*
(`initialize_encrypted` or `initialize_plain` installs an engine), *tables* (`CreateTables`:
`_create_tables` reads `self._engine` anew, whichever that is by now), *migrate*
(`RunMigrations`, likewise), *rekey*, *save* (`_save_state`) and *activate*. `Restart` ends
the process, between requests or, with `CrashAnywhere`, between any two stages; a crash
while the state file is written may leave it torn. The SQLCipher library is external: a
wrong key makes the first statement fail, a file that does not exist is created under any
key, `PRAGMA rekey` without encryption does nothing.

`strays` is a history variable: the new vaults whose tables were made on the engine of
another request, which had replaced theirs between *init* and *tables*. Such a vault may be
listed without a file, or with one of the wrong kind; `FilesMatchKind` excepts these
vaults and no others.

### Categories

`cats` is the table, `rows` the category column of the transactions; `filed` and `filedAs`
are auxiliary variables that remember which category a row was filed under and of which type
it was; no guard reads them. Transfers find their category by its *name* (`FileTransfer`),
the guards of `Update` go by its *type*: where the two are one category, `LegsKeepCategory`
says that a live leg always finds it again, and where they are not, the run
`reserved_category` shows it renamed. Creation, update, deletion, seeding and
`get_or_create_transfer_category` are steps.

### Whisper

A `Proposal` stands for one message and the proposal it may become. `store` is
`ProposalStore._pending`; an entry is `expired` when its lifetime is over and stays until
`_cleanup_expired` drops it at the next `put` or `get`. `req` has a request per thread, at
the stages that are separate critical sections: *put*, *persona* (the queries after it),
*get*, *write* (from which SQLite's write lock is held), *remove*, *commit*. `answersFirst`
is which side of the answer `get_session` commits on: before it in FastAPI 0.115 to 0.117,
after it since 0.118; `pyproject.toml` admits both, so both are initial states. `card` is
what one browser tab shows, `waits` the request its busy flag (or `loading`) belongs to.
Closing the panel unmounts the cards and forgets the flag while the request goes on, and
reloading the page forgets the answer as well: these are the ways two requests on one
proposal overlap. A second tab would be a third way to the same overlap and is left out.
`overlapped` and `rejected` are auxiliary; no guard reads them.

### Reports and LedgerReports

The views are pure functions of the table, so `Reports` has an operator for each: the
queries of the repository (`FindByUser` with its filters and pages, `TotalsByType`,
`MonthlySpending`, `DailySpending`, `DailyFlow`, `MonthlyNet`, `SumByCategories`), the
analytics (`CashFlow`, `Sankey`, `Heatmap`, `NetWorthTrend`, `Dashboard`) and what MCP
answers. Each query keeps its own filter, as the code has it: half open months and
inclusive days, legs left out or not, `expense` or *not income*. `Rounded` is `round(x, 2)`
of a `Decimal`. `LedgerReports` evaluates them in every state of the ledger against the
wallets' balances, which yet another query sums. Any rows that are no legs may be filed
under savings. Legs are filed under a category named Transfer, which may be of type savings
too; `total_savings` then counts every transfer twice, and the property says so.

### BankSync

`db` has the committed database of each vault, `draft` what its uncommitted writer sees,
`writer` who holds SQLite's write lock: a request's session or the event loop's. `loop` is
what the event loop is doing; nothing in a pass suspends, so it does one thing at a time
while worker threads commit, write, and unlock other vaults. `StartPass` reads the
connections of the vault that is open, `NextConn` takes one, opens a session on the
engine installed *now*, and fetches; `LookFor` takes one reported transaction to the duplicate
test, a `SELECT` without a lock, and `InsertOne` inserts what passed it, into whatever the
table has become by then (`overtaken` is auxiliary and remembers what came in between);
`FinishConn` sets `last_sync_at` and commits. `ManualSync` and `FinishManual` are the route
`POST /api/banks/{id}/sync`, whose session commits in a worker thread. Where the code waits
for the write lock, the model has both ends of the wait: the commit happens first, or the
session dies (`dead`). `Duplicate` returns the *set* of what the duplicate test may say,
because it looks at one row of the day in no particular order.

What the module keeps of the code is worth knowing: a transaction whose amount is not
positive or converts to nothing, or that is in neither dinars nor dollars, is refused
without a word (`Creatable`; `Wanted` is what is not refused); the duplicate test compares the
bank's amount, with all its digits, with the one of the column (`LooksLike`); `is_active`
does not matter to a manual sync, and a manual sync never moves `last_sync_at`. One `Rate`
serves for all days, and the row that a lookup of a rate may store is left out.

### Csv and Imports

A cell tells how it reads, so that `ParseDate` can be the four formats tried in order,
`ParseAmount` the dropped sign, `Column` the mapping of headers. Splitting bytes into cells
is the library's. `Imports` adds `Upload`: a file from `Sheets` (what a user wrote, in a
layout of his own) is read by `Csv`, and every line that reads well goes through `create`.
`ReadsAsWritten` is about files that say what they mean: no day of a month-first date that
could be taken for a month (`Clear`), and a column for everything a row has beside its
date and amount (`Complete`). What the code replaces without a word is part of `Said`: an unknown
category is Other, a currency that is no dollar is the dinar.
Nothing asks whether a row is there already, so a file uploaded twice is there twice.
`Agree` compares the views of a month with one another, one page and one day at a time.

### Callers, RateLimiter, ApiKeys, ClientSession, Access

A behaviour of `Access` has one *crowd* of callers, drawn from `Crowds`; the parts share
the clock and nothing else, so crowds of one kind each lose no interleaving.

In `RateLimiter` every step at which a thread may be suspended is an action: the lookup in
the `defaultdict` and the making of a counter (two threads may make two), the time, the
filter, the store, the test, the append. A counter is named after the thread that made it.
`grants`, `overlaps` and `alone` are auxiliary. Counters of the dict are never dropped.

In `ApiKeys` a session SELECTs (`UseKey`, `RevokeKey`) before it writes (`Touch`, `Mark`),
and holds the lock until `Commit` or `Rollback`. The UPDATE sends the changed column
(`Touched`).

In `ClientSession` an answer's handler is one step, with all promises it settles.
`Unauthorized` is the 401 branch of the response interceptor: wait for the refresh in
flight or start one, but never twice for one request. `leaving` is a tab whose `location`
is set and whose new page is not yet loaded (`Load`). The server decodes the token of a
refresh and does not look its user up (`RefreshGranted`), so after a switch of vaults a
request gets 401, a new token, another 401, and is rejected; the session stays. Two things
are taken from outside: nobody signs in on a page that is being left (`SendLogin` has
`~leaving`, an assumption about how fast users type, as `logout()` shows the login form
before the new page is there), and the 401s of the `/setup` routes while no vault is open,
which end in the reasons that `SignedOutForAReason` allows, are left out.

## 3. Runs

| Run | Configuration | Shows | Instance and why it is enough |
|---|---|---|---|
| `ledger` | `Ledger.cfg` | type invariant, six safety properties, two action properties, the refinement, and that the views agree with the wallets | 3 rows: a transfer and a row beside it; 2 wallets and 2 names: archiving, renaming into a freed name, deleting; 2 grid units to the last decimal, 4 to the number 1: the amounts 1 and 3 are halfway, one is read as 0 and refused, the other as 4, and so is the rate 3, with which 3 converts to 2; any set of rows may be savings, and so may the category of the transfers; 40 500 states |
| `ledger_overlap` | `Overlap.cfg` | overlapping edits and deletions leave no single leg, revive no row, and, with foreign keys, leave no live row without its wallet | 2 requests, 2 rows (one transfer or two plain rows), 2 wallets that are deleted at any moment; one amount, on the grid of the columns, as no rounding matters to these properties; 1 020 157 states |
| `legs_in_sync` | `LegsInSync.cfg` | a violation, see below | as `ledger_overlap` |
| `vault` | `Vault.cfg` | files, state file and memory agree; queries go to the active vault | 3 vaults, 2 passphrases, 3 salts, 1 request at a time: create, recover, switch, restart in any order; 10 765 states |
| `vault_crash` | `VaultCrash.cfg` | listed vaults never share a file, and have a file of their kind unless another request replaced the engine under their creation | 2 overlapping requests, crash anywhere, 2 vaults, 3 salts: every two stages meet in either order; 3 045 120 states |
| `vault_ready` | `VaultReady.cfg` | a violation, see below | 1 request at a time |
| `categories` | `Categories.cfg` | one level of nesting; a transfer filed under a category of type transfer finds it again | 3 categories, the depth at which a second level would show; one row, which may be a transfer; 60 407 states |
| `reserved_category` | `ReservedCategory.cfg` | a violation, see below | as `categories` |
| `category_in_use` | `CategoryInUse.cfg` | a violation, see below | as `categories` |
| `whisper` | `Whisper.cfg` | a proposal is recorded once and a rejected one never, unless requests on it overlap; what the card says; what is closed stays closed; no card stays busy | 1 proposal and 3 requests: two that overlap and one that comes late, on every stage of one another; proposals meet only in the cleanup and the write lock, which *Write* may fail to get in any case |
| `imports` | `Imports.cfg` | what is imported once, what the scheduler may pass over, that a served transaction which `create()` accepts arrives, that files are read as written, that the views of a month agree | 2 vaults, so that a switch meets a connection of the same number; 3 connections, so that a pass has a second one; 3 bank transactions: one that a hand-entered row looks like, one with more digits than the column on the next day, one in a currency that is refused; 2 days, the second to be asked for what came on the first; 2 of requests, outages, switches and restarts together; 4 files with all formats and kinds of headers; 422 939 states |
| `access` | `Access.cfg` | whom the limiter refuses, that a revoked key stays revoked, whose tokens a browser holds, why a session ends, that every request settles | two threads with four calls against two per window, or two sessions on one key, or a tab with two requests, or two tabs with one each; two vaults, one of which lacks a user; tokens that live for one moment and for two, of three; one outage; 206 656 states |

Fairness is assumed in three runs. In `whisper`: weak fairness of each thread's next step
and of each answer, as a thread in the pool runs on, waiting for the write lock ends with
the busy timeout at the latest, and a connection delivers its answer or breaks. In `imports`
(`SyncFairness`): the event loop goes on and the scheduler's task, which catches every
exception, runs again and again; and what a request has written is committed in the end. In
`access`: a request gets its answer, if only an error of the network, and so does a refresh.
Users, banks, days, expiry, switches and restarts are not fair. The other runs check safety.
Deadlock is not checked because the systems may stop: ids, the fresh values a model has, run
out. Symmetry is used over ids, names, passphrases, salts and threads, which no definition
tells apart, and not in `whisper`, `imports` and `access`, which have liveness properties.
Other bounds: `Dates`, `Openings` and `Rates` have one value each; a second date or rate
behaves like a second currency, which changes rate and base as well. In `vault`,
`vault_crash`, `ledger_overlap` and `categories` the ids are as many as the requests that
can meet; the theorems of section 4 hold for any number.

Four runs end in a violation, of what a comment or a message of the code says:

- `legs_in_sync`: an edit of a leg that changes nothing takes no lock. Between its refresh
  and its write to the other leg another request can edit both legs; the first then
  writes the older values to one of them. ("Keep both legs of a transfer in sync",
  `transaction_service.py:256`.)
- `vault_ready`: a recovery with a valid but wrong phrase replaces the engine and fails;
  `is_db_ready` stays true and nothing can be queried. ("True when a vault is unlocked and
  queries can execute", `core/ports/vault_manager.py:23`.)
- `category_in_use`: a renamed category no longer counts as used by the rows filed under
  its old name, and can be deleted. ("Categories in use by transactions ... cannot be
  deleted", `category_service.py:6`.)
- `reserved_category`: a transfer takes any category named Transfer, whatever its type, and
  one that is not of type transfer can be renamed and retyped under the legs. ("The reserved
  Transfer category cannot be modified — transfer legs and analytics exclusions depend on
  it", `category_service.py:80`.)

## 4. Proofs

The theorems hold for every value of the constants that satisfies the named assumptions,
which TLC evaluates on every instance:

- `Money`: `MoneyAssumption` (a last decimal and the number 1 are whole numbers of grid units);
- `Ledger`: `InputAssumption`, `NilAssumption`, `ForeignKeysAssumption`, and `IdAssumption`
  (finitely many ids, of which a sum can be taken);
- `LedgerReports`: `ReportsAssumption` (dates are numbers, months and cents have a size);
- `Vault`: `CrashAssumption`, `VaultAssumption`, `KeyAssumption`;
- `Categories`: `NamesAssumption`, `DefaultsAssumption`, `NilAssumption`;
- `BankSync`: `SyncAssumption` (what `create()` makes of an accepted transaction is one of
  `Rows`, and their amounts fit the column; what users enter is not marked as the bank's);
  `Imports`: `ViewsAssumption` (`Rows` is finite, and a row has a date, a base amount and a
  category) and `SheetsAssumption` (a file has finitely many lines, and each is blank or a
  row with a date of the year, an amount that is no less than zero, and text);
- `Access`: `TimeAssumption`, `LimiterAssumption` (at least one call per window is
  allowed), `KeysAssumption`, `SessionAssumption`.

What they say beyond that is that `Nil` and the other markers are none of the values they
stand beside.

**FoldProofs.** Balances, totals and sizes are folds over finite sets. The library's
induction theorems take an operator, which the provers cannot instantiate. `SetInduction`
is stated of a *family* of sets instead, and follows from the well-foundedness of the
strict subsets of a finite set: a family that holds a set whenever it holds all smaller
ones holds them all. With it the recursive function behind a fold is shown to exist and
not to depend on the set it was asked for (`SumsExist`, `SumDef`; for listings
`OrderingsExist`, `OrderedDef`), and then that *any* term may be taken out of a sum, not
only the one that the fold takes first (`SumRemove`). The rest follows from it: sums join
and split (`SumUnion`, `SumGroups`, `GroupsAddUp`), add, subtract and change sign, grow
with their terms (`SumMonotone`), differ by no more than their terms do (`SumNear`), and
do not care for names (`SumReindexed`). `OrderedLists` says that a listing has every
element once, in ascending order of the key, and `SumListed` that a sum may be taken along
it.

**LedgerProofs.** `TypeOK` is inductive alone, once `BaseAmount` is known to be an integer
(`BaseAmountType`). `TransfersPaired` is inductive together with it: the conjunct that a
leg has a partner looks redundant, but without it a deletion or an edit through the
*surviving* leg could not be told to reach both; `LegsAreMarked` is what makes the copy in
`AfterUpdate` reach exactly the partner. Each of create, transfer, update, delete has a
lemma (`CreateKeepsPairs` and so on). `BaseMatchesRate` needs the pairing: an edited leg
hands its amount, rate and base to its partner together. The witnesses of `ReadAs` are what
the request sent, or what the row already held where it sent nothing, since a value that a
column has given back is given back unchanged. `LiveRowsHaveWallets` and
`WalletNamesUnique` are inductive with the type invariant. The action properties follow
from the guards and the pairing. For the refinement, `TransferOpens`, `UpdateAmends` and
`DeleteCancels` show that a request is one operation on one entry of the book, and
`UntouchedTransfer` that the other entries stay.

`MoneyIsKept` needs no step of its own. In a state in which transfers are paired, the
other leg of a live leg is a live leg with the same amount and the other sign
(`PartnerOfLeg`), and the exchange of partners renames the legs, so their sum is its own
negative (`LegsCancel`). Live rows have a wallet, so counting them wallet by wallet leaves
none out (`SumByWallet`). Together the wallets hold what was put in and what the rows that
are no legs brought (`WalletsAddUp`). `ReportsStayMatched` is the same argument for the
queries: each view is taken apart into the rows it reads (`TableReads`), where the filters
differ and select the same rows. Income less expenses is the signed sum
(`IncomeLessExpenses`), the last point of the trend has all rows behind it (`TrendOfRows`,
along the listing of the days), and savings, which the dashboard leaves out of its balance
and shows without their sign, are its difference to the wallets' total (`DashboardOfRows`,
`SavingsOfRows`); if the category of the transfers is one of savings, each of them is counted
once for either leg. It takes that a live row has a date, an invariant of its own
(`DatesStay`).

**RequestProofs.** What a thread has read may be stale by the time it writes, in every
column but those that make a row a leg. `OverlapInv` therefore says of each request what
still holds of what it has in its hands (`RequestOK`): rows to insert are a row of its own
or the two legs of a transfer that has no rows yet, an `UPDATE` leaves a leg a leg and
makes none (`KindKept`), the rows to mark deleted are whole transfers (`Whole`); and of two
requests, that they have not drawn one `transfer_id` (`Apart`). `RowsFixed` is what every
write leaves alone; `RequestStays` shows that it is enough for the requests of the other
threads, so that each step needs a lemma about its own request only (`ReadKeeps` for those
that read, `WriteKeeps` for those that write). `WalletsKeptByKeys` has the assumption that
foreign keys are enforced, as in an encrypted vault; without it, it is false.

**VaultProofs.** Under overlapping requests and crashes, listings never give two vaults one
file and files keep their kind. Neither is inductive alone: a request carries a listing
it has read, perhaps long ago, and will write it back with one entry added. The invariant
therefore says of *every* listing, the one on disk and those in the requests' hands, that
its entries have paths of their own or the default file, the latter at most once, and that
a request which took the default file carries an empty listing. It has made the file once its tables
are made, unless it is among `strays` (`CreateOK`), and files keep their kind under other
requests (`Kept`). `KeysAgree` and
`ServesActiveVault` speak of one request at a time, and so do their theorems
(`OneAtATime`: one thread, no crash inside a request). `SoloInv` adds what is true within
the request: it has read the listing there is (`FlightOK`), a recovery that has rekeyed a
file may differ from the state file and from the key in memory until it has saved and
activated (`SaltsOK`, `MemoryOK`), and an engine whose key a failed recovery got wrong
cannot execute anything (`ServesOK`).

**CategoriesProofs.** `NestsOneLevel` is inductive: a category that becomes a child has no
children, and one that becomes a parent has no parent. `TypeOK` is inductive too. For
`LegsKeepCategory` names must find one category at most (`StepKeepsNames`, `NamedIs`): then
the one that a live leg's name finds is refused to updates by its type, to deletions by the
leg, and no other can take its name (`LegKept`, `StepKeepsLegs`). That the category of *every*
leg stays is no theorem: `reserved_category` refutes it.

**WhisperProofs.** `RecordedOnce` and `RejectedStaysOut` are not inductive: what protects a
proposal changes hands from the store to the request. The invariant `Single` says that at
most one request works on it, that what has been decided is out of the store with every
later request still before *get*, and that what is about to be committed is out of the
store already. `ClosedForGood` needs only the shapes of requests, and holds with
overlapping requests too. `ConfirmedIsRecorded` follows from the answers in flight being
truthful.

**ImportsProofs.** `ImportInv` has four parts beside the types. `WritersOK`: a draft keeps
what its database has (`Keeps`), and records a bank's transaction that is alone on its day
once (`Once`), as long as its amount fits the column and no commit came between test and
insertion (`Told`); the duplicate test then has a single row to look at. `PendingOK` carries
what the test found to the insertion: a transaction that it let through is new to the table
(`Fresh`, `Tested`) and stays so (`PendingStays`), unless it is overtaken.
`LoopOK`: the loop's picture of the world is not too old; the connections it has yet to
come to still have the `last_sync_at` it has read, and its fetch is at most a day ago.
`FetchOK`: what was due, posted before the day of the fetch and accepted by `create()` is left
to import or found by the test already, unless the fetch failed, the session died, or it is
another vault's. `RecordedOnce` follows from `Once`, with the three exceptions of the
property: several rows on the day, more digits than the column has, a commit in between.
`PassedOver` follows from `FetchOK` at the step that moves `last_sync_at`, again with the
three exceptions of its property.

`ViewsAgree` is about every table there can be, not only those that are reached: `IsTable`
says what a table is, and `TableOK` that the rows of a vault make one. `MonthReads` shows
that the queries read the same rows of a month by their different bounds. The figures of a
query that groups are sums of groups, which add up to what it reads (`GroupsOf`,
`SpendingOf`); those that are rounded first are half a hundredth off at most, each
(`RoundedNear`, `SankeyNear`, `HeatmapNear`). The cash flow carries a running balance
along the listing of the days that have rows, and is rounded once, at its end
(`FlowEnds`). Pages of two, put end to end, are the listing without a gap or a row seen
twice (`PagesAddUp`).

`FilesReadAsWritten` follows the code down to the cell. A header is a name of one field at
most (`FieldNamed`), so the column that is found for a field is a column of that field
(`ColumnFound`), and the cell found in it is the one written from the field, wherever the
columns stand (`CellRead`). The four date formats, tried in order, come out at the date
that was written, unless it is month-first and its day could be a month (`DateReads`: this
is where `Clear` is needed). So a line reads as its row (`RowReads`), and the lines
counted for a row are those that say it (`BringsWhatItSays`).

**AccessProofs.** `AccessInv` is the conjunction of one invariant for each part. For the
limiter there are two arguments. As long as the calls of a key have not overlapped,
`Exact` says that its counter holds the grants of the window and nothing else (`Tallied`),
and that the call in progress has filtered what it should (`Fits`). Where they have
overlapped, entries get lost and old ones come back, but `OnlyGranted` still holds: no
counter, nor what a thread is about to store, has more of any moment than was granted; and
a smaller bag has a smaller size (`SizeMonotone`). `LimitIsKept` takes the bound on grants
from the first, and from the second that a call which is alone is refused for granted
calls only. For the keys, `KeysInv` says that a draft keeps the committed rows, revoked
ones but for their last use (`DraftKeeps`); `Revoked` follows at the commit. For the
session, `PageOK` and `Unused` describe a page, `StoreOK` the stored tokens, and
`OnlyPage` what the one tab of the crowd has to do with them: a refresh in flight is for
the stored refresh token, if one is stored; and on the login page there is neither a
stored session nor a refresh, and one request to sign in at most. `OneUser` and
`NotSignedOutByChance` rest on that.

**Only model-checked.** `EventuallyImported`, `RequestsSettle`, `BusyEnds`: liveness under
fairness is out of the prover's reach. Every invariant and every action property of a run
that passes is a theorem.

## 5. Not modelled, and what the code does that a reader may not expect

- **Exchange rates** (`exchange_rate_service.py` and its repository). A lookup returns the
  latest stored rate up to the date, one that is fetched and then stored, or the default.
  `Ledger` takes any of `Rates`, which covers them all; the table itself is only appended
  to. Two rates for one date are allowed by the table, and the query that reads the latest
  does not say which of them it returns.
- **AI providers and settings.** Calls to external services, and one settings file that is
  rewritten whole.
- **Pages and components of the frontend**, but for the assistant's panel and cards
  (`Whisper`): rendering, over a cache of what the API returns.
- **Creating a bank connection.** `POST /api/banks` binds a dict to a text column and fails
  at the flush, so the connections of `BankSync` are there from the start.
- **Bank items without a date** are given the day of the fetch
  (`bank_connectors.py:124`), so each daily sync that sees one imports it under a new date.
  `BankSync` has items with dates.
- **Overlapping requests on wallets, categories and the vault manager**, except where a
  module says so. What is known of them is under "hazards" in `PROJECT.json`.
- Password hashing, signatures of tokens, the decoding of files, encryption: libraries.
  What is used of them is stated where it is used.

Of what is modelled, these are facts of the code that no document contradicts and that the
properties are worded around: a failed fetch moves `last_sync_at`; so does a sync that ends
after midnight past what was posted since its fetch; a pass that began before a switch of
vaults marks the connection with the same number in the other vault; the duplicate test
looks at one row of the day and compares neither currency nor source; a bank amount with more
than six digits is imported at every sync, as the test compares it with the rounded one; what
another sync commits after the test is recorded twice; bank items in other currencies than
JOD and USD, and those that are not positive or convert to nothing, are skipped and passed
over; a category named Transfer of another type takes the legs of transfers, and counts them as
savings if that is its type; two vaults created at one time may leave one of them listed
without its file; a CSV amount loses its
sign, and 2/3 is the second of March unless it cannot be; the limiter grants more than
its maximum when calls overlap; with two tabs, a refresh that began in one may store an
access token of the user who was signed in before.
