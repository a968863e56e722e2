------------------------------ MODULE ApiKeys ------------------------------
(***************************************************************************)
(* API keys: requests that create and revoke them and requests that are    *)
(* made with one, each in a session of its own.  A SELECT before the first *)
(* write sees what is committed and takes no lock; the first write takes   *)
(* SQLite's write lock, which is held until the session commits.           *)
(***************************************************************************)
EXTENDS Callers

CONSTANTS
  Session,
  KeyId

KeyRow == [user: User, active: BOOLEAN, used: 0..MaxTime \cup {Nil}]

ASSUME KeysAssumption == Nil \notin Session /\ Nil \notin KeyId /\ Nil \notin KeyRow

VARIABLES
  keys,  \* the committed rows of "apikey", Nil: no row
  draft, \* the rows as the session that holds the write lock sees them
  owner, \* who holds the write lock, or Nil
  jobs   \* session -> its request

keyVars == <<keys, draft, owner, jobs>>

NoJob == [at |-> "idle", key |-> Nil, read |-> Nil]

KeysInit ==
  /\ keys = [k \in KeyId |-> Nil]
  /\ draft = Nil
  /\ owner = Nil
  /\ jobs = [s \in Session |-> NoJob]

(* The first write of session s. *)
Writes(s, rows) ==
  /\ owner = Nil
  /\ owner' = s
  /\ draft' = rows
  /\ jobs' = [jobs EXCEPT ![s].at = "commit"]
  /\ UNCHANGED keys

CreateKey(s, k, u) ==
  /\ s \in crowd /\ jobs[s].at = "idle"
  /\ keys[k] = Nil
  /\ Writes(s, [keys EXCEPT ![k] = [user |-> u, active |-> TRUE, used |-> Nil]])

(* A SELECT finds the row, and the request goes on to its write. *)
Selects(s, k, next) ==
  /\ jobs' = [jobs EXCEPT ![s] = [at |-> next, key |-> k, read |-> keys[k]]]
  /\ UNCHANGED <<keys, draft, owner>>

(* verify(): a key that is not there or not active is answered with 401.   *)
UseKey(s, k) ==
  /\ s \in crowd /\ jobs[s].at = "idle"
  /\ keys[k] # Nil /\ keys[k].active
  /\ Selects(s, k, "touch")

(* Slip: the row is written back as it was read. *)
TouchedRow(s) == [jobs[s].read EXCEPT !.used = clock]

(* touch_last_used(): the UPDATE names only the column that has changed.   *)
Touched(s) == [keys[jobs[s].key] EXCEPT !.used = clock]

Touch(s) ==
  /\ jobs[s].at = "touch"
  /\ Writes(s, [keys EXCEPT ![jobs[s].key] = Touched(s)])

(* revoke(): of the user's own keys, active or not. *)
RevokeKey(s, k, u) ==
  /\ s \in crowd /\ jobs[s].at = "idle"
  /\ keys[k] # Nil /\ keys[k].user = u
  /\ Selects(s, k, "mark")

Mark(s) ==
  /\ jobs[s].at = "mark" /\ jobs[s].read.active
  /\ Writes(s, [keys EXCEPT ![jobs[s].key].active = FALSE])

(* A key that was read as revoked is not written again. *)
MarkAgain(s) ==
  /\ jobs[s].at = "mark" /\ ~jobs[s].read.active
  /\ jobs' = [jobs EXCEPT ![s] = NoJob]
  /\ UNCHANGED <<keys, draft, owner>>

Commit(s) ==
  /\ jobs[s].at = "commit"
  /\ keys' = draft
  /\ draft' = Nil
  /\ owner' = Nil
  /\ jobs' = [jobs EXCEPT ![s] = NoJob]

(* Slip: what was written is not rolled back. *)
Abandon(s) ==
  /\ jobs[s].at # "idle"
  /\ jobs' = [jobs EXCEPT ![s] = NoJob]
  /\ UNCHANGED <<keys, draft, owner>>

(* The lock is not free in time, or the handler fails: a rollback. *)
Rollback(s) ==
  /\ jobs[s].at # "idle"
  /\ IF owner = s THEN draft' = Nil /\ owner' = Nil ELSE UNCHANGED <<draft, owner>>
  /\ jobs' = [jobs EXCEPT ![s] = NoJob]
  /\ UNCHANGED keys

KeysNext ==
  \E s \in Session :
    \/ \E k \in KeyId, u \in User : CreateKey(s, k, u) \/ RevokeKey(s, k, u)
    \/ \E k \in KeyId : UseKey(s, k)
    \/ Touch(s) \/ Mark(s) \/ MarkAgain(s) \/ Commit(s) \/ Rollback(s)

-----------------------------------------------------------------------------
KeyTable == [KeyId -> KeyRow \cup {Nil}]
Job == [at: {"idle", "touch", "mark", "commit"}, key: KeyId \cup {Nil}, read: KeyRow \cup {Nil}]

(* Rows have their shape, one session at most has uncommitted ones, and    *)
(* the row that a request has read is still there.                         *)
KeysTypeOK ==
  /\ keys \in KeyTable
  /\ owner \in Session \cup {Nil}
  /\ IF owner = Nil THEN draft = Nil ELSE draft \in KeyTable
  /\ jobs \in [Session -> Job]
  /\ \A s \in Session :
       /\ jobs[s].at = "commit" <=> owner = s
       /\ jobs[s].at \in {"touch", "mark"} =>
            jobs[s].key # Nil /\ keys[jobs[s].key] # Nil /\ jobs[s].read # Nil

(* A key that was revoked stays so, and with it the row and its owner,     *)
(* whatever requests with the key are under way.                           *)
RevokedForGood ==
  [][\A k \in KeyId :
       keys[k] # Nil /\ ~keys[k].active => keys'[k] = [keys[k] EXCEPT !.used = keys'[k].used]]_keyVars
=============================================================================
