-------------------------------- MODULE Vault --------------------------------
(***************************************************************************)
(* Vaults: SqlCipherVaultManager, the DatabaseManager whose one engine all *)
(* sessions are made from, the state file that lists the vaults, and the   *)
(* database files.  The routes of /setup run in the threads of the server  *)
(* and nothing locks the manager, so a request is a series of steps, and   *)
(* the process may end between any two of them.                            *)
(*                                                                         *)
(* A key is what PBKDF2 derives from a passphrase and a salt, and what the *)
(* recovery phrase spells; Plain stands for the key of an open vault.  The *)
(* order of the vaults in the state file, which the old /setup/unlock and  *)
(* /setup/recover go by, is left out: they do to the first vault what the  *)
(* newer routes do to any.                                                 *)
(***************************************************************************)
EXTENDS FiniteSets

CONSTANTS
  VaultId,       \* ids of vaults, each drawn fresh by uuid4
  Passphrase,
  Salt,          \* salts, each drawn fresh by urandom
  Thread,        \* the server's threads, each with one request at a time
  Default,       \* settings.db_path, the file of the first vault
  Plain,         \* an unencrypted file, the key of an open vault
  Absent,        \* no such file
  Torn,          \* a state file cut off while it was written
  CrashAnywhere, \* may the process end in the middle of a request?
  Nil

ASSUME CrashAssumption == CrashAnywhere \in BOOLEAN
ASSUME VaultAssumption ==
  /\ Default \notin VaultId
  /\ Plain # Absent /\ Nil \notin {Plain, Torn}
  /\ Nil \notin VaultId

Key == [pass: Passphrase, salt: Salt]
Path == VaultId \cup {Default}  \* vault_db_path is named after the vault
Entry == [path: Path, type: {"secure", "open"}, salt: Salt \cup {Nil}]
Listing == [VaultId -> Entry \cup {Nil}]

ASSUME KeyAssumption ==
  /\ {Plain, Absent, Nil} \cap Key = {}
  /\ Nil \notin Entry
  /\ Torn \notin Listing

VARIABLES
  files,    \* Path -> the key that opens the file
  listing,  \* what the state file says
  engine,   \* DatabaseManager._engine, Nil until it is first set
  manager,  \* _active_vault_id, _current_key and _db_ready
  req,      \* Thread -> the request it runs
  strays    \* history: new vaults whose tables were made on another's engine

vars == <<files, listing, engine, manager, req, strays>>

Locked == [active |-> Nil, current |-> Nil, ready |-> FALSE]
Idle == [pc |-> "idle"]

Stage == {"init", "tables", "migrate", "rekey", "save", "activate"}
Running ==
  [pc: Stage,
   op: {"create", "unlock", "recover"},
   vault: VaultId,
   path: Path,
   key: Key \cup {Plain},     \* the key initialize_... is given
   newKey: Key \cup {Plain},  \* the key in force when the request is done
   loaded: Listing]           \* the state as it was read

-----------------------------------------------------------------------------
Empty(l) == \A v \in VaultId : l[v] = Nil

(* A file that is not there yet is created under whatever key. *)
Opens(key, path) == files[path] \in {Absent, key}

(* A SingletonThreadPool keeps one connection for each thread, opened with *)
(* the key the engine was created with; only the thread that ran PRAGMA    *)
(* rekey has one that knows the new key.                                   *)
NewEngine(path, key) == [path |-> path, key |-> key, rekeyed |-> [q \in Thread |-> Nil]]

ConnectionKey(q) == IF engine.rekeyed[q] = Nil THEN engine.key ELSE engine.rekeyed[q]

CanQuery(q) == engine # Nil /\ files[engine.path] = ConnectionKey(q)

(* A connection to a file that is not there yet is one to an empty file.   *)
Connects(q) == engine # Nil /\ files[engine.path] \in {Absent, ConnectionKey(q)}

(* What a fresh salt and a fresh id differ from: all that is still around. *)
SaltsInUse ==
  LET keys == {files[p] : p \in Path} \cup {manager.current}
                \cup (IF engine = Nil THEN {} ELSE {engine.key})
                \cup {req[q].newKey : q \in {r \in Thread : req[r] # Idle}}
      listed == IF listing = Torn THEN {}
                ELSE {listing[v] : v \in {w \in VaultId : listing[w] # Nil}}
  IN  {key.salt : key \in keys \cap Key} \cup {entry.salt : entry \in listed}

IdsInUse ==
  strays \cup {p \in VaultId : files[p] # Absent}
    \cup {req[q].vault : q \in {r \in Thread : req[r] # Idle}}
    \cup (IF listing = Torn THEN {} ELSE {v \in VaultId : listing[v] # Nil})

NextStage(q, pc) == req' = [req EXCEPT ![q].pc = pc]
Done(q) == req' = [req EXCEPT ![q] = Idle]

Init ==
  /\ files = [p \in Path |-> Absent]
  /\ listing = [v \in VaultId |-> Nil]
  /\ engine = Nil
  /\ manager = Locked
  /\ req = [q \in Thread |-> Idle]
  /\ strays = {}

-----------------------------------------------------------------------------
(* Slip: the vault is listed before its database is made. *)
BeginCreateListed(q, v, key) ==
  LET path == IF Empty(listing) THEN Default ELSE v
  IN  /\ req[q] = Idle /\ listing # Torn /\ v \notin IdsInUse
      /\ key # Plain => key.salt \notin SaltsInUse
      /\ listing' = [listing EXCEPT ![v] =
           [path |-> path, type |-> IF key = Plain THEN "open" ELSE "secure",
            salt |-> IF key = Plain THEN Nil ELSE key.salt]]
      /\ req' = [req EXCEPT ![q] =
           [pc |-> "init", op |-> "unlock", vault |-> v, path |-> path,
            key |-> key, newKey |-> key, loaded |-> listing']]
      /\ UNCHANGED <<files, engine, manager, strays>>

(* create_vault and create_open_vault up to the choice of the file.        *)
BeginCreate(q, v, key) ==
  /\ req[q] = Idle
  /\ listing # Torn
  /\ v \notin IdsInUse
  /\ key # Plain => key.salt \notin SaltsInUse
  /\ req' = [req EXCEPT ![q] =
       [pc |-> "init", op |-> "create", vault |-> v,
        path |-> IF Empty(listing) THEN Default ELSE v,
        key |-> key, newKey |-> key, loaded |-> listing]]
  /\ UNCHANGED <<files, listing, engine, manager, strays>>

(* The unlock route for a vault that is not the active one, with a         *)
(* passphrase that verifies; _verify_key opens the file on its own.        *)
BeginUnlock(q, v, pass) ==
  /\ req[q] = Idle
  /\ listing # Torn
  /\ listing[v] # Nil
  /\ ~(manager.active = v /\ manager.ready)
  /\ LET entry == listing[v]
         key == IF entry.type = "open" THEN Plain ELSE [pass |-> pass, salt |-> entry.salt]
     IN  /\ entry.type = "secure" => Opens(key, entry.path)
         /\ req' = [req EXCEPT ![q] =
              [pc |-> "init", op |-> "unlock", vault |-> v, path |-> entry.path,
               key |-> key, newKey |-> key, loaded |-> listing]]
  /\ UNCHANGED <<files, listing, engine, manager, strays>>

(* recover_vault: any valid phrase is some key, right or wrong, and the    *)
(* vault may be an open one.                                               *)
BeginRecover(q, v, phrase, newKey) ==
  /\ req[q] = Idle
  /\ listing # Torn
  /\ listing[v] # Nil
  /\ newKey.salt \notin SaltsInUse
  /\ req' = [req EXCEPT ![q] =
       [pc |-> "init", op |-> "recover", vault |-> v, path |-> listing[v].path,
        key |-> phrase, newKey |-> newKey, loaded |-> listing]]
  /\ UNCHANGED <<files, listing, engine, manager, strays>>

(* initialize_encrypted, initialize_plain: the engine is replaced first.   *)
InitDatabase(q) ==
  /\ req[q].pc = "init"
  /\ engine' = NewEngine(req[q].path, req[q].key)
  /\ NextStage(q, "tables")
  /\ UNCHANGED <<files, listing, manager, strays>>

(* Then _create_tables makes the tables on the engine there is by now,     *)
(* which is another one if a request that overlaps has replaced it; it     *)
(* raises if the key of that engine is wrong.                              *)
CreateTables(q) ==
  LET r == req[q]
      own == engine.path = r.path /\ ConnectionKey(q) = r.key
  IN  /\ r.pc = "tables"
      /\ IF Connects(q)
         THEN /\ files' = [files EXCEPT ![engine.path] = ConnectionKey(q)]
              /\ NextStage(q, "migrate")
         ELSE /\ Done(q)
              /\ UNCHANGED files
      /\ strays' = IF r.op = "create" /\ ~own THEN strays \cup {r.vault} ELSE strays
      /\ UNCHANGED <<listing, engine, manager>>

(* _run_migrations connects to the engine once more.  The tables have all  *)
(* their columns, so that nothing is altered.                              *)
RunMigrations(q) ==
  LET after == [create |-> "save", unlock |-> "activate", recover |-> "rekey"]
  IN  /\ req[q].pc = "migrate"
      /\ IF Connects(q) THEN NextStage(q, after[req[q].op]) ELSE Done(q)
      /\ UNCHANGED <<files, listing, engine, manager, strays>>

(* rekey() works on the engine there is by now.  SQLite without encryption *)
(* ignores the pragma.                                                     *)
Rekey(q) ==
  /\ req[q].pc = "rekey"
  /\ IF ~CanQuery(q) THEN Done(q) /\ UNCHANGED <<files, engine>>
     ELSE /\ NextStage(q, "save")
          /\ IF engine.key = Plain THEN UNCHANGED <<files, engine>>
             ELSE /\ files' = [files EXCEPT ![engine.path] = req[q].newKey]
                  /\ engine' = [engine EXCEPT !.rekeyed[q] = req[q].newKey]
  /\ UNCHANGED <<listing, manager, strays>>

(* Slip: the state file is read once more before it is written. *)
SavedOnTop(r) ==
  [listing EXCEPT ![r.vault] =
     IF r.op = "create"
     THEN [path |-> r.path,
           type |-> IF r.key = Plain THEN "open" ELSE "secure",
           salt |-> IF r.key = Plain THEN Nil ELSE r.key.salt]
     ELSE [@ EXCEPT !.salt = r.newKey.salt]]

(* Slip: recovery keeps the old salt. *)
SavedWithoutSalt(r) ==
  IF r.op = "recover" THEN r.loaded
  ELSE [r.loaded EXCEPT ![r.vault] =
          [path |-> r.path,
           type |-> IF r.key = Plain THEN "open" ELSE "secure",
           salt |-> IF r.key = Plain THEN Nil ELSE r.key.salt]]

(* _save_state writes the listing that was loaded, with one entry changed. *)
Saved(r) ==
  [r.loaded EXCEPT ![r.vault] =
     IF r.op = "create"
     THEN [path |-> r.path,
           type |-> IF r.key = Plain THEN "open" ELSE "secure",
           salt |-> IF r.key = Plain THEN Nil ELSE r.key.salt]
     ELSE [@ EXCEPT !.salt = r.newKey.salt]]

SaveState(q) ==
  /\ req[q].pc = "save"
  /\ listing' = Saved(req[q])
  /\ NextStage(q, "activate")
  /\ UNCHANGED <<files, engine, manager, strays>>

(* Slip: the key of an open vault is kept as if it were one. *)
ActivateWithKey(q) ==
  /\ req[q].pc = "activate"
  /\ manager' = [active |-> req[q].vault, current |-> req[q].newKey, ready |-> TRUE]
  /\ Done(q)
  /\ UNCHANGED <<files, listing, engine, strays>>

(* Slip: the id of the active vault is set by the first activation only. *)
ActivateOnce(q) ==
  /\ req[q].pc = "activate"
  /\ manager' = [active |-> IF manager.ready THEN manager.active ELSE req[q].vault,
                 current |-> IF req[q].newKey = Plain THEN Nil ELSE req[q].newKey,
                 ready |-> TRUE]
  /\ Done(q)
  /\ UNCHANGED <<files, listing, engine, strays>>

Activate(q) ==
  /\ req[q].pc = "activate"
  /\ manager' = [active |-> req[q].vault,
                 current |-> IF req[q].newKey = Plain THEN Nil ELSE req[q].newKey,
                 ready |-> TRUE]
  /\ Done(q)
  /\ UNCHANGED <<files, listing, engine, strays>>

-----------------------------------------------------------------------------
(* The process ends and starts again.  write_text truncates the state file *)
(* before it fills it.  Startup opens the first open vault there is; with  *)
(* a torn state file it fails, which leaves the server down.               *)
Restart ==
  /\ CrashAnywhere \/ \A q \in Thread : req[q] = Idle
  /\ req' = [q \in Thread |-> Idle]
  /\ \/ UNCHANGED listing
     \/ (\E q \in Thread : req[q].pc = "save") /\ listing' = Torn
  /\ IF listing' # Torn /\ \E v \in VaultId : listing'[v] # Nil /\ listing'[v].type = "open"
     THEN \E v \in VaultId :
            /\ listing'[v] # Nil /\ listing'[v].type = "open"
            /\ engine' = NewEngine(listing'[v].path, Plain)
            /\ manager' = [active |-> v, current |-> Nil, ready |-> TRUE]
     ELSE engine' = Nil /\ manager' = Locked
  /\ UNCHANGED <<files, strays>>

Next ==
  \/ \E q \in Thread :
       \/ \E v \in VaultId, key \in Key \cup {Plain} : BeginCreate(q, v, key)
       \/ \E v \in VaultId, pass \in Passphrase : BeginUnlock(q, v, pass)
       \/ \E v \in VaultId, phrase, newKey \in Key : BeginRecover(q, v, phrase, newKey)
       \/ InitDatabase(q) \/ CreateTables(q) \/ RunMigrations(q)
       \/ Rekey(q) \/ SaveState(q) \/ Activate(q)
  \/ Restart

Spec == Init /\ [][Next]_vars

-----------------------------------------------------------------------------
TypeOK ==
  /\ files \in [Path -> Key \cup {Plain, Absent}]
  /\ listing \in Listing \cup {Torn}
  /\ engine \in {Nil} \cup [path: Path, key: Key \cup {Plain},
                            rekeyed: [Thread -> Key \cup {Nil}]]
  /\ manager \in [active: VaultId \cup {Nil}, current: Key \cup {Nil}, ready: BOOLEAN]
  /\ req \in [Thread -> {Idle} \cup Running]
  /\ strays \subseteq VaultId

Listed(v) == listing # Torn /\ listing[v] # Nil

(* No two vaults of the state file are kept in one database file, although *)
(* any number of requests may have found the list empty and taken the      *)
(* default file.                                                           *)
FilesNotShared ==
  \A v, w \in VaultId : v # w /\ Listed(v) /\ Listed(w) => listing[v].path # listing[w].path

(* Whenever the process ends, a vault in the state file has its database   *)
(* file, encrypted if it is a secure vault and plain if it is an open one. *)
(* One thing alone breaks this: another request that replaces the engine   *)
(* after a creation has installed its own and before it makes the tables,  *)
(* which then are made in the other's file (_create_tables).               *)
FilesMatchKind ==
  \A v \in VaultId \ strays : Listed(v) =>
    /\ listing[v].type = "open" => files[listing[v].path] = Plain
    /\ listing[v].type = "secure" => files[listing[v].path] \in Key

Quiet == \A q \in Thread : req[q] = Idle

(* One request at a time: a passphrase opens every secure vault with the   *)
(* salt of the state file, and the active one with the key in memory, so   *)
(* that verify_passphrase says yes exactly to what opens the file.         *)
KeysAgree ==
  Quiet => /\ \A v \in VaultId : Listed(v) /\ listing[v].type = "secure" =>
                 files[listing[v].path].salt = listing[v].salt
           /\ manager.ready /\ listing[manager.active].type = "secure" =>
                 files[listing[manager.active].path] = manager.current

(* One request at a time: an engine that can execute queries runs them on  *)
(* the vault that is shown as active ("Only one vault is active at a       *)
(* time", core/ports/vault_manager.py).                                    *)
ServesActiveVault ==
  \A q \in Thread : Quiet /\ CanQuery(q) =>
    manager.ready /\ engine.path = listing[manager.active].path

(* is_db_ready: "True when a vault is unlocked and queries can execute"    *)
(* (core/ports/vault_manager.py).                                          *)
ReadyMeansQueries == Quiet /\ manager.ready => \A q \in Thread : CanQuery(q)
=============================================================================
