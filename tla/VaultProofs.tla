----------------------------- MODULE VaultProofs -----------------------------
(***************************************************************************)
(* The state file and the database files fit, for any set of threads and   *)
(* with the process ending anywhere; and where one request ends before the *)
(* next begins, the keys agree and queries go to the active vault.         *)
(***************************************************************************)
EXTENDS Vault, TLAPS

Files == [Path -> Key \cup {Plain, Absent}]

(* An entry has the file of its vault or the default one, and the file is  *)
(* of the kind that the entry says, if the tables were made in it; x is    *)
(* the set of the vaults whose tables were made elsewhere.                 *)
EntryOK(v, entry, f, x) ==
  /\ entry.path \in {Default, v}
  /\ entry.type = "open" /\ v \notin x => f[entry.path] = Plain
  /\ entry.type = "secure" => /\ v \notin x => f[entry.path] \in Key
                              /\ entry.salt \in Salt

(* A listing, on disk or in the hands of a request.                        *)
ListingOK(l, f, x) ==
  /\ \A v \in VaultId : l[v] # Nil => EntryOK(v, l[v], f, x)
  /\ \A v, w \in VaultId : l[v] # Nil /\ l[w] # Nil /\ v # w => l[v].path # l[w].path

(* A request that will list a new vault has a file that no vault of the    *)
(* listing it read has, and makes it before it writes the listing.         *)
CreateOK(r, f, x) ==
  /\ r.pc # "rekey"
  /\ r.path \in {Default, r.vault}
  /\ r.path = Default => Empty(r.loaded)
  /\ r.pc \in {"migrate", "save"} /\ r.vault \notin x =>
       (r.key = Plain => f[r.path] = Plain) /\ (r.key # Plain => f[r.path] \in Key)

RequestOK(r, f, x) ==
  /\ ListingOK(r.loaded, f, x)
  /\ r.op = "create" => CreateOK(r, f, x)
  /\ r.op = "recover" => r.loaded[r.vault] # Nil /\ r.newKey \in Key
  /\ r.op = "unlock" => r.pc \in {"init", "tables", "migrate", "activate"}

ListedOK == listing # Torn => ListingOK(listing, files, strays)
RequestsOK == \A q \in Thread : req[q] # Idle => RequestOK(req[q], files, strays)

IInv == TypeOK /\ ListedOK /\ RequestsOK

(* A file that is plain stays plain, and one that is encrypted encrypted.  *)
Kept(f, g) ==
  \A p \in Path : (f[p] = Plain => g[p] = Plain) /\ (f[p] \in Key => g[p] \in Key)

-----------------------------------------------------------------------------
(* What fits the files goes on fitting while files keep their kind.        *)
LEMMA ListingStays ==
  ASSUME NEW l \in Listing, NEW f, NEW g, NEW x, NEW y, ListingOK(l, f, x),
         Kept(f, g), x \subseteq y
  PROVE  ListingOK(l, g, y)
PROOF
  <1>1. ASSUME NEW v \in VaultId, l[v] # Nil
        PROVE  EntryOK(v, l[v], g, y)
    <2>1. l[v] \in Entry /\ EntryOK(v, l[v], f, x)
      BY <1>1 DEF Listing, ListingOK
    <2>2. l[v].path \in Path
      BY <2>1 DEF Entry
    <2> QED
      BY <2>1, <2>2 DEF EntryOK, Kept
  <1> QED
    BY <1>1 DEF ListingOK

(* What holds of a request holds on while the files it relies on are       *)
(* kept.                                                                   *)
LEMMA RequestStays ==
  ASSUME NEW r \in Running, NEW f, NEW g, NEW x, NEW y, RequestOK(r, f, x),
         Kept(f, g), x \subseteq y
  PROVE  RequestOK(r, g, y)
PROOF
  <1>1. r.loaded \in Listing /\ r.path \in Path
    BY DEF Running
  <1>2. ListingOK(r.loaded, g, y)
    BY <1>1, ListingStays DEF RequestOK
  <1>3. r.op = "create" => CreateOK(r, g, y)
    BY <1>1 DEF RequestOK, CreateOK, Kept
  <1> QED
    BY <1>2, <1>3 DEF RequestOK

(* A step of one request: the others keep theirs.                          *)
LEMMA OneRequest ==
  ASSUME IInv, NEW q \in Thread, NEW r, req' = [req EXCEPT ![q] = r],
         r = Idle \/ (r \in Running /\ RequestOK(r, files', strays')),
         Kept(files, files'), strays \subseteq strays'
  PROVE  RequestsOK' /\ req' \in [Thread -> {Idle} \cup Running]
PROOF
  <1>1. req \in [Thread -> {Idle} \cup Running]
    BY DEF IInv, TypeOK
  <1>2. ASSUME NEW t \in Thread, req'[t] # Idle
        PROVE  RequestOK(req'[t], files', strays')
    <2>1. CASE t = q
      BY <1>1, <1>2, <2>1
    <2>2. CASE t # q
      <3>1. req'[t] = req[t] /\ req[t] \in Running
        BY <1>1, <1>2, <2>2
      <3>2. RequestOK(req[t], files, strays)
        BY <1>2, <3>1 DEF IInv, RequestsOK
      <3> QED
        BY <3>1, <3>2, RequestStays
    <2> QED
      BY <2>1, <2>2
  <1> QED
    BY <1>1, <1>2 DEF RequestsOK

(* What the request of a thread is, and the one it becomes in NextStage.   *)
LEMMA RequestAt ==
  ASSUME IInv, NEW q \in Thread, req[q].pc # "idle"
  PROVE  req[q] \in Running /\ RequestOK(req[q], files, strays)
PROOF
  <1>1. req[q] # Idle
    BY DEF Idle
  <1> QED
    BY <1>1 DEF IInv, TypeOK, RequestsOK

(* Nothing but the requests changes when one begins.                       *)
LEMMA BeginKeeps ==
  ASSUME IInv, NEW q \in Thread, NEW r \in Running,
         req' = [req EXCEPT ![q] = r], RequestOK(r, files, strays),
         UNCHANGED <<files, listing, engine, manager, strays>>
  PROVE  IInv'
PROOF
  <1>1. Kept(files, files') /\ strays \subseteq strays'
    BY DEF Kept
  <1>2. RequestsOK' /\ req' \in [Thread -> {Idle} \cup Running]
    BY <1>1, OneRequest
  <1> QED
    BY <1>2 DEF IInv, TypeOK, ListedOK

(* A request that creates a vault picks a path nobody is listed with.      *)
LEMMA BeginCreateKeeps ==
  ASSUME IInv, NEW q \in Thread, NEW v \in VaultId, NEW key \in Key \cup {Plain},
         BeginCreate(q, v, key)
  PROVE  IInv'
PROOF
  <1> DEFINE r == [pc |-> "init", op |-> "create", vault |-> v,
                   path |-> IF Empty(listing) THEN Default ELSE v,
                   key |-> key, newKey |-> key, loaded |-> listing]
  <1>1. listing \in Listing /\ ListingOK(listing, files, strays)
    BY DEF BeginCreate, IInv, TypeOK, ListedOK
  <1>2. r \in Running
    BY <1>1 DEF Running, Stage, Path
  <1>3. RequestOK(r, files, strays)
    BY <1>1, VaultAssumption DEF RequestOK, CreateOK
  <1>4. /\ req' = [req EXCEPT ![q] = r]
        /\ UNCHANGED <<files, listing, engine, manager, strays>>
    BY DEF BeginCreate
  <1> QED
    BY <1>2, <1>3, <1>4, BeginKeeps

(* An unlock carries the listing it read.                                  *)
LEMMA BeginUnlockKeeps ==
  ASSUME IInv, NEW q \in Thread, NEW v \in VaultId, NEW pass \in Passphrase,
         BeginUnlock(q, v, pass)
  PROVE  IInv'
PROOF
  <1> DEFINE entry == listing[v]
             key == IF entry.type = "open" THEN Plain
                    ELSE [pass |-> pass, salt |-> entry.salt]
             r == [pc |-> "init", op |-> "unlock", vault |-> v, path |-> entry.path,
                   key |-> key, newKey |-> key, loaded |-> listing]
  <1>1. listing \in Listing /\ ListingOK(listing, files, strays)
    BY DEF BeginUnlock, IInv, TypeOK, ListedOK
  <1>2. entry \in Entry /\ EntryOK(v, entry, files, strays)
    BY <1>1 DEF BeginUnlock, Listing, ListingOK
  <1>3. key \in Key \cup {Plain}
    BY <1>2 DEF Entry, EntryOK, Key
  <1>4. r \in Running
    BY <1>1, <1>2, <1>3 DEF Running, Stage, Entry
  <1>5. RequestOK(r, files, strays)
    BY <1>1 DEF RequestOK
  <1>6. /\ req' = [req EXCEPT ![q] = r]
        /\ UNCHANGED <<files, listing, engine, manager, strays>>
    BY DEF BeginUnlock
  <1> QED
    BY <1>4, <1>5, <1>6, BeginKeeps

(* So does a recovery.                                                     *)
LEMMA BeginRecoverKeeps ==
  ASSUME IInv, NEW q \in Thread, NEW v \in VaultId,
         NEW phrase \in Key, NEW newKey \in Key, BeginRecover(q, v, phrase, newKey)
  PROVE  IInv'
PROOF
  <1> DEFINE r == [pc |-> "init", op |-> "recover", vault |-> v, path |-> listing[v].path,
                   key |-> phrase, newKey |-> newKey, loaded |-> listing]
  <1>1. listing \in Listing /\ ListingOK(listing, files, strays) /\ listing[v] # Nil
    BY DEF BeginRecover, IInv, TypeOK, ListedOK
  <1>2. listing[v] \in Entry
    BY <1>1 DEF Listing
  <1>3. r \in Running
    BY <1>1, <1>2 DEF Running, Stage, Entry
  <1>4. RequestOK(r, files, strays)
    BY <1>1 DEF RequestOK
  <1>5. /\ req' = [req EXCEPT ![q] = r]
        /\ UNCHANGED <<files, listing, engine, manager, strays>>
    BY DEF BeginRecover
  <1> QED
    BY <1>3, <1>4, <1>5, BeginKeeps

-----------------------------------------------------------------------------
(* A request that goes on to another stage, and changes nothing but the    *)
(* engine.                                                                 *)
LEMMA StageKeeps ==
  ASSUME IInv, NEW q \in Thread, NEW r \in Running, r = req[q], NEW pc \in Stage,
         NextStage(q, pc), UNCHANGED <<files, listing, manager, strays>>,
         engine' \in {Nil} \cup [path: Path, key: Key \cup {Plain},
                                rekeyed: [Thread -> Key \cup {Nil}]],
         RequestOK([r EXCEPT !.pc = pc], files, strays)
  PROVE  IInv'
PROOF
  <1> DEFINE s == [r EXCEPT !.pc = pc]
  <1>1. s \in Running /\ req' = [req EXCEPT ![q] = s]
    BY DEF Running, NextStage
  <1>2. Kept(files, files') /\ strays \subseteq strays' /\ RequestOK(s, files', strays')
    BY DEF Kept
  <1> HIDE DEF s
  <1>3. RequestsOK' /\ req' \in [Thread -> {Idle} \cup Running]
    BY <1>1, <1>2, OneRequest
  <1> QED
    BY <1>3 DEF IInv, TypeOK, ListedOK

(* A request that gives up.                                                *)
LEMMA DoneKeeps ==
  ASSUME IInv, NEW q \in Thread, Done(q), UNCHANGED <<files, listing, engine, manager>>,
         strays \subseteq strays', strays' \subseteq VaultId
  PROVE  IInv'
PROOF
  <1>1. Kept(files, files')
    BY DEF Kept
  <1>2. RequestsOK' /\ req' \in [Thread -> {Idle} \cup Running]
    BY <1>1, OneRequest DEF Done
  <1>3. ListedOK'
    BY <1>1, ListingStays DEF IInv, TypeOK, ListedOK
  <1> QED
    BY <1>2, <1>3 DEF IInv, TypeOK

(* A new engine is one to a file of a vault, with a key or without.        *)
LEMMA InitDatabaseKeeps ==
  ASSUME IInv, NEW q \in Thread, InitDatabase(q)
  PROVE  IInv'
PROOF
  <1>1. PICK r \in Running : r = req[q] /\ r.pc = "init" /\ RequestOK(r, files, strays)
    BY RequestAt DEF InitDatabase
  <1>2. engine' = NewEngine(r.path, r.key) /\ r.path \in Path /\ r.key \in Key \cup {Plain}
    BY <1>1 DEF InitDatabase, Running
  <1>3. engine' \in [path: Path, key: Key \cup {Plain}, rekeyed: [Thread -> Key \cup {Nil}]]
    BY <1>2 DEF NewEngine
  <1> DEFINE s == [r EXCEPT !.pc = "tables"]
  <1>4. /\ s.pc = "tables" /\ s.op = r.op /\ s.vault = r.vault /\ s.path = r.path
        /\ s.key = r.key /\ s.newKey = r.newKey /\ s.loaded = r.loaded
    BY DEF Running
  <1> HIDE DEF s
  <1>5. RequestOK(s, files, strays)
    BY <1>1, <1>4 DEF RequestOK, CreateOK
  <1>6. NextStage(q, "tables") /\ UNCHANGED <<files, listing, manager, strays>>
    BY DEF InitDatabase
  <1>7. "tables" \in Stage
    BY DEF Stage
  <1> QED
    BY <1>1, <1>3, <1>5, <1>6, <1>7, StageKeeps DEF s

(* A file that comes into being gets the kind of the key it is made with;  *)
(* where that is another vault's, the one that is created is a stray.      *)
LEMMA CreateTablesKeeps ==
  ASSUME IInv, NEW q \in Thread, CreateTables(q)
  PROVE  IInv'
PROOF
  <1> USE VaultAssumption, KeyAssumption
  <1>1. PICK r \in Running : r = req[q] /\ r.pc = "tables" /\ RequestOK(r, files, strays)
    BY RequestAt DEF CreateTables
  <1>2. r.path \in Path /\ r.key \in Key \cup {Plain} /\ r.vault \in VaultId
    BY DEF Running
  <1> DEFINE own == engine.path = r.path /\ ConnectionKey(q) = r.key
             s == [r EXCEPT !.pc = "migrate"]
  <1>3. /\ UNCHANGED <<listing, engine, manager>>
        /\ strays' = IF r.op = "create" /\ ~own THEN strays \cup {r.vault} ELSE strays
    BY <1>1 DEF CreateTables
  <1>4. strays \subseteq strays' /\ strays' \subseteq VaultId
    BY <1>2, <1>3 DEF IInv, TypeOK
  <1>5. files \in Files
    BY DEF IInv, TypeOK, Files
  <1>6. CASE ~Connects(q)
    BY <1>1, <1>3, <1>4, <1>6, DoneKeeps DEF CreateTables
  <1>7. CASE Connects(q)
    <2>1. /\ files' = [files EXCEPT ![engine.path] = ConnectionKey(q)]
          /\ NextStage(q, "migrate")
      BY <1>1, <1>7 DEF CreateTables
    <2>2. files[engine.path] \in {Absent, ConnectionKey(q)}
      BY <1>7 DEF Connects
    <2>3. Kept(files, files')
      <3>1. \A p \in Path : files'[p] = files[p] \/ files[p] = Absent
        BY <1>5, <2>1, <2>2 DEF Files
      <3> QED
        BY <3>1 DEF Kept
    <2>4. files' \in Files
      <3>1. engine \in [path: Path, key: Key \cup {Plain},
                       rekeyed: [Thread -> Key \cup {Nil}]]
        BY <1>7 DEF Connects, IInv, TypeOK
      <3>2. engine.path \in Path /\ ConnectionKey(q) \in Key \cup {Plain}
        BY <3>1 DEF ConnectionKey
      <3> QED
        BY <1>5, <2>1, <3>2 DEF Files
    <2>5. own => files'[r.path] = r.key
      BY <1>2, <1>5, <2>1 DEF Files
    <2>6. s \in Running /\ req' = [req EXCEPT ![q] = s]
      BY <1>1, <2>1 DEF NextStage, Running, Stage
    <2>7. /\ s.pc = "migrate" /\ s.op = r.op /\ s.vault = r.vault /\ s.path = r.path
          /\ s.key = r.key /\ s.newKey = r.newKey /\ s.loaded = r.loaded
      BY DEF Running
    <2> HIDE DEF s
    <2>8. RequestOK(r, files', strays')
      BY <1>1, <1>4, <2>3, RequestStays
    <2>9. r.op = "create" /\ r.vault \notin strays' => own
      BY <1>3
    <2> HIDE DEF own
    <2>10. RequestOK(s, files', strays')
      BY <1>2, <2>5, <2>7, <2>8, <2>9 DEF RequestOK, CreateOK
    <2>11. RequestsOK' /\ req' \in [Thread -> {Idle} \cup Running]
      BY <1>4, <2>3, <2>6, <2>10, OneRequest
    <2>12. ListedOK'
      BY <1>3, <1>4, <2>3, ListingStays DEF IInv, TypeOK, ListedOK
    <2> QED
      BY <1>3, <1>4, <2>4, <2>11, <2>12 DEF IInv, TypeOK, Files
  <1> QED
    BY <1>6, <1>7

(* The migrations change nothing.                                          *)
LEMMA RunMigrationsKeeps ==
  ASSUME IInv, NEW q \in Thread, RunMigrations(q)
  PROVE  IInv'
PROOF
  <1>1. PICK r \in Running : r = req[q] /\ r.pc = "migrate" /\ RequestOK(r, files, strays)
    BY RequestAt DEF RunMigrations
  <1>2. UNCHANGED <<files, listing, engine, manager, strays>>
    BY DEF RunMigrations
  <1>3. CASE ~Connects(q)
    BY <1>2, <1>3, DoneKeeps DEF RunMigrations, IInv, TypeOK
  <1>4. CASE Connects(q)
    <2> DEFINE after == [create |-> "save", unlock |-> "activate", recover |-> "rekey"]
               s == [r EXCEPT !.pc = after[r.op]]
    <2>1. NextStage(q, after[r.op])
      BY <1>1, <1>4 DEF RunMigrations
    <2>2. r.op \in {"create", "unlock", "recover"}
      BY DEF Running
    <2>3. /\ after[r.op] \in Stage
          /\ r.op = "create" => after[r.op] = "save"
          /\ r.op = "unlock" => after[r.op] = "activate"
          /\ r.op = "recover" => after[r.op] = "rekey"
      BY <2>2 DEF Stage
    <2>4. /\ s.pc = after[r.op] /\ s.op = r.op /\ s.vault = r.vault /\ s.path = r.path
          /\ s.key = r.key /\ s.newKey = r.newKey /\ s.loaded = r.loaded
      BY DEF Running
    <2>5. engine' \in {Nil} \cup [path: Path, key: Key \cup {Plain},
                                  rekeyed: [Thread -> Key \cup {Nil}]]
      BY <1>2 DEF IInv, TypeOK
    <2> HIDE DEF s, after
    <2>6. RequestOK(s, files, strays)
      BY <1>1, <2>3, <2>4 DEF RequestOK, CreateOK
    <2> QED
      BY <1>1, <1>2, <2>1, <2>3, <2>5, <2>6, StageKeeps DEF s
  <1> QED
    BY <1>3, <1>4

(* A new key goes only to a file that has a key by then.                   *)
LEMMA RekeyKeeps ==
  ASSUME IInv, NEW q \in Thread, Rekey(q)
  PROVE  IInv'
PROOF
  <1> USE VaultAssumption, KeyAssumption
  <1>1. PICK r \in Running : r = req[q] /\ r.pc = "rekey" /\ RequestOK(r, files, strays)
    BY RequestAt DEF Rekey
  <1>2. r.op = "recover" /\ r.newKey \in Key
    BY <1>1 DEF Running, RequestOK, CreateOK
  <1>3. files \in Files
    BY DEF IInv, TypeOK, Files
  <1>4. UNCHANGED <<listing, manager, strays>>
    BY DEF Rekey
  <1>5. CASE ~CanQuery(q)
    <2>1. Done(q) /\ UNCHANGED <<files, engine>>
      BY <1>5 DEF Rekey
    <2> QED
      BY <1>4, <2>1, DoneKeeps DEF IInv, TypeOK
  <1>6. CASE CanQuery(q)
    <2>1. req' = [req EXCEPT ![q].pc = "save"]
      BY <1>6 DEF Rekey, NextStage
    <2>2. PICK e \in [path: Path, key: Key \cup {Plain}, rekeyed: [Thread -> Key \cup {Nil}]] :
            e = engine
        BY <1>6 DEF CanQuery, IInv, TypeOK
    <2>3. \/ UNCHANGED <<files, engine>>
          \/ /\ e.key # Plain
             /\ files' = [files EXCEPT ![e.path] = r.newKey]
             /\ engine' = [e EXCEPT !.rekeyed[q] = r.newKey]
      BY <1>1, <1>6, <2>2 DEF Rekey
    <2>4. e.path \in Path /\ e.key \in Key \cup {Plain} /\ e.rekeyed \in [Thread -> Key \cup {Nil}]
      BY <2>2
    <2>5. files[e.path] = IF e.rekeyed[q] = Nil THEN e.key ELSE e.rekeyed[q]
      BY <1>6, <2>2 DEF CanQuery, ConnectionKey
    <2>6. Kept(files, files') /\ files' \in Files
      <3>1. CASE UNCHANGED files
        BY <1>3, <3>1 DEF Kept
      <3>2. CASE e.key # Plain /\ files' = [files EXCEPT ![e.path] = r.newKey]
        <4>1. files[e.path] \in Key
          BY <2>4, <2>5, <3>2
        <4>2. files' \in Files
          BY <1>2, <1>3, <3>2 DEF Files
        <4>3. \A p \in Path : files'[p] = IF p = e.path THEN r.newKey ELSE files[p]
          BY <1>3, <3>2 DEF Files
        <4> QED
          BY <1>2, <4>1, <4>2, <4>3 DEF Kept
      <3> QED
        BY <2>3, <3>1, <3>2
    <2>7. engine' \in [path: Path, key: Key \cup {Plain}, rekeyed: [Thread -> Key \cup {Nil}]]
      BY <1>2, <2>2, <2>3, <2>4
    <2>8. PICK s \in Running : s = [r EXCEPT !.pc = "save"]
      BY DEF Running, Stage
    <2>9. s.op = r.op /\ s.vault = r.vault /\ s.newKey = r.newKey /\ s.loaded = r.loaded
      BY <2>8 DEF Running
    <2>10. RequestOK(r, files', strays')
      BY <1>1, <1>4, <2>6, RequestStays
    <2>11. RequestOK(s, files', strays')
      BY <1>2, <2>9, <2>10 DEF RequestOK
    <2>12. req' = [req EXCEPT ![q] = s]
      BY <1>1, <2>1, <2>8
    <2>13. RequestsOK' /\ req' \in [Thread -> {Idle} \cup Running]
      BY <1>4, <2>6, <2>11, <2>12, OneRequest
    <2>14. ListedOK'
      BY <1>4, <2>6, ListingStays DEF IInv, TypeOK, ListedOK
    <2> QED
      BY <1>4, <2>6, <2>7, <2>13, <2>14 DEF IInv, TypeOK, Files
  <1> QED
    BY <1>5, <1>6

(* The listing that is written is the one that was read with one entry     *)
(* more, or with another salt in one entry.                                *)
LEMMA SavedFits ==
  ASSUME IInv, NEW q \in Thread, req[q].pc = "save"
  PROVE  Saved(req[q]) \in Listing /\ ListingOK(Saved(req[q]), files, strays)
PROOF
  <1> USE VaultAssumption, KeyAssumption
  <1>1. PICK r \in Running : r = req[q] /\ r.pc = "save" /\ RequestOK(r, files, strays)
    BY RequestAt
  <1>2. /\ r.loaded \in Listing /\ ListingOK(r.loaded, files, strays) /\ r.vault \in VaultId
        /\ r.path \in Path /\ r.key \in Key \cup {Plain} /\ r.op \in {"create", "recover"}
    BY <1>1 DEF Running, RequestOK
  <1>3. CASE r.op = "create"
    <2> DEFINE entry == [path |-> r.path,
                         type |-> IF r.key = Plain THEN "open" ELSE "secure",
                         salt |-> IF r.key = Plain THEN Nil ELSE r.key.salt]
    <2>1. Saved(r) = [r.loaded EXCEPT ![r.vault] = entry]
      BY <1>3 DEF Saved
    <2>2. entry \in Entry
      BY <1>2 DEF Entry, Key
    <2>3. EntryOK(r.vault, entry, files, strays)
      BY <1>1, <1>2, <1>3 DEF EntryOK, RequestOK, CreateOK, Key
    <2>4. \A v \in VaultId : v # r.vault /\ r.loaded[v] # Nil =>
            EntryOK(v, r.loaded[v], files, strays) /\ r.loaded[v].path # r.path
      BY <1>1, <1>2, <1>3 DEF ListingOK, EntryOK, RequestOK, CreateOK, Empty
    <2>5. entry.path = r.path
      OBVIOUS
    <2> HIDE DEF entry
    <2>6. Saved(r) \in Listing
      BY <1>2, <2>1, <2>2 DEF Listing
    <2>7. \A v \in VaultId : Saved(r)[v] = IF v = r.vault THEN entry ELSE r.loaded[v]
      BY <1>2, <2>1 DEF Listing
    <2>8. ListingOK(Saved(r), files, strays)
      BY <1>2, <2>3, <2>4, <2>5, <2>7 DEF ListingOK
    <2> QED
      BY <1>1, <2>6, <2>8
  <1>4. CASE r.op = "recover"
    <2>1. r.loaded[r.vault] \in Entry /\ r.newKey.salt \in Salt
      BY <1>1, <1>2, <1>4 DEF RequestOK, Listing, Key
    <2>2. PICK entry \in Entry : entry = [r.loaded[r.vault] EXCEPT !.salt = r.newKey.salt]
      BY <2>1 DEF Entry
    <2>3. /\ entry.path = r.loaded[r.vault].path /\ entry.type = r.loaded[r.vault].type
          /\ entry.salt \in Salt
      BY <2>1, <2>2 DEF Entry
    <2>4. Saved(r) = [r.loaded EXCEPT ![r.vault] = entry]
      BY <1>4, <2>2 DEF Saved
    <2>5. Saved(r) \in Listing
      BY <1>2, <2>4 DEF Listing
    <2>6. \A v \in VaultId : Saved(r)[v] = IF v = r.vault THEN entry ELSE r.loaded[v]
      BY <1>2, <2>4 DEF Listing
    <2>7. r.loaded[r.vault] # Nil
      BY <1>1, <1>4 DEF RequestOK
    <2>8. EntryOK(r.vault, entry, files, strays)
      BY <1>2, <2>3, <2>7 DEF ListingOK, EntryOK
    <2>9. ListingOK(Saved(r), files, strays)
      BY <1>2, <2>3, <2>6, <2>7, <2>8 DEF ListingOK
    <2> QED
      BY <1>1, <2>5, <2>9
  <1> QED
    BY <1>2, <1>3, <1>4

(* The listing a request writes back is in order, however old it is.       *)
LEMMA SaveStateKeeps ==
  ASSUME IInv, NEW q \in Thread, SaveState(q)
  PROVE  IInv'
PROOF
  <1>1. PICK r \in Running : r = req[q] /\ r.pc = "save" /\ RequestOK(r, files, strays)
    BY RequestAt DEF SaveState
  <1>2. listing' \in Listing /\ ListingOK(listing', files, strays)
    BY SavedFits DEF SaveState
  <1>3. req' = [req EXCEPT ![q].pc = "activate"] /\ UNCHANGED <<files, engine, manager, strays>>
    BY DEF SaveState, NextStage
  <1>4. Kept(files, files')
    BY <1>3 DEF Kept
  <1>5. PICK s \in Running : s = [r EXCEPT !.pc = "activate"]
    BY DEF Running, Stage
  <1>6. /\ s.pc = "activate" /\ s.op = r.op /\ s.vault = r.vault /\ s.path = r.path
        /\ s.newKey = r.newKey /\ s.loaded = r.loaded
    BY <1>5 DEF Running
  <1>7. RequestOK(s, files', strays')
    BY <1>1, <1>3, <1>6 DEF RequestOK, CreateOK
  <1>8. req' = [req EXCEPT ![q] = s]
    BY <1>1, <1>3, <1>5
  <1>9. RequestsOK' /\ req' \in [Thread -> {Idle} \cup Running]
    BY <1>3, <1>4, <1>7, <1>8, OneRequest
  <1> QED
    BY <1>2, <1>3, <1>9 DEF IInv, TypeOK, ListedOK

(* Activation touches neither files nor listing.                           *)
LEMMA ActivateKeeps ==
  ASSUME IInv, NEW q \in Thread, Activate(q)
  PROVE  IInv'
PROOF
  <1>1. PICK r \in Running : r = req[q]
    BY RequestAt DEF Activate
  <1>2. r.vault \in VaultId /\ r.newKey \in Key \cup {Plain}
    BY DEF Running
  <1>3. manager' \in [active: VaultId \cup {Nil}, current: Key \cup {Nil}, ready: BOOLEAN]
    BY <1>1, <1>2 DEF Activate
  <1>4. req' = [req EXCEPT ![q] = Idle] /\ UNCHANGED <<files, listing, engine, strays>>
    BY DEF Activate, Done
  <1>5. Kept(files, files')
    BY <1>4 DEF Kept
  <1>6. RequestsOK' /\ req' \in [Thread -> {Idle} \cup Running]
    BY <1>4, <1>5, OneRequest
  <1> QED
    BY <1>3, <1>4, <1>6 DEF IInv, TypeOK, ListedOK

(* A crash forgets the requests and may tear the state file, no more.      *)
LEMMA RestartKeeps ==
  ASSUME IInv, Restart
  PROVE  IInv'
PROOF
  <1>1. /\ files' = files /\ strays' = strays /\ listing' \in {listing, Torn}
        /\ req' = [q \in Thread |-> Idle]
    BY DEF Restart
  <1>2. CASE listing' # Torn /\ \E v \in VaultId : listing'[v] # Nil /\ listing'[v].type = "open"
    <2>1. PICK v \in VaultId :
            /\ listing'[v] # Nil
            /\ engine' = NewEngine(listing'[v].path, Plain)
            /\ manager' = [active |-> v, current |-> Nil, ready |-> TRUE]
      BY <1>2 DEF Restart
    <2>2. listing'[v] \in Entry
      BY <1>1, <1>2, <2>1 DEF IInv, TypeOK, Listing
    <2>3. listing'[v].path \in Path
      BY <2>2 DEF Entry
    <2>4. engine' \in [path: Path, key: Key \cup {Plain}, rekeyed: [Thread -> Key \cup {Nil}]]
      BY <2>1, <2>3 DEF NewEngine
    <2> QED
      BY <1>1, <2>1, <2>4 DEF IInv, TypeOK, ListedOK, RequestsOK
  <1>3. CASE engine' = Nil /\ manager' = Locked
    BY <1>1, <1>3 DEF IInv, TypeOK, ListedOK, RequestsOK, Locked
  <1> QED
    BY <1>2, <1>3 DEF Restart

-----------------------------------------------------------------------------
(* Every step keeps the invariant.                                         *)
LEMMA StepKeeps ==
  ASSUME IInv, [Next]_vars
  PROVE  IInv'
PROOF
  <1>1. CASE UNCHANGED vars
    BY <1>1 DEF vars, IInv, TypeOK, ListedOK, RequestsOK
  <1>2. CASE Restart
    BY <1>2, RestartKeeps
  <1>3. ASSUME NEW q \in Thread,
               \/ \E v \in VaultId, key \in Key \cup {Plain} : BeginCreate(q, v, key)
               \/ \E v \in VaultId, pass \in Passphrase : BeginUnlock(q, v, pass)
               \/ \E v \in VaultId, phrase, newKey \in Key : BeginRecover(q, v, phrase, newKey)
        PROVE  IInv'
    BY <1>3, BeginCreateKeeps, BeginUnlockKeeps, BeginRecoverKeeps
  <1>4. ASSUME NEW q \in Thread,
               \/ InitDatabase(q) \/ CreateTables(q) \/ RunMigrations(q)
               \/ Rekey(q) \/ SaveState(q) \/ Activate(q)
        PROVE  IInv'
    BY <1>4, InitDatabaseKeeps, CreateTablesKeeps, RunMigrationsKeeps, RekeyKeeps,
       SaveStateKeeps, ActivateKeeps
  <1> HIDE DEF IInv
  <1> QED
    BY <1>1, <1>2, <1>3, <1>4 DEF Next

(* The invariant holds in every state.                                     *)
LEMMA Invariance == Spec => []IInv
PROOF
  <1>1. Init => IInv
    BY KeyAssumption DEF Init, Locked, IInv, TypeOK, ListedOK, RequestsOK, ListingOK, Listing
  <1>2. IInv /\ [Next]_vars => IInv'
    BY StepKeeps
  <1> QED
    BY <1>1, <1>2, PTL DEF Spec

(* Requests, files, listing and memory have their shapes; in particular a  *)
(* secure vault never loses its salt and no recovery ends without a key    *)
(* (vault/manager.py).                                                     *)
THEOREM TypeCorrect == Spec => []TypeOK
PROOF
  <1>1. IInv => TypeOK
    BY DEF IInv
  <1> QED
    BY <1>1, Invariance, PTL

(* However requests overlap and wherever the process ends, two listed      *)
(* vaults have two files (create_vault, create_open_vault, _save_state).   *)
THEOREM FilesApart == Spec => []FilesNotShared
PROOF
  <1>1. IInv => FilesNotShared
    BY DEF IInv, ListedOK, ListingOK, FilesNotShared, Listed
  <1> QED
    BY <1>1, Invariance, PTL

(* However requests overlap and wherever the process ends, the file of a   *)
(* listed vault exists and is of its kind, but for a vault whose tables    *)
(* were made on the engine of another request (create_vault,               *)
(* create_open_vault, _create_tables).                                     *)
THEOREM FilesFit == Spec => []FilesMatchKind
PROOF
  <1>1. IInv => FilesMatchKind
    BY DEF IInv, ListedOK, ListingOK, EntryOK, FilesMatchKind, Listed
  <1> QED
    BY <1>1, Invariance, PTL

-----------------------------------------------------------------------------
(***************************************************************************)
(* One request at a time, and no crash in the middle of one.               *)
(***************************************************************************)
OneAtATime == ~CrashAnywhere /\ \E q \in Thread : Thread = {q}

(* The salts of the state file are those of the files, but for the file    *)
(* that a recovery has rekeyed and not yet listed.                         *)
SaltsOK(r) ==
  \A v \in VaultId : listing[v] # Nil /\ listing[v].type = "secure" =>
    \/ files[listing[v].path].salt = listing[v].salt
    \/ r.pc = "save" /\ r.op = "recover" /\ v = r.vault

(* The key in memory is that of the active vault, but while a recovery has *)
(* rekeyed it.                                                             *)
MemoryOK(r) ==
  manager.ready =>
    /\ manager.active \in VaultId /\ listing[manager.active] # Nil
    /\ listing[manager.active].type = "secure" =>
         \/ files[listing[manager.active].path] = manager.current
         \/ r.pc \in {"save", "activate"} /\ r.op = "recover" /\ r.vault = manager.active

(* An engine that executes queries is the active vault's.                  *)
ServesOK(q) == CanQuery(q) => manager.ready /\ engine.path = listing[manager.active].path

(* A request under way has read the listing there is, works on the file of *)
(* its vault, and once that has its new key the engine is on it.           *)
FlightOK(r) ==
  /\ r.pc # "activate" => r.loaded = listing
  /\ IF r.op = "create" /\ r.pc # "activate" THEN listing[r.vault] = Nil
     ELSE listing[r.vault] # Nil /\ listing[r.vault].path = r.path
  /\ r.op \in {"create", "unlock"} => r.newKey = r.key
  /\ r.op = "recover" => r.key \in Key
  /\ r.pc # "init" => engine.path = r.path
  /\ r.pc \in {"tables", "migrate", "rekey"} => engine.key = r.key
  /\ r.pc \in {"migrate", "rekey"} => files[r.path] = r.key
  /\ r.pc \in {"save", "activate"} => files[r.path] = r.newKey

SoloOK(q) ==
  /\ SaltsOK(req[q])
  /\ MemoryOK(req[q])
  /\ req[q].pc \in {"idle", "init"} => ServesOK(q)
  /\ req[q].pc # "idle" => FlightOK(req[q])
  /\ req[q].pc \in {"tables", "migrate"} => engine.rekeyed[q] = Nil

SoloInv == listing # Torn /\ strays = {} /\ \A q \in Thread : SoloOK(q)

(* What is listed, and the files that the entries name.                    *)
LEMMA ListedEntry ==
  ASSUME IInv, listing # Torn, strays = {}, NEW v \in VaultId, listing[v] # Nil
  PROVE  /\ listing[v] \in Entry /\ listing[v].path \in Path
         /\ EntryOK(v, listing[v], files, strays)
         /\ files[listing[v].path] # Absent
         /\ \A w \in VaultId : listing[w] # Nil /\ v # w => listing[v].path # listing[w].path
PROOF
  <1>1. listing \in Listing /\ ListingOK(listing, files, strays)
    BY DEF IInv, TypeOK, ListedOK
  <1>2. listing[v] \in Entry
    BY <1>1 DEF Listing
  <1>3. EntryOK(v, listing[v], files, strays)
    BY <1>1 DEF ListingOK
  <1>4. files[listing[v].path] # Absent
    BY <1>2, <1>3, VaultAssumption, KeyAssumption DEF EntryOK, Entry
  <1> QED
    BY <1>1, <1>2, <1>3, <1>4 DEF ListingOK, Entry

(* The only request is the one that takes the step.                        *)
LEMMA SoloStep ==
  ASSUME OneAtATime, NEW q \in Thread, listing' # Torn, strays' = {}, SoloOK(q)'
  PROVE  SoloInv'
BY DEF OneAtATime, SoloInv

(* A request that begins changes nothing.                                  *)
LEMMA SoloBegin ==
  ASSUME IInv, SoloInv, OneAtATime, NEW q \in Thread, NEW r, req[q] = Idle,
         req' = [req EXCEPT ![q] = r], r.pc = "init", FlightOK(r),
         UNCHANGED <<files, listing, engine, manager, strays>>
  PROVE  SoloInv'
PROOF
  <1>1. SoloOK(q) /\ listing' # Torn /\ strays' = {}
    BY DEF SoloInv
  <1>2. req'[q] = r /\ req[q].pc = "idle"
    BY DEF IInv, TypeOK, Idle
  <1>3. SaltsOK(r)' /\ MemoryOK(r)'
    BY <1>1, <1>2 DEF SoloOK, SaltsOK, MemoryOK
  <1>4. ServesOK(q)' /\ FlightOK(r)'
    BY <1>1, <1>2 DEF SoloOK, ServesOK, CanQuery, ConnectionKey, FlightOK
  <1> QED
    BY <1>1, <1>2, <1>3, <1>4, SoloStep DEF SoloOK

(* A request begins with the listing there is.                             *)
LEMMA SoloBegins ==
  ASSUME IInv, SoloInv, OneAtATime, NEW q \in Thread,
         \/ \E v \in VaultId, key \in Key \cup {Plain} : BeginCreate(q, v, key)
         \/ \E v \in VaultId, pass \in Passphrase : BeginUnlock(q, v, pass)
         \/ \E v \in VaultId, phrase, newKey \in Key : BeginRecover(q, v, phrase, newKey)
  PROVE  SoloInv'
PROOF
  <1>1. ASSUME NEW v \in VaultId, NEW key \in Key \cup {Plain}, BeginCreate(q, v, key)
        PROVE  SoloInv'
    <2> DEFINE r == [pc |-> "init", op |-> "create", vault |-> v,
                     path |-> IF Empty(listing) THEN Default ELSE v,
                     key |-> key, newKey |-> key, loaded |-> listing]
    <2>1. listing[v] = Nil
      BY <1>1 DEF BeginCreate, IdsInUse
    <2>2. FlightOK(r)
      BY <2>1 DEF FlightOK
    <2>3. /\ req' = [req EXCEPT ![q] = r] /\ req[q] = Idle
          /\ UNCHANGED <<files, listing, engine, manager, strays>>
      BY <1>1 DEF BeginCreate
    <2> QED
      BY <2>2, <2>3, SoloBegin
  <1>2. ASSUME NEW v \in VaultId, NEW pass \in Passphrase, BeginUnlock(q, v, pass)
        PROVE  SoloInv'
    <2> DEFINE entry == listing[v]
               key == IF entry.type = "open" THEN Plain
                      ELSE [pass |-> pass, salt |-> entry.salt]
               r == [pc |-> "init", op |-> "unlock", vault |-> v, path |-> entry.path,
                     key |-> key, newKey |-> key, loaded |-> listing]
    <2>1. FlightOK(r) /\ r.pc = "init"
      BY <1>2 DEF FlightOK, BeginUnlock
    <2>2. /\ req' = [req EXCEPT ![q] = r] /\ req[q] = Idle
          /\ UNCHANGED <<files, listing, engine, manager, strays>>
      BY <1>2 DEF BeginUnlock
    <2> HIDE DEF r
    <2> QED
      BY <2>1, <2>2, SoloBegin
  <1>3. ASSUME NEW v \in VaultId, NEW phrase \in Key, NEW newKey \in Key,
               BeginRecover(q, v, phrase, newKey)
        PROVE  SoloInv'
    <2> DEFINE r == [pc |-> "init", op |-> "recover", vault |-> v, path |-> listing[v].path,
                     key |-> phrase, newKey |-> newKey, loaded |-> listing]
    <2>1. FlightOK(r)
      BY <1>3 DEF FlightOK, BeginRecover
    <2>2. /\ req' = [req EXCEPT ![q] = r] /\ req[q] = Idle
          /\ UNCHANGED <<files, listing, engine, manager, strays>>
      BY <1>3 DEF BeginRecover
    <2> QED
      BY <2>1, <2>2, SoloBegin
  <1> QED
    BY <1>1, <1>2, <1>3

(* The new engine is on the request's own file, with its own key.          *)
LEMMA SoloInit ==
  ASSUME IInv, SoloInv, OneAtATime, NEW q \in Thread, InitDatabase(q)
  PROVE  SoloInv'
PROOF
  <1>1. PICK r \in Running : r = req[q] /\ r.pc = "init" /\ RequestOK(r, files, strays)
    BY RequestAt DEF InitDatabase
  <1>2. /\ SaltsOK(r) /\ MemoryOK(r) /\ FlightOK(r) /\ listing # Torn /\ strays = {}
        /\ engine' = NewEngine(r.path, r.key) /\ UNCHANGED <<files, listing, manager, strays>>
    BY <1>1 DEF InitDatabase, SoloInv, SoloOK
  <1>3. /\ engine'.path = r.path /\ engine'.key = r.key /\ engine'.rekeyed[q] = Nil
    BY <1>2 DEF NewEngine
  <1> DEFINE s == [r EXCEPT !.pc = "tables"]
  <1>5. req'[q] = s
    BY <1>1 DEF InitDatabase, NextStage, IInv, TypeOK
  <1>6. /\ s.pc = "tables" /\ s.op = r.op /\ s.vault = r.vault /\ s.path = r.path
        /\ s.key = r.key /\ s.newKey = r.newKey /\ s.loaded = r.loaded
    BY DEF Running
  <1> HIDE DEF s
  <1>7. SaltsOK(s)' /\ MemoryOK(s)'
    BY <1>1, <1>2, <1>6 DEF SaltsOK, MemoryOK
  <1>8. FlightOK(s)'
    BY <1>1, <1>2, <1>3, <1>6 DEF FlightOK
  <1> QED
    BY <1>2, <1>3, <1>5, <1>6, <1>7, <1>8, SoloStep DEF SoloOK

(* An engine whose key is wrong executes nothing; one whose key is right   *)
(* leaves every listed file as it is.                                      *)
LEMMA SoloTables ==
  ASSUME IInv, SoloInv, OneAtATime, NEW q \in Thread, CreateTables(q)
  PROVE  SoloInv'
PROOF
  <1> USE VaultAssumption, KeyAssumption
  <1>1. PICK r \in Running : r = req[q] /\ r.pc = "tables" /\ RequestOK(r, files, strays)
    BY RequestAt DEF CreateTables
  <1>2. r.path \in Path /\ r.key \in Key \cup {Plain} /\ r.vault \in VaultId
    BY DEF Running
  <1>3. /\ SaltsOK(r) /\ MemoryOK(r) /\ FlightOK(r) /\ listing # Torn /\ strays = {}
        /\ engine.path = r.path /\ ConnectionKey(q) = r.key
        /\ UNCHANGED <<engine, listing, manager>>
    BY <1>1 DEF CreateTables, SoloInv, SoloOK, FlightOK, ConnectionKey
  <1>4. files \in Files /\ req \in [Thread -> {Idle} \cup Running] /\ strays' = {}
    BY <1>1, <1>3 DEF IInv, TypeOK, Files, CreateTables
  <1>5. CASE ~Connects(q)
    <2>1. req'[q] = Idle /\ files' = files
      BY <1>1, <1>4, <1>5 DEF CreateTables, Done
    <2>2. SaltsOK(Idle)' /\ MemoryOK(Idle)' /\ Idle.pc = "idle"
      BY <1>1, <1>3, <2>1 DEF SaltsOK, MemoryOK, Idle
    <2>3. ~CanQuery(q)'
      BY <1>3, <1>5, <2>1 DEF CanQuery, Connects, ConnectionKey
    <2> QED
      BY <1>3, <1>4, <2>1, <2>2, <2>3, SoloStep DEF SoloOK, ServesOK
  <1>6. CASE Connects(q)
    <2> DEFINE s == [r EXCEPT !.pc = "migrate"]
    <2>1. /\ req'[q] = s /\ files' = [files EXCEPT ![r.path] = r.key]
          /\ files[r.path] \in {Absent, r.key}
      BY <1>1, <1>3, <1>4, <1>6 DEF CreateTables, Connects, NextStage
    <2>2. /\ s.pc = "migrate" /\ s.op = r.op /\ s.vault = r.vault /\ s.path = r.path
          /\ s.key = r.key /\ s.newKey = r.newKey /\ s.loaded = r.loaded
      BY DEF Running
    <2> HIDE DEF s
    <2>3. ASSUME NEW v \in VaultId, listing[v] # Nil
          PROVE  listing[v].path \in Path /\ files'[listing[v].path] = files[listing[v].path]
      <3>1. listing[v].path \in Path /\ files[listing[v].path] # Absent
        BY <1>3, <2>3, ListedEntry
      <3> QED
        BY <1>2, <1>4, <2>1, <3>1 DEF Files
    <2>4. SaltsOK(s)'
      BY <1>1, <1>3, <2>3 DEF SaltsOK
    <2>5. MemoryOK(s)'
      BY <1>1, <1>3, <2>3 DEF MemoryOK
    <2>6. files'[r.path] = r.key
      BY <1>2, <1>4, <2>1 DEF Files
    <2>7. FlightOK(s)'
      BY <1>1, <1>3, <2>2, <2>6 DEF FlightOK
    <2>8. engine'.rekeyed[q] = Nil
      BY <1>1, <1>3 DEF SoloInv, SoloOK
    <2> QED
      BY <1>3, <1>4, <2>1, <2>2, <2>4, <2>5, <2>7, <2>8, SoloStep DEF SoloOK
  <1> QED
    BY <1>5, <1>6

(* The migrations connect like the creation of the tables before them.     *)
LEMMA SoloMigrate ==
  ASSUME IInv, SoloInv, OneAtATime, NEW q \in Thread, RunMigrations(q)
  PROVE  SoloInv'
PROOF
  <1>1. PICK r \in Running : r = req[q] /\ r.pc = "migrate" /\ RequestOK(r, files, strays)
    BY RequestAt DEF RunMigrations
  <1>2. r.op \in {"create", "unlock", "recover"}
    BY DEF Running
  <1>3. /\ SaltsOK(r) /\ MemoryOK(r) /\ FlightOK(r) /\ listing # Torn /\ strays = {}
        /\ UNCHANGED <<files, engine, listing, manager, strays>>
    BY <1>1 DEF RunMigrations, SoloInv, SoloOK
  <1>4. CASE ~Connects(q)
    <2>1. req'[q] = Idle
      BY <1>4 DEF RunMigrations, Done, IInv, TypeOK
    <2>2. SaltsOK(Idle)' /\ MemoryOK(Idle)' /\ Idle.pc = "idle"
      BY <1>1, <1>3 DEF SaltsOK, MemoryOK, Idle
    <2>3. ~CanQuery(q)'
      BY <1>3, <1>4 DEF CanQuery, Connects, ConnectionKey
    <2> QED
      BY <1>3, <2>1, <2>2, <2>3, SoloStep DEF SoloOK, ServesOK
  <1>5. CASE Connects(q)
    <2> DEFINE after == [create |-> "save", unlock |-> "activate", recover |-> "rekey"]
               s == [r EXCEPT !.pc = after[r.op]]
    <2>1. req'[q] = s
      BY <1>1, <1>5 DEF RunMigrations, NextStage, IInv, TypeOK
    <2>2. /\ s.pc \in {"save", "activate", "rekey"} /\ s.op = r.op /\ s.vault = r.vault
          /\ s.path = r.path /\ s.key = r.key /\ s.newKey = r.newKey /\ s.loaded = r.loaded
          /\ r.op = "create" => s.pc = "save"
          /\ r.op = "unlock" => s.pc = "activate"
          /\ r.op = "recover" => s.pc = "rekey"
      BY <1>2 DEF Running
    <2> HIDE DEF s, after
    <2>3. SaltsOK(s)' /\ MemoryOK(s)'
      BY <1>1, <1>3, <2>2 DEF SaltsOK, MemoryOK
    <2>4. FlightOK(s)'
      BY <1>1, <1>2, <1>3, <2>2 DEF FlightOK
    <2> QED
      BY <1>3, <2>1, <2>2, <2>3, <2>4, SoloStep DEF SoloOK
  <1> QED
    BY <1>4, <1>5

(* The file that is rekeyed is that of the vault, and of no other.         *)
LEMMA SoloRekey ==
  ASSUME IInv, SoloInv, OneAtATime, NEW q \in Thread, Rekey(q)
  PROVE  SoloInv'
PROOF
  <1> USE VaultAssumption, KeyAssumption
  <1>1. PICK r \in Running : r = req[q] /\ r.pc = "rekey" /\ RequestOK(r, files, strays)
    BY RequestAt DEF Rekey
  <1>2. r.op = "recover" /\ r.newKey \in Key /\ r.vault \in VaultId /\ r.path \in Path
    BY <1>1 DEF Running, RequestOK, CreateOK
  <1>3. /\ SaltsOK(r) /\ MemoryOK(r) /\ FlightOK(r)
        /\ UNCHANGED <<listing, manager>> /\ listing # Torn /\ strays = {} /\ strays' = {}
    BY <1>1 DEF Rekey, SoloInv, SoloOK
  <1>4. files \in Files /\ req \in [Thread -> {Idle} \cup Running]
    BY DEF IInv, TypeOK, Files
  <1>5. CASE ~CanQuery(q)
    <2>1. req'[q] = Idle /\ UNCHANGED <<files, engine>>
      BY <1>4, <1>5 DEF Rekey, Done
    <2>2. SaltsOK(Idle)' /\ MemoryOK(Idle)' /\ Idle.pc = "idle"
      BY <1>1, <1>3, <2>1 DEF SaltsOK, MemoryOK, Idle
    <2>3. ~CanQuery(q)'
      BY <1>5, <2>1 DEF CanQuery, ConnectionKey
    <2> QED
      BY <1>3, <2>1, <2>2, <2>3, SoloStep DEF SoloOK, ServesOK
  <1>6. CASE CanQuery(q)
    <2> DEFINE s == [r EXCEPT !.pc = "save"]
    <2>1. /\ engine # Nil /\ engine.path = r.path /\ engine.key = r.key /\ r.key # Plain
          /\ listing[r.vault] # Nil /\ listing[r.vault].path = r.path
      BY <1>1, <1>2, <1>3, <1>6 DEF FlightOK, CanQuery
    <2>2. /\ req'[q] = s
          /\ files' = [files EXCEPT ![r.path] = r.newKey]
          /\ engine' = [engine EXCEPT !.rekeyed[q] = r.newKey]
      BY <1>1, <1>4, <1>6, <2>1 DEF Rekey, NextStage
    <2>3. engine'.path = r.path
      <3>1. engine \in [path: Path, key: Key \cup {Plain}, rekeyed: [Thread -> Key \cup {Nil}]]
        BY <2>1 DEF IInv, TypeOK
      <3> QED
        BY <2>1, <2>2, <3>1
    <2>4. /\ s.pc = "save" /\ s.op = "recover" /\ s.vault = r.vault /\ s.path = r.path
          /\ s.key = r.key /\ s.newKey = r.newKey /\ s.loaded = r.loaded
      BY <1>2 DEF Running
    <2> HIDE DEF s
    <2>5. ASSUME NEW v \in VaultId, listing[v] # Nil, v # r.vault
          PROVE  files'[listing[v].path] = files[listing[v].path]
      <3>1. listing[v].path \in Path /\ listing[v].path # r.path
        BY <1>2, <1>3, <2>1, <2>5, ListedEntry
      <3> QED
        BY <1>2, <1>4, <2>2, <3>1 DEF Files
    <2>6. SaltsOK(s)'
      BY <1>1, <1>3, <2>4, <2>5 DEF SaltsOK
    <2>7. MemoryOK(s)'
      BY <1>1, <1>3, <2>4, <2>5 DEF MemoryOK
    <2>8. files'[r.path] = r.newKey
      BY <1>2, <1>4, <2>2 DEF Files
    <2>9. FlightOK(s)'
      BY <1>1, <1>2, <1>3, <2>1, <2>3, <2>4, <2>8 DEF FlightOK
    <2> QED
      BY <1>3, <2>2, <2>4, <2>6, <2>7, <2>9, SoloStep DEF SoloOK
  <1> QED
    BY <1>5, <1>6

(* What is written to the state file is the salt of the key in force.      *)
LEMMA SoloSave ==
  ASSUME IInv, SoloInv, OneAtATime, NEW q \in Thread, SaveState(q)
  PROVE  SoloInv'
PROOF
  <1> USE VaultAssumption, KeyAssumption
  <1>1. PICK r \in Running : r = req[q] /\ r.pc = "save" /\ RequestOK(r, files, strays)
    BY RequestAt DEF SaveState
  <1>2. /\ r.op \in {"create", "recover"} /\ r.vault \in VaultId
        /\ r.key \in Key \cup {Plain} /\ r.newKey \in Key \cup {Plain}
    BY <1>1 DEF Running, RequestOK
  <1>3. /\ SaltsOK(r) /\ MemoryOK(r) /\ FlightOK(r) /\ listing # Torn /\ strays' = {}
        /\ UNCHANGED <<files, engine, manager>> /\ listing' = Saved(r)
    BY <1>1 DEF SaveState, SoloInv, SoloOK
  <1>4. listing \in Listing /\ listing' \in Listing /\ listing' # Torn
    BY <1>1, <1>3, SavedFits DEF IInv, TypeOK
  <1> DEFINE s == [r EXCEPT !.pc = "activate"]
  <1>5. req'[q] = s
    BY <1>1 DEF SaveState, NextStage, IInv, TypeOK
  <1>6. /\ s.pc = "activate" /\ s.op = r.op /\ s.vault = r.vault /\ s.path = r.path
        /\ s.key = r.key /\ s.newKey = r.newKey
    BY DEF Running
  <1> HIDE DEF s
  <1>7. r.loaded = listing /\ files[r.path] = r.newKey /\ engine.path = r.path
    BY <1>1, <1>3 DEF FlightOK
  <1>8. \A v \in VaultId : v # r.vault => listing'[v] = listing[v]
    BY <1>3, <1>4, <1>7 DEF Saved, Listing
  <1>9. /\ listing'[r.vault] # Nil /\ listing'[r.vault].path = r.path
        /\ listing'[r.vault].type = "secure" => files[r.path].salt = listing'[r.vault].salt
    <2>1. CASE r.op = "create"
      <3> DEFINE entry == [path |-> r.path,
                           type |-> IF r.key = Plain THEN "open" ELSE "secure",
                           salt |-> IF r.key = Plain THEN Nil ELSE r.key.salt]
      <3>1. listing'[r.vault] = entry
        BY <1>2, <1>3, <1>4, <1>7, <2>1 DEF Saved, Listing
      <3>2. entry \in Entry
        BY <1>2 DEF Entry, Key, Running
      <3>3. r.newKey = r.key
        BY <1>3, <2>1 DEF FlightOK
      <3> QED
        BY <1>7, <3>1, <3>2, <3>3
    <2>2. CASE r.op = "recover"
      <3>1. listing[r.vault] \in Entry /\ listing[r.vault].path = r.path
        BY <1>1, <1>2, <1>3, <1>4, <2>2 DEF FlightOK, Listing
      <3>2. listing'[r.vault] = [listing[r.vault] EXCEPT !.salt = r.newKey.salt]
        BY <1>2, <1>3, <1>4, <1>7, <2>2 DEF Saved, Listing
      <3>3. r.newKey.salt \in Salt
        BY <1>1, <2>2 DEF RequestOK, Key
      <3>4. PICK entry \in Entry : entry = [listing[r.vault] EXCEPT !.salt = r.newKey.salt]
        BY <3>1, <3>3 DEF Entry
      <3>5. entry.path = r.path /\ entry.salt = r.newKey.salt
        BY <3>1, <3>4 DEF Entry
      <3> QED
        BY <1>7, <3>2, <3>4, <3>5
    <2> QED
      BY <1>2, <2>1, <2>2
  <1>10. SaltsOK(s)'
    BY <1>3, <1>8, <1>9 DEF SaltsOK
  <1>11. MemoryOK(s)'
    <2>1. CASE r.op = "create"
      <3>1. listing[r.vault] = Nil
        BY <1>1, <1>3, <2>1 DEF FlightOK
      <3> QED
        BY <1>3, <1>8, <2>1, <3>1 DEF MemoryOK
    <2>2. CASE r.op = "recover"
      BY <1>3, <1>6, <1>8, <1>9, <2>2 DEF MemoryOK
    <2> QED
      BY <1>2, <2>1, <2>2
  <1>12. FlightOK(s)'
    BY <1>3, <1>6, <1>7, <1>9 DEF FlightOK
  <1> QED
    BY <1>3, <1>4, <1>5, <1>6, <1>10, <1>11, <1>12, SoloStep DEF SoloOK

(* The vault that becomes active is the one whose file the engine has open,*)
(* and the key in memory is the one that opens it.                         *)
LEMMA SoloActivate ==
  ASSUME IInv, SoloInv, OneAtATime, NEW q \in Thread, Activate(q)
  PROVE  SoloInv'
PROOF
  <1> USE VaultAssumption, KeyAssumption
  <1>1. PICK r \in Running : r = req[q] /\ r.pc = "activate" /\ RequestOK(r, files, strays)
    BY RequestAt DEF Activate
  <1>2. r.vault \in VaultId
    BY DEF Running
  <1>3. /\ SaltsOK(r) /\ FlightOK(r) /\ listing # Torn /\ strays = {} /\ strays' = {}
        /\ UNCHANGED <<files, engine, listing>> /\ req'[q] = Idle
    BY <1>1 DEF Activate, Done, SoloInv, SoloOK, IInv, TypeOK
  <1>4. manager' = [active |-> r.vault,
                    current |-> IF r.newKey = Plain THEN Nil ELSE r.newKey, ready |-> TRUE]
    BY <1>1 DEF Activate
  <1>5. listing[r.vault] # Nil /\ listing[r.vault].path = r.path /\ engine.path = r.path
        /\ files[r.path] = r.newKey
    BY <1>1, <1>3 DEF FlightOK
  <1>6. listing[r.vault].type = "secure" => r.newKey # Plain
    BY <1>2, <1>3, <1>5, ListedEntry DEF EntryOK
  <1>7. SaltsOK(Idle)' /\ MemoryOK(Idle)' /\ Idle.pc = "idle"
    BY <1>1, <1>2, <1>3, <1>4, <1>5, <1>6 DEF SaltsOK, MemoryOK, Idle
  <1>8. ServesOK(q)'
    BY <1>3, <1>4, <1>5 DEF ServesOK
  <1> QED
    BY <1>3, <1>7, <1>8, SoloStep DEF SoloOK

(* A restart opens an open vault and shows it as active, or locks.         *)
LEMMA SoloRestart ==
  ASSUME IInv, SoloInv, OneAtATime, Restart
  PROVE  SoloInv'
PROOF
  <1>1. \A q \in Thread : req[q] = Idle /\ req[q].pc = "idle" /\ req'[q] = Idle
    BY DEF Restart, OneAtATime, Idle
  <1>2. listing' = listing /\ files' = files /\ listing # Torn /\ strays' = {}
    BY <1>1 DEF Restart, SoloInv
  <1> SUFFICES ASSUME NEW q \in Thread
               PROVE  SoloOK(q)'
    BY <1>2 DEF SoloInv
  <1>3. SaltsOK(Idle)' /\ Idle.pc = "idle"
    BY <1>1, <1>2 DEF SoloInv, SoloOK, SaltsOK, Idle
  <1>4. CASE \E v \in VaultId : listing'[v] # Nil /\ listing'[v].type = "open"
    <2>1. PICK v \in VaultId :
            /\ listing[v] # Nil /\ listing[v].type = "open"
            /\ engine' = NewEngine(listing[v].path, Plain)
            /\ manager' = [active |-> v, current |-> Nil, ready |-> TRUE]
      BY <1>2, <1>4 DEF Restart
    <2>2. MemoryOK(Idle)'
      BY <1>2, <2>1 DEF MemoryOK
    <2>3. ServesOK(q)'
      BY <1>2, <2>1 DEF ServesOK, NewEngine
    <2> QED
      BY <1>1, <1>3, <2>2, <2>3 DEF SoloOK
  <1>5. CASE engine' = Nil /\ manager' = Locked
    BY <1>1, <1>3, <1>5 DEF SoloOK, MemoryOK, ServesOK, CanQuery, Locked
  <1> QED
    BY <1>2, <1>4, <1>5 DEF Restart

(* One request at a time, every step keeps keys and engine in agreement.   *)
LEMMA SoloKeeps ==
  ASSUME IInv, SoloInv, OneAtATime, [Next]_vars
  PROVE  SoloInv'
PROOF
  <1>1. CASE UNCHANGED vars
    BY <1>1 DEF vars, SoloInv, SoloOK, SaltsOK, MemoryOK, ServesOK, CanQuery, ConnectionKey,
                FlightOK
  <1>2. CASE Restart
    BY <1>2, SoloRestart
  <1>3. ASSUME NEW q \in Thread,
               \/ \E v \in VaultId, key \in Key \cup {Plain} : BeginCreate(q, v, key)
               \/ \E v \in VaultId, pass \in Passphrase : BeginUnlock(q, v, pass)
               \/ \E v \in VaultId, phrase, newKey \in Key : BeginRecover(q, v, phrase, newKey)
        PROVE  SoloInv'
    BY <1>3, SoloBegins
  <1>4. ASSUME NEW q \in Thread,
               \/ InitDatabase(q) \/ CreateTables(q) \/ RunMigrations(q)
               \/ Rekey(q) \/ SaveState(q) \/ Activate(q)
        PROVE  SoloInv'
    BY <1>4, SoloInit, SoloTables, SoloMigrate, SoloRekey, SoloSave, SoloActivate
  <1> HIDE DEF IInv
  <1> QED
    BY <1>1, <1>2, <1>3, <1>4 DEF Next

(* And so they are in every state.                                         *)
LEMMA SoloInvariance == OneAtATime => (Spec => []SoloInv)
PROOF
  <1> SUFFICES ASSUME OneAtATime
               PROVE  Spec => []SoloInv
    OBVIOUS
  <1>1. Init => SoloInv
    BY KeyAssumption
    DEF Init, Locked, Idle, SoloInv, SoloOK, SaltsOK, MemoryOK, ServesOK, CanQuery, Listing
  <1>2. IInv /\ SoloInv /\ [Next]_vars => SoloInv'
    BY SoloKeeps
  <1> QED
    BY <1>1, <1>2, Invariance, PTL DEF Spec

(* One request at a time, through creations, unlocks, recoveries with any  *)
(* phrase, and restarts: the state file has the salt of every secure       *)
(* vault's key, and the key in memory opens the active vault               *)
(* (recover_vault, unlock_vault, verify_passphrase).                       *)
THEOREM KeysStayAgreed == OneAtATime => (Spec => []KeysAgree)
PROOF
  <1> SUFFICES ASSUME OneAtATime
               PROVE  Spec => []KeysAgree
    OBVIOUS
  <1>1. SoloInv => KeysAgree
    <2> SUFFICES ASSUME SoloInv, Quiet
                 PROVE  KeysAgree
      BY DEF KeysAgree
    <2>1. PICK q \in Thread : req[q].pc = "idle" /\ SoloOK(q)
      BY DEF OneAtATime, Quiet, Idle, SoloInv
    <2>2. SaltsOK(req[q]) /\ MemoryOK(req[q])
      BY <2>1 DEF SoloOK
    <2>3. \A v \in VaultId : Listed(v) /\ listing[v].type = "secure" =>
            files[listing[v].path].salt = listing[v].salt
      BY <2>1, <2>2 DEF SaltsOK, Listed
    <2>4. manager.ready /\ listing[manager.active].type = "secure" =>
            files[listing[manager.active].path] = manager.current
      BY <2>1, <2>2 DEF MemoryOK
    <2> QED
      BY <2>3, <2>4 DEF KeysAgree
  <1> QED
    BY <1>1, SoloInvariance, PTL

(* One request at a time, queries that can be executed go to the vault that*)
(* is shown as active, also after a recovery that failed                   *)
(* (DatabaseManager.initialize_encrypted, _activate).                      *)
THEOREM ServesTheActive == OneAtATime => (Spec => []ServesActiveVault)
PROOF
  <1>1. SoloInv => ServesActiveVault
    <2> SUFFICES ASSUME SoloInv, NEW q \in Thread, Quiet, CanQuery(q)
                 PROVE  manager.ready /\ engine.path = listing[manager.active].path
      BY DEF ServesActiveVault
    <2>1. req[q].pc = "idle" /\ SoloOK(q)
      BY DEF Quiet, Idle, SoloInv
    <2> QED
      BY <2>1 DEF SoloOK, ServesOK
  <1> QED
    BY <1>1, SoloInvariance, PTL
=============================================================================
