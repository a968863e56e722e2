----------------------------- MODULE Categories -----------------------------
(***************************************************************************)
(* The categories of one user: CategoryService, its repository, and of     *)
(* TransactionService what files a row under a category.  A row carries    *)
(* the NAME of its category, not its id, and nothing follows a rename.     *)
(*                                                                         *)
(* A request is one step, as in Ledger.  A row stands for an income or an  *)
(* expense, or for both legs of a transfer, which share a category.        *)
(***************************************************************************)
EXTENDS Naturals, FiniteSets

CONSTANTS
  CatId, TxId,
  CatName,       \* names, Reserved among them
  Reserved,      \* TRANSFER_CATEGORY_NAME
  Defaults,      \* names of DEFAULT_CATEGORIES
  DefaultType,   \* name -> type
  DefaultParent, \* name -> name of the parent, Nil for a top-level category
  Nil

CategoryType == {"income", "expense", "savings", "transfer"}

ASSUME NamesAssumption == Reserved \in CatName /\ Defaults \subseteq CatName
ASSUME DefaultsAssumption ==
  /\ DefaultType \in [Defaults -> CategoryType]
  /\ DefaultParent \in [Defaults -> Defaults \cup {Nil}]
  /\ \A n \in Defaults : DefaultParent[n] # Nil => DefaultParent[DefaultParent[n]] = Nil

VARIABLES
  cats,  \* CatId -> the row of the table "category", Nil if there is none
  rows,  \* TxId -> the row of the table "transaction"
  \* Auxiliary variables, which no guard reads:
  filed,  \* TxId -> the category the row was filed under
  filedAs \* TxId -> the type that category had then

vars == <<cats, rows, filed, filedAs>>

Cat == [name: CatName, type: CategoryType, parent: CatId \cup {Nil}]
ASSUME NilAssumption == Nil \notin CatId \cup CatName \cup CategoryType \cup Cat

Row == [state: {"unused", "live", "deleted"}, category: CatName \cup {Nil}, leg: BOOLEAN]

Exists(c) == cats[c] # Nil
Named(n) == {c \in CatId : Exists(c) /\ cats[c].name = n}
HasChildren(c) == \E d \in CatId : Exists(d) /\ cats[d].parent = c

(* The constraint on (user_id, name). *)
NameFree(n, c) == Named(n) \subseteq {c}

(* Slip: the legs of transfers are not looked at. *)
InUseByOwnRows(n) ==
  \E t \in TxId : rows[t].state = "live" /\ rows[t].category = n /\ ~rows[t].leg

(* delete: live rows that hold the name. *)
InUse(n) == \E t \in TxId : rows[t].state = "live" /\ rows[t].category = n

Init ==
  /\ cats = [c \in CatId |-> Nil]
  /\ rows = [t \in TxId |-> [state |-> "unused", category |-> Nil, leg |-> FALSE]]
  /\ filed = [t \in TxId |-> Nil]
  /\ filedAs = [t \in TxId |-> Nil]

-----------------------------------------------------------------------------
(* Slip: a parent is not asked whether it has one itself. *)
ValidParentAnyLevel(p, c) == Exists(p) /\ p # c

(* _validate_parent *)
ValidParent(p, c) ==
  /\ Exists(p)
  /\ p # c
  /\ cats[p].parent = Nil

(* seed_defaults: the first listing of a user without categories. *)
Seed ==
  /\ \A c \in CatId : ~Exists(c)
  /\ \E id \in [Defaults -> CatId] :
       /\ \A m, n \in Defaults : m # n => id[m] # id[n]
       /\ cats' = [c \in CatId |->
            IF \E n \in Defaults : id[n] = c
            THEN LET n == CHOOSE n \in Defaults : id[n] = c
                 IN  [name |-> n, type |-> DefaultType[n],
                      parent |-> IF DefaultParent[n] = Nil THEN Nil
                                 ELSE id[DefaultParent[n]]]
            ELSE Nil]
  /\ UNCHANGED <<rows, filed, filedAs>>

Create(c, n, k, p) ==
  /\ ~Exists(c)
  /\ p # Nil => ValidParent(p, Nil)
  /\ NameFree(n, c)
  /\ cats' = [cats EXCEPT ![c] = [name |-> n, type |-> k, parent |-> p]]
  /\ UNCHANGED <<rows, filed, filedAs>>

(***************************************************************************)
(* update(): any of name, type and parent; clear_parent wins over a parent *)
(* that is given.  A category of type transfer is refused.                 *)
(***************************************************************************)
Update(c, n, k, p, clear) ==
  /\ Exists(c)
  /\ cats[c].type # "transfer"
  /\ (p # Nil /\ ~clear) => ~HasChildren(c) /\ ValidParent(p, c)
  /\ n # Nil => NameFree(n, c)
  /\ cats' = [cats EXCEPT ![c] =
       [name |-> IF n = Nil THEN @.name ELSE n,
        type |-> IF k = Nil THEN @.type ELSE k,
        parent |-> IF clear THEN Nil ELSE IF p # Nil THEN p ELSE @.parent]]
  /\ UNCHANGED <<rows, filed, filedAs>>

Delete(c) ==
  /\ Exists(c)
  /\ ~InUse(cats[c].name)
  /\ ~HasChildren(c)
  /\ cats' = [cats EXCEPT ![c] = Nil]
  /\ UNCHANGED <<rows, filed, filedAs>>

-----------------------------------------------------------------------------
(* Slip: the row names its category by id. *)
PutId(t, c, leg) ==
  /\ rows' = [rows EXCEPT ![t] = [state |-> "live", category |-> c, leg |-> leg]]
  /\ filed' = [filed EXCEPT ![t] = c]
  /\ filedAs' = [filedAs EXCEPT ![t] = cats'[c].type]

Put(t, c, leg) ==
  /\ rows' = [rows EXCEPT ![t] = [state |-> "live", category |-> cats'[c].name, leg |-> leg]]
  /\ filed' = [filed EXCEPT ![t] = c]
  /\ filedAs' = [filedAs EXCEPT ![t] = cats'[c].type]

(* TransactionService.create and the category of update. *)
File(t, c) ==
  /\ Exists(c)
  /\ cats[c].type # "transfer"
  /\ \/ rows[t].state = "unused"
     \/ rows[t].state = "live" /\ ~rows[t].leg
  /\ UNCHANGED cats
  /\ Put(t, c, FALSE)

(* transfer(), with get_or_create_transfer_category: a category that has   *)
(* the name will do, whatever its type.                                    *)
FileTransfer(t, c) ==
  /\ rows[t].state = "unused"
  /\ IF Named(Reserved) # {}
     THEN c \in Named(Reserved) /\ UNCHANGED cats
     ELSE /\ ~Exists(c)
          /\ cats' = [cats EXCEPT ![c] =
                       [name |-> Reserved, type |-> "transfer", parent |-> Nil]]
  /\ Put(t, c, TRUE)

DeleteRow(t) ==
  /\ rows[t].state = "live"
  /\ rows' = [rows EXCEPT ![t].state = "deleted"]
  /\ UNCHANGED <<cats, filed, filedAs>>

Next ==
  \/ Seed
  \/ \E c \in CatId, n \in CatName, k \in CategoryType, p \in CatId \cup {Nil} : Create(c, n, k, p)
  \/ \E c \in CatId, n \in CatName \cup {Nil}, k \in CategoryType \cup {Nil},
        p \in CatId \cup {Nil}, clear \in BOOLEAN : Update(c, n, k, p, clear)
  \/ \E c \in CatId : Delete(c)
  \/ \E t \in TxId, c \in CatId : File(t, c) \/ FileTransfer(t, c)
  \/ \E t \in TxId : DeleteRow(t)

Spec == Init /\ [][Next]_vars

-----------------------------------------------------------------------------
TypeOK ==
  /\ cats \in [CatId -> Cat \cup {Nil}]
  /\ rows \in [TxId -> Row]
  /\ filed \in [TxId -> CatId \cup {Nil}]
  /\ filedAs \in [TxId -> CategoryType \cup {Nil}]

(* "Sub-categories nest exactly one level deep": a parent exists and has   *)
(* no parent, through moves, deletions and seeding.                        *)
NestsOneLevel ==
  \A c \in CatId : Exists(c) /\ cats[c].parent # Nil =>
    Exists(cats[c].parent) /\ cats[cats[c].parent].parent = Nil

(* Whoever looks up the category of a leg by the name in its row (the      *)
(* lists of names per type that the analytics sum over) finds the category *)
(* the leg was filed under, and that one is of type transfer: provided it  *)
(* was when the leg was filed.  Nothing that is done to any category in    *)
(* between, and no new one, comes between a transfer and its category.     *)
LegsKeepCategory ==
  \A t \in TxId :
    rows[t].state = "live" /\ rows[t].leg /\ filedAs[t] = "transfer" =>
      Named(rows[t].category) = {filed[t]} /\ cats[filed[t]].type = "transfer"

(* "The reserved Transfer category cannot be modified", and transfer legs  *)
(* depend on it (update): the category a live leg was filed under keeps    *)
(* its name and its type.                                                  *)
LegsCategoryIsKept ==
  \A t \in TxId : rows[t].state = "live" /\ rows[t].leg /\ Exists(filed[t]) =>
    /\ cats'[filed[t]] # Nil
    /\ cats'[filed[t]].name = cats[filed[t]].name
    /\ cats'[filed[t]].type = cats[filed[t]].type

ReservedStays == [][LegsCategoryIsKept]_vars

(* "Categories in use by transactions ... cannot be deleted": a category   *)
(* goes only when no live row was filed under it.                          *)
NoneFiledIsDeleted ==
  \A t \in TxId : rows[t].state = "live" /\ Exists(filed[t]) => cats'[filed[t]] # Nil

CategoriesInUseStay == [][NoneFiledIsDeleted]_vars
=============================================================================
