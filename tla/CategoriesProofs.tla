-------------------------- MODULE CategoriesProofs --------------------------
(***************************************************************************)
(* Categories nest one level deep and transfers keep their category, for   *)
(* any set of ids, names and defaults.                                     *)
(***************************************************************************)
EXTENDS Categories, TLAPS

(* Every category row has the shape of its table. *)
CatsOK == cats \in [CatId -> Cat \cup {Nil}]

IInv == CatsOK /\ NestsOneLevel

(* Seeding gives a sub-category the id that its parent's name was given.   *)
LEMMA SeedNests ==
  ASSUME CatsOK, Seed
  PROVE  CatsOK' /\ NestsOneLevel'
PROOF
  <1> USE DefaultsAssumption, NamesAssumption, NilAssumption
  <1>1. PICK id \in [Defaults -> CatId] :
          /\ \A m, n \in Defaults : m # n => id[m] # id[n]
          /\ cats' = [c \in CatId |->
               IF \E n \in Defaults : id[n] = c
               THEN LET n == CHOOSE n \in Defaults : id[n] = c
                    IN  [name |-> n, type |-> DefaultType[n],
                         parent |-> IF DefaultParent[n] = Nil THEN Nil
                                    ELSE id[DefaultParent[n]]]
               ELSE Nil]
    BY DEF Seed
  <1>2. ASSUME NEW n \in Defaults
        PROVE  /\ cats'[id[n]] \in Cat
               /\ cats'[id[n]].parent = IF DefaultParent[n] = Nil THEN Nil
                                        ELSE id[DefaultParent[n]]
    <2> DEFINE m == CHOOSE m \in Defaults : id[m] = id[n]
               row == [name |-> n, type |-> DefaultType[n],
                       parent |-> IF DefaultParent[n] = Nil THEN Nil
                                  ELSE id[DefaultParent[n]]]
    <2>1. m = n
      BY <1>1
    <2>2. cats'[id[n]] = row
      BY <1>1, <2>1
    <2>3. DefaultParent[n] # Nil => id[DefaultParent[n]] \in CatId
      BY <1>1
    <2>4. row \in Cat
      BY <2>3 DEF Cat
    <2>5. row.parent = IF DefaultParent[n] = Nil THEN Nil ELSE id[DefaultParent[n]]
      OBVIOUS
    <2> QED
      BY <2>2, <2>4, <2>5
  <1>3. \A c \in CatId : cats'[c] # Nil => \E n \in Defaults : c = id[n]
    BY <1>1
  <1>4. CatsOK'
    BY <1>1, <1>2, <1>3 DEF CatsOK
  <1>5. ASSUME NEW c \in CatId, cats'[c] # Nil, cats'[c].parent # Nil
        PROVE  cats'[cats'[c].parent] # Nil /\ cats'[cats'[c].parent].parent = Nil
    <2>1. PICK n \in Defaults : c = id[n]
      BY <1>3, <1>5
    <2>2. cats'[c].parent = IF DefaultParent[n] = Nil THEN Nil ELSE id[DefaultParent[n]]
      BY <1>2, <2>1
    <2>3. DefaultParent[n] # Nil /\ cats'[c].parent = id[DefaultParent[n]]
      BY <1>5, <2>2
    <2>4. PICK q \in Defaults : q = DefaultParent[n]
      BY <2>3
    <2>5. DefaultParent[q] = Nil
      BY <2>3, <2>4
    <2>6. cats'[id[q]].parent = IF DefaultParent[q] = Nil THEN Nil ELSE id[DefaultParent[q]]
      BY <1>2
    <2>7. cats'[id[q]] # Nil
      BY <1>2
    <2> QED
      BY <2>3, <2>4, <2>5, <2>6, <2>7
  <1> QED
    BY <1>4, <1>5 DEF NestsOneLevel, Exists

(* A category that gets a parent has no children, and its parent none.     *)
LEMMA StepNests ==
  ASSUME IInv, [Next]_vars
  PROVE  IInv'
PROOF
  <1> USE NamesAssumption, NilAssumption
  <1> USE DEF IInv
  <1>1. CASE Seed
    BY <1>1, SeedNests
  <1>2. ASSUME NEW c \in CatId, NEW n \in CatName, NEW k \in CategoryType,
               NEW p \in CatId \cup {Nil}, Create(c, n, k, p)
        PROVE  IInv'
    <2>1. cats' = [cats EXCEPT ![c] = [name |-> n, type |-> k, parent |-> p]]
      BY <1>2 DEF Create
    <2>2. [name |-> n, type |-> k, parent |-> p] \in Cat
      BY DEF Cat
    <2>3. CatsOK'
      BY <2>1, <2>2 DEF CatsOK
    <2>4. NestsOneLevel'
      BY <1>2, <2>1, <2>2 DEF CatsOK, NestsOneLevel, Exists, Create, ValidParent
    <2> QED
      BY <2>3, <2>4
  <1>3. ASSUME NEW c \in CatId, NEW n \in CatName \cup {Nil},
               NEW k \in CategoryType \cup {Nil}, NEW p \in CatId \cup {Nil},
               NEW clear \in BOOLEAN, Update(c, n, k, p, clear)
        PROVE  IInv'
    <2> DEFINE row == [name |-> IF n = Nil THEN cats[c].name ELSE n,
                       type |-> IF k = Nil THEN cats[c].type ELSE k,
                       parent |-> IF clear THEN Nil
                                  ELSE IF p # Nil THEN p ELSE cats[c].parent]
    <2>1. cats[c] \in Cat
      BY <1>3 DEF Update, Exists, CatsOK
    <2>2. row \in Cat
      BY <2>1 DEF Cat
    <2>3. cats' = [cats EXCEPT ![c] = row]
      BY <1>3 DEF Update
    <2> HIDE DEF row
    <2>4. CatsOK'
      BY <2>2, <2>3 DEF CatsOK
    <2>5. \/ row.parent \in {Nil, cats[c].parent}
          \/ row.parent = p /\ ~HasChildren(c) /\ ValidParent(p, c)
      BY <1>3 DEF row, Update
    <2>6. ASSUME NEW d \in CatId, cats'[d] # Nil, cats'[d].parent # Nil
          PROVE  cats'[cats'[d].parent] # Nil /\ cats'[cats'[d].parent].parent = Nil
      <3>1. cats[c] # Nil /\ row # Nil
        BY <1>3, <2>2 DEF Update, Exists
      <3>2. CASE d = c
        <4>1. cats'[d].parent = row.parent
          BY <2>3, <3>2 DEF CatsOK
        <4>2. CASE row.parent = cats[c].parent
          BY <2>3, <2>6, <3>1, <4>1, <4>2 DEF CatsOK, NestsOneLevel, Exists
        <4>3. CASE row.parent = p /\ ValidParent(p, c)
          BY <2>3, <2>6, <4>1, <4>3 DEF CatsOK, ValidParent, Exists
        <4> QED
          BY <2>5, <2>6, <4>1, <4>2, <4>3
      <3>3. CASE d # c
        <4>1. cats'[d] = cats[d]
          BY <2>3, <3>3 DEF CatsOK
        <4>2. PICK q \in CatId : q = cats[d].parent
          BY <2>6, <4>1 DEF CatsOK, Cat
        <4>3. cats[q] # Nil /\ cats[q].parent = Nil
          BY <2>6, <4>1, <4>2 DEF NestsOneLevel, Exists
        <4>4. CASE q = c
          <5>1. cats[d] # Nil /\ HasChildren(c)
            BY <2>6, <4>1, <4>2, <4>4 DEF HasChildren, Exists
          <5>2. row.parent = Nil
            BY <2>5, <4>3, <4>4, <5>1
          <5> QED
            BY <2>3, <3>1, <4>1, <4>2, <4>4, <5>2 DEF CatsOK
        <4>5. CASE q # c
          BY <2>3, <4>1, <4>2, <4>3, <4>5 DEF CatsOK
        <4> QED
          BY <4>4, <4>5
      <3> QED
        BY <3>2, <3>3
    <2> QED
      BY <2>4, <2>6 DEF NestsOneLevel, Exists
  <1>4. ASSUME NEW c \in CatId, Delete(c)
        PROVE  IInv'
    <2>1. cats' = [cats EXCEPT ![c] = Nil] /\ ~HasChildren(c)
      BY <1>4 DEF Delete
    <2> QED
      BY <2>1 DEF CatsOK, NestsOneLevel, Exists, HasChildren
  <1>5. ASSUME NEW t \in TxId, NEW c \in CatId, FileTransfer(t, c)
        PROVE  IInv'
    <2>1. CASE UNCHANGED cats
      BY <2>1 DEF CatsOK, NestsOneLevel, Exists
    <2>2. CASE /\ ~Exists(c)
               /\ cats' = [cats EXCEPT ![c] =
                            [name |-> Reserved, type |-> "transfer", parent |-> Nil]]
      <3>1. [name |-> Reserved, type |-> "transfer", parent |-> Nil] \in Cat
        BY DEF Cat, CategoryType
      <3> QED
        BY <2>2, <3>1 DEF CatsOK, NestsOneLevel, Exists
    <2> QED
      BY <1>5, <2>1, <2>2 DEF FileTransfer
  <1>6. ASSUME UNCHANGED cats
        PROVE  IInv'
    BY <1>6 DEF CatsOK, NestsOneLevel, Exists
  <1>7. ASSUME NEW t \in TxId, NEW c \in CatId, File(t, c)
        PROVE  IInv'
    BY <1>6, <1>7 DEF File
  <1>8. ASSUME NEW t \in TxId, DeleteRow(t)
        PROVE  IInv'
    BY <1>6, <1>8 DEF DeleteRow
  <1>9. CASE UNCHANGED vars
    BY <1>6, <1>9 DEF vars
  <1> HIDE DEF IInv
  <1> QED
    BY <1>1, <1>2, <1>3, <1>4, <1>5, <1>7, <1>8, <1>9 DEF Next

(* Sub-categories never nest deeper than one level (category_service.py,   *)
(* _validate_parent and update).                                           *)
THEOREM NestingHolds == Spec => []NestsOneLevel
PROOF
  <1>1. Init => IInv
    BY NilAssumption DEF Init, IInv, CatsOK, NestsOneLevel, Exists
  <1>2. IInv /\ [Next]_vars => IInv'
    BY StepNests
  <1>3. IInv => NestsOneLevel
    BY DEF IInv
  <1> QED
    BY <1>1, <1>2, <1>3, PTL DEF Spec

-----------------------------------------------------------------------------
(* The rows and what they were filed under have their shape, whichever     *)
(* categories come and go.                                                 *)
RowsOK ==
  /\ rows \in [TxId -> Row]
  /\ filed \in [TxId -> CatId \cup {Nil}]
  /\ filedAs \in [TxId -> CategoryType \cup {Nil}]

(* What put() stores is a row of the table. *)
LEMMA PutKeepsRows ==
  ASSUME RowsOK, NEW t \in TxId, NEW c \in CatId, NEW leg \in BOOLEAN,
         cats'[c] \in Cat, Put(t, c, leg)
  PROVE  RowsOK'
PROOF
  <1>1. [state |-> "live", category |-> cats'[c].name, leg |-> leg] \in Row
    BY DEF Cat, Row
  <1>2. cats'[c].type \in CategoryType
    BY DEF Cat
  <1> QED
    BY <1>1, <1>2 DEF Put, RowsOK

(* No step spoils a row. *)
LEMMA StepKeepsRows ==
  ASSUME IInv, IInv', RowsOK, [Next]_vars
  PROVE  RowsOK'
PROOF
  <1>1. ASSUME UNCHANGED <<rows, filed, filedAs>>
        PROVE  RowsOK'
    BY <1>1 DEF RowsOK
  <1>2. ASSUME NEW t \in TxId, NEW c \in CatId, File(t, c)
        PROVE  RowsOK'
    <2>1. cats'[c] \in Cat
      BY <1>2 DEF File, Exists, IInv, CatsOK
    <2> QED
      BY <1>2, <2>1, PutKeepsRows DEF File
  <1>3. ASSUME NEW t \in TxId, NEW c \in CatId, FileTransfer(t, c)
        PROVE  RowsOK'
    <2>1. cats'[c] # Nil
      BY <1>3, NilAssumption, NamesAssumption
         DEF FileTransfer, Named, Exists, IInv, CatsOK, Cat, CategoryType
    <2>2. cats'[c] \in Cat
      BY <2>1 DEF IInv, CatsOK
    <2> QED
      BY <1>3, <2>2, PutKeepsRows DEF FileTransfer
  <1>4. ASSUME NEW t \in TxId, DeleteRow(t)
        PROVE  RowsOK'
    <2>1. [rows[t] EXCEPT !.state = "deleted"] \in Row
      BY DEF RowsOK, Row
    <2> QED
      BY <1>4, <2>1 DEF DeleteRow, RowsOK
  <1> QED
    BY <1>1, <1>2, <1>3, <1>4 DEF Next, vars, Seed, Create, Update, Delete

(* Categories and rows keep the shape of their tables (models/category.py, *)
(* models/transaction.py), and a row is filed under a category by name.    *)
THEOREM TypeCorrect == Spec => []TypeOK
PROOF
  <1>1. Init => IInv /\ RowsOK
    BY NilAssumption DEF Init, IInv, CatsOK, NestsOneLevel, Exists, RowsOK, Row
  <1>2. IInv /\ RowsOK /\ [Next]_vars => IInv' /\ RowsOK'
    BY StepNests, StepKeepsRows
  <1>3. IInv /\ RowsOK => TypeOK
    BY DEF IInv, CatsOK, RowsOK, TypeOK
  <1> QED
    BY <1>1, <1>2, <1>3, PTL DEF Spec

-----------------------------------------------------------------------------
(* The constraint on (user_id, name). *)
NamesUnique ==
  \A c, d \in CatId : Exists(c) /\ Exists(d) /\ cats[c].name = cats[d].name => c = d

(* What a name finds is what the categories with that name are. *)
LEMMA NamedIs ==
  ASSUME NEW n, NEW c \in CatId, NamesUnique, Exists(c), cats[c].name = n
  PROVE  Named(n) = {c}
PROOF
  BY Zenon DEF Named, NamesUnique

(* A name that is given is free, seeding gives each name to one category,  *)
(* and the reserved category is made only if its name finds none.          *)
LEMMA StepKeepsNames ==
  ASSUME CatsOK, NamesUnique, [Next]_vars
  PROVE  NamesUnique'
PROOF
  <1> USE DefaultsAssumption, NamesAssumption, NilAssumption
  <1>1. CASE Seed
    <2>1. PICK id \in [Defaults -> CatId] :
            /\ \A m, n \in Defaults : m # n => id[m] # id[n]
            /\ cats' = [c \in CatId |->
                 IF \E n \in Defaults : id[n] = c
                 THEN LET n == CHOOSE n \in Defaults : id[n] = c
                      IN  [name |-> n, type |-> DefaultType[n],
                           parent |-> IF DefaultParent[n] = Nil THEN Nil
                                      ELSE id[DefaultParent[n]]]
                 ELSE Nil]
      BY <1>1 DEF Seed
    <2>2. ASSUME NEW c \in CatId, cats'[c] # Nil
          PROVE  cats'[c].name \in Defaults /\ id[cats'[c].name] = c
      <3> DEFINE m == CHOOSE m \in Defaults : id[m] = c
      <3>1. \E n \in Defaults : id[n] = c
        BY <2>1, <2>2
      <3>2. m \in Defaults /\ id[m] = c
        BY <3>1
      <3>3. cats'[c].name = m
        BY <2>1, <3>1
      <3> QED
        BY <3>2, <3>3
    <2> QED
      BY <2>2 DEF NamesUnique, Exists
  <1>2. ASSUME NEW c \in CatId, NEW n, NEW k, NEW p, Create(c, n, k, p)
        PROVE  NamesUnique'
    <2>1. /\ cats' = [cats EXCEPT ![c] = [name |-> n, type |-> k, parent |-> p]]
          /\ \A d \in CatId : Exists(d) /\ cats[d].name = n => d = c
      BY <1>2 DEF Create, NameFree, Named
    <2> QED
      BY <2>1 DEF NamesUnique, Exists, CatsOK
  <1>3. ASSUME NEW c \in CatId, NEW n, NEW k, NEW p, NEW clear, Update(c, n, k, p, clear)
        PROVE  NamesUnique'
    <2> DEFINE row == [name |-> IF n = Nil THEN cats[c].name ELSE n,
                       type |-> IF k = Nil THEN cats[c].type ELSE k,
                       parent |-> IF clear THEN Nil
                                  ELSE IF p # Nil THEN p ELSE cats[c].parent]
    <2>1. /\ cats' = [cats EXCEPT ![c] = row]
          /\ row.name = IF n = Nil THEN cats[c].name ELSE n
          /\ Exists(c)
          /\ n # Nil => \A d \in CatId : Exists(d) /\ cats[d].name = n => d = c
      BY <1>3 DEF Update, NameFree, Named
    <2> HIDE DEF row
    <2> QED
      BY <2>1 DEF NamesUnique, Exists, CatsOK
  <1>4. ASSUME NEW c \in CatId, Delete(c)
        PROVE  NamesUnique'
    BY <1>4 DEF Delete, NamesUnique, Exists, CatsOK
  <1>5. ASSUME NEW t \in TxId, NEW c \in CatId, FileTransfer(t, c)
        PROVE  NamesUnique'
    <2>1. CASE UNCHANGED cats
      BY <2>1 DEF NamesUnique, Exists
    <2>2. CASE /\ Named(Reserved) = {}
               /\ cats' = [cats EXCEPT ![c] =
                            [name |-> Reserved, type |-> "transfer", parent |-> Nil]]
      <3>1. \A d \in CatId : Exists(d) => cats[d].name # Reserved
        BY <2>2 DEF Named
      <3> QED
        BY <2>2, <3>1 DEF NamesUnique, Exists, CatsOK
    <2> QED
      BY <1>5, <2>1, <2>2 DEF FileTransfer
  <1>6. CASE UNCHANGED cats
    BY <1>6 DEF NamesUnique, Exists
  <1> QED
    BY <1>1, <1>2, <1>3, <1>4, <1>5, <1>6 DEF Next, vars, File, DeleteRow

(* The part of the invariant about one leg, without the name's set. *)
LegKept(t) ==
  rows[t].state = "live" /\ rows[t].leg /\ filedAs[t] = "transfer" =>
    /\ filed[t] \in CatId /\ Exists(filed[t])
    /\ cats[filed[t]].name = rows[t].category
    /\ cats[filed[t]].type = "transfer"

LegsKept == \A t \in TxId : LegKept(t)

(* The category of a live leg is refused to updates by its type and to     *)
(* deletions by the leg, and a new leg goes to the one category of its     *)
(* name.                                                                   *)
LEMMA StepKeepsLegs ==
  ASSUME IInv, IInv', RowsOK, LegsKept, [Next]_vars
  PROVE  LegsKept'
PROOF
  <1> SUFFICES ASSUME NEW t \in TxId PROVE LegKept(t)'
    BY DEF LegsKept
  <1>0. LegKept(t)
    BY DEF LegsKept
  <1> USE NamesAssumption, NilAssumption
  <1>1. CASE Seed
    BY <1>0, <1>1 DEF Seed, LegKept
  <1>2. ASSUME NEW c \in CatId, NEW n, NEW k, NEW p, Create(c, n, k, p)
        PROVE  LegKept(t)'
    BY <1>0, <1>2 DEF Create, LegKept, Exists, IInv, CatsOK
  <1>3. ASSUME NEW c \in CatId, NEW n, NEW k, NEW p, NEW clear, Update(c, n, k, p, clear)
        PROVE  LegKept(t)'
    <2>1. /\ cats[c].type # "transfer"
          /\ \A d \in CatId : d # c => cats'[d] = cats[d]
          /\ UNCHANGED <<rows, filed, filedAs>>
      BY <1>3 DEF Update, IInv, CatsOK
    <2> QED
      BY <1>0, <2>1 DEF LegKept, Exists
  <1>4. ASSUME NEW c \in CatId, Delete(c)
        PROVE  LegKept(t)'
    <2>1. /\ rows[t].state = "live" => rows[t].category # cats[c].name
          /\ \A d \in CatId : d # c => cats'[d] = cats[d]
          /\ UNCHANGED <<rows, filed, filedAs>>
      BY <1>4 DEF Delete, InUse, IInv, CatsOK
    <2> QED
      BY <1>0, <2>1 DEF LegKept, Exists
  <1>5. ASSUME NEW s \in TxId, NEW c \in CatId, File(s, c)
        PROVE  LegKept(t)'
    <2>1. CASE s = t
      BY <1>5, <2>1 DEF File, Put, LegKept, RowsOK
    <2>2. CASE s # t
      BY <1>0, <1>5, <2>2 DEF File, Put, LegKept, RowsOK, Exists
    <2> QED
      BY <2>1, <2>2
  <1>6. ASSUME NEW s \in TxId, NEW c \in CatId, FileTransfer(s, c)
        PROVE  LegKept(t)'
    <2>1. Exists(c)'
      BY <1>6 DEF FileTransfer, Named, Exists, IInv, CatsOK, Cat, CategoryType
    <2>2. CASE s = t
      <3>1. rows'[t].category = cats'[c].name /\ filed'[t] = c /\ filedAs'[t] = cats'[c].type
        BY <1>6, <2>2 DEF FileTransfer, Put, RowsOK
      <3> QED
        BY <2>1, <3>1 DEF LegKept
    <2>3. CASE s # t
      <3>1. rows'[t] = rows[t] /\ filed'[t] = filed[t] /\ filedAs'[t] = filedAs[t]
        BY <1>6, <2>3 DEF FileTransfer, Put, RowsOK
      <3>2. \A d \in CatId : Exists(d) => cats'[d] = cats[d]
        BY <1>6 DEF FileTransfer, Exists, IInv, CatsOK
      <3> QED
        BY <1>0, <3>1, <3>2 DEF LegKept, Exists
    <2> QED
      BY <2>2, <2>3
  <1>7. ASSUME NEW s \in TxId, DeleteRow(s)
        PROVE  LegKept(t)'
    BY <1>0, <1>7 DEF DeleteRow, LegKept, Exists, RowsOK, Row
  <1>8. CASE UNCHANGED vars
    BY <1>0, <1>8 DEF vars, LegKept, Exists
  <1> QED
    BY <1>1, <1>2, <1>3, <1>4, <1>5, <1>6, <1>7, <1>8 DEF Next

(* The name in a transfer's leg leads to the category of type transfer     *)
(* that the leg was filed under, as long as the leg is live: no update,    *)
(* deletion, new category or seeding comes between (category_service.py,   *)
(* update; category_repo.py, delete, seed_defaults).                       *)
THEOREM LegsFindTheirCategory == Spec => []LegsKeepCategory
PROOF
  <1> DEFINE Inv == IInv /\ RowsOK /\ NamesUnique /\ LegsKept
  <1>1. Init => Inv
    BY NilAssumption
       DEF Init, IInv, CatsOK, NestsOneLevel, Exists, RowsOK, Row, NamesUnique,
           LegsKept, LegKept
  <1>2. Inv /\ [Next]_vars => Inv'
    <2> SUFFICES ASSUME Inv, [Next]_vars PROVE Inv'
      OBVIOUS
    <2>1. IInv'
      BY StepNests
    <2>2. RowsOK'
      BY <2>1, StepKeepsRows
    <2>3. NamesUnique'
      BY StepKeepsNames DEF IInv
    <2>4. LegsKept'
      BY <2>1, StepKeepsLegs
    <2> QED
      BY <2>1, <2>2, <2>3, <2>4
  <1>3. Inv => LegsKeepCategory
    <2> SUFFICES ASSUME NamesUnique, NEW t \in TxId, LegKept(t),
                        rows[t].state = "live", rows[t].leg, filedAs[t] = "transfer"
                 PROVE  Named(rows[t].category) = {filed[t]} /\ cats[filed[t]].type = "transfer"
      BY DEF LegsKeepCategory, LegsKept
    <2>1. /\ filed[t] \in CatId /\ Exists(filed[t])
          /\ cats[filed[t]].name = rows[t].category
          /\ cats[filed[t]].type = "transfer"
      BY DEF LegKept
    <2> QED
      BY <2>1, NamedIs
  <1> HIDE DEF Inv
  <1> QED
    BY <1>1, <1>2, <1>3, PTL DEF Spec
=============================================================================
