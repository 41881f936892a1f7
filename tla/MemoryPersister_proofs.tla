------------------------ MODULE MemoryPersister_proofs ------------------------
(***************************************************************************)
(* Proofs about MemoryPersister for any clients, tables, relations and     *)
(* bounds, and in particular for any number of overlapping operations.     *)
(***************************************************************************)
EXTENDS MemoryPersister, FiniteSetTheorems, SequenceFacts

------------------------------------------------------------------------------
\* The ids of an insert.

\* The sequencer hands out at most one id per entity, and at least one to an
\* entity without id.
LEMMA GeneratedIsCount ==
    ASSUME NEW list \in Lists, NEW i \in 1..Len(list)
    PROVE  /\ Len(list) \in Nat
           /\ Generated(list, i) \in Nat
           /\ Generated(list, Len(list)) \in Nat
           /\ Generated(list, i) <= Generated(list, Len(list))
           /\ list[i].id = 0 => Generated(list, i) > 0
  <1> DEFINE z(k) == {j \in 1..k : list[j].id = 0}
  <1>1. Len(list) \in Nat /\ i \in Nat /\ i <= Len(list)
    BY DEF Lists, Entity
  <1>2. IsFiniteSet(z(Len(list)))
    <2>1. IsFiniteSet(1..Len(list))
      BY <1>1, FS_Interval
    <2>2. z(Len(list)) \in SUBSET (1..Len(list))
      OBVIOUS
    <2> HIDE DEF z
    <2> QED BY <2>1, <2>2, FS_Subset
  <1>3. z(i) \subseteq z(Len(list))
    BY <1>1
  <1>4. /\ IsFiniteSet(z(i)) /\ Cardinality(z(i)) \in Nat
        /\ Cardinality(z(Len(list))) \in Nat
        /\ Cardinality(z(i)) <= Cardinality(z(Len(list)))
    BY <1>2, <1>3, FS_Subset, FS_CardinalityType
  <1>5. list[i].id = 0 => Cardinality(z(i)) > 0
    <2>1. SUFFICES ASSUME list[i].id = 0
                   PROVE  Cardinality(z(i)) # 0
      BY <1>4
    <2>2. i \in z(i)
      BY <1>1, <2>1
    <2> HIDE DEF z
    <2> QED BY <1>4, <2>2, FS_EmptySet
  <1> QED BY <1>1, <1>4, <1>5 DEF Generated

\* A list is not empty.
LEMMA ListLength ==
    ASSUME NEW list \in Lists
    PROVE  Len(list) \in Nat /\ Len(list) > 0
  <1>1. ASSUME NEW e \in Entity, list = <<e>>
        PROVE  Len(list) \in Nat /\ Len(list) > 0
    BY <1>1
  <1>2. ASSUME NEW e \in Entity, NEW f \in Entity, list = <<e, f>>
        PROVE  Len(list) \in Nat /\ Len(list) > 0
    BY <1>2
  <1> QED BY <1>1, <1>2 DEF Lists

\* The entities of a list have an id the caller chose, or none.
LEMMA ListEntities ==
    ASSUME NEW list \in Lists, NEW i \in 1..Len(list)
    PROVE  list[i] \in Entity
  <1>1. CASE \E e \in Entity : list = <<e>>
    BY <1>1
  <1>2. CASE \E e, f \in Entity : list = <<e, f>>
    BY <1>2
  <1> QED BY <1>1, <1>2 DEF Lists

\* Within the bound, the ids of an insert are ids.
LEMMA NewIdsAreIds ==
    ASSUME ID_SEQUENCER \in 0..MaxId, NEW r \in Inserts, ~PastMaxId(r),
           NEW i \in 1..Len(r.list)
    PROVE  /\ NewIds(r.list)[i] \in Ids
           /\ DOMAIN NewIds(r.list) = 1..Len(r.list)
  <1>1. r.list \in Lists
    BY DEF Inserts
  <1>2. r.list[i].id \in {0} \cup GivenIds
    BY <1>1, ListEntities DEF Entity
  <1>3. /\ Generated(r.list, i) \in Nat
        /\ Generated(r.list, Len(r.list)) \in Nat
        /\ Generated(r.list, i) <= Generated(r.list, Len(r.list))
        /\ r.list[i].id = 0 => Generated(r.list, i) > 0
    BY <1>1, GeneratedIsCount
  <1>4. ID_SEQUENCER + Generated(r.list, Len(r.list)) <= MaxId
    BY <1>3, IdsAssumption DEF PastMaxId
  <1>5. CASE r.list[i].id = 0
    BY <1>3, <1>4, <1>5, IdsAssumption DEF NewIds, Ids
  <1>6. CASE r.list[i].id # 0
    BY <1>2, <1>6, IdsAssumption DEF NewIds, Ids
  <1> QED BY <1>5, <1>6 DEF NewIds

------------------------------------------------------------------------------
\* The ways a transaction changes.

\* A transaction in progress has a request and a copy of the database.
LEMMA OpenTransaction ==
    ASSUME TypeOK, NEW c \in Clients, tx[c].stage \notin Idle
    PROVE  /\ tx[c].request \in Requests
           /\ tx[c].stage \in Stages
           /\ tx[c].backup \in Database
           /\ c \in Open
  <1>1. tx[c] \in Transaction
    BY DEF TypeOK
  <1> QED BY <1>1 DEF Transaction, Open, Stages, Idle, Answers

\* An operation starts with a copy that has unique ids.
LEMMA StartPreserves ==
    ASSUME IndInv, NEW c \in Clients, NEW r \in Requests,
           NEW stage \in Stages,
           NEW backup \in Database, IdsAreUnique(backup),
           Start(c, r, stage, backup)
    PROVE  IndInv'
  <1> DEFINE t == [request |-> r, stage |-> stage, backup |-> backup]
  <1>1. t \in Transaction /\ t.backup = backup
    BY DEF Transaction
  <1>2. tx \in [Clients -> Transaction] /\ tx' = [tx EXCEPT ![c] = t]
    BY DEF IndInv, TypeOK, Start
  <1>3. data' = data /\ ID_SEQUENCER' = ID_SEQUENCER
    BY DEF Start
  <1> HIDE DEF t
  <1>4. tx' \in [Clients -> Transaction] /\ tx'[c] = t
        /\ \A d \in Clients : d # c => tx'[d] = tx[d]
    BY <1>1, <1>2
  <1>5. TypeOK'
    BY <1>3, <1>4 DEF IndInv, TypeOK
  <1>6. \A d \in Open' : IdsAreUnique(tx'[d].backup)
    <2>1. SUFFICES ASSUME NEW d \in Open' PROVE IdsAreUnique(tx'[d].backup)
      OBVIOUS
    <2>2. CASE d = c
      BY <1>1, <1>4, <2>2
    <2>3. CASE d # c
      BY <1>4, <2>1, <2>3 DEF IndInv, UniqueIds, Open
    <2> QED BY <2>2, <2>3
  <1> QED BY <1>3, <1>5, <1>6 DEF IndInv, UniqueIds, IdsAreUnique

\* An operation goes on with a copy that has unique ids.
LEMMA ProceedPreserves ==
    ASSUME IndInv, NEW c \in Clients, tx[c].stage = "before",
           NEW stage \in Stages,
           NEW backup \in Database, IdsAreUnique(backup),
           Proceed(c, stage, backup), data' = data, ID_SEQUENCER' \in 0..MaxId
    PROVE  IndInv'
  <1> DEFINE t == [tx[c] EXCEPT !.stage = stage, !.backup = backup]
  <1>1. tx[c] \in [request : Requests, stage : Stages, backup : Database]
    BY DEF IndInv, TypeOK, Transaction, Idle, Answers
  <1>2. t \in Transaction /\ t.backup = backup
    BY <1>1 DEF Transaction
  <1>3. tx \in [Clients -> Transaction] /\ tx' = [tx EXCEPT ![c] = t]
    BY DEF IndInv, TypeOK, Proceed
  <1> HIDE DEF t
  <1>4. tx' \in [Clients -> Transaction] /\ tx'[c] = t
        /\ \A d \in Clients : d # c => tx'[d] = tx[d]
    BY <1>2, <1>3
  <1>5. TypeOK'
    BY <1>4 DEF IndInv, TypeOK
  <1>6. \A d \in Open' : IdsAreUnique(tx'[d].backup)
    <2>1. SUFFICES ASSUME NEW d \in Open' PROVE IdsAreUnique(tx'[d].backup)
      OBVIOUS
    <2>2. CASE d = c
      BY <1>2, <1>4, <2>2
    <2>3. CASE d # c
      BY <1>4, <2>1, <2>3 DEF IndInv, UniqueIds, Open
    <2> QED BY <2>2, <2>3
  <1> QED BY <1>5, <1>6 DEF IndInv, UniqueIds, IdsAreUnique

\* An operation ends and leaves a database that has unique ids.
LEMMA ClosePreserves ==
    ASSUME IndInv, NEW c \in Clients, NEW answer \in Answers,
           tx' = [tx EXCEPT ![c] = Closed(answer)],
           data' \in Database, IdsAreUnique(data'), ID_SEQUENCER' = ID_SEQUENCER
    PROVE  IndInv'
  <1>1. Closed(answer) \in Transaction /\ Closed(answer).stage \in Idle
    BY DEF Closed, Transaction, Idle
  <1>2. tx \in [Clients -> Transaction]
    BY DEF IndInv, TypeOK
  <1>3. tx' \in [Clients -> Transaction] /\ tx'[c].stage \in Idle
        /\ \A d \in Clients : d # c => tx'[d] = tx[d]
    BY <1>1, <1>2
  <1>4. TypeOK'
    BY <1>3 DEF IndInv, TypeOK
  <1>5. \A d \in Open' : IdsAreUnique(tx'[d].backup)
    BY <1>3 DEF IndInv, UniqueIds, Open
  <1> QED BY <1>4, <1>5 DEF IndInv, UniqueIds

------------------------------------------------------------------------------
\* What the operations do to their copies.

\* Removing items keeps a database a database with unique ids.
LEMMA RemovalKeepsUnique ==
    ASSUME NEW db \in Database, IdsAreUnique(db), NEW gone
    PROVE  /\ [db EXCEPT !.items = @ \ gone] \in Database
           /\ IdsAreUnique([db EXCEPT !.items = @ \ gone])
           /\ \A t : /\ [tables |-> db.tables \ {t}, items |-> db.items \ gone] \in Database
                     /\ IdsAreUnique([tables |-> db.tables \ {t}, items |-> db.items \ gone])
  <1>1. db.tables \in SUBSET Tables /\ db.items \in SUBSET Item
    BY DEF Database
  <1>2. [db EXCEPT !.items = @ \ gone].items = db.items \ gone
    BY DEF Database
  <1>3. [db EXCEPT !.items = @ \ gone] \in Database
    BY <1>1 DEF Database
  <1>4. IdsAreUnique([db EXCEPT !.items = @ \ gone])
    BY <1>2 DEF IdsAreUnique
  <1>5. ASSUME NEW t
        PROVE  /\ [tables |-> db.tables \ {t}, items |-> db.items \ gone] \in Database
               /\ IdsAreUnique([tables |-> db.tables \ {t}, items |-> db.items \ gone])
    BY <1>1 DEF Database, IdsAreUnique
  <1> QED BY <1>3, <1>4, <1>5

\* Adding items whose ids are neither taken in their table nor among the added
\* items keeps the ids unique (insert, the allIds check).
LEMMA AdditionKeepsUnique ==
    ASSUME NEW db \in Database, IdsAreUnique(db), NEW t \in Tables,
           NEW added \in SUBSET Item,
           \A x \in added : x.table = t,
           \A x, y \in added : x.id = y.id => x = y,
           \A x \in added, y \in In(db, t) : x.id # y.id
    PROVE  /\ [tables |-> db.tables \cup {t}, items |-> db.items \cup added] \in Database
           /\ IdsAreUnique([tables |-> db.tables \cup {t}, items |-> db.items \cup added])
  <1>1. db.tables \in SUBSET Tables /\ db.items \in SUBSET Item
    BY DEF Database
  <1>2. \A x, y \in db.items \cup added : x.table = y.table /\ x.id = y.id => x = y
    BY DEF In, IdsAreUnique
  <1> QED BY <1>1, <1>2 DEF Database, IdsAreUnique

------------------------------------------------------------------------------
\* The actions.

\* An insert stores its entities under ids of their own.
LEMMA InsertItemsPreserves ==
    ASSUME IndInv, NEW c \in Clients, InsertItems(c)
    PROVE  IndInv'
  <1> DEFINE r == tx[c].request
             db == tx[c].backup
             ids == NewIds(r.list)
             taken == Taken(db, r.table, ids)
             item(i) == [table |-> r.table, id |-> ids[i], val |-> r.val, ref |-> r.list[i].ref]
             added == {item(i) : i \in DOMAIN ids}
             new == [tables |-> db.tables \cup {r.table}, items |-> db.items \cup added]
  <1>1. /\ tx[c].stage = "before" /\ r.kind = "insert" /\ ~PastMaxId(r) /\ data' = data
        /\ \/ /\ taken = {}
              /\ ID_SEQUENCER' = ID_SEQUENCER + Generated(r.list, Len(r.list))
              /\ Proceed(c, LoadedStage(new, r.table, {item(1)}), new)
           \/ \E i \in taken :
              /\ ID_SEQUENCER' = ID_SEQUENCER + Generated(r.list, i)
              /\ Proceed(c, "throwing", db)
    BY DEF InsertItems
  <1>2. r \in Requests /\ db \in Database /\ c \in Open
    BY <1>1, OpenTransaction DEF IndInv, Idle, Answers
  <1>3. r \in Inserts
    BY <1>1, <1>2 DEF Requests, Counts, Finds, Updates, Deletes
  <1>4. r.list \in Lists /\ r.table \in Tables /\ r.val \in Vals
    BY <1>3 DEF Inserts
  <1>5. IdsAreUnique(db)
    BY <1>2 DEF IndInv, UniqueIds
  <1>6. ID_SEQUENCER \in 0..MaxId
    BY DEF IndInv, TypeOK
  <1>7. /\ Len(r.list) \in Nat
        /\ \A i \in 1..Len(r.list) :
              /\ Generated(r.list, i) \in Nat
              /\ Generated(r.list, Len(r.list)) \in Nat
              /\ Generated(r.list, i) <= Generated(r.list, Len(r.list))
    <2>1. Len(r.list) \in Nat /\ Len(r.list) > 0
      BY <1>4, ListLength
    <2> QED BY <1>4, <2>1, GeneratedIsCount
  <1>8. Len(r.list) > 0
    BY <1>4, ListLength
  <1>9. \A i \in 1..Len(r.list) : ids[i] \in Ids
    BY <1>1, <1>3, <1>6, NewIdsAreIds
  <1>10. DOMAIN ids = 1..Len(r.list)
    BY DEF NewIds
  <1>11. \A i \in 1..Len(r.list) : r.list[i].ref \in 0..MaxId
    BY <1>4, ListEntities, IdsAssumption DEF Entity
  <1>12. Generated(r.list, Len(r.list)) \in Nat /\ ID_SEQUENCER + Generated(r.list, Len(r.list)) \in 0..MaxId
    BY <1>1, <1>6, <1>7, <1>8, IdsAssumption DEF PastMaxId
  <1> HIDE DEF r, db, ids, taken
  <1>13. CASE /\ taken = {}
              /\ ID_SEQUENCER' = ID_SEQUENCER + Generated(r.list, Len(r.list))
              /\ Proceed(c, LoadedStage(new, r.table, {item(1)}), new)
    <2>1. \A i \in 1..Len(r.list) :
              item(i) \in Item /\ item(i).table = r.table /\ item(i).id = ids[i]
      BY <1>4, <1>9, <1>11 DEF Item
    <2>2. \A i \in 1..Len(r.list) : /\ \A y \in In(db, r.table) : y.id # ids[i]
                                    /\ \A j \in 1..(i - 1) : ids[j] # ids[i]
      BY <1>10, <1>13 DEF taken, Taken
    <2>3. \A i, j \in 1..Len(r.list) : ids[i] = ids[j] => i = j
      BY <1>7, <2>2
    <2>4. \A x \in added : \E i \in 1..Len(r.list) : x = item(i)
      BY <1>10
    <2>5. new \in Database /\ IdsAreUnique(new)
      <3>1. added \in SUBSET Item /\ \A x \in added : x.table = r.table
        BY <2>1, <2>4
      <3>2. \A x, y \in added : x.id = y.id => x = y
        <4>1. SUFFICES ASSUME NEW x \in added, NEW y \in added, x.id = y.id
                       PROVE  x = y
          OBVIOUS
        <4>2. PICK i \in 1..Len(r.list), j \in 1..Len(r.list) : x = item(i) /\ y = item(j)
          BY <2>4
        <4>3. i = j
          BY <2>1, <2>3, <4>1, <4>2
        <4> QED BY <4>2, <4>3
      <3>3. \A x \in added, y \in In(db, r.table) : x.id # y.id
        <4>1. SUFFICES ASSUME NEW x \in added, NEW y \in In(db, r.table)
                       PROVE  x.id # y.id
          OBVIOUS
        <4>2. PICK i \in 1..Len(r.list) : x = item(i)
          BY <2>4
        <4> QED BY <2>1, <2>2, <4>2
      <3>4. db \in Database /\ r.table \in Tables /\ IdsAreUnique(db)
        BY <1>2, <1>4, <1>5
      <3> HIDE DEF added
      <3> QED BY <3>1, <3>2, <3>3, <3>4, AdditionKeepsUnique
    <2>6. LoadedStage(new, r.table, {item(1)}) \in Stages
      BY DEF LoadedStage, Stages
    <2> HIDE DEF new
    <2> QED BY <1>1, <1>12, <1>13, <2>5, <2>6, ProceedPreserves
  <1>14. ASSUME NEW i \in taken,
                ID_SEQUENCER' = ID_SEQUENCER + Generated(r.list, i),
                Proceed(c, "throwing", db)
         PROVE  IndInv'
    <2>1. i \in 1..Len(r.list)
      BY <1>10, <1>14 DEF taken, Taken
    <2>2. ID_SEQUENCER' \in 0..MaxId
      BY <1>6, <1>7, <1>12, <1>14, <2>1, IdsAssumption
    <2> QED BY <1>1, <1>2, <1>5, <1>14, <2>2, ProceedPreserves DEF db, Stages
  <1> QED BY <1>1, <1>13, <1>14

\* The requests of each kind are requests.
LEMMA RequestKinds ==
    /\ Counts \cup Finds \cup Inserts \cup Updates \cup Deletes = Requests
    /\ \A r \in Requests : /\ r.kind = "insert" => r \in Inserts
                           /\ r.kind = "update" => r \in Updates
                           /\ r.kind = "delete" => r \in Deletes
    /\ \A r \in Requests : r.table \in Tables
  BY DEF Requests, Counts, Finds, Inserts, Updates, Deletes

\* Counting, finding and the first stretch of an insert start with a copy.
LEMMA ReadsPreserve ==
    ASSUME IndInv, NEW c \in Clients, Count(c) \/ Find(c) \/ Insert(c)
    PROVE  IndInv'
  <1>1. data \in Database /\ IdsAreUnique(data)
    BY DEF IndInv, TypeOK, UniqueIds
  <1>2. PICK r \in Requests, stage \in Stages : Start(c, r, stage, data)
    BY RequestKinds DEF Count, Find, Insert, LoadedStage, Stages
  <1> QED BY <1>1, <1>2, StartPreserves

\* So does the first stretch of an update.
LEMMA UpdatePreserves ==
    ASSUME IndInv, NEW c \in Clients, Update(c)
    PROVE  IndInv'
  <1>1. data \in Database /\ IdsAreUnique(data)
    BY DEF IndInv, TypeOK, UniqueIds
  <1>2. PICK r \in Requests, stage \in Stages : Start(c, r, stage, data)
    BY RequestKinds DEF Update, LoadedStage, Stages
  <1> QED BY <1>1, <1>2, StartPreserves

\* A deleteAll may remove items at once.
LEMMA DeleteAllPreserves ==
    ASSUME IndInv, NEW c \in Clients, DeleteAll(c)
    PROVE  IndInv'
  <1>1. data \in Database /\ IdsAreUnique(data)
    BY DEF IndInv, TypeOK, UniqueIds
  <1>2. PICK r \in Deletes :
            \E stage \in Stages :
                \/ Start(c, r, stage, data)
                \/ Start(c, r, stage, [tables |-> data.tables \ {r.table},
                                       items |-> data.items \ In(data, r.table)])
                \/ Start(c, r, stage, [data EXCEPT !.items = @ \ Matching(data, r.table, r.ids)])
    BY DEF DeleteAll, Stages
  <1>3. r \in Requests
    BY RequestKinds
  <1>4. PICK stage \in Stages :
            \/ Start(c, r, stage, data)
            \/ Start(c, r, stage, [tables |-> data.tables \ {r.table},
                                   items |-> data.items \ In(data, r.table)])
            \/ Start(c, r, stage, [data EXCEPT !.items = @ \ Matching(data, r.table, r.ids)])
    BY <1>2
  <1>5. \A gone : /\ [data EXCEPT !.items = @ \ gone] \in Database
                  /\ IdsAreUnique([data EXCEPT !.items = @ \ gone])
                  /\ \A t : /\ [tables |-> data.tables \ {t}, items |-> data.items \ gone] \in Database
                            /\ IdsAreUnique([tables |-> data.tables \ {t}, items |-> data.items \ gone])
    BY <1>1, RemovalKeepsUnique
  <1>6. CASE Start(c, r, stage, data)
    BY <1>1, <1>3, <1>6, StartPreserves
  <1>7. CASE Start(c, r, stage, [tables |-> data.tables \ {r.table},
                                 items |-> data.items \ In(data, r.table)])
    BY <1>3, <1>5, <1>7, StartPreserves
  <1>8. CASE Start(c, r, stage, [data EXCEPT !.items = @ \ Matching(data, r.table, r.ids)])
    BY <1>3, <1>5, <1>8, StartPreserves
  <1> QED BY <1>4, <1>6, <1>7, <1>8

\* An update rewrites the item it finds under the same id, or adds one.
LEMMA UpdateItemPreserves ==
    ASSUME IndInv, NEW c \in Clients, UpdateItem(c)
    PROVE  IndInv'
  <1> DEFINE r == tx[c].request
             db == tx[c].backup
             found == Matching(db, r.table, {r.id})
             saved == [table |-> r.table, id |-> r.id, val |-> r.val, ref |-> r.ref]
             merged(x) == [x EXCEPT !.val = IF "val" \in r.changed THEN r.val ELSE @,
                                    !.ref = IF "ref" \in r.changed THEN r.ref ELSE @]
             stored == IF found = {} THEN {saved} ELSE {merged(x) : x \in found}
             kept == [db EXCEPT !.items = @ \ found]
             new == [tables |-> db.tables \cup {r.table}, items |-> (db.items \ found) \cup stored]
  <1>1. /\ tx[c].stage = "before" /\ r.kind = "update"
        /\ Proceed(c, LoadedStage(new, r.table, stored), new)
        /\ data' = data /\ ID_SEQUENCER' = ID_SEQUENCER
    BY DEF UpdateItem
  <1>2. r \in Requests /\ db \in Database /\ c \in Open
    BY <1>1, OpenTransaction DEF IndInv, Idle, Answers
  <1>3. r \in Updates
    BY <1>1, <1>2, RequestKinds
  <1>4. r.table \in Tables /\ r.id \in Ids /\ r.val \in Vals /\ r.ref \in 0..MaxId
    BY <1>3, IdsAssumption DEF Updates
  <1>5. IdsAreUnique(db)
    BY <1>2 DEF IndInv, UniqueIds
  <1>6. kept \in Database /\ IdsAreUnique(kept)
    BY <1>2, <1>5, RemovalKeepsUnique
  <1>7. kept.tables = db.tables /\ kept.items = db.items \ found
    BY <1>2 DEF Database
  <1>8. \A x \in In(kept, r.table) : x.id # r.id
    BY <1>7 DEF In, Matching
  <1>9. saved \in Item /\ saved.table = r.table /\ saved.id = r.id
    BY <1>4 DEF Item
  <1>10. \A x \in found : /\ x \in Item /\ x.table = r.table /\ x.id = r.id
                          /\ merged(x) \in Item /\ merged(x).table = r.table /\ merged(x).id = r.id
    BY <1>2, <1>4 DEF Matching, In, Database, Item
  <1>11. \A x, y \in found : x = y
    <2>1. \A x \in found : x \in db.items
      BY DEF Matching, In
    <2>2. \A x, y \in found : x.table = y.table /\ x.id = y.id
      BY <1>10
    <2> HIDE DEF found, merged, db
    <2> QED BY <1>5, <2>1, <2>2 DEF IdsAreUnique
  <1> HIDE DEF r, db, found, saved, merged, kept
  <1>12. /\ stored \in SUBSET Item
         /\ \A x \in stored : x.table = r.table /\ x.id = r.id
         /\ \A x, y \in stored : x = y
    <2>1. CASE found = {}
      BY <1>9, <2>1
    <2>2. CASE found # {}
      BY <1>10, <1>11, <2>2
    <2> QED BY <2>1, <2>2
  <1>13. new = [tables |-> kept.tables \cup {r.table}, items |-> kept.items \cup stored]
    BY <1>7
  <1> HIDE DEF stored
  <1>14. new \in Database /\ IdsAreUnique(new)
    BY <1>4, <1>6, <1>8, <1>12, <1>13, AdditionKeepsUnique
  <1>15. LoadedStage(new, r.table, stored) \in Stages
    BY DEF LoadedStage, Stages
  <1>16. ID_SEQUENCER' \in 0..MaxId
    BY <1>1 DEF IndInv, TypeOK
  <1> HIDE DEF new
  <1> QED BY <1>1, <1>14, <1>15, <1>16, ProceedPreserves

\* After the pre remove callbacks the loaded items are removed.
LEMMA RemoveItemsPreserves ==
    ASSUME IndInv, NEW c \in Clients, RemoveItems(c)
    PROVE  IndInv'
  <1> DEFINE db == tx[c].backup
             new == [db EXCEPT !.items = @ \ Matching(db, tx[c].request.table, tx[c].request.ids)]
  <1>1. /\ tx[c].stage = "before" /\ Proceed(c, "after", new)
        /\ data' = data /\ ID_SEQUENCER' = ID_SEQUENCER
    BY DEF RemoveItems
  <1>2. db \in Database /\ IdsAreUnique(db)
    BY <1>1, OpenTransaction DEF IndInv, UniqueIds, Idle, Answers
  <1>3. new \in Database /\ IdsAreUnique(new)
    BY <1>2, RemovalKeepsUnique
  <1>4. ID_SEQUENCER' \in 0..MaxId
    BY <1>1 DEF IndInv, TypeOK
  <1> HIDE DEF new
  <1> QED BY <1>1, <1>3, <1>4, ProceedPreserves DEF Stages

\* An operation ends, with its copy for a database or without.
LEMMA EndsPreserve ==
    ASSUME IndInv, NEW c \in Clients, Commit(c) \/ Throw(c)
    PROVE  IndInv'
  <1>1. CASE Commit(c)
    <2>1. c \in Open /\ tx[c].backup \in Database
      BY <1>1, OpenTransaction DEF Commit, IndInv, Idle, Answers
    <2>2. data' \in Database /\ IdsAreUnique(data')
      BY <1>1, <2>1 DEF Commit, IndInv, UniqueIds
    <2> QED BY <1>1, <2>2, ClosePreserves DEF Commit, Answers
  <1>2. CASE Throw(c)
    <2>1. data' \in Database /\ IdsAreUnique(data')
      BY <1>2 DEF Throw, IndInv, TypeOK, UniqueIds, IdsAreUnique
    <2> QED BY <1>2, <2>1, ClosePreserves DEF Throw, Answers
  <1> QED BY <1>1, <1>2

\* Nothing is stored in the beginning.
LEMMA InitHolds == Init => IndInv
  <1>1. SUFFICES ASSUME Init PROVE IndInv
    OBVIOUS
  <1>2. createMemoryDatabase \in Database /\ IdsAreUnique(createMemoryDatabase)
    BY DEF createMemoryDatabase, Database, IdsAreUnique
  <1>3. Closed("none") \in Transaction /\ Closed("none").stage \in Idle
    BY DEF Closed, Transaction, Idle
  <1>4. TypeOK
    BY <1>1, <1>2, <1>3, IdsAssumption DEF Init, TypeOK
  <1>5. Open = {}
    BY <1>1, <1>3 DEF Init, Open
  <1> QED BY <1>1, <1>2, <1>4, <1>5 DEF Init, IndInv, UniqueIds

\* Every step of every operation keeps ids unique in the database and in the
\* copies that may replace it.
LEMMA StepPreserves == IndInv /\ [Next]_vars => IndInv'
  <1>1. SUFFICES ASSUME IndInv, [Next]_vars PROVE IndInv'
    OBVIOUS
  <1>2. CASE UNCHANGED vars
    BY <1>1, <1>2 DEF vars, IndInv, TypeOK, UniqueIds, Open
  <1>3. ASSUME NEW c \in Clients,
               \/ Count(c) \/ Find(c) \/ Insert(c) \/ Update(c) \/ DeleteAll(c)
               \/ InsertItems(c) \/ UpdateItem(c) \/ RemoveItems(c) \/ Commit(c) \/ Throw(c)
        PROVE  IndInv'
    BY <1>1, <1>3, ReadsPreserve, UpdatePreserves, DeleteAllPreserves, InsertItemsPreserves,
       UpdateItemPreserves, RemoveItemsPreserves, EndsPreserve
  <1> QED BY <1>1, <1>2, <1>3 DEF Next

------------------------------------------------------------------------------
\* The theorems.

\* The invariant holds however many operations overlap.
THEOREM IndInvAlways == Spec => []IndInv
  <1>1. IndInv /\ [Next]_vars => IndInv'
    BY StepPreserves
  <1> QED BY InitHolds, <1>1, PTL DEF Spec

\* The database, the copies and the sequencer are always of their types: no
\* entity is ever stored under a missing id (_insert, the ID field).
THEOREM TypeCorrect == Spec => []TypeOK
  <1>1. IndInv => TypeOK
    BY DEF IndInv
  <1> QED BY <1>1, IndInvAlways, PTL

\* However the operations of the persister overlap, no table ever has two items
\* with one id, although every commit replaces the whole database (_transaction).
THEOREM IdsStayUnique == Spec => []UniqueIds
  <1>1. IndInv => UniqueIds
    BY DEF IndInv
  <1> QED BY <1>1, IndInvAlways, PTL

------------------------------------------------------------------------------
\* Ids that callers did not choose come from the sequencer.  KnownIds alone is
\* not inductive: an update stores an entity under the id of its request, which
\* was known when the request was made and must still be so now.

Known(i, n) == i \in GivenIds \/ i <= n

ItemsKnown(db, n) == \A x \in db.items : Known(x.id, n)

RequestKnown(r, n) == r.kind = "update" => Known(r.id, n)

KnownInv ==
    /\ ItemsKnown(data, ID_SEQUENCER)
    /\ \A c \in Open : /\ ItemsKnown(tx[c].backup, ID_SEQUENCER)
                       /\ RequestKnown(tx[c].request, ID_SEQUENCER)

\* What is known stays known while the sequencer only advances.
LEMMA KnownLater ==
    ASSUME NEW n \in 0..MaxId, NEW m \in 0..MaxId, n <= m
    PROVE  /\ \A db \in Database : ItemsKnown(db, n) => ItemsKnown(db, m)
           /\ \A r \in Requests : RequestKnown(r, n) => RequestKnown(r, m)
  <1>1. \A i \in Ids : Known(i, n) => Known(i, m)
    BY IdsAssumption DEF Known, Ids
  <1>2. \A db \in Database : \A x \in db.items : x.id \in Ids
    BY DEF Database, Item
  <1>3. \A r \in Requests : r.kind = "update" => r.id \in Ids
    BY RequestKinds DEF Updates
  <1> QED BY <1>1, <1>2, <1>3 DEF ItemsKnown, RequestKnown

\* One client starts, goes on or ends, and the sequencer only advances.
LEMMA KnownStep ==
    ASSUME TypeOK, KnownInv, NEW c \in Clients,
           ID_SEQUENCER' \in 0..MaxId, ID_SEQUENCER <= ID_SEQUENCER',
           ItemsKnown(data', ID_SEQUENCER'),
           \A d \in Clients : d # c => tx'[d] = tx[d],
           tx'[c].stage \notin Idle => /\ ItemsKnown(tx'[c].backup, ID_SEQUENCER')
                                       /\ RequestKnown(tx'[c].request, ID_SEQUENCER')
    PROVE  KnownInv'
  <1>1. SUFFICES ASSUME NEW d \in Open'
                 PROVE  /\ ItemsKnown(tx'[d].backup, ID_SEQUENCER')
                        /\ RequestKnown(tx'[d].request, ID_SEQUENCER')
    BY DEF KnownInv, ItemsKnown, RequestKnown, Known
  <1>2. d \in Clients /\ tx'[d].stage \notin Idle
    BY DEF Open
  <1>3. CASE d = c
    BY <1>2, <1>3
  <1>4. CASE d # c
    <2>1. tx'[d] = tx[d] /\ tx[d].stage \notin Idle
      BY <1>2, <1>4
    <2>2. d \in Open /\ tx[d].request \in Requests /\ tx[d].backup \in Database
      BY <1>2, <2>1, OpenTransaction
    <2>3. /\ ItemsKnown(tx[d].backup, ID_SEQUENCER)
          /\ RequestKnown(tx[d].request, ID_SEQUENCER)
      BY <2>2 DEF KnownInv
    <2>4. ID_SEQUENCER \in 0..MaxId
      BY DEF TypeOK
    <2> QED BY <2>1, <2>2, <2>3, <2>4, KnownLater
  <1> QED BY <1>3, <1>4

\* An operation starts with a copy of known ids.
LEMMA KnownStart ==
    ASSUME TypeOK, KnownInv, NEW c \in Clients, NEW r \in Requests, NEW stage, NEW backup,
           Start(c, r, stage, backup),
           ItemsKnown(backup, ID_SEQUENCER), RequestKnown(r, ID_SEQUENCER)
    PROVE  KnownInv'
  <1> DEFINE t == [request |-> r, stage |-> stage, backup |-> backup]
  <1>1. t.request = r /\ t.backup = backup
    OBVIOUS
  <1>2. tx' = [tx EXCEPT ![c] = t] /\ data' = data /\ ID_SEQUENCER' = ID_SEQUENCER
    BY DEF Start
  <1>3. tx \in [Clients -> Transaction] /\ ID_SEQUENCER \in 0..MaxId
    BY DEF TypeOK
  <1> HIDE DEF t
  <1>4. tx'[c] = t /\ \A d \in Clients : d # c => tx'[d] = tx[d]
    BY <1>2, <1>3
  <1>5. ItemsKnown(data', ID_SEQUENCER')
    BY <1>2 DEF KnownInv
  <1>6. ID_SEQUENCER <= ID_SEQUENCER'
    BY <1>2, <1>3, IdsAssumption
  <1> QED BY <1>1, <1>2, <1>3, <1>4, <1>5, <1>6, KnownStep

\* An operation goes on with a copy of known ids.
LEMMA KnownProceed ==
    ASSUME TypeOK, KnownInv, NEW c \in Open, NEW stage, NEW backup,
           Proceed(c, stage, backup), data' = data,
           ID_SEQUENCER' \in 0..MaxId, ID_SEQUENCER <= ID_SEQUENCER',
           ItemsKnown(backup, ID_SEQUENCER')
    PROVE  KnownInv'
  <1>1. c \in Clients /\ tx[c].stage \notin Idle
    BY DEF Open
  <1>2. tx[c].request \in Requests /\ tx[c] \in Transaction
    BY <1>1, OpenTransaction DEF TypeOK
  <1> DEFINE t == [tx[c] EXCEPT !.stage = stage, !.backup = backup]
  <1>3. t.request = tx[c].request /\ t.backup = backup
    BY <1>2 DEF Transaction
  <1>4. tx' = [tx EXCEPT ![c] = t] /\ tx \in [Clients -> Transaction]
    BY DEF Proceed, TypeOK
  <1> HIDE DEF t
  <1>5. tx'[c] = t /\ \A d \in Clients : d # c => tx'[d] = tx[d]
    BY <1>1, <1>4
  <1>6. data \in Database /\ ID_SEQUENCER \in 0..MaxId
    BY DEF TypeOK
  <1>7. ItemsKnown(data, ID_SEQUENCER) /\ RequestKnown(tx[c].request, ID_SEQUENCER)
    BY DEF KnownInv
  <1>8. ItemsKnown(data', ID_SEQUENCER') /\ RequestKnown(tx[c].request, ID_SEQUENCER')
    BY <1>2, <1>6, <1>7, KnownLater
  <1> QED BY <1>1, <1>3, <1>5, <1>8, KnownStep

\* What an insert adds has an id its caller chose or one of the sequencer's.
LEMMA InsertItemsKnows ==
    ASSUME TypeOK, KnownInv, NEW c \in Clients, InsertItems(c)
    PROVE  KnownInv'
  <1> DEFINE r == tx[c].request
             db == tx[c].backup
             ids == NewIds(r.list)
             item(i) == [table |-> r.table, id |-> ids[i], val |-> r.val, ref |-> r.list[i].ref]
             new == [tables |-> db.tables \cup {r.table},
                     items |-> db.items \cup {item(i) : i \in DOMAIN ids}]
  <1>1. /\ tx[c].stage = "before" /\ r.kind = "insert" /\ ~PastMaxId(r) /\ data' = data
        /\ \/ /\ ID_SEQUENCER' = ID_SEQUENCER + Generated(r.list, Len(r.list))
              /\ Proceed(c, LoadedStage(new, r.table, {item(1)}), new)
           \/ \E i \in Taken(db, r.table, ids) :
              /\ ID_SEQUENCER' = ID_SEQUENCER + Generated(r.list, i)
              /\ Proceed(c, "throwing", db)
    BY DEF InsertItems
  <1>2. r \in Requests /\ db \in Database /\ c \in Open
    BY <1>1, OpenTransaction DEF Idle, Answers
  <1>3. r \in Inserts /\ r.list \in Lists
    BY <1>1, <1>2, RequestKinds DEF Inserts
  <1>4. ID_SEQUENCER \in 0..MaxId
    BY DEF TypeOK
  <1>5. DOMAIN ids = 1..Len(r.list)
    BY DEF NewIds
  <1>6. Len(r.list) \in Nat /\ Len(r.list) > 0
    BY <1>3, ListLength
  <1>7. \A i \in 1..Len(r.list) :
            /\ Generated(r.list, i) \in Nat
            /\ Generated(r.list, Len(r.list)) \in Nat
            /\ Generated(r.list, i) <= Generated(r.list, Len(r.list))
    BY <1>3, GeneratedIsCount
  <1>8. ID_SEQUENCER + Generated(r.list, Len(r.list)) \in 0..MaxId
    BY <1>1, <1>4, <1>6, <1>7, IdsAssumption DEF PastMaxId
  <1>9. ItemsKnown(db, ID_SEQUENCER)
    BY <1>2 DEF KnownInv
  <1>10. CASE /\ ID_SEQUENCER' = ID_SEQUENCER + Generated(r.list, Len(r.list))
              /\ Proceed(c, LoadedStage(new, r.table, {item(1)}), new)
    <2>1. ID_SEQUENCER' \in 0..MaxId /\ ID_SEQUENCER <= ID_SEQUENCER'
      BY <1>4, <1>6, <1>7, <1>8, <1>10, IdsAssumption
    <2>2. ItemsKnown(db, ID_SEQUENCER')
      BY <1>2, <1>4, <1>9, <2>1, KnownLater
    <2>3. \A i \in 1..Len(r.list) : Known(ids[i], ID_SEQUENCER')
      <3>1. SUFFICES ASSUME NEW i \in 1..Len(r.list) PROVE Known(ids[i], ID_SEQUENCER')
        OBVIOUS
      <3>2. r.list[i].id \in {0} \cup GivenIds
        BY <1>3, ListEntities DEF Entity
      <3>3. CASE r.list[i].id = 0
        <4>1. ids[i] = ID_SEQUENCER + Generated(r.list, i)
          BY <3>3 DEF NewIds
        <4> QED BY <1>4, <1>7, <1>10, <4>1, IdsAssumption DEF Known
      <3>4. CASE r.list[i].id # 0
        BY <3>2, <3>4 DEF Known, NewIds
      <3> QED BY <3>3, <3>4
    <2>4. ItemsKnown(new, ID_SEQUENCER')
      <3>1. SUFFICES ASSUME NEW x \in new.items PROVE Known(x.id, ID_SEQUENCER')
        BY DEF ItemsKnown
      <3>2. CASE x \in db.items
        BY <2>2, <3>2 DEF ItemsKnown
      <3>3. CASE x \notin db.items
        <4>1. PICK i \in 1..Len(r.list) : x = item(i)
          BY <1>5, <3>1, <3>3
        <4>2. x.id = ids[i]
          BY <4>1
        <4> QED BY <2>3, <4>2
      <3> QED BY <3>2, <3>3
    <2> HIDE DEF new
    <2> QED BY <1>1, <1>2, <1>10, <2>1, <2>4, KnownProceed
  <1>11. ASSUME NEW i \in Taken(db, r.table, ids),
                ID_SEQUENCER' = ID_SEQUENCER + Generated(r.list, i),
                Proceed(c, "throwing", db)
         PROVE  KnownInv'
    <2>1. i \in 1..Len(r.list)
      BY <1>5 DEF Taken
    <2>2. ID_SEQUENCER' \in 0..MaxId /\ ID_SEQUENCER <= ID_SEQUENCER'
      BY <1>4, <1>7, <1>8, <1>11, <2>1, IdsAssumption
    <2>3. ItemsKnown(db, ID_SEQUENCER')
      BY <1>2, <1>4, <1>9, <2>2, KnownLater
    <2> QED BY <1>1, <1>2, <1>11, <2>2, <2>3, KnownProceed
  <1> QED BY <1>1, <1>10, <1>11

\* What an update stores has the id of its request, or that of the item it
\* rewrites, which is the same.
LEMMA UpdateItemKnows ==
    ASSUME TypeOK, KnownInv, NEW c \in Clients, UpdateItem(c)
    PROVE  KnownInv'
  <1> DEFINE r == tx[c].request
             db == tx[c].backup
             found == Matching(db, r.table, {r.id})
             saved == [table |-> r.table, id |-> r.id, val |-> r.val, ref |-> r.ref]
             merged(x) == [x EXCEPT !.val = IF "val" \in r.changed THEN r.val ELSE @,
                                    !.ref = IF "ref" \in r.changed THEN r.ref ELSE @]
             stored == IF found = {} THEN {saved} ELSE {merged(x) : x \in found}
             new == [tables |-> db.tables \cup {r.table}, items |-> (db.items \ found) \cup stored]
  <1>1. /\ tx[c].stage = "before" /\ r.kind = "update"
        /\ Proceed(c, LoadedStage(new, r.table, stored), new)
        /\ data' = data /\ ID_SEQUENCER' = ID_SEQUENCER
    BY DEF UpdateItem
  <1>2. r \in Requests /\ db \in Database /\ c \in Open
    BY <1>1, OpenTransaction DEF Idle, Answers
  <1>3. ItemsKnown(db, ID_SEQUENCER) /\ Known(r.id, ID_SEQUENCER)
    BY <1>1, <1>2 DEF KnownInv, RequestKnown
  <1>4. \A x \in found : merged(x).id = r.id
    BY <1>2 DEF Matching, In, Database, Item
  <1>5. saved.id = r.id
    OBVIOUS
  <1>6. \A x \in stored : x.id = r.id
    <2> HIDE DEF merged, saved, found
    <2>1. CASE found = {}
      BY <1>5, <2>1
    <2>2. CASE found # {}
      BY <1>4, <2>2
    <2> QED BY <2>1, <2>2
  <1>7. new.items = (db.items \ found) \cup stored
    OBVIOUS
  <1> HIDE DEF found, stored, new
  <1>8. ItemsKnown(new, ID_SEQUENCER)
    BY <1>3, <1>6, <1>7 DEF ItemsKnown
  <1>9. ID_SEQUENCER' \in 0..MaxId /\ ID_SEQUENCER <= ID_SEQUENCER'
    BY <1>1, IdsAssumption DEF TypeOK
  <1> QED BY <1>1, <1>2, <1>8, <1>9, KnownProceed

\* The other stretches store nothing new.
LEMMA OthersKnow ==
    ASSUME TypeOK, KnownInv, NEW c \in Clients,
           \/ Count(c) \/ Find(c) \/ Insert(c) \/ Update(c) \/ DeleteAll(c)
           \/ RemoveItems(c) \/ Commit(c) \/ Throw(c)
    PROVE  KnownInv'
  <1>1. ItemsKnown(data, ID_SEQUENCER) /\ data \in Database /\ ID_SEQUENCER \in 0..MaxId
    BY DEF KnownInv, TypeOK
  <1>2. \A db \in Database : \A gone :
            /\ [db EXCEPT !.items = @ \ gone].items = db.items \ gone
            /\ ItemsKnown(db, ID_SEQUENCER)
                   => ItemsKnown([db EXCEPT !.items = @ \ gone], ID_SEQUENCER)
    BY DEF Database, ItemsKnown
  <1>3. CASE Count(c) \/ Find(c) \/ Insert(c)
    <2>1. PICK r \in Counts \cup Finds \cup Inserts : \E stage : Start(c, r, stage, data)
      BY <1>3 DEF Count, Find, Insert
    <2>2. r \in Requests /\ r.kind # "update"
      BY <2>1 DEF Requests, Counts, Finds, Inserts
    <2>3. RequestKnown(r, ID_SEQUENCER)
      BY <2>2 DEF RequestKnown
    <2> QED BY <1>1, <2>1, <2>2, <2>3, KnownStart
  <1>4. CASE Update(c)
    <2>1. PICK r \in Updates : /\ r.id \in GivenIds \cup 1..ID_SEQUENCER
                               /\ \E stage : Start(c, r, stage, data)
      BY <1>4 DEF Update
    <2>2. r \in Requests
      BY RequestKinds
    <2>3. RequestKnown(r, ID_SEQUENCER)
      BY <1>1, <2>1, IdsAssumption DEF RequestKnown, Known
    <2> QED BY <1>1, <2>1, <2>2, <2>3, KnownStart
  <1>5. CASE DeleteAll(c)
    <2>1. PICK r \in Deletes : \E stage :
              \/ Start(c, r, stage, data)
              \/ Start(c, r, stage, [tables |-> data.tables \ {r.table},
                                     items |-> data.items \ In(data, r.table)])
              \/ Start(c, r, stage, [data EXCEPT !.items = @ \ Matching(data, r.table, r.ids)])
      BY <1>5 DEF DeleteAll
    <2>2. r \in Requests /\ RequestKnown(r, ID_SEQUENCER)
      BY RequestKinds DEF RequestKnown, Deletes
    <2>3. ItemsKnown([tables |-> data.tables \ {r.table},
                      items |-> data.items \ In(data, r.table)], ID_SEQUENCER)
      BY <1>1 DEF ItemsKnown
    <2>4. ItemsKnown([data EXCEPT !.items = @ \ Matching(data, r.table, r.ids)], ID_SEQUENCER)
      BY <1>1, <1>2
    <2> QED BY <1>1, <2>1, <2>2, <2>3, <2>4, KnownStart
  <1>6. CASE RemoveItems(c)
    <2> DEFINE db == tx[c].backup
               gone == Matching(db, tx[c].request.table, tx[c].request.ids)
    <2>1. /\ tx[c].stage = "before" /\ Proceed(c, "after", [db EXCEPT !.items = @ \ gone])
          /\ data' = data /\ ID_SEQUENCER' = ID_SEQUENCER
      BY <1>6 DEF RemoveItems
    <2>2. db \in Database /\ c \in Open
      BY <2>1, OpenTransaction DEF Idle, Answers
    <2>3. ItemsKnown([db EXCEPT !.items = @ \ gone], ID_SEQUENCER)
      BY <1>2, <2>2 DEF KnownInv
    <2>4. ID_SEQUENCER' \in 0..MaxId /\ ID_SEQUENCER <= ID_SEQUENCER'
      BY <1>1, <2>1, IdsAssumption
    <2> HIDE DEF gone
    <2> QED BY <2>1, <2>2, <2>3, <2>4, KnownProceed
  <1>7. CASE Commit(c) \/ Throw(c)
    <2>1. PICK answer \in Answers : tx' = [tx EXCEPT ![c] = Closed(answer)]
      BY <1>7 DEF Commit, Throw, Answers
    <2>2. ID_SEQUENCER' = ID_SEQUENCER /\ tx \in [Clients -> Transaction]
      BY <1>7 DEF Commit, Throw, TypeOK
    <2>3. tx'[c].stage \in Idle /\ \A d \in Clients : d # c => tx'[d] = tx[d]
      BY <2>1, <2>2 DEF Closed, Idle
    <2>4. ItemsKnown(data', ID_SEQUENCER')
      <3>1. CASE Commit(c)
        <4>1. c \in Open /\ data' = tx[c].backup
          BY <3>1, OpenTransaction DEF Commit, Idle, Answers
        <4> QED BY <2>2, <4>1 DEF KnownInv
      <3>2. CASE Throw(c)
        BY <1>1, <2>2, <3>2 DEF Throw
      <3> QED BY <1>7, <3>1, <3>2
    <2>5. ID_SEQUENCER' \in 0..MaxId /\ ID_SEQUENCER <= ID_SEQUENCER'
      BY <1>1, <2>2, IdsAssumption
    <2> QED BY <2>3, <2>4, <2>5, KnownStep
  <1> QED BY <1>3, <1>4, <1>5, <1>6, <1>7

\* Every step keeps the stored ids known.
LEMMA KnownPreserved == TypeOK /\ KnownInv /\ [Next]_vars => KnownInv'
  <1>1. SUFFICES ASSUME TypeOK, KnownInv, [Next]_vars PROVE KnownInv'
    OBVIOUS
  <1>2. CASE UNCHANGED vars
    BY <1>1, <1>2 DEF vars, KnownInv, Open, ItemsKnown, RequestKnown, Known
  <1>3. CASE Next
    BY <1>1, <1>3, InsertItemsKnows, UpdateItemKnows, OthersKnow DEF Next
  <1> QED BY <1>1, <1>2, <1>3

\* However operations overlap, and whichever of them are rejected, the sequencer
\* is never behind an id that is stored (_insert, the ID_SEQUENCER).
THEOREM IdsAreKnown == Spec => []KnownIds
  <1>1. Init => KnownInv
    <2>1. ASSUME Init PROVE data.items = {} /\ Open = {}
      BY <2>1 DEF Init, createMemoryDatabase, Open, Closed, Idle
    <2> QED BY <2>1 DEF KnownInv, ItemsKnown
  <1>2. KnownInv => KnownIds
    BY DEF KnownInv, KnownIds, ItemsKnown, Known
  <1> QED BY <1>1, <1>2, TypeCorrect, KnownPreserved, PTL DEF Spec

------------------------------------------------------------------------------
\* What is stored can be loaded.  A copy that cannot be loaded belongs to an
\* operation that is about to throw, and is never committed.

LoadInv ==
    /\ AllLoad(data)
    /\ \A c \in Open : tx[c].stage # "throwing" => AllLoad(tx[c].backup)

\* Fewer items in as many tables load.
LEMMA FewerLoad ==
    ASSUME NEW db \in Database, AllLoad(db), NEW gone
    PROVE  AllLoad([db EXCEPT !.items = @ \ gone])
  <1>1. /\ [db EXCEPT !.items = @ \ gone].items = db.items \ gone
        /\ [db EXCEPT !.items = @ \ gone].tables = db.tables
    BY DEF Database
  <1> QED BY <1>1 DEF AllLoad, Loads, In

\* Items added to a table that can be loaded there leave it loadable.
LEMMA MoreLoad ==
    ASSUME NEW db, AllLoad(db), NEW t \in Tables, NEW kept \in SUBSET db.items, NEW added,
           \A x \in added : x.table = t,
           Loads([tables |-> db.tables \cup {t}, items |-> kept \cup added], t, added)
    PROVE  AllLoad([tables |-> db.tables \cup {t}, items |-> kept \cup added])
  <1> DEFINE new == [tables |-> db.tables \cup {t}, items |-> kept \cup added]
  <1>1. new.tables = db.tables \cup {t} /\ new.items = kept \cup added
    OBVIOUS
  <1>2. Loads(new, t, added)
    OBVIOUS
  <1> HIDE DEF new
  <1>3. ASSUME NEW u \in Tables, Parent[u] # NoTable, NEW x \in In(new, u)
        PROVE  x.ref # 0 /\ Parent[u] \in new.tables
    <2>1. CASE x \in added
      BY <1>1, <1>2, <1>3, <2>1 DEF Loads, In
    <2>2. CASE x \notin added
      BY <1>1, <1>3, <2>2 DEF AllLoad, Loads, In
    <2> QED BY <2>1, <2>2
  <1>4. AllLoad(new)
    BY <1>3 DEF AllLoad, Loads
  <1> QED BY <1>4 DEF new

\* One client starts, goes on or ends with a copy that loads or is dropped.
LEMMA LoadStep ==
    ASSUME LoadInv, NEW c \in Clients, AllLoad(data'),
           \A d \in Clients : d # c => tx'[d] = tx[d],
           tx'[c].stage \notin Idle \cup {"throwing"} => AllLoad(tx'[c].backup)
    PROVE  LoadInv'
  BY DEF LoadInv, Open, AllLoad, Loads, In

LEMMA LoadStart ==
    ASSUME TypeOK, LoadInv, NEW c \in Clients, NEW r, NEW stage, NEW backup,
           Start(c, r, stage, backup), stage = "throwing" \/ AllLoad(backup)
    PROVE  LoadInv'
  <1> DEFINE t == [request |-> r, stage |-> stage, backup |-> backup]
  <1>1. t.stage = stage /\ t.backup = backup
    OBVIOUS
  <1>2. tx' = [tx EXCEPT ![c] = t] /\ data' = data /\ tx \in [Clients -> Transaction]
    BY DEF Start, TypeOK
  <1> HIDE DEF t
  <1>3. tx'[c] = t /\ \A d \in Clients : d # c => tx'[d] = tx[d]
    BY <1>2
  <1>4. AllLoad(data')
    BY <1>2 DEF LoadInv
  <1> QED BY <1>1, <1>3, <1>4, LoadStep

LEMMA LoadProceed ==
    ASSUME TypeOK, LoadInv, NEW c \in Open, NEW stage, NEW backup,
           Proceed(c, stage, backup), data' = data, stage = "throwing" \/ AllLoad(backup)
    PROVE  LoadInv'
  <1>1. c \in Clients /\ tx[c].stage \notin Idle
    BY DEF Open
  <1>2. tx[c] \in Transaction
    BY <1>1 DEF TypeOK
  <1> DEFINE t == [tx[c] EXCEPT !.stage = stage, !.backup = backup]
  <1>3. t.stage = stage /\ t.backup = backup
    BY <1>2 DEF Transaction
  <1>4. tx' = [tx EXCEPT ![c] = t] /\ tx \in [Clients -> Transaction]
    BY DEF Proceed, TypeOK
  <1> HIDE DEF t
  <1>5. tx'[c] = t /\ \A d \in Clients : d # c => tx'[d] = tx[d]
    BY <1>1, <1>4
  <1>6. AllLoad(data')
    BY DEF LoadInv
  <1> QED BY <1>1, <1>3, <1>5, <1>6, LoadStep

\* An insert loads only its first entity, and throws when that fails.  When it
\* does not, the related table is there for the others as well.
LEMMA InsertItemsLoads ==
    ASSUME TypeOK, LoadInv, 0 \notin Refs, NEW c \in Clients, InsertItems(c)
    PROVE  LoadInv'
  <1> DEFINE r == tx[c].request
             db == tx[c].backup
             ids == NewIds(r.list)
             item(i) == [table |-> r.table, id |-> ids[i], val |-> r.val, ref |-> r.list[i].ref]
             added == {item(i) : i \in DOMAIN ids}
             new == [tables |-> db.tables \cup {r.table}, items |-> db.items \cup added]
  <1>1. /\ tx[c].stage = "before" /\ r.kind = "insert" /\ data' = data
        /\ \/ Proceed(c, LoadedStage(new, r.table, {item(1)}), new)
           \/ Proceed(c, "throwing", db)
    BY DEF InsertItems
  <1>2. r \in Requests /\ db \in Database /\ c \in Open
    BY <1>1, OpenTransaction DEF Idle, Answers
  <1>3. r \in Inserts /\ r.list \in Lists /\ r.table \in Tables
    BY <1>1, <1>2, RequestKinds DEF Inserts
  <1>4. AllLoad(db)
    BY <1>1, <1>2 DEF LoadInv
  <1>5. DOMAIN ids = 1..Len(r.list)
    BY DEF NewIds
  <1>6. \A i \in 1..Len(r.list) : item(i).table = r.table /\ item(i).ref = r.list[i].ref
    OBVIOUS
  <1>7. \A i \in 1..Len(r.list) : r.list[i].ref # 0
    BY <1>3, ListEntities DEF Entity
  <1>8. \A x \in added : x.table = r.table /\ x.ref # 0
    <2>1. SUFFICES ASSUME NEW x \in added PROVE x.table = r.table /\ x.ref # 0
      OBVIOUS
    <2>2. PICK i \in 1..Len(r.list) : x = item(i)
      BY <1>5
    <2> QED BY <1>6, <1>7, <2>2
  <1> HIDE DEF item, added
  <1>9. Loads(new, r.table, {item(1)}) => Loads(new, r.table, added)
    BY <1>8 DEF Loads
  <1>10. Loads(new, r.table, added) => AllLoad(new)
    BY <1>3, <1>4, <1>8, MoreLoad
  <1> HIDE DEF new
  <1>11. LoadedStage(new, r.table, {item(1)}) = "throwing" \/ AllLoad(new)
    BY <1>9, <1>10 DEF LoadedStage
  <1> QED BY <1>1, <1>2, <1>11, LoadProceed

\* An update loads what it has stored, and throws when that fails.
LEMMA UpdateItemLoads ==
    ASSUME TypeOK, LoadInv, NEW c \in Clients, UpdateItem(c)
    PROVE  LoadInv'
  <1> DEFINE r == tx[c].request
             db == tx[c].backup
             found == Matching(db, r.table, {r.id})
             saved == [table |-> r.table, id |-> r.id, val |-> r.val, ref |-> r.ref]
             merged(x) == [x EXCEPT !.val = IF "val" \in r.changed THEN r.val ELSE @,
                                    !.ref = IF "ref" \in r.changed THEN r.ref ELSE @]
             stored == IF found = {} THEN {saved} ELSE {merged(x) : x \in found}
             new == [tables |-> db.tables \cup {r.table}, items |-> (db.items \ found) \cup stored]
  <1>1. /\ tx[c].stage = "before" /\ r.kind = "update" /\ data' = data
        /\ Proceed(c, LoadedStage(new, r.table, stored), new)
    BY DEF UpdateItem
  <1>2. r \in Requests /\ db \in Database /\ c \in Open /\ r.table \in Tables
    BY <1>1, OpenTransaction, RequestKinds DEF Idle, Answers
  <1>3. AllLoad(db)
    BY <1>1, <1>2 DEF LoadInv
  <1>4. saved.table = r.table /\ \A x \in found : merged(x).table = r.table
    BY <1>2 DEF Matching, In, Database, Item
  <1>5. \A x \in stored : x.table = r.table
    <2> HIDE DEF merged, saved, found
    <2>1. CASE found = {}
      BY <1>4, <2>1
    <2>2. CASE found # {}
      BY <1>4, <2>2
    <2> QED BY <2>1, <2>2
  <1> HIDE DEF found, stored
  <1>6. Loads(new, r.table, stored) => AllLoad(new)
    <2>1. db.items \ found \in SUBSET db.items
      OBVIOUS
    <2> QED BY <1>2, <1>3, <1>5, <2>1, MoreLoad
  <1> HIDE DEF new
  <1>7. LoadedStage(new, r.table, stored) = "throwing" \/ AllLoad(new)
    BY <1>6 DEF LoadedStage
  <1> QED BY <1>1, <1>2, <1>7, LoadProceed

\* Nothing else adds items, and without deleteAll of a whole table no table goes.
LEMMA OthersLoad ==
    ASSUME TypeOK, LoadInv, CanDrop = FALSE, NEW c \in Clients,
           \/ Count(c) \/ Find(c) \/ Insert(c) \/ Update(c) \/ DeleteAll(c)
           \/ RemoveItems(c) \/ Commit(c) \/ Throw(c)
    PROVE  LoadInv'
  <1>1. AllLoad(data) /\ data \in Database
    BY DEF LoadInv, TypeOK
  <1>2. CASE Count(c) \/ Find(c) \/ Insert(c)
    <2>1. PICK r : \E stage : Start(c, r, stage, data)
      BY <1>2 DEF Count, Find, Insert
    <2> QED BY <1>1, <2>1, LoadStart
  <1>3. CASE Update(c)
    <2>1. PICK r : \E stage : Start(c, r, stage, data)
      BY <1>3 DEF Update
    <2> QED BY <1>1, <2>1, LoadStart
  <1>4. CASE DeleteAll(c)
    <2>1. \A r \in Deletes : r.all = FALSE
      BY DEF Deletes
    <2>2. PICK r \in Deletes : \E stage :
              \/ Start(c, r, stage, data)
              \/ Start(c, r, stage, [data EXCEPT !.items = @ \ Matching(data, r.table, r.ids)])
      BY <1>4, <2>1 DEF DeleteAll
    <2>3. AllLoad([data EXCEPT !.items = @ \ Matching(data, r.table, r.ids)])
      BY <1>1, FewerLoad
    <2> QED BY <1>1, <2>2, <2>3, LoadStart
  <1>5. CASE RemoveItems(c)
    <2> DEFINE db == tx[c].backup
               gone == Matching(db, tx[c].request.table, tx[c].request.ids)
    <2>1. /\ tx[c].stage = "before" /\ Proceed(c, "after", [db EXCEPT !.items = @ \ gone])
          /\ data' = data
      BY <1>5 DEF RemoveItems
    <2>2. db \in Database /\ c \in Open
      BY <2>1, OpenTransaction DEF Idle, Answers
    <2>3. AllLoad([db EXCEPT !.items = @ \ gone])
      BY <2>1, <2>2, FewerLoad DEF LoadInv
    <2> HIDE DEF gone
    <2> QED BY <2>1, <2>2, <2>3, LoadProceed
  <1>6. CASE Commit(c) \/ Throw(c)
    <2>1. PICK answer \in Answers : tx' = [tx EXCEPT ![c] = Closed(answer)]
      BY <1>6 DEF Commit, Throw, Answers
    <2>2. tx \in [Clients -> Transaction]
      BY DEF TypeOK
    <2>3. tx'[c].stage \in Idle /\ \A d \in Clients : d # c => tx'[d] = tx[d]
      BY <2>1, <2>2 DEF Closed, Idle
    <2>4. AllLoad(data')
      <3>1. CASE Commit(c)
        <4>1. c \in Open /\ data' = tx[c].backup /\ tx[c].stage # "throwing"
          BY <3>1, OpenTransaction DEF Commit, Idle, Answers
        <4> QED BY <4>1 DEF LoadInv
      <3>2. CASE Throw(c)
        BY <1>1, <3>2 DEF Throw
      <3> QED BY <1>6, <3>1, <3>2
    <2> QED BY <2>3, <2>4, LoadStep
  <1> QED BY <1>2, <1>3, <1>4, <1>5, <1>6

\* Where every stored reference is given and no table is dropped, no stored
\* entity makes findAll throw (_populateRelations), whatever overlaps: an
\* operation that would store one throws itself.
THEOREM StoredEntitiesLoad ==
    ASSUME CanDrop = FALSE, 0 \notin Refs
    PROVE  Spec => []EveryEntityLoads
  <1>1. Init => LoadInv
    <2>1. ASSUME Init PROVE data.items = {} /\ Open = {}
      BY <2>1 DEF Init, createMemoryDatabase, Open, Closed, Idle
    <2> QED BY <2>1 DEF LoadInv, AllLoad, Loads, In
  <1>2. TypeOK /\ LoadInv /\ [Next]_vars => LoadInv'
    <2>1. SUFFICES ASSUME TypeOK, LoadInv, [Next]_vars PROVE LoadInv'
      OBVIOUS
    <2>2. CASE UNCHANGED vars
      BY <2>1, <2>2 DEF vars, LoadInv, Open, AllLoad, Loads, In
    <2>3. CASE Next
      BY <2>1, <2>3, InsertItemsLoads, UpdateItemLoads, OthersLoad DEF Next
    <2> QED BY <2>1, <2>2, <2>3
  <1>3. LoadInv => EveryEntityLoads
    BY DEF LoadInv, EveryEntityLoads
  <1> QED BY <1>1, <1>2, <1>3, TypeCorrect, PTL DEF Spec

(***************************************************************************)
(* MemoryPersister implements EntityStore as long as one operation is in   *)
(* progress at a time, for any clients, tables, relations and ids.         *)
(***************************************************************************)

\* Items are in tables that exist (_insert and _update create the table first).
TablesExist(db) == \A x \in db.items : x.table \in db.tables

\* What an operation has yet to do starts from the database as it is, and what
\* it has done is the effect of its request on that database.
Faithful(t) ==
    /\ TablesExist(t.backup)
    /\ t.stage = "before" => /\ t.backup = data
                             /\ t.request.kind = "update" => t.request.changed # {}
    /\ t.stage \in {"after", "done"} => Store!Effect(t.request, data, t.backup)

StoreInv ==
    /\ TablesExist(data)
    /\ \A c, d \in Open : c = d
    /\ \A c \in Open : Faithful(tx[c])

------------------------------------------------------------------------------
\* Effects.

LEMMA EffectOfReading ==
    ASSUME NEW r \in Counts \cup Finds
    PROVE  Store!Effect(r, data, data)
  BY DEF Counts, Finds, Store!Effect, Store!Reads

LEMMA EffectOfNoChange ==
    ASSUME IdsAreUnique(data), NEW r \in Updates, r.changed = {}
    PROVE  Store!Effect(r, data, data)
  <1>1. \A x, y \in data.items :
            x.table = r.table /\ y.table = r.table /\ x.id = r.id /\ y.id = r.id => x = y
    BY DEF IdsAreUnique
  <1>2. Store!Updates(r, data, data)
    BY <1>1 DEF Store!Updates, Updates
  <1> QED BY <1>2 DEF Store!Effect

\* deleteAll removes what it matches; dropping the table is the same when that
\* is all there is, and so is leaving alone a table that does not exist.
LEMMA EffectOfRemoval ==
    ASSUME NEW db \in Database, TablesExist(db), NEW r \in Deletes
    PROVE  /\ Store!Effect(r, db, [db EXCEPT !.items = @ \ Matching(db, r.table, r.ids)])
           /\ TablesExist([db EXCEPT !.items = @ \ Matching(db, r.table, r.ids)])
           /\ r.table \notin db.tables => Store!Effect(r, db, db)
           /\ r.all => LET e == [tables |-> db.tables \ {r.table},
                                 items |-> db.items \ In(db, r.table)]
                       IN  Store!Effect(r, db, e) /\ TablesExist(e)
  <1> DEFINE matched == {x \in Store!In(db, r.table) : x.id \in r.ids}
             f == [db EXCEPT !.items = @ \ Matching(db, r.table, r.ids)]
             e == [tables |-> db.tables \ {r.table}, items |-> db.items \ In(db, r.table)]
  <1>1. r.kind = "delete"
    BY DEF Deletes
  <1>2. matched = Matching(db, r.table, r.ids)
    BY DEF Store!In, Matching, In
  <1>3. f.items = db.items \ matched /\ f.tables = db.tables
    BY <1>2 DEF Database
  <1>4. Store!Removes(r, db, f) /\ TablesExist(f)
    BY <1>1, <1>3 DEF Store!Removes, TablesExist
  <1>5. ASSUME r.table \notin db.tables PROVE Store!Removes(r, db, db)
    <2>1. matched = {}
      BY <1>5 DEF Store!In, TablesExist
    <2> QED BY <1>1, <2>1 DEF Store!Removes
  <1>6. ASSUME r.all PROVE Store!Removes(r, db, e) /\ TablesExist(e)
    <2>1. r.ids = Ids
      BY <1>6 DEF Deletes
    <2>2. matched = In(db, r.table)
      BY <2>1 DEF Store!In, In, Database, Item
    <2>3. TablesExist(e)
      BY DEF TablesExist, In
    <2> QED BY <1>1, <2>2, <2>3 DEF Store!Removes
  <1> QED BY <1>4, <1>5, <1>6 DEF Store!Effect

------------------------------------------------------------------------------
\* The ways a transaction changes.

\* With at most one operation in progress, one starts only when there is none.
LEMMA StartsAlone ==
    ASSUME MaxOpen = 1, IsFiniteSet(Clients), Cardinality(Open) < MaxOpen
    PROVE  Open = {}
  <1>1. IsFiniteSet(Open)
    <2>1. Open \in SUBSET Clients
      BY DEF Open
    <2> QED BY <2>1, FS_Subset
  <1>2. Cardinality(Open) \in Nat
    BY <1>1, FS_CardinalityType
  <1>3. Cardinality(Open) = 0
    BY <1>2
  <1> QED BY <1>1, <1>3, FS_EmptySet

LEMMA StoreStart ==
    ASSUME MaxOpen = 1, IsFiniteSet(Clients), TypeOK, StoreInv, NEW c \in Clients,
           NEW r, NEW stage, NEW backup, Start(c, r, stage, backup),
           TablesExist(backup),
           stage = "before" => backup = data /\ (r.kind = "update" => r.changed # {}),
           stage \in {"after", "done"} => Store!Effect(r, data, backup)
    PROVE  StoreInv'
  <1> DEFINE t == [request |-> r, stage |-> stage, backup |-> backup]
  <1>1. t.request = r /\ t.stage = stage /\ t.backup = backup
    OBVIOUS
  <1>2. tx' = [tx EXCEPT ![c] = t] /\ data' = data /\ tx \in [Clients -> Transaction]
    BY DEF Start, TypeOK
  <1> HIDE DEF t
  <1>3. tx'[c] = t /\ \A d \in Clients : d # c => tx'[d] = tx[d]
    BY <1>2
  <1>4. Open = {}
    BY StartsAlone DEF Start
  <1>5. \A d \in Open' : d = c
    BY <1>3, <1>4 DEF Open
  <1>6. Faithful(t)'
    <2>1. t.backup' = t.backup /\ t.stage' = t.stage /\ t.request' = t.request
      BY <1>1
    <2>2. Faithful(t)
      BY <1>1 DEF Faithful
    <2> QED BY <1>2, <2>2 DEF Faithful
  <1> QED BY <1>2, <1>3, <1>5, <1>6 DEF StoreInv

\* The operation in progress goes on with a copy that has its effect, or throws.
LEMMA StoreProceed ==
    ASSUME TypeOK, StoreInv, NEW c \in Open, NEW stage, NEW backup,
           Proceed(c, stage, backup), data' = data, stage # "before",
           TablesExist(backup),
           stage \in {"after", "done"} => Store!Effect(tx[c].request, data, backup)
    PROVE  StoreInv'
  <1>1. c \in Clients /\ tx[c] \in Transaction /\ tx[c].stage \notin Idle
    BY DEF TypeOK, Open
  <1> DEFINE t == [tx[c] EXCEPT !.stage = stage, !.backup = backup]
  <1>2. t.request = tx[c].request /\ t.stage = stage /\ t.backup = backup
    BY <1>1 DEF Transaction
  <1>3. tx' = [tx EXCEPT ![c] = t] /\ tx \in [Clients -> Transaction]
    BY DEF Proceed, TypeOK
  <1> HIDE DEF t
  <1>4. tx'[c] = t /\ \A d \in Clients : d # c => tx'[d] = tx[d]
    BY <1>1, <1>3
  <1>5. \A d \in Open' : d = c
    BY <1>4 DEF Open, StoreInv
  <1>6. Faithful(tx[c])'
    BY <1>2, <1>4 DEF Faithful
  <1> QED BY <1>4, <1>5, <1>6 DEF StoreInv

\* The operation in progress ends.
LEMMA StoreClose ==
    ASSUME TypeOK, StoreInv, NEW c \in Open, NEW answer \in Answers,
           tx' = [tx EXCEPT ![c] = Closed(answer)], TablesExist(data')
    PROVE  StoreInv'
  <1>1. c \in Clients /\ tx \in [Clients -> Transaction]
    BY DEF TypeOK, Open
  <1>2. tx'[c].stage \in Idle /\ \A d \in Clients : d # c => tx'[d] = tx[d]
    BY <1>1 DEF Closed, Idle
  <1>3. Open' = {}
    BY <1>2 DEF Open, StoreInv
  <1> QED BY <1>3 DEF StoreInv, TablesExist

------------------------------------------------------------------------------
\* The actions.

LEMMA FirstStretches ==
    ASSUME MaxOpen = 1, IsFiniteSet(Clients), TypeOK, UniqueIds, StoreInv, NEW c \in Clients,
           Count(c) \/ Find(c) \/ Insert(c) \/ Update(c) \/ DeleteAll(c)
    PROVE  StoreInv'
  <1>1. TablesExist(data) /\ IdsAreUnique(data) /\ data \in Database
    BY DEF StoreInv, UniqueIds, TypeOK
  <1>2. CASE Count(c) \/ Find(c)
    <2>1. PICK r \in Counts \cup Finds : \E stage : Start(c, r, stage, data) /\ stage # "before"
      BY <1>2 DEF Count, Find, LoadedStage
    <2> QED BY <1>1, <2>1, EffectOfReading, StoreStart
  <1>3. CASE Insert(c)
    <2>1. PICK r \in Inserts : Start(c, r, "before", data)
      BY <1>3 DEF Insert
    <2>2. r.kind # "update"
      BY DEF Inserts
    <2> QED BY <1>1, <2>1, <2>2, StoreStart
  <1>4. CASE Update(c)
    <2>1. PICK r \in Updates : \E stage :
              /\ Start(c, r, stage, data)
              /\ IF r.changed # {} THEN stage = "before" ELSE stage # "before"
      BY <1>4 DEF Update, LoadedStage
    <2>2. CASE r.changed # {}
      BY <1>1, <2>1, <2>2, StoreStart
    <2>3. CASE r.changed = {}
      BY <1>1, <2>1, <2>3, EffectOfNoChange, StoreStart
    <2> QED BY <2>2, <2>3
  <1>5. CASE DeleteAll(c)
    <2>1. PICK r \in Deletes :
              \/ r.table \notin data.tables /\ Start(c, r, "done", data)
              \/ Start(c, r, "throwing", data)
              \/ Start(c, r, "before", data)
              \/ /\ r.all
                 /\ Start(c, r, "done", [tables |-> data.tables \ {r.table},
                                         items |-> data.items \ In(data, r.table)])
              \/ Start(c, r, "done", [data EXCEPT !.items = @ \ Matching(data, r.table, r.ids)])
      BY <1>5 DEF DeleteAll
    <2>2. r.kind # "update"
      BY DEF Deletes
    <2>3. /\ Store!Effect(r, data, [data EXCEPT !.items = @ \ Matching(data, r.table, r.ids)])
          /\ TablesExist([data EXCEPT !.items = @ \ Matching(data, r.table, r.ids)])
          /\ r.table \notin data.tables => Store!Effect(r, data, data)
          /\ r.all => /\ Store!Effect(r, data, [tables |-> data.tables \ {r.table},
                                                items |-> data.items \ In(data, r.table)])
                      /\ TablesExist([tables |-> data.tables \ {r.table},
                                      items |-> data.items \ In(data, r.table)])
      BY <1>1, EffectOfRemoval
    <2>4. CASE r.table \notin data.tables /\ Start(c, r, "done", data)
      BY <1>1, <2>3, <2>4, StoreStart
    <2>5. CASE Start(c, r, "throwing", data) \/ Start(c, r, "before", data)
      BY <1>1, <2>2, <2>5, StoreStart
    <2>6. CASE /\ r.all
               /\ Start(c, r, "done", [tables |-> data.tables \ {r.table},
                                       items |-> data.items \ In(data, r.table)])
      BY <2>3, <2>6, StoreStart
    <2>7. CASE Start(c, r, "done", [data EXCEPT !.items = @ \ Matching(data, r.table, r.ids)])
      BY <2>3, <2>7, StoreStart
    <2> QED BY <2>1, <2>4, <2>5, <2>6, <2>7
  <1> QED BY <1>2, <1>3, <1>4, <1>5

\* The items of an insert have ids nobody has.
LEMMA InsertItemsFaithful ==
    ASSUME TypeOK, UniqueIds, StoreInv, NEW c \in Clients, InsertItems(c)
    PROVE  StoreInv'
  <1> DEFINE r == tx[c].request
             db == tx[c].backup
             ids == NewIds(r.list)
             item(i) == [table |-> r.table, id |-> ids[i], val |-> r.val, ref |-> r.list[i].ref]
             new == [tables |-> db.tables \cup {r.table},
                     items |-> db.items \cup {item(i) : i \in DOMAIN ids}]
  <1>1. /\ tx[c].stage = "before" /\ r.kind = "insert" /\ ~PastMaxId(r) /\ data' = data
        /\ \/ /\ Taken(db, r.table, ids) = {}
              /\ Proceed(c, LoadedStage(new, r.table, {item(1)}), new)
           \/ Proceed(c, "throwing", db)
    BY DEF InsertItems
  <1>2. r \in Requests /\ c \in Open
    BY <1>1, OpenTransaction DEF Idle, Answers
  <1>3. r \in Inserts /\ r.list \in Lists
    BY <1>1, <1>2, RequestKinds DEF Inserts
  <1>4. db = data /\ TablesExist(db)
    BY <1>1, <1>2 DEF StoreInv, Faithful
  <1>5. DOMAIN ids = 1..Len(r.list) /\ ids = [i \in 1..Len(r.list) |-> ids[i]]
    BY DEF NewIds
  <1>6. \A i \in 1..Len(r.list) : ids[i] \in Ids
    BY <1>1, <1>3, NewIdsAreIds DEF TypeOK
  <1>7. Len(r.list) \in Nat
    BY <1>3, ListLength
  <1>8. CASE /\ Taken(db, r.table, ids) = {}
             /\ Proceed(c, LoadedStage(new, r.table, {item(1)}), new)
    <2>1. ids \in Store!Assignments(data, r)
      <3>1. ids \in [1..Len(r.list) -> Ids]
        BY <1>5, <1>6
      <3>2. \A i \in 1..Len(r.list) : r.list[i].id # 0 => ids[i] = r.list[i].id
        BY DEF NewIds
      <3>3. \A i \in 1..Len(r.list) : /\ \A x \in In(data, r.table) : x.id # ids[i]
                                      /\ \A j \in 1..(i - 1) : ids[j] # ids[i]
        BY <1>4, <1>5, <1>8 DEF Taken
      <3> HIDE DEF ids
      <3>4. \A i, j \in 1..Len(r.list) : ids[i] = ids[j] => i = j
        BY <1>7, <3>3
      <3> QED BY <3>1, <3>2, <3>3, <3>4 DEF Store!Assignments, Store!In, In
    <2>2. new = [tables |-> data.tables \cup {r.table},
                 items |-> data.items \cup {item(i) : i \in 1..Len(r.list)}]
      BY <1>4, <1>5
    <2>3. Store!Effect(r, data, new)
      <3> HIDE DEF ids, r
      <3> QED BY <1>1, <2>1, <2>2 DEF Store!Effect, Store!Inserts
    <2>4. TablesExist(new)
      BY <1>4 DEF TablesExist
    <2>5. LoadedStage(new, r.table, {item(1)}) # "before"
      BY DEF LoadedStage
    <2> HIDE DEF new
    <2> QED BY <1>1, <1>2, <1>8, <2>3, <2>4, <2>5, StoreProceed
  <1>9. CASE Proceed(c, "throwing", db)
    BY <1>1, <1>2, <1>4, <1>9, StoreProceed
  <1> QED BY <1>1, <1>8, <1>9

\* An update changes the properties it names of the one item with its id.
LEMMA UpdateItemFaithful ==
    ASSUME TypeOK, UniqueIds, StoreInv, NEW c \in Clients, UpdateItem(c)
    PROVE  StoreInv'
  <1> DEFINE r == tx[c].request
             db == tx[c].backup
             found == Matching(db, r.table, {r.id})
             saved == [table |-> r.table, id |-> r.id, val |-> r.val, ref |-> r.ref]
             merged(x) == [x EXCEPT !.val = IF "val" \in r.changed THEN r.val ELSE @,
                                    !.ref = IF "ref" \in r.changed THEN r.ref ELSE @]
             stored == IF found = {} THEN {saved} ELSE {merged(x) : x \in found}
             new == [tables |-> db.tables \cup {r.table}, items |-> (db.items \ found) \cup stored]
  <1>1. /\ tx[c].stage = "before" /\ r.kind = "update" /\ data' = data
        /\ Proceed(c, LoadedStage(new, r.table, stored), new)
    BY DEF UpdateItem
  <1>2. r \in Requests /\ c \in Open /\ db \in Database
    BY <1>1, OpenTransaction DEF Idle, Answers
  <1>3. db = data /\ TablesExist(db) /\ r.changed # {} /\ IdsAreUnique(db)
    BY <1>1, <1>2 DEF StoreInv, Faithful, UniqueIds
  <1>4. new.items = (db.items \ found) \cup stored /\ new.tables = db.tables \cup {r.table}
    OBVIOUS
  <1>5. saved.table = r.table /\ saved.id = r.id
    OBVIOUS
  <1>6. \A x \in found :
            /\ x \in db.items /\ x.table = r.table /\ x.id = r.id
            /\ merged(x).table = r.table /\ merged(x).id = r.id
            /\ merged(x).val = IF "val" \in r.changed THEN r.val ELSE x.val
            /\ merged(x).ref = IF "ref" \in r.changed THEN r.ref ELSE x.ref
    BY <1>2 DEF Matching, In, Database, Item
  <1>7. \A x \in db.items : x.table = r.table /\ x.id = r.id => x \in found
    BY DEF Matching, In
  <1> HIDE DEF found, saved, merged
  <1>8. /\ \A x \in stored : x.table = r.table /\ x.id = r.id
        /\ \E x \in stored : TRUE
    BY <1>5, <1>6
  <1>9. \A x \in found, y \in stored :
            /\ y.val = IF "val" \in r.changed THEN r.val ELSE x.val
            /\ y.ref = IF "ref" \in r.changed THEN r.ref ELSE x.ref
    <2>1. SUFFICES ASSUME NEW x \in found, NEW y \in stored
                   PROVE  /\ y.val = IF "val" \in r.changed THEN r.val ELSE x.val
                          /\ y.ref = IF "ref" \in r.changed THEN r.ref ELSE x.ref
      OBVIOUS
    <2>2. PICK z \in found : y = merged(z)
      BY <2>1
    <2>3. z = x
      BY <1>3, <1>6 DEF IdsAreUnique
    <2> QED BY <1>6, <2>2, <2>3
  <1> HIDE DEF stored
  <1>10. \A y \in new.items : y.table = r.table /\ y.id = r.id <=> y \in stored
    BY <1>4, <1>7, <1>8
  <1> HIDE DEF new
  <1>11. Store!Updates(r, db, new)
    <2>1. {x \in Store!In(db, r.table) : x.id = r.id} = found
      BY <1>6, <1>7 DEF Store!In
    <2>2. {x \in Store!In(new, r.table) : x.id = r.id} = stored
      BY <1>4, <1>10 DEF Store!In
    <2>3. new.items \ stored = db.items \ found
      BY <1>4, <1>7, <1>8
    <2>4. \A x \in db.items, y \in new.items :
              x.table = r.table /\ y.table = r.table /\ x.id = r.id /\ y.id = r.id =>
                /\ y.val = IF "val" \in r.changed THEN r.val ELSE x.val
                /\ y.ref = IF "ref" \in r.changed THEN r.ref ELSE x.ref
      BY <1>7, <1>9, <1>10
    <2>5. \E y \in Store!In(new, r.table) : y.id = r.id
      BY <1>8, <2>2
    <2> HIDE DEF r
    <2> QED BY <1>1, <1>3, <2>1, <2>2, <2>3, <2>4, <2>5 DEF Store!Updates
  <1>12. Store!Effect(r, data, new)
    BY <1>3, <1>11 DEF Store!Effect
  <1>13. TablesExist(new)
    BY <1>3, <1>4, <1>8 DEF TablesExist
  <1>14. LoadedStage(new, r.table, stored) # "before"
    BY DEF LoadedStage
  <1> QED BY <1>1, <1>2, <1>12, <1>13, <1>14, StoreProceed

LEMMA RemoveItemsFaithful ==
    ASSUME TypeOK, StoreInv, NEW c \in Clients, RemoveItems(c)
    PROVE  StoreInv'
  <1> DEFINE r == tx[c].request
             new == [data EXCEPT !.items = @ \ Matching(data, r.table, r.ids)]
  <1>1. tx[c].stage = "before" /\ r.kind = "delete" /\ data' = data
    BY DEF RemoveItems
  <1>2. r \in Requests /\ c \in Open
    BY <1>1, OpenTransaction DEF Idle, Answers
  <1>3. r \in Deletes
    BY <1>1, <1>2, RequestKinds
  <1>4. tx[c].backup = data
    BY <1>1, <1>2 DEF StoreInv, Faithful
  <1>5. Proceed(c, "after", new)
    BY <1>4 DEF RemoveItems
  <1>6. Store!Effect(r, data, new) /\ TablesExist(new)
    BY <1>3, EffectOfRemoval DEF StoreInv, TypeOK
  <1> HIDE DEF new
  <1> QED BY <1>1, <1>2, <1>5, <1>6, StoreProceed

\* An operation ends: its effect on the database becomes visible, or it has none.
LEMMA Ends ==
    ASSUME TypeOK, StoreInv, NEW c \in Clients, Commit(c) \/ Throw(c)
    PROVE  /\ StoreInv'
           /\ Commit(c) => Store!Effect(tx[c].request, data, data')
           /\ c \in Open
  <1>1. CASE Commit(c)
    <2>1. c \in Open
      BY <1>1, OpenTransaction DEF Commit, Idle, Answers
    <2>2. TablesExist(data') /\ Store!Effect(tx[c].request, data, data')
      BY <1>1, <2>1 DEF StoreInv, Faithful, Commit
    <2>3. tx' = [tx EXCEPT ![c] = Closed("responded")] /\ "responded" \in Answers
      BY <1>1 DEF Commit, Answers
    <2> QED BY <2>1, <2>2, <2>3, StoreClose
  <1>2. CASE Throw(c) /\ ~Commit(c)
    <2>1. c \in Open /\ data' = data
      BY <1>2 DEF Throw
    <2>2. TablesExist(data')
      BY <2>1 DEF StoreInv
    <2>3. tx' = [tx EXCEPT ![c] = Closed("rejected")] /\ "rejected" \in Answers
      BY <1>2 DEF Throw, Answers
    <2> QED BY <1>2, <2>1, <2>2, <2>3, StoreClose
  <1> QED BY <1>1, <1>2

LEMMA StoreInvPreserved ==
    ASSUME MaxOpen = 1, IsFiniteSet(Clients), TypeOK, UniqueIds, StoreInv, [Next]_vars
    PROVE  StoreInv'
  <1>1. CASE UNCHANGED vars
    <2>1. \A t : Faithful(t) => Faithful(t)'
      BY <1>1 DEF vars, Faithful
    <2> QED BY <1>1, <2>1 DEF vars, StoreInv, Open, TablesExist, Faithful
  <1>2. CASE Next
    BY <1>2, FirstStretches, InsertItemsFaithful, UpdateItemFaithful, RemoveItemsFaithful, Ends
       DEF Next
  <1> QED BY <1>1, <1>2

------------------------------------------------------------------------------
\* The refinement.

Asked == [c \in Clients |-> tx[c].request]
Answer == [c \in Clients |-> IF tx[c].stage \in Answers THEN tx[c].stage ELSE "none"]

\* A request that starts is asked.
LEMMA StartIsAsk ==
    ASSUME TypeOK, NEW c \in Clients, NEW r \in Requests, NEW stage \in Stages, NEW backup,
           Start(c, r, stage, backup)
    PROVE  Store!Ask(c, r)
  <1> DEFINE t == [request |-> r, stage |-> stage, backup |-> backup]
  <1>1. t.request = r /\ t.stage = stage
    OBVIOUS
  <1>2. tx' = [tx EXCEPT ![c] = t] /\ data' = data /\ tx \in [Clients -> Transaction]
    BY DEF Start, TypeOK
  <1>3. tx[c].request = NoRequest
    BY DEF Start, TypeOK, Transaction, Stages, Idle, Answers
  <1> HIDE DEF t
  <1>4. tx'[c] = t /\ \A d \in Clients : d # c => tx'[d] = tx[d]
    BY <1>2
  <1>5. Asked' = [Asked EXCEPT ![c] = r]
    BY <1>1, <1>4 DEF Asked
  <1>6. Answer' = [Answer EXCEPT ![c] = "none"]
    BY <1>1, <1>4 DEF Answer, Stages, Answers
  <1>7. Asked[c] = Store!NoRequest
    BY <1>3 DEF Asked, NoRequest, Store!NoRequest
  <1> QED BY <1>2, <1>5, <1>6, <1>7 DEF Store!Ask, Asked, Answer

\* Between its first and its last stretch nothing of an operation is visible.
LEMMA ProceedIsHidden ==
    ASSUME TypeOK, NEW c \in Open, NEW stage \in Stages, NEW backup, Proceed(c, stage, backup)
    PROVE  Asked' = Asked /\ Answer' = Answer
  <1>1. c \in Clients /\ tx[c] \in Transaction /\ tx[c].stage \notin Idle
    BY DEF TypeOK, Open
  <1> DEFINE t == [tx[c] EXCEPT !.stage = stage, !.backup = backup]
  <1>2. t.request = tx[c].request /\ t.stage = stage
    BY <1>1 DEF Transaction
  <1>3. tx' = [tx EXCEPT ![c] = t] /\ tx \in [Clients -> Transaction]
    BY DEF Proceed, TypeOK
  <1> HIDE DEF t
  <1>4. tx'[c] = t /\ \A d \in Clients : d # c => tx'[d] = tx[d]
    BY <1>1, <1>3
  <1> QED BY <1>1, <1>2, <1>4 DEF Asked, Answer, Stages, Idle, Answers

\* Its end answers it.
LEMMA CloseAnswers ==
    ASSUME TypeOK, NEW c \in Open, NEW answer \in Answers,
           tx' = [tx EXCEPT ![c] = Closed(answer)]
    PROVE  /\ Asked[c] # Store!NoRequest
           /\ Asked' = [Asked EXCEPT ![c] = Store!NoRequest]
           /\ Answer' = [Answer EXCEPT ![c] = answer]
           /\ Asked[c] = tx[c].request
  <1>1. c \in Clients /\ tx[c].stage \notin Idle /\ tx \in [Clients -> Transaction]
    BY DEF TypeOK, Open
  <1>2. tx[c].request \in Requests
    BY <1>1, OpenTransaction
  <1>3. tx[c].request # Store!NoRequest
    <2>1. \A r \in Requests : r.kind # "none"
      BY DEF Requests, Counts, Finds, Inserts, Updates, Deletes
    <2>2. Store!NoRequest.kind = "none"
      BY DEF Store!NoRequest
    <2> QED BY <1>2, <2>1, <2>2
  <1>4. /\ tx'[c].request = Store!NoRequest /\ tx'[c].stage = answer
        /\ \A d \in Clients : d # c => tx'[d] = tx[d]
    BY <1>1 DEF Closed, NoRequest, Store!NoRequest
  <1> QED BY <1>1, <1>3, <1>4 DEF Asked, Answer

\* Every step of the persister is a step of the store, or hidden from it.
LEMMA StepIsStoreStep ==
    ASSUME TypeOK, StoreInv, [Next]_vars
    PROVE  [Store!Next]_(Store!vars)
  <1>1. CASE UNCHANGED vars
    BY <1>1 DEF vars, Store!vars
  <1>2. ASSUME NEW c \in Clients,
               Count(c) \/ Find(c) \/ Insert(c) \/ Update(c) \/ DeleteAll(c)
        PROVE  Store!Next
    <2>1. PICK r \in Requests, stage \in Stages : \E backup : Start(c, r, stage, backup)
      BY <1>2, RequestKinds DEF Count, Find, Insert, Update, DeleteAll, LoadedStage, Stages
    <2>2. Store!Ask(c, r)
      BY <2>1, StartIsAsk
    <2> QED BY <2>2 DEF Store!Next
  <1>3. ASSUME NEW c \in Clients, InsertItems(c) \/ UpdateItem(c) \/ RemoveItems(c)
        PROVE  UNCHANGED Store!vars
    <2>1. c \in Open /\ data' = data
      BY <1>3, OpenTransaction DEF InsertItems, UpdateItem, RemoveItems, Idle, Answers
    <2>2. PICK stage \in Stages : \E backup : Proceed(c, stage, backup)
      BY <1>3 DEF InsertItems, UpdateItem, RemoveItems, LoadedStage, Stages
    <2>3. Asked' = Asked /\ Answer' = Answer
      BY <2>1, <2>2, ProceedIsHidden
    <2> QED BY <2>1, <2>3 DEF Store!vars, Asked, Answer
  <1>4. ASSUME NEW c \in Clients, Commit(c)
        PROVE  Store!Respond(c)
    <2>1. c \in Open /\ Store!Effect(tx[c].request, data, data')
      BY <1>4, Ends
    <2>2. tx' = [tx EXCEPT ![c] = Closed("responded")] /\ "responded" \in Answers
      BY <1>4 DEF Commit, Answers
    <2> QED BY <2>1, <2>2, CloseAnswers DEF Store!Respond, Asked, Answer
  <1>5. ASSUME NEW c \in Clients, Throw(c)
        PROVE  Store!Reject(c)
    <2>1. c \in Open /\ data' = data
      BY <1>5 DEF Throw
    <2>2. tx' = [tx EXCEPT ![c] = Closed("rejected")] /\ "rejected" \in Answers
      BY <1>5 DEF Throw, Answers
    <2> QED BY <2>1, <2>2, CloseAnswers DEF Store!Reject, Asked, Answer
  <1>6. CASE Next
    BY <1>2, <1>3, <1>4, <1>5, <1>6 DEF Next, Store!Next
  <1> QED BY <1>1, <1>6

\* Nothing is stored and nothing is asked in the beginning.
LEMMA InitIsStoreInit == Init => StoreInv /\ Store!Init
  <1>1. SUFFICES ASSUME Init PROVE StoreInv /\ Store!Init
    OBVIOUS
  <1>2. \A c \in Clients : tx[c].request = NoRequest /\ tx[c].stage = "none"
    BY <1>1 DEF Init, Closed
  <1>3. Open = {}
    BY <1>2 DEF Open, Idle
  <1>4. StoreInv
    BY <1>1, <1>3 DEF Init, StoreInv, TablesExist, createMemoryDatabase
  <1>5. Store!Init
    BY <1>1, <1>2 DEF Init, Store!Init, createMemoryDatabase, Store!EmptyDatabase, NoRequest,
       Store!NoRequest, Answers
  <1> QED BY <1>4, <1>5

\* With one operation in progress at a time, whatever its callbacks do, the
\* persister is the store it promises to be (_transaction): each call has its
\* whole effect when it responds, and none when it is rejected.
THEOREM SerialOperationsActAsStore ==
    ASSUME MaxOpen = 1, IsFiniteSet(Clients)
    PROVE  Spec => ActsAsStore
  <1>1. TypeOK /\ UniqueIds /\ StoreInv /\ [Next]_vars => StoreInv'
    BY StoreInvPreserved
  <1>2. TypeOK /\ StoreInv /\ [Next]_vars => [Store!Next]_(Store!vars)
    BY StepIsStoreStep
  <1> QED BY <1>1, <1>2, InitIsStoreInit, TypeCorrect, IdsStayUnique, PTL
        DEF Spec, ActsAsStore, Store!Spec
==============================================================================
