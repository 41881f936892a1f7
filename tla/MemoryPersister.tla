--------------------------- MODULE MemoryPersister ---------------------------
(***************************************************************************)
(* MemoryPersister: every operation works on a private copy of the whole   *)
(* database, which replaces the database when the operation is done.       *)
(*                                                                         *)
(* One action is one run-to-completion stretch of JavaScript.  Operations  *)
(* are suspended wherever they await a life-cycle callback, and at least   *)
(* once between taking the copy and committing it, so that operations of   *)
(* several clients interleave at those points.  How long they are is left  *)
(* open: without callbacks it is a few microtasks, with callbacks it is as *)
(* long as these take.  Prompt restricts the behaviours to those in which  *)
(* nobody else comes between where an operation waits for no callback.     *)
(*                                                                         *)
(* An entity is [table, id, val, ref]: val stands for its own properties   *)
(* and ref for the join column of its ManyToOne relation (0 is "no id").   *)
(* The order of the items of a table is left out.                          *)
(***************************************************************************)
EXTENDS Naturals, Sequences, FiniteSets

CONSTANTS Clients,         \* whoever has an operation in progress
          Tables,
          Vals,
          NoTable,
          Parent,          \* the table a ManyToOne relation maps to, or NoTable
          CallbackTables,  \* tables whose entities have life-cycle callbacks
          GivenIds,        \* ids that callers choose themselves
          Refs,            \* references callers store; 0 is a missing one
          CanDrop,         \* do callers use deleteAll without a Where?
          Prompt,          \* does only a callback keep an operation waiting?
          MaxId,           \* bound on the ids
          MaxOpen          \* bound on the operations in progress at once

ASSUME TablesAssumption ==
    /\ NoTable \notin Tables
    /\ Parent \in [Tables -> Tables \cup {NoTable}]
    /\ CallbackTables \subseteq Tables

ASSUME IdsAssumption ==
    /\ MaxId \in Nat
    /\ GivenIds \subseteq 1..MaxId
    /\ Refs \subseteq 0..MaxId

ASSUME BoundsAssumption == MaxOpen \in Nat \ {0} /\ CanDrop \in BOOLEAN /\ Prompt \in BOOLEAN

VARIABLES data,         \* _data
          ID_SEQUENCER,
          tx            \* the operation in progress of each client

vars == <<data, ID_SEQUENCER, tx>>

Ids == 1..MaxId
Item == [table : Tables, id : Ids, val : Vals, ref : 0..MaxId]
Database == [tables : SUBSET Tables, items : SUBSET Item]

\* The operations and their arguments.  An insert has a list of entities, with
\* or without id; an update has the set of properties that differ from the
\* last state the persister returned of the entity; ids is what a Where matches.
Entity == [id : {0} \cup GivenIds, ref : Refs]
Lists == {<<e>> : e \in Entity} \cup {<<e, f>> : e \in Entity, f \in Entity}
Wheres == {{i} : i \in Ids} \cup {Ids}

Counts == [kind : {"count"}, table : Tables]
Finds == [kind : {"find"}, table : Tables, ids : Wheres]
Inserts == [kind : {"insert"}, table : Tables, list : Lists, val : Vals]
Updates == [kind : {"update"}, table : Tables, id : Ids, val : Vals, ref : Refs,
            changed : SUBSET {"val", "ref"}]
Deletes == [kind : {"delete"}, table : Tables, ids : Wheres, all : {FALSE}]
           \cup (IF CanDrop THEN [kind : {"delete"}, table : Tables, ids : {Ids}, all : {TRUE}]
                            ELSE {})
Requests == Counts \cup Finds \cup Inserts \cup Updates \cup Deletes

NoRequest == [kind |-> "none"]

------------------------------------------------------------------------------
\* Databases

createMemoryDatabase == [tables |-> {}, items |-> {}]

In(db, t) == {x \in db.items : x.table = t}

Matching(db, t, ids) == {x \in In(db, t) : x.id \in ids}

\* _populateRelations: a ManyToOne relation needs the id of the related entity
\* and an existing table to look it up in; that it is not found is no error.
Loads(db, t, items) ==
    Parent[t] # NoTable =>
        \A x \in items : x.ref # 0 /\ Parent[t] \in db.tables

HasCallbacks(t) == t \in CallbackTables

------------------------------------------------------------------------------
\* Transactions

\* A client without an operation in progress: it has not asked for any, or its
\* last one was answered.
Answers == {"responded", "rejected"}
Idle == {"none"} \cup Answers
Closed(stage) == [request |-> NoRequest, stage |-> stage, backup |-> createMemoryDatabase]

Open == {c \in Clients : tx[c].stage \notin Idle}

\* Life-cycle callbacks run.
CallsBack(t) == t.stage \in {"before", "after"} /\ HasCallbacks(t.request.table)

\* May the event loop go on with c?
Scheduled(c) == Prompt => \A d \in Open \ {c} : CallsBack(tx[d])

\* _transaction copies the database and starts the operation.  The stages are
\* "before" the operation changes its copy, while the pre callbacks run; "after"
\* that, while the post callbacks run; "done", with no callback left; "throwing".
Stages == {"before", "after", "done", "throwing"}

Start(c, r, stage, backup) ==
    /\ Scheduled(c)
    /\ tx[c].stage \in Idle
    /\ Cardinality(Open) < MaxOpen
    /\ tx' = [tx EXCEPT ![c] = [request |-> r, stage |-> stage, backup |-> backup]]
    /\ UNCHANGED <<data, ID_SEQUENCER>>

\* The operation goes on with its copy.
Proceed(c, stage, backup) ==
    /\ Scheduled(c)
    /\ tx' = [tx EXCEPT ![c] = [@ EXCEPT !.stage = stage, !.backup = backup]]

\* Fault: a relation that cannot be loaded is left out silently.
LoadedStageLenient(db, t, items) == IF HasCallbacks(t) /\ items # {} THEN "after" ELSE "done"

\* The stage of an operation that has loaded some items to return them.
LoadedStage(db, t, items) ==
    IF ~Loads(db, t, items) THEN "throwing"
    ELSE IF HasCallbacks(t) /\ items # {} THEN "after"
    ELSE "done"

\* count, existsBy: read the copy; no callbacks.
Count(c) == \E r \in Counts : Start(c, r, "done", data)

\* findAll, findBy: read the copy, populate the relations of all that match or
\* of the first that matches, run the post load callbacks.
Find(c) ==
    \E r \in Finds :
        LET found == Matching(data, r.table, r.ids)
        IN  \E items \in {found} \cup {{x} : x \in found} :
                Start(c, r, LoadedStage(data, r.table, items), data)

\* insert: clones the entities, runs the pre persist callbacks.
Insert(c) == \E r \in Inserts : Start(c, r, "before", data)

\* update: with no changed property the entity is only looked up, and must be
\* there; otherwise runs the pre update callbacks.  Callers have ids they chose
\* and ids they were given, perhaps of entities that were deleted since.
Update(c) ==
    \E r \in Updates :
        LET found == Matching(data, r.table, {r.id})
        IN  /\ r.id \in GivenIds \cup 1..ID_SEQUENCER
            /\ IF r.changed # {} THEN Start(c, r, "before", data)
               ELSE IF found = {} THEN Start(c, r, "throwing", data)
               ELSE Start(c, r, LoadedStage(data, r.table, found), data)

\* deleteAll: without remove callbacks, removes at once what it matches, or the
\* whole table; with them, loads the entities and runs the pre remove callbacks.
DeleteAll(c) ==
    \E r \in Deletes :
        LET t == r.table
            found == Matching(data, t, r.ids)
        IN  IF t \notin data.tables THEN Start(c, r, "done", data)
            ELSE IF HasCallbacks(t) /\ ~Loads(data, t, found) THEN Start(c, r, "throwing", data)
            ELSE IF HasCallbacks(t) /\ found # {} THEN Start(c, r, "before", data)
            ELSE IF r.all /\ ~HasCallbacks(t)
                 THEN Start(c, r, "done", [tables |-> data.tables \ {t},
                                           items |-> data.items \ In(data, t)])
            ELSE Start(c, r, "done", [data EXCEPT !.items = @ \ found])

------------------------------------------------------------------------------
\* The stretches after the pre callbacks.

\* The number of ids the sequencer hands out to the first i entities of a list.
Generated(list, i) == Cardinality({j \in 1..i : list[j].id = 0})

\* Fault: the sequencer is incremented after it is read.
NewIdsBehind(list) ==
    [i \in 1..Len(list) |-> IF list[i].id = 0 THEN ID_SEQUENCER + Generated(list, i) - 1
                                              ELSE list[i].id]

\* The ids of the entities of a list.
NewIds(list) ==
    [i \in 1..Len(list) |-> IF list[i].id = 0 THEN ID_SEQUENCER + Generated(list, i)
                                              ELSE list[i].id]

\* Fault: the new ids are not added to the ids that are taken.
TakenInCopy(db, t, ids) == {i \in DOMAIN ids : \E x \in In(db, t) : x.id = ids[i]}

\* The entities of a list whose id is taken, in the copy or earlier in the list.
Taken(db, t, ids) ==
    {i \in DOMAIN ids : \/ \E x \in In(db, t) : x.id = ids[i]
                        \/ \E j \in 1..(i - 1) : ids[j] = ids[i]}

\* Would the insert pass the bound on ids?
PastMaxId(r) == ID_SEQUENCER + Generated(r.list, Len(r.list)) > MaxId

\* Fault: the sequencer advances once per insert, not once per entity.
InsertItemsOnce(c) ==
    LET r == tx[c].request
        db == tx[c].backup
        ids == NewIds(r.list)
        item(i) == [table |-> r.table, id |-> ids[i], val |-> r.val, ref |-> r.list[i].ref]
        new == [tables |-> db.tables \cup {r.table},
                items |-> db.items \cup {item(i) : i \in DOMAIN ids}]
    IN  /\ tx[c].stage = "before" /\ r.kind = "insert"
        /\ ~PastMaxId(r)
        /\ ID_SEQUENCER' = ID_SEQUENCER + Generated(r.list, 1)
        /\ Proceed(c, IF Taken(db, r.table, ids) = {} THEN "done" ELSE "throwing", new)
        /\ data' = data

\* insert, after the pre persist callbacks.  Only the first item is returned,
\* and only its relations are populated.
InsertItems(c) ==
    LET r == tx[c].request
        db == tx[c].backup
        ids == NewIds(r.list)
        taken == Taken(db, r.table, ids)
        item(i) == [table |-> r.table, id |-> ids[i], val |-> r.val, ref |-> r.list[i].ref]
        new == [tables |-> db.tables \cup {r.table},
                items |-> db.items \cup {item(i) : i \in DOMAIN ids}]
    IN  /\ tx[c].stage = "before" /\ r.kind = "insert"
        /\ ~PastMaxId(r)
        /\ \/ /\ taken = {}
              /\ ID_SEQUENCER' = ID_SEQUENCER + Generated(r.list, Len(r.list))
              /\ Proceed(c, LoadedStage(new, r.table, {item(1)}), new)
           \/ \E i \in taken :
              /\ \A j \in taken : i <= j
              /\ ID_SEQUENCER' = ID_SEQUENCER + Generated(r.list, i)
              /\ Proceed(c, "throwing", db)
        /\ data' = data

\* update, after the pre update callbacks: the changed properties are written
\* over the stored entity; an entity that is not stored is stored.
UpdateItem(c) ==
    LET r == tx[c].request
        db == tx[c].backup
        found == Matching(db, r.table, {r.id})
        saved == [table |-> r.table, id |-> r.id, val |-> r.val, ref |-> r.ref]
        merged(x) == [x EXCEPT !.val = IF "val" \in r.changed THEN r.val ELSE @,
                               !.ref = IF "ref" \in r.changed THEN r.ref ELSE @]
        stored == IF found = {} THEN {saved} ELSE {merged(x) : x \in found}
        new == [tables |-> db.tables \cup {r.table}, items |-> (db.items \ found) \cup stored]
    IN  /\ tx[c].stage = "before" /\ r.kind = "update"
        /\ Proceed(c, LoadedStage(new, r.table, stored), new)
        /\ UNCHANGED <<data, ID_SEQUENCER>>

\* deleteAll, after the pre remove callbacks.
RemoveItems(c) ==
    LET r == tx[c].request
        db == tx[c].backup
    IN  /\ tx[c].stage = "before" /\ r.kind = "delete"
        /\ Proceed(c, "after", [db EXCEPT !.items = @ \ Matching(db, r.table, r.ids)])
        /\ UNCHANGED <<data, ID_SEQUENCER>>

\* The operation is done: its copy becomes the database.
Commit(c) ==
    /\ Scheduled(c)
    /\ tx[c].stage \in {"after", "done"}
    /\ data' = tx[c].backup
    /\ tx' = [tx EXCEPT ![c] = Closed("responded")]
    /\ UNCHANGED ID_SEQUENCER

\* Fault: an operation that throws leaves what it has done.
ThrowKeepsCopy(c) ==
    /\ c \in Open /\ Scheduled(c)
    /\ \/ tx[c].stage = "throwing"
       \/ CallsBack(tx[c])
       \/ tx[c].stage = "before" /\ tx[c].request.kind = "insert" /\ PastMaxId(tx[c].request)
    /\ data' = tx[c].backup
    /\ tx' = [tx EXCEPT ![c] = Closed("rejected")]
    /\ UNCHANGED ID_SEQUENCER

\* A life-cycle callback, or the operation itself, throws: the copy is dropped.
\* (So is that of an insert that would pass the bound on ids.)
Throw(c) ==
    /\ c \in Open /\ Scheduled(c)
    /\ \/ tx[c].stage = "throwing"
       \/ CallsBack(tx[c])
       \/ tx[c].stage = "before" /\ tx[c].request.kind = "insert" /\ PastMaxId(tx[c].request)
    /\ tx' = [tx EXCEPT ![c] = Closed("rejected")]
    /\ UNCHANGED <<data, ID_SEQUENCER>>

Init ==
    /\ data = createMemoryDatabase
    /\ ID_SEQUENCER = 0
    /\ tx = [c \in Clients |-> Closed("none")]

Next ==
    \E c \in Clients :
        \/ Count(c)
        \/ Find(c)
        \/ Insert(c)
        \/ Update(c)
        \/ DeleteAll(c)
        \/ InsertItems(c)
        \/ UpdateItem(c)
        \/ RemoveItems(c)
        \/ Commit(c)
        \/ Throw(c)

Spec == Init /\ [][Next]_vars

------------------------------------------------------------------------------
\* Properties

Transaction ==
    [request : {NoRequest}, stage : Idle, backup : {createMemoryDatabase}]
    \cup [request : Requests, stage : Stages, backup : Database]

TypeOK ==
    /\ data \in Database
    /\ ID_SEQUENCER \in 0..MaxId
    /\ tx \in [Clients -> Transaction]

\* Ids identify: no two items of a table have the same id.
IdsAreUnique(db) ==
    \A x, y \in db.items : x.table = y.table /\ x.id = y.id => x = y

\* Whatever overlaps, neither the database nor a copy that may still become the
\* database has two items with one id.
UniqueIds ==
    /\ IdsAreUnique(data)
    /\ \A c \in Open : IdsAreUnique(tx[c].backup)

\* The entities of a table can all be loaded together.
AllLoad(db) == \A t \in Tables : Loads(db, t, In(db, t))

\* What is stored can be found: no stored entity makes findAll throw.
EveryEntityLoads == AllLoad(data)

\* Generated ids are new: the sequencer is never behind an id it handed out.
KnownIds ==
    \A x \in data.items \cup UNION {tx[c].backup.items : c \in Open} :
        x.id \in GivenIds \/ x.id <= ID_SEQUENCER

\* The inductive invariant behind TypeOK and UniqueIds.
IndInv == TypeOK /\ UniqueIds

\* Counting and finding entities leaves the database as it is.
ReadsChangeNothing ==
    [][\A c \in Clients :
          tx[c].request.kind \in {"count", "find"} /\ tx'[c].stage \in Answers
              => data' = data]_vars

\* Operations that do not overlap are atomic, and change nothing when rejected.
Store == INSTANCE EntityStore WITH
            db <- data,
            asked <- [c \in Clients |-> tx[c].request],
            answer <- [c \in Clients |-> IF tx[c].stage \in Answers THEN tx[c].stage ELSE "none"]

ActsAsStore == Store!Spec
==============================================================================
