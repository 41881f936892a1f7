----------------------- MODULE SimpleRepositoryAdapter -----------------------
(***************************************************************************)
(* SimpleRepositoryAdapter: a simple repository over a CrudRepository,     *)
(* whose save() asks whether the entity exists and updates it in another   *)
(* call.  Each call of the persister is one step, as EntityStore promises: *)
(* an update writes the changed fields, and stores an entity that was      *)
(* deleted meanwhile again.                                                *)
(*                                                                         *)
(* deleteByIdList marks entities as deleted, deleteById and deleteAll      *)
(* remove them.  One operation is in progress at a time: the calls of      *)
(* operations that overlap may write over each other's fields, and store   *)
(* again what another has removed, so that nothing is promised of them;    *)
(* what becomes of an entity that is gone meanwhile is told nevertheless.  *)
(***************************************************************************)
EXTENDS Naturals

CONSTANTS ItemIds, Values, MemberNames,
          MaxCount         \* bound on the versions

VARIABLES entities,        \* the stored entities by their id
          assigned,        \* the ids that the persister has given to entities
          work             \* the operation in progress

adapterVars == <<entities, assigned, work>>

Stored == DOMAIN entities

NewEntity(value, members) ==
    [version |-> 1, value |-> value, members |-> members, invited |-> {}, deleted |-> FALSE]

\* copies holds what an operation has found and not saved yet.
Free == [stage |-> "free", copies |-> <<>>]

Init == entities = <<>> /\ assigned = {} /\ work = Free

------------------------------------------------------------------------------
\* How an operation changes an entity: the fields that it has computed from its
\* copy are written, the others are those of the entity that is stored.

Counting(copy, kept) == [kept EXCEPT !.version = copy.version + 1]

\* Fault: invitations that are accepted stay open.
AcceptInvitedOnce(copy, kept) ==
    [Counting(copy, kept) EXCEPT !.members = copy.members \cup copy.invited]

AcceptInvited(copy, kept) ==
    [Counting(copy, kept) EXCEPT !.members = copy.members \cup copy.invited, !.invited = {}]
AddInvited(copy, kept, names) ==
    [Counting(copy, kept) EXCEPT !.invited = (copy.invited \cup names) \ copy.members]
SetData(copy, kept, value) == [Counting(copy, kept) EXCEPT !.value = value]
MarkDeleted(copy, kept) == [Counting(copy, kept) EXCEPT !.deleted = TRUE]

Changed(ask, copy, kept) ==
    CASE ask.kind = "subscribeToItem"                     -> AcceptInvited(copy, kept)
      [] ask.kind = "inviteToItem"                        -> AddInvited(copy, kept, ask.names)
      [] ask.kind \in {"update", "updateOrCreateItem"}    -> SetData(copy, kept, ask.value)
      [] ask.kind \in {"deleteById", "deleteByIdList"}    -> MarkDeleted(copy, kept)

------------------------------------------------------------------------------
\* Operations

OperationAsks ==
    [kind : {"subscribeToItem", "deleteById"}, ids : {{i} : i \in ItemIds}]
    \cup [kind : {"inviteToItem"}, ids : {{i} : i \in ItemIds}, names : SUBSET MemberNames \ {{}}]
    \cup [kind : {"update", "updateOrCreateItem"}, ids : {{i} : i \in ItemIds}, value : Values, members : {{}}]
    \cup [kind : {"deleteByIdList"}, ids : SUBSET ItemIds \ {{}}]
    \cup [kind : {"createItem"}, ids : {{}}, value : Values, members : SUBSET MemberNames]
    \cup [kind : {"deleteAll"}, ids : {{}}]

\* What an operation asks the persister first.
FirstStage(ask) ==
    CASE ask.kind = "createItem"         -> "insert"
      [] ask.kind = "deleteAll"          -> "clear"
      [] ask.kind = "updateOrCreateItem" -> "lookup"
      [] OTHER                           -> "find"

Call(ask) ==
    /\ work = Free
    /\ work' = [stage |-> FirstStage(ask), ask |-> ask, copies |-> <<>>]
    /\ UNCHANGED <<entities, assigned>>

With(id, e) == [i \in Stored \cup {id} |-> IF i = id THEN e ELSE entities[i]]

At(stage) == work.stage = stage
Goes(stage, copies) == work' = [stage |-> stage, ask |-> work.ask, copies |-> copies]
Ends == work' = Free

\* save() of an entity without an id.
Insert ==
    /\ At("insert")
    /\ \E id \in ItemIds \ assigned :
         /\ entities' = With(id, NewEntity(work.ask.value, work.ask.members))
         /\ assigned' = assigned \cup {id}
    /\ Ends

\* updateOrCreateItem: update() looks the item up once more.
LookUp ==
    /\ At("lookup")
    /\ Goes(IF work.ask.ids \subseteq Stored THEN "find" ELSE "insert", <<>>)
    /\ UNCHANGED <<entities, assigned>>

\* findById or findAllById: a single item that is not there is an error, a list
\* has only those that are.
Find ==
    /\ At("find")
    /\ LET found == work.ask.ids \cap Stored IN
       IF found = {} THEN Ends
       ELSE Goes("exists", [id \in found |-> entities[id]])
    /\ UNCHANGED <<entities, assigned>>

\* save(), saveAll(): existsById, one entity after the other; one that is gone
\* ends the operation.
Exists ==
    /\ At("exists")
    /\ \E id \in DOMAIN work.copies :
         IF id \in Stored
         THEN work' = [stage |-> "write", ask |-> work.ask, copies |-> work.copies, id |-> id]
         ELSE Ends
    /\ UNCHANGED <<entities, assigned>>

\* save(): the update.  The fields it does not write stay, or are those of the
\* copy when there is no entity any more.
Write ==
    /\ At("write")
    /\ LET id     == work.id
           copy   == work.copies[id]
           kept   == IF id \in Stored THEN entities[id] ELSE copy
           rest   == [i \in DOMAIN work.copies \ {id} |-> work.copies[i]]
       IN  /\ copy.version < MaxCount
           /\ entities' = With(id, Changed(work.ask, copy, kept))
           /\ IF rest # <<>> THEN Goes("exists", rest)
              ELSE IF work.ask.kind = "deleteById" THEN Goes("remove", <<>>)
              ELSE Ends
    /\ UNCHANGED assigned

\* deleteById: the entity that was marked is removed.
Remove ==
    /\ At("remove")
    /\ entities' = [id \in Stored \ work.ask.ids |-> entities[id]]
    /\ Ends
    /\ UNCHANGED assigned

\* deleteAll, after what it returns has been read.
Clear ==
    /\ At("clear")
    /\ entities' = <<>>
    /\ Ends
    /\ UNCHANGED assigned

Next ==
    \/ \E ask \in OperationAsks : Call(ask)
    \/ Insert \/ LookUp \/ Find \/ Exists \/ Write \/ Remove \/ Clear

AdapterSpec == Init /\ [][Next]_adapterVars

------------------------------------------------------------------------------
\* Properties

\* What getAll returns.
Live == {id \in Stored : ~entities[id].deleted}
Entry(e) == [version |-> e.version, value |-> e.value, members |-> e.members, invited |-> e.invited]
LiveItems == [id \in Live |-> Entry(entities[id])]

Repository == INSTANCE SimpleRepository WITH items <- LiveItems, gone <- assigned \ Live

\* What getAll returns changes as a repository promises: each change is counted,
\* members are invited no more, and nothing that was deleted or marked as
\* deleted comes back, though it can still be found and changed.
SerialCallsAreRepository == Repository!Spec
==============================================================================
