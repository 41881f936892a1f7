----------------------- MODULE SimpleMemoryRepository -----------------------
(***************************************************************************)
(* SimpleMemoryRepository: an operation runs to its end in one stretch,    *)
(* but for those that look an item up before they change it and those that *)
(* delete one item after the other.  An operation for an item that is not  *)
(* there throws and changes nothing: that is no step of its own where it   *)
(* is the first of the operation.  The random ids of createItem are taken  *)
(* to be unused: the one that it tests is not the one that it uses.        *)
(***************************************************************************)
EXTENDS Naturals

CONSTANTS ItemIds, Values, MemberNames,
          MemoryClients,
          MaxVersion       \* bound on the versions

VARIABLES items,           \* _items
          used,            \* the ids of all items that were created
          call             \* the operation of each client

memoryVars == <<items, used, call>>

Present == DOMAIN items

Idle == [stage |-> "idle"]

NewItem(value, members) ==
    [version |-> 1, value |-> value, members |-> members, invited |-> {}]

Init == items = <<>> /\ used = {} /\ call = [c \in MemoryClients |-> Idle]

------------------------------------------------------------------------------
\* What the operations do to the items

With(id, item) == [i \in Present \cup {id} |-> IF i = id THEN item ELSE items[i]]

CreateItem(value, members) ==
    \E id \in ItemIds \ used :
      /\ items' = With(id, NewItem(value, members))
      /\ used' = used \cup {id}

\* Fault: what was found is taken to be there still.
UpdateAnyItem(id, value) ==
    /\ id \in Present => items[id].version < MaxVersion
    /\ items' = IF id \in Present THEN [items EXCEPT ![id].version = @ + 1, ![id].value = value]
                                  ELSE With(id, NewItem(value, {}))
    /\ used' = used

\* update looks the item up itself, and throws when it is not there.
UpdateItem(id, value) ==
    /\ id \in Present => items[id].version < MaxVersion
    /\ items' = IF id \in Present THEN [items EXCEPT ![id].version = @ + 1, ![id].value = value]
                                  ELSE items
    /\ used' = used

DeleteItem(id) ==
    /\ items' = [i \in Present \ {id} |-> items[i]]
    /\ used' = used

------------------------------------------------------------------------------
\* Operations of one stretch

createItem(value, members) == CreateItem(value, members) /\ UNCHANGED call

update(id, value) == id \in Present /\ UpdateItem(id, value) /\ UNCHANGED call

deleteById(id) == id \in Present /\ DeleteItem(id) /\ UNCHANGED call

inviteToItem(id, names) ==
    /\ id \in Present
    /\ items' = [items EXCEPT ![id].invited = (@ \cup names) \ items[id].members]
    /\ UNCHANGED <<used, call>>

subscribeToItem(id) ==
    /\ id \in Present
    /\ items' = [items EXCEPT ![id].members = @ \cup items[id].invited, ![id].invited = {}]
    /\ UNCHANGED <<used, call>>

------------------------------------------------------------------------------
\* Operations that await others

Begin(c, next) ==
    /\ call[c].stage \in {"idle", "deleted"}
    /\ call' = [call EXCEPT ![c] = next]

\* findByIdAndUpdate and updateOrCreateItem: findById is awaited.
findThenUpdate(c, id, value, orCreate) ==
    /\ id \in Present \/ orCreate
    /\ Begin(c, [stage |-> IF id \in Present THEN "found" ELSE "missing", id |-> id, value |-> value])
    /\ UNCHANGED <<items, used>>

UpdateFound(c) ==
    /\ call[c].stage = "found"
    /\ UpdateItem(call[c].id, call[c].value)
    /\ call' = [call EXCEPT ![c] = Idle]

CreateMissing(c) ==
    /\ call[c].stage = "missing"
    /\ CreateItem(call[c].value, {})
    /\ call' = [call EXCEPT ![c] = Idle]

\* deleteByIdList, deleteByList, deleteAll: the first item is deleted in the
\* stretch of the call.
deleteByIdList(c, ids) ==
    \E id \in ids \cap Present :
      /\ Begin(c, [stage |-> "deleting", ids |-> ids, todo |-> ids \ {id}])
      /\ DeleteItem(id)

\* An item that somebody else has deleted ends the operation with an error.
DeleteNext(c) ==
    /\ call[c].stage = "deleting"
    /\ \E id \in call[c].todo :
         /\ call' = [call EXCEPT ![c] = IF id \in Present THEN [@ EXCEPT !.todo = call[c].todo \ {id}]
                                                          ELSE Idle]
         /\ DeleteItem(id)

ReturnDeleted(c) ==
    /\ call[c].stage = "deleting" /\ call[c].todo = {}
    /\ call' = [call EXCEPT ![c] = [stage |-> "deleted", ids |-> @.ids]]
    /\ UNCHANGED <<items, used>>

Next ==
    \/ \E value \in Values, members \in SUBSET MemberNames : createItem(value, members)
    \/ \E id \in ItemIds :
         \/ \E value \in Values : update(id, value)
         \/ \E names \in SUBSET MemberNames : inviteToItem(id, names)
         \/ subscribeToItem(id)
         \/ deleteById(id)
    \/ \E c \in MemoryClients :
         \/ \E id \in ItemIds, value \in Values, orCreate \in BOOLEAN : findThenUpdate(c, id, value, orCreate)
         \/ \E ids \in SUBSET ItemIds : deleteByIdList(c, ids)
         \/ UpdateFound(c) \/ CreateMissing(c) \/ DeleteNext(c) \/ ReturnDeleted(c)

MemorySpec == Init /\ [][Next]_memoryVars

------------------------------------------------------------------------------
\* Properties

Repository == INSTANCE SimpleRepository WITH gone <- used \ DOMAIN items

\* Every step of an operation is one of what a repository promises, or changes
\* nothing: an item that somebody deletes between the lookup and the update is
\* not created again, and no update is lost.
MemoryIsRepository == Repository!Spec

\* A list of items whose deletion has succeeded is gone, and stays so,
\* whatever others have created and updated meanwhile.
DeletedListIsGone ==
    \A c \in MemoryClients : call[c].stage = "deleted" => call[c].ids \cap Present = {}
==============================================================================
