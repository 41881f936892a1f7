----------------------- MODULE SimpleRepository_proofs -----------------------
(***************************************************************************)
(* Both implementations of a simple repository do what SimpleRepository    *)
(* says, for any ids, values and names: SimpleMemoryRepository with any    *)
(* number of overlapping calls, SimpleRepositoryAdapter with one operation *)
(* at a time.                                                              *)
(***************************************************************************)
EXTENDS Services, TLAPS

------------------------------------------------------------------------------
\* SimpleMemoryRepository: the shape of its state.

Item == [version : Nat, value : Values, members : SUBSET MemberNames, invited : SUBSET MemberNames]

Calls ==
    [stage : {"idle"}]
    \cup [stage : {"found", "missing"}, id : ItemIds, value : Values]
    \cup [stage : {"deleting"}, ids : SUBSET ItemIds, todo : SUBSET ItemIds]
    \cup [stage : {"deleted"}, ids : SUBSET ItemIds]

ItemsOK ==
    /\ items \in [Memory!Present -> Item]
    /\ used \subseteq ItemIds
    /\ Memory!Present \subseteq used

CallsOK == call \in [MemoryClients -> Calls]

MemoryTypeOK == ItemsOK /\ CallsOK

\* Ids that were used and are not there.
Gone == used \ Memory!Present

\* What an operation has deleted of its list is gone, also while it goes on.
DeletedIsGone ==
    \A c \in MemoryClients :
        /\ call[c].stage = "deleting" => call[c].ids \ call[c].todo \subseteq Gone
        /\ call[c].stage = "deleted" => call[c].ids \subseteq Gone

MemoryInv == MemoryTypeOK /\ DeletedIsGone

------------------------------------------------------------------------------
\* What the parts of operations do is a step of the repository.

LEMMA CreateIsStep ==
    ASSUME ItemsOK, NEW value \in Values, NEW members \in SUBSET MemberNames, Memory!CreateItem(value, members)
    PROVE  /\ ItemsOK' /\ Gone' = Gone
           /\ Memory!Repository!Create
  <1>1. PICK id \in ItemIds \ used :
            /\ items' = Memory!With(id, Memory!NewItem(value, members))
            /\ used' = used \cup {id}
    BY DEF Memory!CreateItem
  <1> DEFINE item == Memory!NewItem(value, members)
  <1>2. item \in Item
    BY DEF Memory!NewItem, Item
  <1>3. item = Memory!Repository!NewItem(value, members)
    BY DEF Memory!NewItem, Memory!Repository!NewItem
  <1> HIDE DEF item
  <1>4. items' = [i \in Memory!Present \cup {id} |-> IF i = id THEN item ELSE items[i]]
    BY <1>1 DEF Memory!With, item
  <1>5. Memory!Present' = Memory!Present \cup {id} /\ id \notin Memory!Present /\ id \notin used
    BY <1>4 DEF ItemsOK, Memory!Present
  <1>6. items' \in [Memory!Present' -> Item]
    BY <1>2, <1>4, <1>5 DEF ItemsOK
  <1>7. ItemsOK'
    BY <1>1, <1>5, <1>6 DEF ItemsOK
  <1>8. Gone' = Gone
    BY <1>1, <1>5 DEF Gone
  <1>9. id \notin DOMAIN items \cup (used \ DOMAIN items)
    BY <1>1, <1>5 DEF Memory!Present
  <1>10. Memory!Repository!Create
    BY <1>1, <1>3, <1>4, <1>8, <1>9 DEF Memory!Repository!Create, Gone, Memory!Present
  <1> QED BY <1>7, <1>8, <1>10

\* An item is changed in place.
LEMMA ChangeKeeps ==
    ASSUME ItemsOK, NEW id \in Memory!Present, NEW next \in Item,
           items' = [items EXCEPT ![id] = next], used' = used
    PROVE  ItemsOK' /\ Gone' = Gone
  BY DEF ItemsOK, Memory!Present, Gone

LEMMA UpdatedItem ==
    ASSUME NEW e \in Item, NEW value \in Values
    PROVE  [e EXCEPT !.version = @ + 1, !.value = value] \in Item
  <1>1. PICK next \in Nat : e.version + 1 = next
    BY DEF Item
  <1>2. [e EXCEPT !.version = next, !.value = value] \in Item
    BY DEF Item
  <1> QED BY <1>1, <1>2

LEMMA UpdateIsStep ==
    ASSUME ItemsOK, NEW id \in ItemIds, NEW value \in Values, Memory!UpdateItem(id, value)
    PROVE  /\ ItemsOK' /\ Gone' = Gone
           /\ Memory!Repository!Update \/ UNCHANGED <<items, used>>
  <1>1. CASE id \notin Memory!Present
    <2>1. UNCHANGED <<items, used>>
      BY <1>1 DEF Memory!UpdateItem
    <2> QED BY <2>1 DEF ItemsOK, Gone, Memory!Present
  <1>2. CASE id \in Memory!Present
    <2> DEFINE next == [items[id] EXCEPT !.version = @ + 1, !.value = value]
    <2>1. items[id] \in Item
      BY <1>2 DEF ItemsOK
    <2>2. next \in Item
      BY <2>1, UpdatedItem
    <2>3. items' = [items EXCEPT ![id] = next] /\ used' = used
      BY <1>2 DEF Memory!UpdateItem, ItemsOK, Memory!Present
    <2>4. ItemsOK' /\ Gone' = Gone
      BY <1>2, <2>2, <2>3, ChangeKeeps
    <2>5. Memory!Repository!Update
      BY <1>2, <2>3, <2>4 DEF Memory!Repository!Update, Memory!Repository!Change, Gone, Memory!Present
    <2> QED BY <2>4, <2>5
  <1> QED BY <1>1, <1>2

LEMMA DeleteIsStep ==
    ASSUME ItemsOK, NEW id, Memory!DeleteItem(id)
    PROVE  /\ ItemsOK' /\ Gone' = Gone \cup ({id} \cap used)
           /\ Memory!Repository!Delete
  <1>1. items' = [i \in Memory!Present \ {id} |-> items[i]] /\ used' = used
    BY DEF Memory!DeleteItem
  <1>2. Memory!Present' = Memory!Present \ {id}
    BY <1>1 DEF Memory!Present
  <1>3. ItemsOK'
    BY <1>1, <1>2 DEF ItemsOK
  <1>4. Gone' = Gone \cup ({id} \cap used)
    BY <1>1, <1>2 DEF Gone, ItemsOK
  <1> DEFINE ids == {id} \cap Memory!Present
  <1>5. /\ ids \in SUBSET DOMAIN items
        /\ items' = [i \in DOMAIN items \ ids |-> items[i]]
        /\ (used \ DOMAIN items)' = (used \ DOMAIN items) \cup ids
    BY <1>1, <1>2 DEF Memory!Present, ItemsOK
  <1>6. Memory!Repository!Delete
    BY <1>5 DEF Memory!Repository!Delete
  <1> QED BY <1>3, <1>4, <1>6

LEMMA InviteIsStep ==
    ASSUME ItemsOK, NEW id \in ItemIds, NEW invited \in SUBSET MemberNames, Memory!inviteToItem(id, invited)
    PROVE  ItemsOK' /\ Gone' = Gone /\ Memory!Repository!Invite
  <1> DEFINE next == [items[id] EXCEPT !.invited = (@ \cup invited) \ items[id].members]
  <1>1. id \in Memory!Present /\ items[id] \in Item
    BY DEF Memory!inviteToItem, ItemsOK
  <1>2. next \in Item
    BY <1>1 DEF Item
  <1>3. items' = [items EXCEPT ![id] = next] /\ used' = used
    BY <1>1 DEF Memory!inviteToItem, ItemsOK, Memory!Present
  <1>4. ItemsOK' /\ Gone' = Gone
    BY <1>1, <1>2, <1>3, ChangeKeeps
  <1>5. items[id] \in Memory!Repository!Counted(items[id])
    BY DEF Memory!Repository!Counted
  <1>6. Memory!Repository!Invite
    BY <1>1, <1>3, <1>4, <1>5 DEF Memory!Repository!Invite, Memory!Repository!Change, Gone, Memory!Present
  <1> QED BY <1>4, <1>6

LEMMA SubscribeIsStep ==
    ASSUME ItemsOK, NEW id \in ItemIds, Memory!subscribeToItem(id)
    PROVE  ItemsOK' /\ Gone' = Gone /\ Memory!Repository!Subscribe
  <1> DEFINE next == [items[id] EXCEPT !.members = @ \cup items[id].invited, !.invited = {}]
  <1>1. id \in Memory!Present /\ items[id] \in Item
    BY DEF Memory!subscribeToItem, ItemsOK
  <1>2. next \in Item
    BY <1>1 DEF Item
  <1>3. items' = [items EXCEPT ![id] = next] /\ used' = used
    BY <1>1 DEF Memory!subscribeToItem, ItemsOK, Memory!Present
  <1>4. ItemsOK' /\ Gone' = Gone
    BY <1>1, <1>2, <1>3, ChangeKeeps
  <1>5. items[id] \in Memory!Repository!Counted(items[id])
    BY DEF Memory!Repository!Counted
  <1>6. Memory!Repository!Subscribe
    BY <1>1, <1>3, <1>4, <1>5 DEF Memory!Repository!Subscribe, Memory!Repository!Change, Gone, Memory!Present
  <1> QED BY <1>4, <1>6

LEMMA StepIsRepositoryStep ==
    ASSUME MemoryTypeOK, Memory!Next
    PROVE  /\ ItemsOK' /\ Gone \subseteq Gone'
           /\ Memory!Repository!Next \/ UNCHANGED <<items, used>>
  <1> USE DEF MemoryTypeOK
  <1>1. CASE \E value \in Values, members \in SUBSET MemberNames : Memory!createItem(value, members)
    BY <1>1, CreateIsStep DEF Memory!createItem, Memory!Repository!Next
  <1>2. CASE \E id \in ItemIds, value \in Values : Memory!update(id, value)
    BY <1>2, UpdateIsStep DEF Memory!update, Memory!Repository!Next
  <1>3. CASE \E id \in ItemIds, invited \in SUBSET MemberNames : Memory!inviteToItem(id, invited)
    BY <1>3, InviteIsStep DEF Memory!Repository!Next
  <1>4. CASE \E id \in ItemIds : Memory!subscribeToItem(id)
    BY <1>4, SubscribeIsStep DEF Memory!Repository!Next
  <1>5. CASE \E id \in ItemIds : Memory!deleteById(id)
    BY <1>5, DeleteIsStep DEF Memory!deleteById, Memory!Repository!Next
  <1>6. ASSUME NEW c \in MemoryClients, Memory!UpdateFound(c)
        PROVE  /\ ItemsOK' /\ Gone \subseteq Gone'
               /\ Memory!Repository!Next \/ UNCHANGED <<items, used>>
    <2>1. call[c].id \in ItemIds /\ call[c].value \in Values /\ Memory!UpdateItem(call[c].id, call[c].value)
      BY <1>6 DEF Memory!UpdateFound, CallsOK, Calls
    <2> QED BY <2>1, UpdateIsStep DEF Memory!Repository!Next
  <1>7. ASSUME NEW c \in MemoryClients, Memory!CreateMissing(c)
        PROVE  /\ ItemsOK' /\ Gone \subseteq Gone'
               /\ Memory!Repository!Next \/ UNCHANGED <<items, used>>
    <2>1. call[c].value \in Values /\ Memory!CreateItem(call[c].value, {})
      BY <1>7 DEF Memory!CreateMissing, CallsOK, Calls
    <2> QED BY <2>1, CreateIsStep DEF Memory!Repository!Next
  <1>8. ASSUME NEW c \in MemoryClients, NEW ids \in SUBSET ItemIds, Memory!deleteByIdList(c, ids)
        PROVE  /\ ItemsOK' /\ Gone \subseteq Gone'
               /\ Memory!Repository!Next \/ UNCHANGED <<items, used>>
    BY <1>8, DeleteIsStep DEF Memory!deleteByIdList, Memory!Repository!Next
  <1>9. ASSUME NEW c \in MemoryClients, Memory!DeleteNext(c)
        PROVE  /\ ItemsOK' /\ Gone \subseteq Gone'
               /\ Memory!Repository!Next \/ UNCHANGED <<items, used>>
    BY <1>9, DeleteIsStep DEF Memory!DeleteNext, Memory!Repository!Next
  <1>10. CASE UNCHANGED <<items, used>>
    BY <1>10 DEF ItemsOK, Gone, Memory!Present
  <1> QED
    BY <1>1, <1>2, <1>3, <1>4, <1>5, <1>6, <1>7, <1>8, <1>9, <1>10
       DEF Memory!Next, Memory!findThenUpdate, Memory!ReturnDeleted

------------------------------------------------------------------------------
\* What a client knows of its own operation.

LEMMA InvHolds == Memory!MemorySpec => []MemoryInv
  <1>1. Memory!Init => MemoryInv
    BY DEF Memory!Init, MemoryInv, MemoryTypeOK, ItemsOK, CallsOK, Calls, Memory!Present, Memory!Idle, DeletedIsGone
  <1>2. MemoryInv /\ [Memory!Next]_(Memory!memoryVars) => MemoryInv'
    <2> SUFFICES ASSUME MemoryInv, [Memory!Next]_(Memory!memoryVars)
                 PROVE  MemoryInv'
      OBVIOUS
    <2>1. CASE UNCHANGED Memory!memoryVars
      BY <2>1 DEF Memory!memoryVars, MemoryInv, MemoryTypeOK, ItemsOK, CallsOK, Memory!Present, DeletedIsGone, Gone
    <2>2. ASSUME Memory!Next PROVE ItemsOK' /\ Gone \subseteq Gone'
      BY <2>2, StepIsRepositoryStep DEF MemoryInv
    <2> DEFINE Good(d) == /\ call'[d] \in Calls
                          /\ call'[d].stage = "deleting" => call'[d].ids \ call'[d].todo \subseteq Gone'
                          /\ call'[d].stage = "deleted" => call'[d].ids \subseteq Gone'
    <2>3. ASSUME Memory!Next, NEW d \in MemoryClients, call'[d] = call[d]
          PROVE  Good(d)
      BY <2>2, <2>3 DEF MemoryInv, MemoryTypeOK, CallsOK, DeletedIsGone
    <2>4. ASSUME Memory!Next, call' \in [MemoryClients -> Calls], \A d \in MemoryClients : Good(d)
          PROVE  MemoryInv'
      BY <2>2, <2>4 DEF MemoryInv, MemoryTypeOK, CallsOK, DeletedIsGone
    <2> HIDE DEF Good
    <2>5. ASSUME Memory!Next, NEW c \in MemoryClients, NEW t \in Calls, call' = [call EXCEPT ![c] = t], Good(c)
          PROVE  MemoryInv'
      <3>1. call' \in [MemoryClients -> Calls] /\ \A d \in MemoryClients : d # c => call'[d] = call[d]
        BY <2>5 DEF MemoryInv, MemoryTypeOK, CallsOK
      <3> QED BY <3>1, <2>3, <2>4, <2>5
    <2>6. CASE Memory!Next /\ UNCHANGED call
      BY <2>3, <2>4, <2>6 DEF MemoryInv, MemoryTypeOK, CallsOK
    <2>7. ASSUME NEW c \in MemoryClients, NEW id \in ItemIds, NEW value \in Values, NEW orCreate \in BOOLEAN,
                 Memory!findThenUpdate(c, id, value, orCreate)
          PROVE  MemoryInv'
      <3> DEFINE t == [stage |-> IF id \in Memory!Present THEN "found" ELSE "missing", id |-> id, value |-> value]
      <3>1. t \in Calls /\ t.stage \notin {"deleting", "deleted"}
        BY DEF Calls
      <3>2. Memory!Next /\ call' = [call EXCEPT ![c] = t]
        BY <2>7 DEF Memory!findThenUpdate, Memory!Begin, Memory!Next
      <3> HIDE DEF t
      <3>3. Good(c)
        BY <3>1, <3>2 DEF Good, MemoryInv, MemoryTypeOK, CallsOK
      <3> QED BY <2>5, <3>1, <3>2, <3>3
    <2>8. ASSUME NEW c \in MemoryClients, Memory!UpdateFound(c) \/ Memory!CreateMissing(c)
          PROVE  MemoryInv'
      <3>1. Memory!Idle \in Calls /\ Memory!Idle.stage = "idle"
        BY DEF Memory!Idle, Calls
      <3>2. Memory!Next /\ call' = [call EXCEPT ![c] = Memory!Idle]
        BY <2>8 DEF Memory!UpdateFound, Memory!CreateMissing, Memory!Next
      <3>3. Good(c)
        BY <3>1, <3>2 DEF Good, MemoryInv, MemoryTypeOK, CallsOK
      <3> QED BY <2>5, <3>1, <3>2, <3>3
    <2>9. ASSUME NEW c \in MemoryClients, NEW ids \in SUBSET ItemIds, Memory!deleteByIdList(c, ids)
          PROVE  MemoryInv'
      <3>1. PICK id \in ids \cap Memory!Present :
                /\ call' = [call EXCEPT ![c] = [stage |-> "deleting", ids |-> ids, todo |-> ids \ {id}]]
                /\ Memory!DeleteItem(id)
        BY <2>9 DEF Memory!deleteByIdList, Memory!Begin
      <3> DEFINE t == [stage |-> "deleting", ids |-> ids, todo |-> ids \ {id}]
      <3>2. t \in Calls /\ t.stage = "deleting" /\ t.ids \ t.todo \subseteq {id}
        BY DEF Calls
      <3>3. Memory!Next /\ call' = [call EXCEPT ![c] = t]
        BY <2>9, <3>1 DEF Memory!Next
      <3> HIDE DEF t
      <3>4. id \in Gone'
        BY <3>1, DeleteIsStep DEF MemoryInv, MemoryTypeOK, ItemsOK
      <3>5. Good(c)
        BY <3>2, <3>3, <3>4 DEF Good, MemoryInv, MemoryTypeOK, CallsOK
      <3> QED BY <2>5, <3>2, <3>3, <3>5
    <2>10. ASSUME NEW c \in MemoryClients, Memory!DeleteNext(c)
           PROVE  MemoryInv'
      <3>1. call[c] \in [stage : {"deleting"}, ids : SUBSET ItemIds, todo : SUBSET ItemIds]
        BY <2>10 DEF Memory!DeleteNext, MemoryInv, MemoryTypeOK, CallsOK, Calls
      <3> DEFINE next(id) == IF id \in Memory!Present THEN [call[c] EXCEPT !.todo = call[c].todo \ {id}] ELSE Memory!Idle
      <3>2. PICK id \in call[c].todo : /\ call' = [call EXCEPT ![c] = next(id)]
                                       /\ Memory!DeleteItem(id)
        BY <2>10 DEF Memory!DeleteNext
      <3> DEFINE t == next(id)
      <3>3. /\ t \in Calls /\ t.stage \in {"deleting", "idle"}
            /\ t.stage = "deleting" => /\ id \in Memory!Present
                                       /\ t.ids = call[c].ids /\ t.todo = call[c].todo \ {id}
        BY <3>1 DEF Calls, Memory!Idle
      <3>4. Memory!Next /\ call' = [call EXCEPT ![c] = t]
        <4>1. Memory!Next
          BY <2>10 DEF Memory!Next
        <4>2. call' = [call EXCEPT ![c] = t]
          BY <3>2
        <4> QED BY <4>1, <4>2
      <3> HIDE DEF t
      <3>5. id \in Memory!Present => id \in Gone'
        BY <3>2, DeleteIsStep DEF MemoryInv, MemoryTypeOK, ItemsOK
      <3>6. call[c].ids \ call[c].todo \subseteq Gone'
        BY <3>1, <3>4, <2>2 DEF MemoryInv, DeletedIsGone
      <3>7. Good(c)
        BY <3>3, <3>4, <3>5, <3>6 DEF Good, MemoryInv, MemoryTypeOK, CallsOK
      <3> QED BY <2>5, <3>3, <3>4, <3>7
    <2>11. ASSUME NEW c \in MemoryClients, Memory!ReturnDeleted(c)
           PROVE  MemoryInv'
      <3>1. call[c] \in [stage : {"deleting"}, ids : SUBSET ItemIds, todo : SUBSET ItemIds]
        BY <2>11 DEF Memory!ReturnDeleted, MemoryInv, MemoryTypeOK, CallsOK, Calls
      <3> DEFINE t == [stage |-> "deleted", ids |-> call[c].ids]
      <3>2. t \in Calls /\ t.stage = "deleted" /\ t.ids = call[c].ids
        BY <3>1 DEF Calls
      <3>3. Memory!Next /\ call' = [call EXCEPT ![c] = t]
        BY <2>11 DEF Memory!ReturnDeleted, Memory!Next, MemoryInv, MemoryTypeOK, CallsOK
      <3> HIDE DEF t
      <3>4. call[c].ids \subseteq Gone'
        BY <3>1, <3>3, <2>2, <2>11 DEF MemoryInv, DeletedIsGone, Memory!ReturnDeleted
      <3>5. Good(c)
        BY <3>2, <3>3, <3>4 DEF Good, MemoryInv, MemoryTypeOK, CallsOK
      <3> QED BY <2>5, <3>2, <3>3, <3>5
    <2> QED
      BY <2>1, <2>6, <2>7, <2>8, <2>9, <2>10, <2>11
         DEF Memory!Next, Memory!createItem, Memory!update, Memory!deleteById, Memory!inviteToItem, Memory!subscribeToItem
  <1> QED BY <1>1, <1>2, PTL DEF Memory!MemorySpec

------------------------------------------------------------------------------
\* For any ids, values, names and clients: what deleteByIdList, deleteByList and
\* deleteAll have deleted when they return stays away, although other
\* operations that have found the items before go on to update or create.
THEOREM DeletedListsStayGone == Memory!MemorySpec => []DeletedListIsGone
  <1>1. MemoryInv => DeletedListIsGone
    BY DEF MemoryInv, DeletedIsGone, DeletedListIsGone, Memory!DeletedListIsGone, Gone
  <1> QED BY <1>1, InvHolds, PTL

\* For any ids, values, names and clients: however the operations of a
\* SimpleMemoryRepository overlap between a lookup and the update after it and
\* between the deletions of a list, each of their steps is one that a simple
\* repository makes, and no item comes back.
THEOREM OverlappingCallsActAsRepository == Memory!MemorySpec => MemoryIsRepository
  <1>1. Memory!Init => Memory!Repository!Init
    BY DEF Memory!Init, Memory!Repository!Init
  <1>2. MemoryInv /\ [Memory!Next]_(Memory!memoryVars) => [Memory!Repository!Next]_(Memory!Repository!repository)
    <2> SUFFICES ASSUME MemoryInv, [Memory!Next]_(Memory!memoryVars)
                 PROVE  [Memory!Repository!Next]_(Memory!Repository!repository)
      OBVIOUS
    <2>1. ASSUME UNCHANGED <<items, used>> PROVE UNCHANGED Memory!Repository!repository
      BY <2>1 DEF Memory!Repository!repository
    <2>2. CASE UNCHANGED Memory!memoryVars
      BY <2>1, <2>2 DEF Memory!memoryVars
    <2>3. CASE Memory!Next
      BY <2>1, <2>3, StepIsRepositoryStep DEF MemoryInv
    <2> QED BY <2>2, <2>3
  <1> QED
    BY <1>1, <1>2, InvHolds, PTL DEF Memory!MemorySpec, MemoryIsRepository, Memory!MemoryIsRepository, Memory!Repository!Spec

------------------------------------------------------------------------------
\* SimpleRepositoryAdapter: what is stored, and what the operation in progress
\* knows of it.

Entity == [version : Nat, value : Values, members : SUBSET MemberNames, invited : SUBSET MemberNames,
           deleted : BOOLEAN]

StoredOK ==
    /\ entities \in [Adapter!Stored -> Entity]
    /\ Adapter!Stored \subseteq assigned
    /\ assigned \subseteq ItemIds

\* The operations that find entities and save them.
Saving == {"subscribeToItem", "inviteToItem", "update", "updateOrCreateItem", "deleteById", "deleteByIdList"}

\* The copies of the operation in progress are what is stored; what deleteById
\* removes has been marked as deleted.
WorkOK ==
    /\ work.stage \in {"free", "insert", "lookup", "find", "exists", "write", "remove", "clear"}
    /\ work.stage # "free" => work.ask \in Adapter!OperationAsks
    /\ work.stage = "insert" => work.ask.kind \in {"createItem", "updateOrCreateItem"}
    /\ work.stage = "lookup" => work.ask.kind = "updateOrCreateItem"
    /\ work.stage \in {"find", "exists", "write"} => work.ask.kind \in Saving
    /\ work.stage \in {"exists", "write"} =>
         /\ DOMAIN work.copies \subseteq Adapter!Stored \cap work.ask.ids
         /\ \A id \in DOMAIN work.copies : work.copies[id] = entities[id]
    /\ work.stage = "write" => work.id \in DOMAIN work.copies
    /\ work.stage = "remove" =>
         /\ work.ask.kind = "deleteById"
         /\ \A id \in Adapter!Stored \cap work.ask.ids : entities[id].deleted

AdapterInv == StoredOK /\ WorkOK

\* A step of the abstract repository, on what getAll returns.
Promised == Adapter!Repository!Next \/ UNCHANGED Adapter!Repository!repository

\* What an ask says of its operation.
LEMMA AskFields ==
    ASSUME NEW ask \in Adapter!OperationAsks
    PROVE  /\ ask.ids \subseteq ItemIds
           /\ ask.kind = "inviteToItem" => ask.names \in SUBSET MemberNames
           /\ ask.kind \in {"update", "updateOrCreateItem", "createItem"} =>
                ask.value \in Values /\ ask.members \in SUBSET MemberNames
           /\ ask.kind = "deleteById" => \E i \in ItemIds : ask.ids = {i}
           /\ ask.kind \in Saving \cup {"createItem", "deleteAll"}
  BY DEF Adapter!OperationAsks, Saving

\* An entity that keeps its place.
LEMMA WriteChanges ==
    ASSUME StoredOK, NEW id \in Adapter!Stored, NEW e \in Entity,
           entities' = Adapter!With(id, e), assigned' = assigned
    PROVE  /\ StoredOK'
           /\ Adapter!Stored' = Adapter!Stored
           /\ entities'[id] = e /\ \A i \in Adapter!Stored : i # id => entities'[i] = entities[i]
  BY DEF Adapter!With, StoredOK, Adapter!Stored

\* Nobody sees a change of an entity that is deleted and stays so.
LEMMA DeletedIsUnseen ==
    ASSUME StoredOK, NEW id \in Adapter!Stored, NEW e \in Entity, entities[id].deleted, e.deleted,
           entities' = Adapter!With(id, e), assigned' = assigned
    PROVE  UNCHANGED Adapter!Repository!repository
  <1>1. /\ Adapter!Stored' = Adapter!Stored /\ entities'[id] = e
        /\ \A i \in Adapter!Stored : i # id => entities'[i] = entities[i]
    BY WriteChanges
  <1>2. Adapter!Live' = Adapter!Live /\ id \notin Adapter!Live
    BY <1>1 DEF Adapter!Live
  <1>3. \A i \in Adapter!Live : entities'[i] = entities[i]
    BY <1>1, <1>2 DEF Adapter!Live
  <1>4. Adapter!LiveItems' = Adapter!LiveItems
    BY <1>2, <1>3 DEF Adapter!LiveItems, Adapter!Entry
  <1> QED BY <1>2, <1>4 DEF Adapter!Repository!repository

\* A change of an entity that lives on is a change of its item.
LEMMA LiveIsChanged ==
    ASSUME StoredOK, NEW id \in Adapter!Live, NEW e \in Entity, ~e.deleted,
           entities' = Adapter!With(id, e), assigned' = assigned
    PROVE  /\ id \in DOMAIN Adapter!LiveItems
           /\ Adapter!LiveItems[id] = Adapter!Entry(entities[id])
           /\ Adapter!LiveItems' = [Adapter!LiveItems EXCEPT ![id] = Adapter!Entry(e)]
           /\ (assigned \ Adapter!Live)' = assigned \ Adapter!Live
  <1>1. /\ Adapter!Stored' = Adapter!Stored /\ entities'[id] = e
        /\ \A i \in Adapter!Stored : i # id => entities'[i] = entities[i]
    BY WriteChanges DEF Adapter!Live
  <1>2. Adapter!Live' = Adapter!Live
    BY <1>1 DEF Adapter!Live
  <1>3. Adapter!LiveItems' = [i \in Adapter!Live |-> Adapter!Entry(entities'[i])]
    BY <1>2 DEF Adapter!LiveItems, Adapter!Entry
  <1>4. \A i \in Adapter!Live : entities'[i] = IF i = id THEN e ELSE entities[i]
    BY <1>1 DEF Adapter!Live
  <1>5. Adapter!LiveItems = [i \in Adapter!Live |-> Adapter!Entry(entities[i])]
    BY DEF Adapter!LiveItems
  <1> QED BY <1>2, <1>3, <1>4, <1>5

\* An entity that is marked as deleted, or removed, is an item less.
LEMMA LiveIsDeleted ==
    ASSUME Adapter!Live' \subseteq Adapter!Live, assigned' = assigned, Adapter!Live \subseteq assigned,
           \A i \in Adapter!Live' : entities'[i] = entities[i]
    PROVE  Adapter!Repository!Delete
  <1> DEFINE ids == Adapter!Live \ Adapter!Live'
  <1>1. Adapter!LiveItems = [i \in Adapter!Live |-> Adapter!Entry(entities[i])]
    BY DEF Adapter!LiveItems
  <1>2. Adapter!LiveItems' = [i \in Adapter!Live' |-> Adapter!Entry(entities'[i])]
    BY DEF Adapter!LiveItems, Adapter!Entry
  <1>3. DOMAIN Adapter!LiveItems \ ids = Adapter!Live'
    BY <1>1
  <1>4. Adapter!LiveItems' = [i \in DOMAIN Adapter!LiveItems \ ids |-> Adapter!LiveItems[i]]
    BY <1>1, <1>2, <1>3
  <1>5. (assigned \ Adapter!Live)' = (assigned \ Adapter!Live) \cup ids
    OBVIOUS
  <1>6. ids \in SUBSET DOMAIN Adapter!LiveItems
    BY <1>1
  <1> QED BY <1>4, <1>5, <1>6 DEF Adapter!Repository!Delete

LEMMA InsertIsStep ==
    ASSUME AdapterInv, Adapter!Insert
    PROVE  StoredOK' /\ Adapter!Repository!Create
  <1> USE DEF AdapterInv
  <1> DEFINE value == work.ask.value
             members == work.ask.members
             e == Adapter!NewEntity(value, members)
  <1>1. value \in Values /\ members \in SUBSET MemberNames
    BY AskFields DEF Adapter!Insert, Adapter!At, WorkOK
  <1>2. PICK id \in ItemIds \ assigned : entities' = Adapter!With(id, e) /\ assigned' = assigned \cup {id}
    BY DEF Adapter!Insert
  <1>3. e \in Entity /\ ~e.deleted /\ Adapter!Entry(e) = Adapter!Repository!NewItem(value, members)
    BY <1>1 DEF Adapter!NewEntity, Entity, Adapter!Entry, Adapter!Repository!NewItem
  <1> HIDE DEF e, value, members
  <1>4. id \notin Adapter!Stored
    BY <1>2 DEF StoredOK
  <1>5. /\ Adapter!Stored' = Adapter!Stored \cup {id}
        /\ entities' = [i \in Adapter!Stored \cup {id} |-> IF i = id THEN e ELSE entities[i]]
    BY <1>2 DEF Adapter!With, Adapter!Stored
  <1>6. StoredOK'
    BY <1>2, <1>3, <1>4, <1>5 DEF StoredOK
  <1>7. Adapter!Live' = Adapter!Live \cup {id} /\ id \notin Adapter!Live
    BY <1>3, <1>4, <1>5 DEF Adapter!Live
  <1>8. Adapter!LiveItems = [i \in Adapter!Live |-> Adapter!Entry(entities[i])]
    BY DEF Adapter!LiveItems
  <1>9. Adapter!LiveItems' = [i \in Adapter!Live' |-> Adapter!Entry(entities'[i])]
    BY DEF Adapter!LiveItems, Adapter!Entry
  <1>10. \A i \in Adapter!Live : i # id /\ entities'[i] = entities[i]
    BY <1>5, <1>7 DEF Adapter!Live
  <1>11. entities'[id] = e
    BY <1>5
  <1>12. Adapter!LiveItems' = [i \in DOMAIN Adapter!LiveItems \cup {id} |->
                                 IF i = id THEN Adapter!Entry(e) ELSE Adapter!LiveItems[i]]
    BY <1>7, <1>8, <1>9, <1>10, <1>11
  <1>13. (assigned \ Adapter!Live)' = assigned \ Adapter!Live
    BY <1>2, <1>7
  <1>14. id \in ItemIds \ (DOMAIN Adapter!LiveItems \cup (assigned \ Adapter!Live))
    BY <1>2, <1>7, <1>8
  <1>15. Adapter!Repository!Create
    BY <1>1, <1>3, <1>12, <1>13, <1>14 DEF Adapter!Repository!Create
  <1> QED BY <1>6, <1>15

\* What an operation makes of an entity that has not changed since it was found.
LEMMA ChangedEntity ==
    ASSUME NEW ask \in Adapter!OperationAsks, ask.kind \in Saving, NEW e \in Entity
    PROVE  LET next == Adapter!Changed(ask, e, e) IN
           /\ next \in Entity
           /\ next.version = e.version + 1
           /\ next.deleted = (e.deleted \/ ask.kind \in {"deleteById", "deleteByIdList"})
           /\ ask.kind = "subscribeToItem" =>
                next.value = e.value /\ next.members = e.members \cup e.invited /\ next.invited = {}
           /\ ask.kind = "inviteToItem" =>
                /\ next.value = e.value /\ next.members = e.members
                /\ next.invited = (e.invited \cup ask.names) \ e.members
           /\ ask.kind \in {"update", "updateOrCreateItem"} =>
                next.value = ask.value /\ next.members = e.members /\ next.invited = e.invited
  <1>1. PICK version \in Nat : e.version + 1 = version
    BY DEF Entity
  <1>2. /\ ask.kind = "inviteToItem" => ask.names \in SUBSET MemberNames
        /\ ask.kind \in {"update", "updateOrCreateItem"} => ask.value \in Values
    BY AskFields
  <1> DEFINE counted == [e EXCEPT !.version = version]
  <1>3. Adapter!Counting(e, e) = counted
    BY <1>1 DEF Adapter!Counting
  <1>4. CASE ask.kind = "subscribeToItem"
    <2>1. Adapter!Changed(ask, e, e) = [counted EXCEPT !.members = e.members \cup e.invited, !.invited = {}]
      BY <1>3, <1>4 DEF Adapter!Changed, Adapter!AcceptInvited
    <2> QED BY <1>1, <1>4, <2>1 DEF Entity
  <1>5. CASE ask.kind = "inviteToItem"
    <2>1. Adapter!Changed(ask, e, e) = [counted EXCEPT !.invited = (e.invited \cup ask.names) \ e.members]
      BY <1>3, <1>5 DEF Adapter!Changed, Adapter!AddInvited
    <2> QED BY <1>1, <1>2, <1>5, <2>1 DEF Entity
  <1>6. CASE ask.kind \in {"update", "updateOrCreateItem"}
    <2>1. Adapter!Changed(ask, e, e) = [counted EXCEPT !.value = ask.value]
      BY <1>3, <1>6 DEF Adapter!Changed, Adapter!SetData
    <2> QED BY <1>1, <1>2, <1>6, <2>1 DEF Entity
  <1>7. CASE ask.kind \in {"deleteById", "deleteByIdList"}
    <2>1. Adapter!Changed(ask, e, e) = [counted EXCEPT !.deleted = TRUE]
      BY <1>3, <1>7 DEF Adapter!Changed, Adapter!MarkDeleted
    <2> QED BY <1>1, <1>7, <2>1 DEF Entity
  <1> QED BY <1>4, <1>5, <1>6, <1>7 DEF Saving

\* An item with two other fields.
LEMMA UpdatedFields ==
    ASSUME NEW item \in Item, NEW version \in Nat, NEW value \in Values
    PROVE  [item EXCEPT !.version = version, !.value = value] =
               [version |-> version, value |-> value, members |-> item.members, invited |-> item.invited]
  <1> DEFINE counted == [item EXCEPT !.version = version]
  <1>1. counted = [version |-> version, value |-> item.value, members |-> item.members,
                   invited |-> item.invited]
    BY DEF Item
  <1>2. [item EXCEPT !.version = version, !.value = value] = [counted EXCEPT !.value = value]
    OBVIOUS
  <1>3. counted \in Item
    BY DEF Item
  <1> HIDE DEF counted
  <1>4. [counted EXCEPT !.value = value] = [version |-> counted.version, value |-> value,
                                           members |-> counted.members, invited |-> counted.invited]
    BY <1>3 DEF Item
  <1> QED BY <1>1, <1>2, <1>4

LEMMA AcceptedFields ==
    ASSUME NEW item \in Item, NEW members \in SUBSET MemberNames
    PROVE  [item EXCEPT !.members = members, !.invited = {}] =
               [version |-> item.version, value |-> item.value,
                members |-> members, invited |-> {}]
  <1> DEFINE joined == [item EXCEPT !.members = members]
  <1>1. joined = [version |-> item.version, value |-> item.value,
                  members |-> members, invited |-> item.invited]
    BY DEF Item
  <1>2. [item EXCEPT !.members = members, !.invited = {}] = [joined EXCEPT !.invited = {}]
    OBVIOUS
  <1>3. joined \in Item
    BY DEF Item
  <1> HIDE DEF joined
  <1>4. [joined EXCEPT !.invited = {}] = [version |-> joined.version, value |-> joined.value,
                                         members |-> joined.members, invited |-> {}]
    BY <1>3 DEF Item
  <1> QED BY <1>1, <1>2, <1>4

LEMMA WriteIsStep ==
    ASSUME AdapterInv, Adapter!Write
    PROVE  /\ StoredOK' /\ Adapter!Stored' = Adapter!Stored
           /\ \A i \in Adapter!Stored : i # work.id => entities'[i] = entities[i]
           /\ work.ask.kind = "deleteById" => entities'[work.id].deleted
           /\ Promised
  <1> USE DEF AdapterInv
  <1> DEFINE ask == work.ask
             id  == work.id
             e   == entities[id]
             f   == Adapter!Changed(ask, e, e)
  <1>1. /\ ask \in Adapter!OperationAsks /\ ask.kind \in Saving
        /\ id \in Adapter!Stored /\ work.copies[id] = e
    BY DEF Adapter!Write, Adapter!At, WorkOK
  <1>2. entities' = Adapter!With(id, f) /\ assigned' = assigned
    BY <1>1 DEF Adapter!Write
  <1>3. e \in Entity
    BY <1>1 DEF StoredOK
  <1>4. /\ f \in Entity
        /\ f.version = e.version + 1
        /\ f.deleted = (e.deleted \/ ask.kind \in {"deleteById", "deleteByIdList"})
        /\ ask.kind = "subscribeToItem" =>
             f.value = e.value /\ f.members = e.members \cup e.invited /\ f.invited = {}
        /\ ask.kind = "inviteToItem" =>
             /\ f.value = e.value /\ f.members = e.members
             /\ f.invited = (e.invited \cup ask.names) \ e.members
        /\ ask.kind \in {"update", "updateOrCreateItem"} =>
             f.value = ask.value /\ f.members = e.members /\ f.invited = e.invited
    BY <1>1, <1>3, ChangedEntity
  <1>5. /\ ask.kind = "inviteToItem" => ask.names \in SUBSET MemberNames
        /\ ask.kind \in {"update", "updateOrCreateItem"} => ask.value \in Values
    BY <1>1, AskFields
  <1> HIDE DEF ask, id, e, f
  <1>6. /\ StoredOK' /\ Adapter!Stored' = Adapter!Stored /\ entities'[id] = f
        /\ \A i \in Adapter!Stored : i # id => entities'[i] = entities[i]
    BY <1>1, <1>2, <1>4, WriteChanges
  <1>7. Promised
    <2>1. CASE e.deleted
      BY <1>1, <1>2, <1>4, <2>1, DeletedIsUnseen DEF Promised, e
    <2>2. CASE ~e.deleted /\ ask.kind \in {"deleteById", "deleteByIdList"}
      <3>1. Adapter!Live' \subseteq Adapter!Live /\ \A i \in Adapter!Live' : entities'[i] = entities[i]
        BY <1>4, <1>6, <2>2 DEF Adapter!Live
      <3>2. Adapter!Live \subseteq assigned
        BY DEF Adapter!Live, StoredOK
      <3> QED BY <1>2, <3>1, <3>2, LiveIsDeleted DEF Promised, Adapter!Repository!Next
    <2>3. CASE ~e.deleted /\ ask.kind \notin {"deleteById", "deleteByIdList"}
      <3> DEFINE item == Adapter!LiveItems[id]
      <3>1. id \in Adapter!Live /\ ~f.deleted
        BY <1>1, <1>4, <2>3 DEF Adapter!Live, e
      <3>2. /\ id \in DOMAIN Adapter!LiveItems
            /\ item = Adapter!Entry(e)
            /\ Adapter!LiveItems' = [Adapter!LiveItems EXCEPT ![id] = Adapter!Entry(f)]
            /\ (assigned \ Adapter!Live)' = assigned \ Adapter!Live
        BY <1>2, <1>4, <3>1, LiveIsChanged DEF e
      <3>3. item = [version |-> e.version, value |-> e.value, members |-> e.members, invited |-> e.invited]
        BY <3>2 DEF Adapter!Entry
      <3> DEFINE version == e.version + 1
      <3>4. Adapter!Entry(f) = [version |-> version, value |-> f.value, members |-> f.members,
                                invited |-> f.invited]
        BY <1>4 DEF Adapter!Entry
      <3> DEFINE counted == [item EXCEPT !.version = @ + 1]
      <3>5. counted \in Adapter!Repository!Counted(item)
        BY DEF Adapter!Repository!Counted
      <3>6. /\ counted = [version |-> version, value |-> e.value, members |-> e.members,
                          invited |-> e.invited]
            /\ item.version + 1 = version
        BY <3>3
      <3>10. item \in Item /\ version \in Nat /\ counted \in Item
        <4>1. version \in Nat
          BY <1>3 DEF Entity
        <4> HIDE DEF version, counted, item
        <4> QED BY <1>3, <3>3, <3>6, <4>1 DEF Entity, Item
      <3> HIDE DEF version, counted, item
      <3>7. CASE ask.kind = "subscribeToItem"
        <4>1. Adapter!Entry(f) = [counted EXCEPT !.members = @ \cup counted.invited, !.invited = {}]
          <5>1. [counted EXCEPT !.members = @ \cup counted.invited, !.invited = {}] =
                    [version |-> counted.version, value |-> counted.value,
                     members |-> counted.members \cup counted.invited, invited |-> {}]
            <6>1. counted.members \cup counted.invited \in SUBSET MemberNames
              BY <3>10 DEF Item
            <6> QED BY <3>10, <6>1, AcceptedFields
          <5> QED BY <1>4, <3>4, <3>6, <3>7, <5>1
        <4>2. Adapter!Repository!Subscribe
          BY <3>2, <3>5, <4>1 DEF Adapter!Repository!Subscribe, Adapter!Repository!Change, item
        <4> QED BY <4>2 DEF Promised, Adapter!Repository!Next
      <3>8. CASE ask.kind = "inviteToItem"
        <4>1. Adapter!Entry(f) = [counted EXCEPT !.invited = (@ \cup ask.names) \ counted.members]
          BY <1>4, <3>4, <3>6, <3>8
        <4>2. Adapter!Repository!Invite
          BY <1>5, <3>2, <3>5, <3>8, <4>1 DEF Adapter!Repository!Invite, Adapter!Repository!Change, item
        <4> QED BY <4>2 DEF Promised, Adapter!Repository!Next
      <3>9. CASE ask.kind \in {"update", "updateOrCreateItem"}
        <4>1. Adapter!Entry(f) = [item EXCEPT !.version = version, !.value = ask.value]
          <5>1. [item EXCEPT !.version = version, !.value = ask.value] =
                    [version |-> version, value |-> ask.value, members |-> item.members,
                     invited |-> item.invited]
            BY <1>5, <3>9, <3>10, UpdatedFields
          <5> QED BY <1>4, <3>3, <3>4, <3>9, <5>1
        <4>2. Adapter!Repository!Update
          BY <1>5, <3>2, <3>6, <3>9, <4>1 DEF Adapter!Repository!Update, Adapter!Repository!Change, item
        <4> QED BY <4>2 DEF Promised, Adapter!Repository!Next
      <3> QED BY <1>1, <2>3, <3>7, <3>8, <3>9 DEF Saving
    <2> QED BY <2>1, <2>2, <2>3
  <1> QED BY <1>4, <1>6, <1>7 DEF id, ask

LEMMA RemoveIsStep ==
    ASSUME AdapterInv, Adapter!Remove
    PROVE  StoredOK' /\ Promised
  <1> USE DEF AdapterInv
  <1>1. /\ entities' = [i \in Adapter!Stored \ work.ask.ids |-> entities[i]]
        /\ assigned' = assigned
        /\ \A i \in Adapter!Stored \cap work.ask.ids : entities[i].deleted
    BY DEF Adapter!Remove, Adapter!At, WorkOK
  <1>2. Adapter!Stored' = Adapter!Stored \ work.ask.ids
    BY <1>1 DEF Adapter!Stored
  <1>3. StoredOK'
    BY <1>1, <1>2 DEF StoredOK
  <1>4. Adapter!Live' = Adapter!Live /\ \A i \in Adapter!Live : entities'[i] = entities[i]
    BY <1>1, <1>2 DEF Adapter!Live
  <1>5. Adapter!LiveItems' = Adapter!LiveItems
    BY <1>4 DEF Adapter!LiveItems, Adapter!Entry
  <1> QED BY <1>1, <1>3, <1>4, <1>5 DEF Promised, Adapter!Repository!repository

LEMMA ClearIsStep ==
    ASSUME AdapterInv, Adapter!Clear
    PROVE  StoredOK' /\ Promised
  <1> USE DEF AdapterInv
  <1>1. entities' = <<>> /\ assigned' = assigned
    BY DEF Adapter!Clear
  <1>2. Adapter!Stored' = {}
    BY <1>1 DEF Adapter!Stored
  <1>3. StoredOK'
    BY <1>1, <1>2 DEF StoredOK
  <1>4. Adapter!Live' = {} /\ Adapter!Live \subseteq assigned
    BY <1>2 DEF Adapter!Live, StoredOK
  <1> QED BY <1>1, <1>3, <1>4, LiveIsDeleted DEF Promised, Adapter!Repository!Next

LEMMA UnseenSteps ==
    ASSUME StoredOK, UNCHANGED <<entities, assigned>>
    PROVE  StoredOK' /\ Promised
  <1>1. Adapter!Stored' = Adapter!Stored /\ StoredOK'
    BY DEF Adapter!Stored, StoredOK
  <1>2. Adapter!Live' = Adapter!Live
    BY <1>1 DEF Adapter!Live
  <1>3. Adapter!LiveItems' = Adapter!LiveItems
    BY <1>2 DEF Adapter!LiveItems, Adapter!Entry
  <1> QED BY <1>1, <1>2, <1>3 DEF Promised, Adapter!Repository!repository

LEMMA AdapterStep ==
    ASSUME AdapterInv, Adapter!Next
    PROVE  AdapterInv' /\ Promised
  <1>1. ASSUME NEW ask \in Adapter!OperationAsks, Adapter!Call(ask)
        PROVE  AdapterInv' /\ Promised
    <2>1. /\ work' = [stage |-> Adapter!FirstStage(ask), ask |-> ask, copies |-> <<>>]
          /\ UNCHANGED <<entities, assigned>>
      BY <1>1 DEF Adapter!Call
    <2>2. /\ Adapter!FirstStage(ask) \in {"insert", "clear", "lookup", "find"}
          /\ Adapter!FirstStage(ask) = "insert" => ask.kind = "createItem"
          /\ Adapter!FirstStage(ask) = "lookup" => ask.kind = "updateOrCreateItem"
          /\ Adapter!FirstStage(ask) = "find" => ask.kind \in Saving
      BY AskFields DEF Adapter!FirstStage, Saving
    <2>3. WorkOK'
      BY <2>1, <2>2 DEF WorkOK
    <2> QED BY <2>1, <2>3, UnseenSteps DEF AdapterInv
  <1>2. ASSUME Adapter!Ends PROVE WorkOK'
    BY <1>2 DEF Adapter!Ends, Adapter!Free, WorkOK
  <1>3. CASE Adapter!Insert
    BY <1>2, <1>3, InsertIsStep DEF Adapter!Insert, AdapterInv, Promised, Adapter!Repository!Next
  <1>4. CASE Adapter!LookUp
    <2>1. WorkOK'
      BY <1>4 DEF Adapter!LookUp, Adapter!At, Adapter!Goes, WorkOK, AdapterInv, Saving
    <2> QED BY <1>4, <2>1, UnseenSteps DEF Adapter!LookUp, AdapterInv
  <1>5. CASE Adapter!Find
    <2> DEFINE found == work.ask.ids \cap Adapter!Stored
    <2>1. ASSUME Adapter!Goes("exists", [id \in found |-> entities[id]])
          PROVE  WorkOK'
      <3>1. /\ work'.stage = "exists" /\ work'.ask = work.ask
            /\ DOMAIN work'.copies = found /\ \A id \in found : work'.copies[id] = entities[id]
        BY <2>1 DEF Adapter!Goes
      <3>2. entities' = entities /\ Adapter!Stored' = Adapter!Stored
        BY <1>5 DEF Adapter!Find, Adapter!Stored
      <3> QED BY <1>5, <3>1, <3>2 DEF Adapter!Find, Adapter!At, WorkOK, AdapterInv
    <2>2. WorkOK'
      BY <1>2, <1>5, <2>1 DEF Adapter!Find
    <2> QED BY <1>5, <2>2, UnseenSteps DEF Adapter!Find, AdapterInv
  <1>6. CASE Adapter!Exists
    <2>1. ASSUME NEW id \in DOMAIN work.copies,
                 work' = [stage |-> "write", ask |-> work.ask, copies |-> work.copies, id |-> id]
          PROVE  WorkOK'
      <3>1. entities' = entities /\ Adapter!Stored' = Adapter!Stored
        BY <1>6 DEF Adapter!Exists, Adapter!Stored
      <3> QED BY <1>6, <2>1, <3>1 DEF Adapter!Exists, Adapter!At, WorkOK, AdapterInv
    <2>2. WorkOK'
      BY <1>2, <1>6, <2>1 DEF Adapter!Exists
    <2> QED BY <1>6, <2>2, UnseenSteps DEF Adapter!Exists, AdapterInv
  <1>7. CASE Adapter!Write
    <2> DEFINE rest == [i \in DOMAIN work.copies \ {work.id} |-> work.copies[i]]
    <2>1. /\ work.stage = "write" /\ work.ask \in Adapter!OperationAsks /\ work.ask.kind \in Saving
          /\ DOMAIN work.copies \subseteq Adapter!Stored \cap work.ask.ids
          /\ \A id \in DOMAIN work.copies : work.copies[id] = entities[id]
          /\ work.id \in DOMAIN work.copies
      BY <1>7 DEF Adapter!Write, Adapter!At, WorkOK, AdapterInv
    <2>2. /\ StoredOK' /\ Adapter!Stored' = Adapter!Stored
          /\ \A i \in Adapter!Stored : i # work.id => entities'[i] = entities[i]
          /\ work.ask.kind = "deleteById" => entities'[work.id].deleted
          /\ Promised
      BY <1>7, WriteIsStep
    <2>3. ASSUME Adapter!Goes("exists", rest) PROVE WorkOK'
      <3>1. /\ work'.stage = "exists" /\ work'.ask = work.ask
            /\ DOMAIN work'.copies = DOMAIN work.copies \ {work.id}
            /\ \A i \in DOMAIN work'.copies : work'.copies[i] = work.copies[i]
        BY <2>3 DEF Adapter!Goes
      <3> QED BY <2>1, <2>2, <3>1 DEF WorkOK
    <2>4. ASSUME work.ask.kind = "deleteById", Adapter!Goes("remove", <<>>) PROVE WorkOK'
      <3>1. work'.stage = "remove" /\ work'.ask = work.ask
        BY <2>4 DEF Adapter!Goes
      <3>2. work.ask.ids = {work.id}
        BY <2>1, <2>4, AskFields
      <3> QED BY <2>1, <2>2, <2>4, <3>1, <3>2 DEF WorkOK
    <2>5. \/ Adapter!Goes("exists", rest)
          \/ work.ask.kind = "deleteById" /\ Adapter!Goes("remove", <<>>)
          \/ Adapter!Ends
      BY <1>7 DEF Adapter!Write
    <2> QED BY <1>2, <2>2, <2>3, <2>4, <2>5 DEF AdapterInv
  <1>8. CASE Adapter!Remove
    BY <1>2, <1>8, RemoveIsStep DEF Adapter!Remove, AdapterInv
  <1>9. CASE Adapter!Clear
    BY <1>2, <1>9, ClearIsStep DEF Adapter!Clear, AdapterInv
  <1> QED
    BY <1>1, <1>3, <1>4, <1>5, <1>6, <1>7, <1>8, <1>9 DEF Adapter!Next

\* For any ids, values and names: the operations of a SimpleRepositoryAdapter,
\* one at a time, with all the calls of the persister that each of them makes,
\* change what getAll returns as a simple repository promises.
THEOREM SerialCallsActAsRepository == Adapter!AdapterSpec => SerialCallsAreRepository
  <1>1. Adapter!Init => AdapterInv /\ Adapter!Repository!Init
    <2> SUFFICES ASSUME Adapter!Init PROVE AdapterInv /\ Adapter!Repository!Init
      OBVIOUS
    <2>1. Adapter!Stored = {} /\ assigned = {} /\ work.stage = "free"
      BY DEF Adapter!Init, Adapter!Stored, Adapter!Free
    <2>2. AdapterInv
      BY <2>1 DEF AdapterInv, StoredOK, WorkOK, Adapter!Init
    <2>3. Adapter!Live = {} /\ Adapter!LiveItems = <<>>
      BY <2>1 DEF Adapter!Live, Adapter!LiveItems
    <2> QED BY <2>1, <2>2, <2>3 DEF Adapter!Repository!Init
  <1>2. AdapterInv /\ [Adapter!Next]_(Adapter!adapterVars) =>
            AdapterInv' /\ [Adapter!Repository!Next]_(Adapter!Repository!repository)
    <2> SUFFICES ASSUME AdapterInv, [Adapter!Next]_(Adapter!adapterVars)
                 PROVE  AdapterInv' /\ Promised
      BY DEF Promised
    <2>1. CASE UNCHANGED Adapter!adapterVars
      <3>1. WorkOK'
        BY <2>1 DEF Adapter!adapterVars, AdapterInv, WorkOK, Adapter!Stored
      <3> QED BY <2>1, <3>1, UnseenSteps DEF Adapter!adapterVars, AdapterInv
    <2>2. CASE Adapter!Next
      BY <2>2, AdapterStep
    <2> QED BY <2>1, <2>2
  <1> QED
    BY <1>1, <1>2, PTL DEF Adapter!AdapterSpec, SerialCallsAreRepository, Adapter!SerialCallsAreRepository, Adapter!Repository!Spec

==============================================================================
