-------------------------- MODULE SimpleRepository --------------------------
(***************************************************************************)
(* What a simple repository promises (simpleRepository/types/              *)
(* SimpleRepository.ts): items that are created under an unused id, each   *)
(* changed by one step at a time, and that never come back once they are   *)
(* deleted.                                                                *)
(***************************************************************************)
EXTENDS Naturals

CONSTANTS ItemIds, Values, MemberNames

VARIABLES items,     \* the items that are not deleted, by their id
          gone       \* the ids of those that are

repository == <<items, gone>>

NewItem(value, members) ==
    [version |-> 1, value |-> value, members |-> members, invited |-> {}]

\* The item of id becomes one that differs as Changed says.
Change(id, next) == items' = [items EXCEPT ![id] = next]

Create ==
    \E id \in ItemIds \ (DOMAIN items \cup gone), value \in Values, members \in SUBSET MemberNames :
      /\ items' = [i \in DOMAIN items \cup {id} |-> IF i = id THEN NewItem(value, members) ELSE items[i]]
      /\ gone' = gone

\* Each update counts.
Update ==
    \E id \in DOMAIN items, value \in Values :
      /\ Change(id, [items[id] EXCEPT !.version = @ + 1, !.value = value])
      /\ gone' = gone

\* Whether an invitation counts is left to the implementation.
Counted(item) == {item, [item EXCEPT !.version = @ + 1]}

\* Nobody is invited who is a member already.
Invite ==
    \E id \in DOMAIN items, names \in SUBSET MemberNames : \E next \in Counted(items[id]) :
      /\ Change(id, [next EXCEPT !.invited = (@ \cup names) \ next.members])
      /\ gone' = gone

\* All invitations are accepted at once.
Subscribe ==
    \E id \in DOMAIN items : \E next \in Counted(items[id]) :
      /\ Change(id, [next EXCEPT !.members = @ \cup next.invited, !.invited = {}])
      /\ gone' = gone

Delete ==
    \E ids \in SUBSET DOMAIN items :
      /\ items' = [id \in DOMAIN items \ ids |-> items[id]]
      /\ gone' = gone \cup ids

Init == items = <<>> /\ gone = {}

Next == Create \/ Update \/ Invite \/ Subscribe \/ Delete

Spec == Init /\ [][Next]_repository
==============================================================================
