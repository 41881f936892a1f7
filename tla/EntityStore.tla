----------------------------- MODULE EntityStore -----------------------------
(***************************************************************************)
(* What a persister promises (data/types/Persister.ts): each call reads or *)
(* changes the stored entities as one step, when it responds, or is        *)
(* rejected and changes nothing.                                           *)
(*                                                                         *)
(* A database is a record of the tables that exist and of the items stored *)
(* in them; a client has at most one call outstanding.                     *)
(***************************************************************************)
EXTENDS Naturals, Sequences

CONSTANTS Clients, Requests, Ids

VARIABLES db,      \* the stored entities
          asked,   \* the outstanding call of each client, or NoRequest
          answer   \* how the last call of each client was answered

vars == <<db, asked, answer>>

NoRequest == [kind |-> "none"]
EmptyDatabase == [tables |-> {}, items |-> {}]

In(d, t) == {x \in d.items : x.table = t}

\* Unused, pairwise different ids for the entities of an insert.
Assignments(d, r) ==
    {f \in [1..Len(r.list) -> Ids] :
        /\ \A i \in 1..Len(r.list) : r.list[i].id # 0 => f[i] = r.list[i].id
        /\ \A i \in 1..Len(r.list) : \A x \in In(d, r.table) : x.id # f[i]
        /\ \A i, j \in 1..Len(r.list) : f[i] = f[j] => i = j}

\* r reads.
Reads(r, d, e) ==
    /\ r.kind \in {"count", "find"}
    /\ e = d

\* r stores all of its entities, under ids nobody has.
Inserts(r, d, e) ==
    /\ r.kind = "insert"
    /\ \E f \in Assignments(d, r) :
          e = [tables |-> d.tables \cup {r.table},
               items |-> d.items \cup
                 {[table |-> r.table, id |-> f[i], val |-> r.val, ref |-> r.list[i].ref]
                     : i \in 1..Len(r.list)}]

\* r stores the changed fields of its entity, and nothing else.
Updates(r, d, e) ==
    /\ r.kind = "update"
    /\ e.items \ {x \in In(e, r.table) : x.id = r.id} = d.items \ {x \in In(d, r.table) : x.id = r.id}
    /\ \A x \in d.items, y \in e.items :
          x.table = r.table /\ y.table = r.table /\ x.id = r.id /\ y.id = r.id =>
            /\ y.val = IF "val" \in r.changed THEN r.val ELSE x.val
            /\ y.ref = IF "ref" \in r.changed THEN r.ref ELSE x.ref
    /\ r.changed # {} => \E y \in In(e, r.table) : y.id = r.id
    /\ r.changed = {} => e = d

\* r removes what it matches, and nothing else.
Removes(r, d, e) ==
    /\ r.kind = "delete"
    /\ e.items = d.items \ {x \in In(d, r.table) : x.id \in r.ids}
    /\ e.tables \subseteq d.tables

Effect(r, d, e) == Reads(r, d, e) \/ Inserts(r, d, e) \/ Updates(r, d, e) \/ Removes(r, d, e)

Init ==
    /\ db = EmptyDatabase
    /\ asked = [c \in Clients |-> NoRequest]
    /\ answer = [c \in Clients |-> "none"]

Ask(c, r) ==
    /\ asked[c] = NoRequest
    /\ asked' = [asked EXCEPT ![c] = r]
    /\ answer' = [answer EXCEPT ![c] = "none"]
    /\ db' = db

Respond(c) ==
    /\ asked[c] # NoRequest
    /\ Effect(asked[c], db, db')
    /\ asked' = [asked EXCEPT ![c] = NoRequest]
    /\ answer' = [answer EXCEPT ![c] = "responded"]

Reject(c) ==
    /\ asked[c] # NoRequest
    /\ asked' = [asked EXCEPT ![c] = NoRequest]
    /\ answer' = [answer EXCEPT ![c] = "rejected"]
    /\ db' = db

Next ==
    \E c \in Clients :
        \/ \E r \in Requests : Ask(c, r)
        \/ Respond(c)
        \/ Reject(c)

Spec == Init /\ [][Next]_vars
==============================================================================
