---------------------------- MODULE HostsService ----------------------------
(***************************************************************************)
(* HostsServiceImpl: the entries of a hosts file, each an address with     *)
(* its hostnames, and the operations that change them.                     *)
(***************************************************************************)
EXTENDS Naturals, Lists

CONSTANTS Addresses, Hostnames,
          HostModels,      \* models that are given from outside
          MaxNames         \* bound on the hostnames of one call

VARIABLES entries,         \* _model
          updates,         \* whether the last call triggered MODEL_UPDATED
          called           \* the last call

hostVars == <<entries, updates, called>>

Entry(address, hostnames) == [address |-> address, hostnames |-> hostnames]

NameLists == SeqOf(Hostnames, MaxNames) \ {<<>>}

\* _getEntryByAddress, _getEntryByHostname: the index of the first one, or 0.
ByAddress(model, address) ==
    SelectInSeq(model, LAMBDA e : e.address = address)

ByHostname(model, hostname) ==
    SelectInSeq(model, LAMBDA e : Contains(e.hostnames, hostname))

SetAddress(model, address, hostnames) ==
    IF ByAddress(model, address) = 0
    THEN Append(model, Entry(address, hostnames))
    ELSE [i \in DOMAIN model |->
            IF model[i].address = address THEN Entry(address, hostnames) ELSE model[i]]

\* The filter keeps what is to be removed.
RemoveAddress(model, address) == Those(model, LAMBDA e : e.address = address)

WithoutHostname(model, hostname) ==
    LET i == ByHostname(model, hostname) IN
    IF i = 0 THEN model
    ELSE LET others == Those(model[i].hostnames, LAMBDA h : h # hostname)
         IN  IF others = <<>> THEN RemoveAddress(model, model[i].address)
                              ELSE SetAddress(model, model[i].address, others)

\* uniq() keeps the first of equal hostnames.
Uniq(list) ==
    LET firsts == Those([i \in DOMAIN list |-> i], LAMBDA i : \A j \in 1..i - 1 : list[j] # list[i])
    IN  [k \in DOMAIN firsts |-> list[firsts[k]]]

\* Fault: the entry of the address is read after the hostname is taken out.
ReplaceAfterRemoval(model, address, hostname) ==
    LET m == WithoutHostname(model, hostname)
        i == ByAddress(m, address)
    IN SetAddress(m, address, IF i = 0 THEN <<hostname>> ELSE Uniq(Append(m[i].hostnames, hostname)))

\* The entry of the address is read before the hostname is taken out.
ReplaceByHostname(model, address, hostname) ==
    LET i == ByAddress(model, address) IN
    SetAddress(WithoutHostname(model, hostname), address,
               IF i = 0 THEN <<hostname>> ELSE Uniq(Append(model[i].hostnames, hostname)))

MoveHostnames(model, address, hostnames) ==
    LET moved[n \in 0..Len(hostnames)] ==
            IF n = 0 THEN model ELSE ReplaceByHostname(moved[n - 1], address, hostnames[n])
    IN  moved[Len(hostnames)]

------------------------------------------------------------------------------
Init ==
    /\ entries \in HostModels
    /\ updates = FALSE
    /\ called = [name |-> "create"]

\* _setModel triggers MODEL_UPDATED when the model is another one.
SetModel(model) ==
    /\ entries' = model
    /\ updates' = (model # entries)

setModel(model) ==
    /\ SetModel(model)
    /\ called' = [name |-> "setModel"]

setAddress(address, hostnames) ==
    /\ SetModel(SetAddress(entries, address, hostnames))
    /\ called' = [name |-> "setAddress", address |-> address, hostnames |-> hostnames]

removeAddress(address) ==
    /\ SetModel(RemoveAddress(entries, address))
    /\ called' = [name |-> "removeAddress", address |-> address]

replaceByHostnames(address, hostnames) ==
    /\ SetModel(MoveHostnames(entries, address, hostnames))
    /\ called' = [name |-> "replaceByHostnames", address |-> address, hostnames |-> hostnames]

Next ==
    \/ \E model \in HostModels : setModel(model)
    \/ \E address \in Addresses :
         \/ removeAddress(address)
         \/ \E hostnames \in NameLists :
              setAddress(address, hostnames) \/ replaceByHostnames(address, hostnames)

HostsSpec == Init /\ [][Next]_hostVars

------------------------------------------------------------------------------
\* Properties

GivenTwice(address) ==
    \E model \in HostModels : \E i, j \in DOMAIN model :
      i # j /\ model[i].address = address /\ model[j].address = address

\* After replaceByHostnames the address has an entry, and no other one unless it
\* was given so, with each of the moved hostnames once, whatever was taken out of
\* other entries on the way.
HostnamesArrive ==
    called.name = "replaceByHostnames" =>
      LET own == {i \in DOMAIN entries : entries[i].address = called.address} IN
      /\ own # {}
      /\ Cardinality(own) = 1 \/ GivenTwice(called.address)
      /\ \A i \in own, h \in ToSet(called.hostnames) :
           Cardinality({j \in DOMAIN entries[i].hostnames : entries[i].hostnames[j] = h}) = 1
==============================================================================
