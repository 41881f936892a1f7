----------------------------- MODULE MCServices -----------------------------
(***************************************************************************)
(* The services around the request router, each small, none of which calls *)
(* another: the router on its own state, and the others as instances.  A   *)
(* behaviour is one of the service that is in focus, with the others at    *)
(* rest: services that share nothing need not be interleaved.              *)
(*                                                                         *)
(* Controllers of the router meet on one path: c1 maps /a under several    *)
(* methods, c2 maps /A/x and /A without a mapping of its own, and c3 maps  *)
(* /{id}, which needs a body.                                              *)
(***************************************************************************)
EXTENDS RequestRouter, Services, TLC

CONSTANTS c1, c2, c3, q1, q2

ThreeControllers == {c1, c2, c3}
TwoRequests == {q1, q2}

IdParameter == {"{id}"}
LowerCase == [s \in {"a", "A", "x", "{id}"} |-> IF s = "A" THEN "a" ELSE s]

Property(name, mappings, provides, attributes, synchronized, body) ==
    [name |-> name, mappings |-> mappings, provides |-> provides, attributes |-> attributes,
     synchronized |-> synchronized, body |-> body]

Maps1(methods, path) == <<[methods |-> methods, paths |-> <<path>>]>>

Mappings ==
    c1 :> [mappings   |-> <<[methods |-> {"GET", "PUT"}, paths |-> << <<"a">>, <<>> >>]>>,
           properties |-> <<Property("get", Maps1({"GET", "POST"}, <<>>), {}, {"user"}, FALSE, FALSE),
                            Property("put", Maps1({"PUT"}, <<>>), {"user"}, {}, TRUE, FALSE)>>]
 @@ c2 :> [mappings   |-> <<>>,
           properties |-> <<Property("put", Maps1({"PUT"}, <<"A">>), {}, {}, TRUE, FALSE),
                            Property("sub", Maps1({"GET"}, <<"A", "x">>), {}, {}, FALSE, FALSE)>>]
 @@ c3 :> [mappings   |-> <<>>,
           properties |-> <<Property("any", Maps1({"GET", "POST"}, <<"{id}">>), {}, {}, FALSE, TRUE)>>]

Ask(method, path, parser) == [method |-> method, path |-> path, parser |-> parser]

FewAsks == {Ask("PUT", <<"a">>, TRUE), Ask("GET", <<"A">>, FALSE), Ask("POST", <<"a">>, TRUE),
            Ask("GET", <<"A", "x">>, FALSE)}

------------------------------------------------------------------------------
VARIABLES focus,                                                       \* the service that acts
          fetches, loading, productsInitialized, updateTimers, updateTimeout, wanted, failures,
                                                                       \* StoreProducts
          waiting, timing, observed,                                   \* EventWait
          wheres, asked,                                               \* RepositoryQueries
          dialect, statement, parts, where, groupBy, appended, said, calls
                                                                       \* SqlStatements

Products == INSTANCE StoreProducts WITH
    MaxFetches <- 3, MaxFailures <- 4, initialized <- productsInitialized

Wait == INSTANCE EventWait WITH Waits <- {1, 2}

\* Two transactions with one timestamp, others before, at the ends of and after
\* the range.
SixTransactions == {<<1, 1>>, <<2, 1>>, <<3, 1>>, <<3, 2>>, <<4, 1>>, <<6, 1>>}

Columns == [p |-> "plain", t |-> "time", b |-> "bigint"]

Conditions == INSTANCE WhereConditions WITH
    PropertyNames <- {"p", "t"}, PropertyValues <- 1..3, NoValue <- 0

Queries == INSTANCE RepositoryQueries WITH
    PropertyNames <- {"p", "t"}, PropertyValues <- 1..3, NoValue <- 0, ColumnTypes <- Columns,
    Given <- {Conditions!propertyEquals("p", 1), Conditions!propertyBetween("p", 1, 2),
              Conditions!propertyAfter("t", 1), Conditions!propertyBefore("p", 2),
              Conditions!propertyListEquals("t", <<1, 3>>)},
    MaxConditions <- 3

Statements == INSTANCE SqlStatements WITH
    PropertyNames <- {"p", "t", "b"}, PropertyValues <- 1..3, NoValue <- 0, ColumnTypes <- Columns,
    FieldOrder <- <<"p", "t", "b">>, KeyColumns <- {"p"},
    Insertable <- {"p", "t"}, Updatable <- {"p", "b"},
    EntityGiven <- {[p |-> 1, t |-> 2, b |-> 3], [p |-> 3, t |-> 0, b |-> 2]},
    WhereGiven <- {Conditions!propertyBetween("p", 1, 2),
                   Conditions!WhereOr(Conditions!WhereAnd(Conditions!propertyAfter("t", 1),
                                                          Conditions!propertyBefore("b", 3)),
                                      Conditions!propertyListEquals("p", <<1, 3>>))},
    MaxCalls <- 4

\* Models with up to two entries, each with a hostname. The address A may have both.
HostEntries == [address : {"A", "B"}, hostnames : {<<"g">>, <<"h">>}]
FewHostModels ==
    {<<>>} \cup {<<e>> : e \in HostEntries}
    \cup {pair \in HostEntries \X HostEntries : "A" \in {pair[1].address, pair[2].address}}

TwoKeys ==
    <<[key |-> "all", type |-> "boolean", long |-> "--all", short |-> "-a", env |-> "ALL"],
      [key |-> "backend", type |-> "integer", long |-> "--backend", short |-> "-b", env |-> "none"]>>
FewInputs == {<<"a">>, <<"b", "n">>, <<"n", "a", "b">>, <<"a", "b", "b", "a", "b", "n", "b">>}
OneMark == <<"<">>
MarkAndBreak == <<">", "n">>
FewArguments ==
    {[name |-> "word", value |-> "none"], [name |-> "--", value |-> "none"],
     [name |-> "-h", value |-> "none"], [name |-> "--all", value |-> "none"],
     [name |-> "-a", value |-> "off"], [name |-> "-b", value |-> "7"],
     [name |-> "-b", value |-> "none"]}
FewEnvironments == {<<>>, [ALL |-> "off"], [ALL |-> "x"]}

------------------------------------------------------------------------------
Services == {"router", "decorators", "state", "log", "memory", "adapter", "products",
             "wait", "export", "transactions", "queries", "statements", "hosts", "commands", "ids",
             "rate"}

decoratorsVars == <<mapping, properties, applied>>
stateVars == <<phase, listening, saves, savePromise, file, awaited, due, changesOverlapped>>
logVars == <<data, timer, chunks, input>>
memoryVars == <<items, used, call>>
adapterVars == <<entities, assigned, work>>
productsVars == <<fetches, loading, productsInitialized, updateTimers, updateTimeout, wanted, failures>>
waitVars == <<waiting, timing, observed>>
exportVars == <<size, list, queue, running, done, shouldEnd, returned,
                pageSize, records, cursor, more, exportExpected, processed, export>>
transactionsVars == <<account, expected, bufferSize, fromTimestamp, fullList, finished>>
queriesVars == <<wheres, asked>>
statementsVars == <<dialect, statement, parts, where, groupBy, appended, said, calls>>
hostsVars == <<entries, updates, called>>
rateVars == <<window, left, pages, known, caller>>
commandsVars == <<args, environment, result, names, stage>>

\* A service that has a choice of initial states makes it when it is in focus.
ServicesInit ==
    /\ focus \in Services
    /\ IF focus = "export" THEN TRUE ELSE size = 1 /\ pageSize = 1 /\ records = 0
    /\ IF focus = "commands" THEN TRUE ELSE environment = <<>>
    /\ IF focus = "transactions" THEN TRUE ELSE account = {} /\ bufferSize = 1
    /\ IF focus = "statements" THEN TRUE ELSE dialect = "pg" /\ statement = "select"
    /\ IF focus = "hosts" THEN TRUE ELSE entries = <<>>
    /\ Init /\ Decorators!DecoratorInit /\ State!Init /\ Log!Init /\ Memory!Init
    /\ Adapter!Init /\ Products!Init /\ Wait!Init /\ Export!ExportInit /\ Transactions!Init
    /\ Queries!Init /\ Statements!StatementInit /\ Hosts!Init
    /\ Commands!Init /\ Ids!Init /\ Rate!RateInit

\* All services but one are at rest.
Only(service) ==
    /\ focus = service
    /\ UNCHANGED focus
    /\ IF service = "router" THEN TRUE ELSE UNCHANGED vars
    /\ IF service = "decorators" THEN TRUE ELSE UNCHANGED decoratorsVars
    /\ IF service = "state" THEN TRUE ELSE UNCHANGED stateVars
    /\ IF service = "log" THEN TRUE ELSE UNCHANGED logVars
    /\ IF service = "memory" THEN TRUE ELSE UNCHANGED memoryVars
    /\ IF service = "adapter" THEN TRUE ELSE UNCHANGED adapterVars
    /\ IF service = "products" THEN TRUE ELSE UNCHANGED productsVars
    /\ IF service = "wait" THEN TRUE ELSE UNCHANGED waitVars
    /\ IF service = "export" THEN TRUE ELSE UNCHANGED exportVars
    /\ IF service = "transactions" THEN TRUE ELSE UNCHANGED transactionsVars
    /\ IF service = "queries" THEN TRUE ELSE UNCHANGED queriesVars
    /\ IF service = "statements" THEN TRUE ELSE UNCHANGED statementsVars
    /\ IF service = "hosts" THEN TRUE ELSE UNCHANGED hostsVars
    /\ IF service = "commands" THEN TRUE ELSE UNCHANGED commandsVars
    /\ IF service = "ids" THEN TRUE ELSE UNCHANGED digits
    /\ IF service = "rate" THEN TRUE ELSE UNCHANGED rateVars

ServicesNext ==
    \/ Only("router")       /\ Next
    \/ Only("decorators")   /\ Decorators!DecoratorNext
    \/ Only("state")        /\ State!Next
    \/ Only("log")          /\ Log!Next
    \/ Only("memory")       /\ Memory!Next
    \/ Only("adapter")      /\ Adapter!Next
    \/ Only("products")     /\ Products!Next
    \/ Only("wait")         /\ Wait!Next
    \/ Only("export")       /\ Export!ExportNext
    \/ Only("transactions") /\ Transactions!Next
    \/ Only("queries")      /\ Queries!Next
    \/ Only("statements")   /\ Statements!StatementNext
    \/ Only("hosts")        /\ Hosts!Next
    \/ Only("commands")     /\ Commands!Next
    \/ Only("ids")          /\ Ids!Next
    \/ Only("rate")         /\ Rate!RateNext

allVars == <<focus, vars, decoratorsVars, stateVars, logVars, memoryVars, adapterVars,
             productsVars, waitVars, exportVars, transactionsVars, queriesVars, statementsVars,
             hostsVars, commandsVars, digits, rateVars>>

ServicesSpec ==
    /\ ServicesInit /\ [][ServicesNext]_allVars
    /\ \A r \in Requests : WF_vars(Progress(r) /\ Only("router"))
    /\ Products!ProductFairness
    /\ Wait!WaitFairness

------------------------------------------------------------------------------
\* Properties of the instances

\* Products that somebody has asked for are loaded in the end.
ProductsAreLoaded == Products!ProductsAreLoaded

\* Whoever waits for an event waits no longer than the timeout.
WaitsEnd == Wait!WaitsEnd

\* An SQL query selects the entities that its conditions mean.
SqlMeansWhere == Queries!SqlMeansWhere

\* An SQL statement says what its builder was asked for.
StatementsSayWhatWasAsked == Statements!StatementsSayWhatWasAsked
==============================================================================
