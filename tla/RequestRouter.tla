---------------------------- MODULE RequestRouter ----------------------------
(***************************************************************************)
(* RequestRouterImpl: controllers are attached, the routes are built when  *)
(* the first request comes, and each request runs through the routes that  *)
(* its method and path select, one controller method after the other.      *)
(*                                                                         *)
(* One action is one stretch of handleRequest between awaits.  A method    *)
(* with @SynchronizedRequest is called through an AsyncSynchronizer that   *)
(* the first of its requests creates; the synchronizers are used here by   *)
(* what SerialQueue promises of them: a line of calls, of which the first  *)
(* executes.                                                               *)
(*                                                                         *)
(* What the controllers' methods return, and how it is merged into the     *)
(* response, is left out; they may throw, and so may the binding of their  *)
(* parameters.                                                             *)
(***************************************************************************)
EXTENDS RequestRoutes

CONSTANTS Requests,        \* requests that may be handled at once
          Asks,            \* [method, path, parser]: what is asked of the router
          Instances,       \* controllers that are instances of a class
          MaxControllers   \* bound on the controllers attached

ASSUME RouterAssumption == Instances \subseteq Controllers /\ MaxControllers \in Nat

VARIABLES controllers,     \* _controllers
          routes,          \* _routes: undefined, or defined with a table
          initialized,     \* _initialized
          synchronizers,   \* _asyncSynchronizer: from a key to a synchronizer
          lines,           \* the line of calls of each synchronizer
          request          \* how far each request is

vars == <<controllers, routes, initialized, synchronizers, lines, request>>

Undefined == [defined |-> FALSE]
TableOf(list) == [defined |-> TRUE, table |-> ParseMappings(list)]

NewRequest == [stage |-> "idle", todo |-> <<>>, attributes |-> 0, line |-> 0, outcome |-> "none"]

InProgress == {"parsing", "binding", "queued", "calling"}
Outcomes == {"ok", "failed", "not_found", "not_allowed", "internal"}

Init ==
    /\ controllers = <<>>
    /\ routes = Undefined
    /\ initialized = FALSE
    /\ synchronizers = [k \in {} |-> 0]
    /\ lines = <<>>
    /\ request = [r \in Requests |-> NewRequest]

------------------------------------------------------------------------------
\* Attaching

\* Fault: the routes that were built for fewer controllers stay.
attachControllerKeepsRoutes(c) ==
    /\ Len(controllers) < MaxControllers
    /\ controllers' = Append(controllers, c)
    /\ UNCHANGED <<routes, initialized, synchronizers, lines, request>>

attachController(c) ==
    /\ Len(controllers) < MaxControllers
    /\ controllers' = Append(controllers, c)
    /\ routes' = Undefined
    /\ UNCHANGED <<initialized, synchronizers, lines, request>>

------------------------------------------------------------------------------
\* The course of one request

\* The first index of a controller: routeIndex.
indexOf(c) == CHOOSE i \in DOMAIN controllers :
                /\ controllers[i] = c
                /\ \A j \in 1..i-1 : controllers[j] # c

\* Each route with the key of its synchronizer.
Keyed(list) == [i \in DOMAIN list |->
                  [route |-> list[i], key |-> <<indexOf(list[i].controller), list[i].name>>]]

\* The attributes of the controller that the route's parameters ask for.
Attributes(route) ==
    {a \in route.attributes : \E p \in ToSet(Mapping[route.controller].properties) : a \in p.provides}

Parsing(list) == [stage |-> "parsing", todo |-> list, attributes |-> 0, line |-> 0, outcome |-> "none"]

Binding(list) ==
    [stage |-> "binding", todo |-> list, attributes |-> Cardinality(Attributes(Head(list).route)),
     line |-> 0, outcome |-> "none"]

Ended(outcome) ==
    [stage |-> "answered", todo |-> <<>>, attributes |-> 0, line |-> 0, outcome |-> outcome]

\* The request goes on with a list of routes, and ends with the last of them.
Continue(r, list) ==
    request' = [request EXCEPT ![r] = IF list = <<>> THEN Ended("ok") ELSE Binding(list)]

Answer(r, outcome) == request' = [request EXCEPT ![r] = Ended(outcome)]

current(r) == Head(request[r].todo)

\* handleRequest up to its first await.
handleRequest(r, ask) ==
    /\ request[r].stage \in {"idle", "answered"}
    /\ initialized' = TRUE
    /\ routes' = IF initialized THEN routes ELSE TableOf(controllers)
    /\ LET table    == IF routes'.defined THEN routes'.table ELSE <<>>
           selected == RoutesOf(table, ask.method, ask.path)
           body     == \E i \in DOMAIN selected : selected[i].body
       IN  request' = [request EXCEPT ![r] =
             IF ~hasRoute(table, ask.path) THEN Ended("not_found")
             ELSE IF selected = <<>>       THEN Ended("not_allowed")
             ELSE IF ~body                 THEN Binding(Keyed(selected))
             ELSE IF ask.parser            THEN Parsing(selected)
             ELSE Ended("internal")]
    /\ UNCHANGED <<controllers, synchronizers, lines>>

ParseBody(r) ==
    /\ request[r].stage = "parsing"
    /\ Continue(r, Keyed(request[r].todo))
    /\ UNCHANGED <<controllers, routes, initialized, synchronizers, lines>>

BuildAttribute(r) ==
    /\ request[r].stage = "binding"
    /\ request[r].attributes > 0
    /\ request' = [request EXCEPT ![r].attributes = @ - 1]
    /\ UNCHANGED <<controllers, routes, initialized, synchronizers, lines>>

\* The body, an attribute or a parameter is not what it should be.
Reject(r) ==
    /\ request[r].stage \in {"parsing", "binding"}
    /\ Answer(r, "failed")
    /\ UNCHANGED <<controllers, routes, initialized, synchronizers, lines>>

\* The methods of an instance are not its own properties: lodash's has() says
\* no, and the route is passed over.
SkipRoute(r) ==
    /\ request[r].stage = "binding"
    /\ request[r].attributes = 0
    /\ current(r).route.controller \in Instances
    /\ Continue(r, Tail(request[r].todo))
    /\ UNCHANGED <<controllers, routes, initialized, synchronizers, lines>>

\* Fault: a synchronizer that was created is not remembered.
RememberNothing(key) == UNCHANGED synchronizers

Remember(key) ==
    synchronizers' = [k \in {key} \cup DOMAIN synchronizers |->
                        IF k = key THEN Len(lines) + 1 ELSE synchronizers[k]]

Called(list, stage, line) ==
    [stage |-> stage, todo |-> list, attributes |-> 0, line |-> line, outcome |-> "none"]

\* The call takes its place in the line of synchronizer s.
Enter(r, s, line) ==
    request' = [request EXCEPT ![r] =
                  Called(@.todo, IF line = <<>> THEN "calling" ELSE "queued", s)]

CallRoute(r) ==
    /\ request[r].stage = "binding"
    /\ request[r].attributes = 0
    /\ current(r).route.controller \notin Instances
    /\ LET key == current(r).key IN
       IF ~current(r).route.synchronized
       THEN /\ request' = [request EXCEPT ![r] = Called(@.todo, "calling", 0)]
            /\ UNCHANGED <<synchronizers, lines>>
       ELSE IF key \in DOMAIN synchronizers
       THEN LET s == synchronizers[key] IN
            /\ Enter(r, s, lines[s])
            /\ lines' = [lines EXCEPT ![s] = Append(@, r)]
            /\ UNCHANGED synchronizers
       ELSE /\ Remember(key)
            /\ Enter(r, Len(lines) + 1, <<>>)
            /\ lines' = Append(lines, <<r>>)
    /\ UNCHANGED <<controllers, routes, initialized>>

\* The synchronizer executes the first call of its line.
BeginQueued(r) ==
    /\ request[r].stage = "queued"
    /\ Head(lines[request[r].line]) = r
    /\ request' = [request EXCEPT ![r].stage = "calling"]
    /\ UNCHANGED <<controllers, routes, initialized, synchronizers, lines>>

\* Fault: the call that ends takes the last one out of the line.
LeaveLast(r) ==
    IF current(r).route.synchronized
    THEN lines' = [lines EXCEPT ![request[r].line] = Front(@)]
    ELSE UNCHANGED lines

Leave(r) ==
    IF current(r).route.synchronized
    THEN lines' = [lines EXCEPT ![request[r].line] = Tail(@)]
    ELSE UNCHANGED lines

\* The controller's method returns.
Return(r) ==
    /\ request[r].stage = "calling"
    /\ Leave(r)
    /\ Continue(r, Tail(request[r].todo))
    /\ UNCHANGED <<controllers, routes, initialized, synchronizers>>

\* It throws: the routes after it are not called.
Throw(r) ==
    /\ request[r].stage = "calling"
    /\ Leave(r)
    /\ Answer(r, "failed")
    /\ UNCHANGED <<controllers, routes, initialized, synchronizers>>

Progress(r) ==
    \/ ParseBody(r) \/ BuildAttribute(r) \/ Reject(r) \/ SkipRoute(r)
    \/ CallRoute(r) \/ BeginQueued(r) \/ Return(r) \/ Throw(r)

Next ==
    \/ \E c \in Controllers : attachController(c)
    \/ \E r \in Requests :
         \/ \E ask \in Asks : handleRequest(r, ask)
         \/ Progress(r)

Spec == Init /\ [][Next]_vars

\* Bodies are parsed, attributes are built, controllers' methods return or
\* throw, and a synchronizer executes the first of its line: what
\* AsyncSynchronizer grants as long as the event loop turns.
FairSpec == Spec /\ \A r \in Requests : WF_vars(Progress(r))

------------------------------------------------------------------------------
\* Properties

Calling(r) == request[r].stage = "calling" /\ current(r).route.synchronized
Method(r) == <<current(r).route.controller, current(r).route.name>>

\* Lines, requests and routes keep their shapes: who waits or executes in a
\* synchronized method stands in one line, once, and who does not stands in none.
TypeOK ==
    /\ controllers \in Seq(Controllers)
    /\ initialized \in BOOLEAN
    /\ routes.defined \in BOOLEAN
    /\ \A k \in DOMAIN synchronizers : synchronizers[k] \in DOMAIN lines
    /\ \A s \in DOMAIN lines :
         /\ lines[s] \in Seq(Requests)
         /\ \A r \in ToSet(lines[s]) :
              /\ request[r].stage \in {"queued", "calling"}
              /\ current(r).route.synchronized
              /\ request[r].line = s
    /\ \A r \in Requests :
         /\ request[r].stage \in InProgress \cup {"idle", "answered"}
         /\ request[r].stage \in InProgress <=> request[r].todo # <<>>
         /\ request[r].outcome \in Outcomes <=> request[r].stage = "answered"
         /\ request[r].attributes \in Nat

\* The calls of one synchronized method of one controller never overlap,
\* whichever path they came by and however often the controller is attached.
CallsNeverOverlap ==
    \A r, s \in Requests : Calling(r) /\ Calling(s) /\ Method(r) = Method(s) => r = s

\* A cached table is the one of all controllers attached by now, and answers a
\* request with methods that the decorators lead to: with no other ones, and
\* with all of them unless different patterns match the path.
RoutesAreFaithful ==
    routes.defined =>
      /\ routes.table = ParseMappings(controllers)
      /\ \A ask \in Asks :
           LET answering == {<<e.controller, e.name>> :
                               e \in ToSet(RoutesOf(routes.table, ask.method, ask.path))}
               mapped == MappedMethods(controllers, ask.method, ask.path)
           IN  /\ answering \subseteq mapped
               /\ (\A p, q \in MatchedPatterns(controllers, ask.path) : p = q) => answering = mapped

\* A request is answered, if bodies, attributes and controllers' methods end
\* and the synchronizers serve their lines.
RequestsAreAnswered ==
    \A r \in Requests : request[r].stage \in InProgress ~> request[r].stage = "answered"
==============================================================================
