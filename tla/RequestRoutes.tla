---------------------------- MODULE RequestRoutes ----------------------------
(***************************************************************************)
(* How the mappings of request controllers become routes, and how a path   *)
(* and a method are looked up among them (RequestRouterImpl, StaticRoutes, *)
(* ParamRoutes, RouteUtils).                                               *)
(*                                                                         *)
(* A path is the sequence of its segments: the slashes that                *)
(* _joinRoutePaths trims and adds are left out.  The mapping of a          *)
(* controller is a record [mappings, properties]; a mapping is a record    *)
(* [methods, paths], and a property is one decorated method,               *)
(* [name, mappings, attributes, synchronized, body].                       *)
(***************************************************************************)
EXTENDS Naturals, Lists, FiniteSetsExt

CONSTANTS Controllers,
          Mapping,      \* the mapping of each controller
          Parameters,   \* the segments of the form {name}
          Lower         \* the lower case of each segment

IsSequence(s) == s \in Seq(ToSet(s))

\* Lists are lists, and a method has finitely many parameters.
ASSUME MappingAssumption ==
    \A c \in Controllers :
      /\ IsSequence(Mapping[c].mappings)
      /\ \A i \in DOMAIN Mapping[c].mappings : IsSequence(Mapping[c].mappings[i].paths)
      /\ IsSequence(Mapping[c].properties)
      /\ \A i \in DOMAIN Mapping[c].properties :
           LET property == Mapping[c].properties[i]
           IN  /\ IsFiniteSet(property.attributes)
               /\ IsSequence(property.mappings)
               /\ \A j \in DOMAIN property.mappings : IsSequence(property.mappings[j].paths)

------------------------------------------------------------------------------
\* From mappings to routes

MatchMethods(root, property) == root = {} \/ property = {} \/ root \cap property # {}

\* Fault: a property without methods in common gets all of its methods.
CommonMethodsUnfiltered(root, property) == property

CommonMethods(root, property) == IF root = {} THEN property ELSE property \cap root

\* A controller without a mapping of its own has the paths of its methods.
RootMappings(c) ==
    IF Mapping[c].mappings = <<>> THEN <<[methods |-> {}, paths |-> << <<>> >>]>>
                                  ELSE Mapping[c].mappings

MethodRoutes(c, root, rootPath, property) ==
    Each(property.mappings, LAMBDA mapping :
      IF ~MatchMethods(root.methods, mapping.methods) THEN <<>>
      ELSE [i \in DOMAIN mapping.paths |->
             [path         |-> rootPath \o mapping.paths[i],
              methods      |-> CommonMethods(root.methods, mapping.methods),
              controller   |-> c,
              name         |-> property.name,
              attributes   |-> property.attributes,
              synchronized |-> property.synchronized,
              body         |-> property.body]])

ControllerRoutes(c) ==
    Each(RootMappings(c), LAMBDA root :
      Each(root.paths, LAMBDA rootPath :
        Each(Mapping[c].properties, LAMBDA property :
          MethodRoutes(c, root, rootPath, property))))

\* The routes of controllers, in the order in which they were attached.
ParseMappings(controllers) == Each(controllers, ControllerRoutes)

------------------------------------------------------------------------------
\* Looking up a route

Matches(pattern, path) ==
    /\ Len(pattern) = Len(path)
    /\ \A i \in DOMAIN path : pattern[i] \in Parameters \/ Lower[pattern[i]] = Lower[path[i]]

RoutesHaveParameter(table) ==
    \E r \in ToSet(table) : \E i \in DOMAIN r.path : r.path[i] \in Parameters

\* The patterns that match a path, each by the index of its first route: the
\* patterns are the keys of an object, in the order in which they were added.
MatchingPatterns(table, path) ==
    {i \in DOMAIN table : /\ Matches(table[i].path, path)
                          /\ \A j \in 1..i-1 : table[j].path # table[i].path}

hasRoute(table, path) == MatchingPatterns(table, path) # {}

\* StaticRoutes keeps the last of the patterns that are equal in lower case,
\* ParamRoutes takes the first that matches.
SelectedPattern(table, path) ==
    LET found == MatchingPatterns(table, path)
    IN  table[IF RoutesHaveParameter(table) THEN Min(found) ELSE Max(found)].path

getRoute(table, path) == Those(table, LAMBDA r : r.path = SelectedPattern(table, path))

\* The routes that answer a request.
RoutesOf(table, method, path) ==
    IF hasRoute(table, path)
    THEN Those(getRoute(table, path), LAMBDA r : method \in r.methods)
    ELSE <<>>

------------------------------------------------------------------------------
\* What the decorators of a controller say, without routes and tables

\* Some pattern of c matches the path, and leads with the method to the property.
Patterns(c, property) ==
    {rootPath \o path :
        rootPath \in UNION {ToSet(m.paths) : m \in ToSet(RootMappings(c))},
        path \in UNION {ToSet(m.paths) : m \in ToSet(property.mappings)}}

Maps(c, property, method, path) ==
    \E root \in ToSet(RootMappings(c)), mapping \in ToSet(property.mappings) :
      /\ method \in mapping.methods
      /\ root.methods # {} => method \in root.methods
      /\ \E rootPath \in ToSet(root.paths), p \in ToSet(mapping.paths) :
            Matches(rootPath \o p, path)

MappedMethods(controllers, method, path) ==
    UNION {{<<c, p.name>> : p \in {q \in ToSet(Mapping[c].properties) : Maps(c, q, method, path)}}
              : c \in ToSet(controllers)}

MatchedPatterns(controllers, path) ==
    {pattern \in UNION {UNION {Patterns(c, p) : p \in ToSet(Mapping[c].properties)}
                           : c \in ToSet(controllers)}
        : Matches(pattern, path)}
==============================================================================
