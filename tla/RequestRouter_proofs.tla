------------------------ MODULE RequestRouter_proofs ------------------------
(***************************************************************************)
(* Proofs about the request router, for any controllers, mappings and      *)
(* requests: its state keeps its shape, and the calls of one synchronized  *)
(* method never overlap.                                                   *)
(*                                                                         *)
(* The argument: the routes of a table belong to controllers that are      *)
(* attached, so that the index of a controller, and with it the key of its *)
(* synchronizers, stays what it was when more of them are attached.  Calls *)
(* of one method then stand in one line, whose first one executes.         *)
(***************************************************************************)
EXTENDS RequestRouter, SequenceFacts

\* Whatever is a sequence of something is a sequence of its elements.
LEMMA SequenceOfElements ==
    ASSUME NEW S, NEW s \in Seq(S)
    PROVE  /\ IsSequence(s)
           /\ DOMAIN s = 1..Len(s) /\ Len(s) \in Nat
           /\ \A i \in DOMAIN s : s[i] \in S
  <1>1. DOMAIN s = 1..Len(s) /\ Len(s) \in Nat /\ \A i \in DOMAIN s : s[i] \in S
    OBVIOUS
  <1>2. \A i \in 1..Len(s) : s[i] \in ToSet(s)
    BY <1>1 DEF ToSet
  <1>3. s \in [1..Len(s) -> ToSet(s)]
    BY <1>1, <1>2
  <1> QED
    BY <1>1, <1>3, IsASeq DEF IsSequence

------------------------------------------------------------------------------
\* The elements of tables

\* The elements of a sequence that is flattened are those of its sequences:
\* routesOf has one for each element of s.
LEMMA FlattenUnion ==
    ASSUME NEW s, IsSequence(s), NEW routesOf, routesOf = [i \in DOMAIN s |-> routesOf[i]],
           \A i \in DOMAIN s : IsSequence(routesOf[i])
    PROVE  /\ IsSequence(FlattenSeq(routesOf))
           /\ \A e : e \in ToSet(FlattenSeq(routesOf)) <=> \E i \in DOMAIN s : e \in ToSet(routesOf[i])
  <1> DEFINE S == UNION {ToSet(routesOf[i]) : i \in DOMAIN s}
  <1>1. DOMAIN s = 1..Len(s) /\ Len(s) \in Nat
    BY DEF IsSequence
  <1>2. ASSUME NEW i \in DOMAIN s PROVE routesOf[i] \in Seq(S)
    <2>1. routesOf[i] \in Seq(ToSet(routesOf[i])) /\ ToSet(routesOf[i]) \subseteq S
      BY <1>2 DEF IsSequence
    <2> HIDE DEF S
    <2> QED
      BY <2>1
  <1> HIDE DEF S
  <1>3. routesOf \in [1..Len(s) -> Seq(S)]
    BY <1>1, <1>2
  <1>4. routesOf \in Seq(Seq(S)) /\ Len(routesOf) = Len(s)
    BY <1>1, <1>3, IsASeq
  <1>5. IsSequence(FlattenSeq(routesOf))
    BY <1>4, FlattenInSeq, SequenceOfElements
  <1>6. ASSUME NEW e
        PROVE  e \in ToSet(FlattenSeq(routesOf)) <=> \E i \in DOMAIN s : e \in ToSet(routesOf[i])
    BY <1>1, <1>4, FlattenElements
  <1> QED
    BY <1>5, <1>6

\* The empty sequence has none, and a sequence of one element has that one.
LEMMA ShortSequences ==
    ASSUME NEW e
    PROVE  /\ IsSequence(<<>>) /\ ToSet(<<>>) = {}
           /\ IsSequence(<<e>>) /\ ToSet(<<e>>) = {e}
  <1>1. <<>> \in Seq({}) /\ <<e>> \in Seq({e}) /\ Len(<<>>) = 0 /\ Len(<<e>>) = 1 /\ <<e>>[1] = e
    BY EmptySeq
  <1>2. /\ IsSequence(<<>>) /\ DOMAIN <<>> = 1..0
        /\ IsSequence(<<e>>) /\ DOMAIN <<e>> = 1..1
    BY <1>1, SequenceOfElements
  <1> QED
    BY <1>1, <1>2 DEF ToSet

\* A mapping of a method gives one route for each of its paths.
RouteOf(c, root, rootPath, property, mapping, path) ==
    [path         |-> rootPath \o path,
     methods      |-> CommonMethods(root.methods, mapping.methods),
     controller   |-> c,
     name         |-> property.name,
     attributes   |-> property.attributes,
     synchronized |-> property.synchronized,
     body         |-> property.body]

\* The routes of one method.
LEMMA MethodRoutesElements ==
    ASSUME NEW c \in Controllers, NEW root, NEW rootPath,
           NEW property \in ToSet(Mapping[c].properties)
    PROVE  /\ IsSequence(MethodRoutes(c, root, rootPath, property))
           /\ \A e : e \in ToSet(MethodRoutes(c, root, rootPath, property)) <=>
                \E mapping \in ToSet(property.mappings) :
                  /\ MatchMethods(root.methods, mapping.methods)
                  /\ \E path \in ToSet(mapping.paths) :
                        e = RouteOf(c, root, rootPath, property, mapping, path)
  <1> DEFINE mappings == property.mappings
             RoutesAt(k) ==
               IF ~MatchMethods(root.methods, mappings[k].methods) THEN <<>>
               ELSE [i \in DOMAIN mappings[k].paths |->
                       RouteOf(c, root, rootPath, property, mappings[k], mappings[k].paths[i])]
             routesOf == [k \in DOMAIN mappings |-> RoutesAt(k)]
  <1>1. IsSequence(mappings) /\ \A k \in DOMAIN mappings : IsSequence(mappings[k].paths)
    BY MappingAssumption DEF ToSet
  <1>2. MethodRoutes(c, root, rootPath, property) = FlattenSeq(routesOf)
    BY DEF MethodRoutes, Each, RouteOf
  <1>3. ASSUME NEW k \in DOMAIN mappings
        PROVE  /\ IsSequence(RoutesAt(k))
               /\ \A e : e \in ToSet(RoutesAt(k)) <=>
                    /\ MatchMethods(root.methods, mappings[k].methods)
                    /\ \E path \in ToSet(mappings[k].paths) :
                          e = RouteOf(c, root, rootPath, property, mappings[k], path)
    <2> DEFINE paths == mappings[k].paths
               Route(path) == RouteOf(c, root, rootPath, property, mappings[k], path)
               theirs == [i \in DOMAIN paths |-> Route(paths[i])]
    <2>1. CASE MatchMethods(root.methods, mappings[k].methods)
      <3>1. RoutesAt(k) = theirs
        BY <2>1
      <3>2. IsSequence(paths)
        BY <1>1, <1>3
      <3> HIDE DEF paths, Route, RoutesAt
      <3>3. DOMAIN paths = 1..Len(paths) /\ Len(paths) \in Nat
        BY <3>2 DEF IsSequence
      <3>4. theirs \in [1..Len(paths) -> ToSet(theirs)]
        BY <3>3 DEF ToSet
      <3>5. IsSequence(theirs)
        BY <3>3, <3>4, IsASeq DEF IsSequence
      <3>6. \A e : e \in ToSet(theirs) <=> \E path \in ToSet(paths) : e = Route(path)
        BY DEF ToSet
      <3> QED
        BY <2>1, <3>1, <3>5, <3>6 DEF paths, Route
    <2>2. CASE ~MatchMethods(root.methods, mappings[k].methods)
      <3>1. RoutesAt(k) = <<>>
        BY <2>2
      <3> HIDE DEF RoutesAt
      <3> QED
        BY <2>2, <3>1, ShortSequences
    <2> QED
      BY <2>1, <2>2
  <1>4. routesOf = [k \in DOMAIN mappings |-> routesOf[k]]
        /\ \A k \in DOMAIN mappings : routesOf[k] = RoutesAt(k)
    OBVIOUS
  <1> HIDE DEF RoutesAt, routesOf
  <1>5. /\ IsSequence(FlattenSeq(routesOf))
        /\ \A e : e \in ToSet(FlattenSeq(routesOf)) <=> \E k \in DOMAIN mappings : e \in ToSet(RoutesAt(k))
    <2> HIDE DEF mappings
    <2> QED
      BY <1>1, <1>3, <1>4, FlattenUnion
  <1>6. \A e : e \in ToSet(FlattenSeq(routesOf)) <=>
                \E k \in DOMAIN mappings :
                  /\ MatchMethods(root.methods, mappings[k].methods)
                  /\ \E path \in ToSet(mappings[k].paths) :
                        e = RouteOf(c, root, rootPath, property, mappings[k], path)
    <2> TAKE e
    <2> HIDE DEF mappings
    <2> QED
      BY <1>3, <1>5
  <1>7. \A mapping : mapping \in ToSet(mappings) <=> \E k \in DOMAIN mappings : mapping = mappings[k]
    BY DEF ToSet
  <1>8. \A e : e \in ToSet(FlattenSeq(routesOf)) <=>
                \E mapping \in ToSet(mappings) :
                  /\ MatchMethods(root.methods, mapping.methods)
                  /\ \E path \in ToSet(mapping.paths) :
                        e = RouteOf(c, root, rootPath, property, mapping, path)
    <2> HIDE DEF mappings
    <2> TAKE e
    <2> QED
      BY <1>6, <1>7
  <1> QED
    BY <1>2, <1>5, <1>8

\* The routes of one controller, below its own mappings.
LEMMA ControllerRoutesElements ==
    ASSUME NEW c \in Controllers
    PROVE  /\ IsSequence(ControllerRoutes(c))
           /\ \A e : e \in ToSet(ControllerRoutes(c)) <=>
                \E root \in ToSet(RootMappings(c)) : \E rootPath \in ToSet(root.paths) :
                \E property \in ToSet(Mapping[c].properties) :
                   e \in ToSet(MethodRoutes(c, root, rootPath, property))
  <1> DEFINE roots == RootMappings(c)
             properties == Mapping[c].properties
             Routes(root, rootPath, property) == MethodRoutes(c, root, rootPath, property)
             OfPath(root, rootPath) ==
               [j \in DOMAIN properties |-> Routes(root, rootPath, properties[j])]
             OfRoot(root) == [p \in DOMAIN root.paths |-> FlattenSeq(OfPath(root, root.paths[p]))]
             ofRoots == [i \in DOMAIN roots |-> FlattenSeq(OfRoot(roots[i]))]
  <1>1. ControllerRoutes(c) = FlattenSeq(ofRoots)
    BY DEF ControllerRoutes, Each
  <1>2. IsSequence(properties)
    BY MappingAssumption
  <1>3. IsSequence(roots) /\ \A i \in DOMAIN roots : IsSequence(roots[i].paths)
    <2>1. CASE Mapping[c].mappings = <<>>
      <3> DEFINE root == [methods |-> {}, paths |-> << <<>> >>]
      <3>1. roots = <<root>>
        BY <2>1 DEF RootMappings
      <3>2. IsSequence(root.paths) /\ IsSequence(<<root>>)
        BY ShortSequences
      <3> HIDE DEF root, roots
      <3>3. \A i \in DOMAIN <<root>> : <<root>>[i] = root
        OBVIOUS
      <3> QED
        BY <3>1, <3>2, <3>3
    <2>2. CASE Mapping[c].mappings # <<>>
      BY <2>2, MappingAssumption DEF RootMappings
    <2> QED
      BY <2>1, <2>2
  <1>4. ASSUME NEW root, NEW rootPath
        PROVE  /\ IsSequence(FlattenSeq(OfPath(root, rootPath)))
               /\ \A e : e \in ToSet(FlattenSeq(OfPath(root, rootPath))) <=>
                    \E property \in ToSet(properties) : e \in ToSet(Routes(root, rootPath, property))
    <2> DEFINE f == OfPath(root, rootPath)
    <2>1. f = [j \in DOMAIN properties |-> f[j]]
          /\ \A j \in DOMAIN properties : f[j] = Routes(root, rootPath, properties[j])
      OBVIOUS
    <2>2. \A j \in DOMAIN properties : IsSequence(Routes(root, rootPath, properties[j]))
      BY MethodRoutesElements DEF ToSet
    <2> HIDE DEF f, properties, Routes
    <2>3. /\ IsSequence(FlattenSeq(f))
          /\ \A e : e \in ToSet(FlattenSeq(f)) <=> \E j \in DOMAIN properties : e \in ToSet(f[j])
      BY <1>2, <2>1, <2>2, FlattenUnion
    <2>4. \A e : (\E j \in DOMAIN properties : e \in ToSet(f[j])) <=>
                   \E property \in ToSet(properties) : e \in ToSet(Routes(root, rootPath, property))
      <3>1. \A property : property \in ToSet(properties) <=> \E j \in DOMAIN properties : property = properties[j]
        BY DEF ToSet
      <3> QED
        BY <2>1, <3>1
    <2>5. /\ IsSequence(FlattenSeq(f))
          /\ \A e : e \in ToSet(FlattenSeq(f)) <=>
                   \E property \in ToSet(properties) : e \in ToSet(Routes(root, rootPath, property))
      BY <2>3, <2>4
    <2> QED
      BY <2>5 DEF f
  <1>5. ASSUME NEW root, IsSequence(root.paths)
        PROVE  /\ IsSequence(FlattenSeq(OfRoot(root)))
               /\ \A e : e \in ToSet(FlattenSeq(OfRoot(root))) <=>
                    \E rootPath \in ToSet(root.paths) : \E property \in ToSet(properties) :
                       e \in ToSet(Routes(root, rootPath, property))
    <2> DEFINE f == OfRoot(root)
    <2> HIDE DEF OfPath, properties, Routes
    <2>1. f = [p \in DOMAIN root.paths |-> f[p]]
          /\ \A p \in DOMAIN root.paths : f[p] = FlattenSeq(OfPath(root, root.paths[p]))
      OBVIOUS
    <2>2. \A p \in DOMAIN root.paths : IsSequence(f[p])
      BY <1>4, <2>1
    <2> HIDE DEF f
    <2>3. /\ IsSequence(FlattenSeq(f))
          /\ \A e : e \in ToSet(FlattenSeq(f)) <=> \E p \in DOMAIN root.paths : e \in ToSet(f[p])
      BY <1>5, <2>1, <2>2, FlattenUnion
    <2>4. \A e : (\E p \in DOMAIN root.paths : e \in ToSet(f[p])) <=>
                   \E rootPath \in ToSet(root.paths) : e \in ToSet(FlattenSeq(OfPath(root, rootPath)))
      <3>1. \A path : path \in ToSet(root.paths) <=> \E p \in DOMAIN root.paths : path = root.paths[p]
        BY DEF ToSet
      <3> QED
        BY <2>1, <3>1
    <2>5. /\ IsSequence(FlattenSeq(f))
          /\ \A e : e \in ToSet(FlattenSeq(f)) <=>
                    \E rootPath \in ToSet(root.paths) : \E property \in ToSet(properties) :
                       e \in ToSet(Routes(root, rootPath, property))
      BY <1>4, <2>3, <2>4
    <2> QED
      BY <2>5 DEF f
  <1> HIDE DEF roots, OfRoot, properties, Routes
  <1>6. ofRoots = [i \in DOMAIN roots |-> ofRoots[i]]
        /\ \A i \in DOMAIN roots : ofRoots[i] = FlattenSeq(OfRoot(roots[i]))
    OBVIOUS
  <1> HIDE DEF ofRoots
  <1>7. /\ IsSequence(FlattenSeq(ofRoots))
        /\ \A e : e \in ToSet(FlattenSeq(ofRoots)) <=> \E i \in DOMAIN roots : e \in ToSet(ofRoots[i])
    BY <1>3, <1>5, <1>6, FlattenUnion
  <1>8. \A e : (\E i \in DOMAIN roots : e \in ToSet(ofRoots[i])) <=>
                 \E root \in ToSet(roots) : e \in ToSet(FlattenSeq(OfRoot(root)))
    <2>1. \A root : root \in ToSet(roots) <=> \E i \in DOMAIN roots : root = roots[i]
      BY DEF ToSet
    <2> QED
      BY <1>6, <2>1
  <1>9. \A root \in ToSet(roots) : IsSequence(root.paths)
    BY <1>3 DEF ToSet
  <1>10. /\ IsSequence(FlattenSeq(ofRoots))
         /\ \A e : e \in ToSet(FlattenSeq(ofRoots)) <=>
                \E root \in ToSet(roots) : \E rootPath \in ToSet(root.paths) :
                \E property \in ToSet(properties) : e \in ToSet(Routes(root, rootPath, property))
    BY <1>5, <1>7, <1>8, <1>9
  <1> QED
    BY <1>1, <1>10 DEF roots, properties, Routes

\* The table of a list of controllers.
LEMMA TableElements ==
    ASSUME NEW list \in Seq(Controllers)
    PROVE  /\ IsSequence(ParseMappings(list))
           /\ \A e : e \in ToSet(ParseMappings(list)) <=>
                \E c \in ToSet(list) : \E root \in ToSet(RootMappings(c)) :
                \E rootPath \in ToSet(root.paths) : \E property \in ToSet(Mapping[c].properties) :
                \E mapping \in ToSet(property.mappings) :
                  /\ MatchMethods(root.methods, mapping.methods)
                  /\ \E path \in ToSet(mapping.paths) :
                        e = RouteOf(c, root, rootPath, property, mapping, path)
  <1> DEFINE f == [i \in DOMAIN list |-> ControllerRoutes(list[i])]
  <1>1. ParseMappings(list) = FlattenSeq(f)
    BY DEF ParseMappings, Each
  <1>2. IsSequence(list) /\ ToSet(list) \subseteq Controllers
        /\ \A i \in DOMAIN list : list[i] \in Controllers
    BY SequenceOfElements DEF ToSet
  <1>3. f = [i \in DOMAIN list |-> f[i]] /\ \A i \in DOMAIN list : f[i] = ControllerRoutes(list[i])
    OBVIOUS
  <1> HIDE DEF f
  <1>4. \A i \in DOMAIN list : IsSequence(f[i])
    BY <1>2, <1>3, ControllerRoutesElements
  <1>5. /\ IsSequence(FlattenSeq(f))
        /\ \A e : e \in ToSet(FlattenSeq(f)) <=> \E i \in DOMAIN list : e \in ToSet(f[i])
    BY <1>2, <1>3, <1>4, FlattenUnion
  <1>6. \A e : (\E i \in DOMAIN list : e \in ToSet(f[i])) <=> \E c \in ToSet(list) : e \in ToSet(ControllerRoutes(c))
    <2>1. \A c : c \in ToSet(list) <=> \E i \in DOMAIN list : c = list[i]
      BY DEF ToSet
    <2> QED
      BY <1>3, <2>1
  <1>7. ASSUME NEW e, NEW c \in ToSet(list)
        PROVE  e \in ToSet(ControllerRoutes(c)) <=>
                 \E root \in ToSet(RootMappings(c)) : \E rootPath \in ToSet(root.paths) :
                 \E property \in ToSet(Mapping[c].properties) :
                 \E mapping \in ToSet(property.mappings) :
                   /\ MatchMethods(root.methods, mapping.methods)
                   /\ \E path \in ToSet(mapping.paths) :
                         e = RouteOf(c, root, rootPath, property, mapping, path)
    <2>1. c \in Controllers
      BY <1>2, <1>7
    <2>2. e \in ToSet(ControllerRoutes(c)) <=>
            \E root \in ToSet(RootMappings(c)) : \E rootPath \in ToSet(root.paths) :
            \E property \in ToSet(Mapping[c].properties) :
               e \in ToSet(MethodRoutes(c, root, rootPath, property))
      BY <2>1, ControllerRoutesElements
    <2>3. \A root, rootPath : \A property \in ToSet(Mapping[c].properties) :
            e \in ToSet(MethodRoutes(c, root, rootPath, property)) <=>
              \E mapping \in ToSet(property.mappings) :
                /\ MatchMethods(root.methods, mapping.methods)
                /\ \E path \in ToSet(mapping.paths) :
                      e = RouteOf(c, root, rootPath, property, mapping, path)
      BY <2>1, MethodRoutesElements
    <2> QED
      BY <2>2, <2>3
  <1>8. ASSUME NEW e
        PROVE  e \in ToSet(FlattenSeq(f)) <=> \E c \in ToSet(list) : e \in ToSet(ControllerRoutes(c))
    BY <1>5, <1>6
  <1>9. ASSUME NEW e
        PROVE  e \in ToSet(FlattenSeq(f)) <=>
                 \E c \in ToSet(list) : \E root \in ToSet(RootMappings(c)) :
                 \E rootPath \in ToSet(root.paths) : \E property \in ToSet(Mapping[c].properties) :
                 \E mapping \in ToSet(property.mappings) :
                   /\ MatchMethods(root.methods, mapping.methods)
                   /\ \E path \in ToSet(mapping.paths) :
                         e = RouteOf(c, root, rootPath, property, mapping, path)
    BY <1>7, <1>8
  <1> QED
    BY <1>1, <1>5, <1>9

\* Those that P is true of: with says which indices these are.
LEMMA ThoseElements ==
    ASSUME NEW s, IsSequence(s), NEW with, NEW f,
           f = [i \in DOMAIN s |-> IF i \in with THEN <<s[i]>> ELSE <<>>]
    PROVE  /\ IsSequence(FlattenSeq(f))
           /\ \A e : e \in ToSet(FlattenSeq(f)) <=> \E i \in DOMAIN s : i \in with /\ e = s[i]
  <1>1. f = [i \in DOMAIN s |-> f[i]] /\ \A i \in DOMAIN s : f[i] = IF i \in with THEN <<s[i]>> ELSE <<>>
    OBVIOUS
  <1>2. \A i \in DOMAIN s : /\ IsSequence(f[i])
                            /\ \A e : e \in ToSet(f[i]) <=> i \in with /\ e = s[i]
    <2> SUFFICES ASSUME NEW i \in DOMAIN s
                 PROVE  /\ IsSequence(f[i])
                        /\ \A e : e \in ToSet(f[i]) <=> i \in with /\ e = s[i]
      OBVIOUS
    <2>1. CASE i \in with
      BY <1>1, <2>1, ShortSequences
    <2>2. CASE i \notin with
      BY <1>1, <2>2, ShortSequences
    <2> QED
      BY <2>1, <2>2
  <1>3. /\ IsSequence(FlattenSeq(f))
        /\ \A e : e \in ToSet(FlattenSeq(f)) <=> \E i \in DOMAIN s : e \in ToSet(f[i])
    BY <1>1, <1>2, FlattenUnion
  <1>4. ASSUME NEW e
        PROVE  e \in ToSet(FlattenSeq(f)) <=> \E i \in DOMAIN s : i \in with /\ e = s[i]
    <2>1. \A i \in DOMAIN s : e \in ToSet(f[i]) <=> i \in with /\ e = s[i]
      BY <1>2
    <2>2. e \in ToSet(FlattenSeq(f)) <=> \E i \in DOMAIN s : e \in ToSet(f[i])
      BY <1>3
    <2> QED
      BY <2>1, <2>2
  <1> QED
    BY <1>3, <1>4

\* The routes that answer a request are those of the selected pattern that have
\* its method.
LEMMA SelectedElements ==
    ASSUME NEW table, IsSequence(table), NEW method, NEW path
    PROVE  /\ IsSequence(RoutesOf(table, method, path))
           /\ \A e : e \in ToSet(RoutesOf(table, method, path)) <=>
                /\ hasRoute(table, path)
                /\ e \in ToSet(table) /\ e.path = SelectedPattern(table, path)
                /\ method \in e.methods
  <1> DEFINE found == getRoute(table, path)
  <1>1. /\ IsSequence(found)
        /\ \A e : e \in ToSet(found) <=> e \in ToSet(table) /\ e.path = SelectedPattern(table, path)
    <2> DEFINE with == {i \in DOMAIN table : table[i].path = SelectedPattern(table, path)}
               f == [i \in DOMAIN table |-> IF i \in with THEN <<table[i]>> ELSE <<>>]
    <2>1. found = FlattenSeq(f)
      BY DEF getRoute, Those, Each
    <2> HIDE DEF found
    <2>2. \A i \in DOMAIN table : i \in with <=> table[i].path = SelectedPattern(table, path)
      OBVIOUS
    <2>3. /\ IsSequence(FlattenSeq(f))
          /\ \A e : e \in ToSet(FlattenSeq(f)) <=> \E i \in DOMAIN table : i \in with /\ e = table[i]
      <3> HIDE DEF with
      <3> QED
        BY ThoseElements
    <2> HIDE DEF f, with
    <2> QED
      BY <2>1, <2>2, <2>3 DEF ToSet
  <1>2. CASE hasRoute(table, path)
    <2> DEFINE with == {i \in DOMAIN found : method \in found[i].methods}
               f == [i \in DOMAIN found |-> IF i \in with THEN <<found[i]>> ELSE <<>>]
    <2>1. RoutesOf(table, method, path) = FlattenSeq(f)
      <3>1. f = [i \in DOMAIN found |-> IF method \in found[i].methods THEN <<found[i]>> ELSE <<>>]
        OBVIOUS
      <3> HIDE DEF f
      <3> QED
        BY <1>2, <3>1 DEF RoutesOf, Those, Each
    <2> HIDE DEF found
    <2>2. \A i \in DOMAIN found : i \in with <=> method \in found[i].methods
      OBVIOUS
    <2>3. /\ IsSequence(FlattenSeq(f))
          /\ \A e : e \in ToSet(FlattenSeq(f)) <=> \E i \in DOMAIN found : i \in with /\ e = found[i]
      <3> HIDE DEF with
      <3> QED
        BY <1>1, ThoseElements
    <2> HIDE DEF f, with
    <2>4. \A e : e \in ToSet(FlattenSeq(f)) <=> e \in ToSet(found) /\ method \in e.methods
      BY <2>2, <2>3 DEF ToSet
    <2> QED
      BY <1>1, <1>2, <2>1, <2>3, <2>4
  <1>3. CASE ~hasRoute(table, path)
    BY <1>3, ShortSequences DEF RoutesOf
  <1> QED
    BY <1>2, <1>3

------------------------------------------------------------------------------
\* Routes belong to controllers that are attached

AttachedTo(s, list) ==
    /\ IsSequence(s)
    /\ \A e \in ToSet(s) : e.controller \in ToSet(list) /\ IsFiniteSet(e.attributes)

\* By index.
LEMMA AttachedByIndex ==
    ASSUME NEW s, NEW list
    PROVE  AttachedTo(s, list) <=>
             /\ IsSequence(s)
             /\ \A i \in DOMAIN s : s[i].controller \in ToSet(list) /\ IsFiniteSet(s[i].attributes)
  BY DEF AttachedTo, ToSet

\* No routes belong to any controllers.
LEMMA NoneAttached ==
    ASSUME NEW list
    PROVE  AttachedTo(<<>>, list)
  BY ShortSequences DEF AttachedTo

\* A table of routes belongs to the controllers that it is built for.
LEMMA TableAttached ==
    ASSUME NEW list \in Seq(Controllers)
    PROVE  AttachedTo(ParseMappings(list), list)
  <1> SUFFICES ASSUME NEW e \in ToSet(ParseMappings(list))
               PROVE  e.controller \in ToSet(list) /\ IsFiniteSet(e.attributes)
    BY TableElements DEF AttachedTo
  <1>1. PICK c \in ToSet(list) : /\ e.controller = c
                                 /\ \E property \in ToSet(Mapping[c].properties) :
                                       e.attributes = property.attributes
    <2>1. PICK c \in ToSet(list) : \E root \in ToSet(RootMappings(c)) :
                \E rootPath \in ToSet(root.paths) : \E property \in ToSet(Mapping[c].properties) :
                \E mapping \in ToSet(property.mappings) : \E path \in ToSet(mapping.paths) :
                        e = RouteOf(c, root, rootPath, property, mapping, path)
      BY TableElements
    <2>2. \A root, rootPath, property, mapping, path :
             /\ RouteOf(c, root, rootPath, property, mapping, path).controller = c
             /\ RouteOf(c, root, rootPath, property, mapping, path).attributes = property.attributes
      BY DEF RouteOf
    <2> QED
      BY <2>1, <2>2
  <1>2. c \in Controllers
    BY SequenceOfElements DEF ToSet
  <1>3. \A property \in ToSet(Mapping[c].properties) : IsFiniteSet(property.attributes)
    BY <1>2, MappingAssumption DEF ToSet
  <1> QED
    BY <1>1, <1>3

\* So do the routes that answer a request: they are selected from the table.
LEMMA SelectedAttached ==
    ASSUME NEW list, NEW table, AttachedTo(table, list), NEW method, NEW path
    PROVE  AttachedTo(RoutesOf(table, method, path), list)
  BY SelectedElements DEF AttachedTo

------------------------------------------------------------------------------
\* Keys of synchronizers

\* indexOf, in any list of controllers.
IndexIn(list, c) == CHOOSE i \in DOMAIN list : list[i] = c /\ \A j \in 1..i-1 : list[j] # c

\* The first index of a controller is still its first when others are attached.
LEMMA IndexStays ==
    ASSUME NEW S, NEW list \in Seq(S), NEW c \in ToSet(list), NEW d \in S
    PROVE  /\ c \in ToSet(Append(list, d))
           /\ IndexIn(Append(list, d), c) = IndexIn(list, c)
  <1> DEFINE more == Append(list, d)
             I == {i \in 1..Len(list) : list[i] = c}
  <1>1. /\ DOMAIN list = 1..Len(list) /\ Len(list) \in Nat
        /\ DOMAIN more = 1..Len(list) + 1 /\ \A i \in 1..Len(list) : more[i] = list[i]
    OBVIOUS
  <1>2. PICK n \in 1..Len(list) : list[n] = c /\ \A i \in 1..n-1 : list[i] # c
    <2>1. I \subseteq Nat \ {0} /\ I # {}
      BY <1>1 DEF ToSet
    <2>2. PICK n \in I : \A i \in I : n =< i
      <3> HIDE DEF I
      <3> QED
        BY <2>1, LeastNatural
    <2>3. \A i \in 1..n-1 : i \in 1..Len(list) /\ ~ n =< i
      BY <1>1, <2>2
    <2> QED
      BY <2>2, <2>3
  <1> HIDE DEF more
  <1>3. \A i \in DOMAIN list : (list[i] = c /\ \A j \in 1..i-1 : list[j] # c) => i = n
    BY <1>1, <1>2
  <1>4. \A i \in DOMAIN more : (more[i] = c /\ \A j \in 1..i-1 : more[j] # c) => i = n
    <2> SUFFICES ASSUME NEW i \in DOMAIN more, more[i] = c, \A j \in 1..i-1 : more[j] # c PROVE i = n
      OBVIOUS
    <2>1. ~ n < i
      <3>1. n < i => n \in 1..i-1
        BY <1>1, <1>2
      <3> QED
        BY <1>1, <1>2, <3>1
    <2>2. ~ i < n
      <3>1. i < n => i \in 1..n-1 /\ i \in 1..Len(list)
        BY <1>1, <1>2
      <3> QED
        BY <1>1, <1>2, <3>1
    <2> QED
      BY <1>1, <1>2, <2>1, <2>2
  <1>5. n \in DOMAIN list /\ n \in DOMAIN more /\ more[n] = c /\ \A j \in 1..n-1 : more[j] # c
    <2>1. \A j \in 1..n-1 : j \in 1..Len(list)
      BY <1>1, <1>2
    <2> QED
      BY <1>1, <1>2, <2>1
  <1>6. IndexIn(list, c) = n
    BY <1>2, <1>3, <1>5 DEF IndexIn
  <1>7. IndexIn(more, c) = n
    BY <1>4, <1>5 DEF IndexIn
  <1>8. c \in ToSet(more)
    BY <1>5 DEF ToSet
  <1> QED
    BY <1>6, <1>7, <1>8 DEF more

KeyedTo(s, list) ==
    /\ IsSequence(s)
    /\ \A i \in DOMAIN s :
         /\ s[i].route.controller \in ToSet(list) /\ IsFiniteSet(s[i].route.attributes)
         /\ s[i].key = <<IndexIn(list, s[i].route.controller), s[i].route.name>>

\* The routes of a request get the keys of their synchronizers.
LEMMA KeyedRoutes ==
    ASSUME NEW s, AttachedTo(s, controllers), s # <<>>
    PROVE  /\ KeyedTo(Keyed(s), controllers) /\ Keyed(s) # <<>>
           /\ IsFiniteSet(Head(s).attributes) /\ Head(Keyed(s)).route = Head(s)
  <1>1. DOMAIN s = 1..Len(s) /\ Len(s) \in Nat /\ Len(s) # 0 /\ s \in Seq(ToSet(s))
    BY DEF AttachedTo, IsSequence
  <1>2. \A i \in DOMAIN s : Keyed(s)[i].route = s[i]
                           /\ Keyed(s)[i].key = <<IndexIn(controllers, s[i].controller), s[i].name>>
    BY DEF Keyed, indexOf, IndexIn
  <1>3. DOMAIN Keyed(s) = 1..Len(s) /\ Keyed(s) = [i \in 1..Len(s) |-> Keyed(s)[i]]
    BY <1>1 DEF Keyed
  <1>4. Keyed(s) \in [1..Len(s) -> ToSet(Keyed(s))]
    BY <1>3 DEF ToSet
  <1>5. Keyed(s) \in Seq(ToSet(Keyed(s)))
    BY <1>1, <1>4, IsASeq
  <1>6. KeyedTo(Keyed(s), controllers)
    BY <1>2, <1>3, <1>5, <1>1 DEF KeyedTo, IsSequence, AttachedTo
  <1>7. Head(s) = s[1] /\ Head(Keyed(s)) = Keyed(s)[1] /\ 1 \in DOMAIN s
    BY <1>1, <1>3, <1>5
  <1>8. Keyed(s) # <<>>
    BY <1>1, <1>3
  <1> QED
    BY <1>2, <1>6, <1>7, <1>8, AttachedByIndex

\* What is left of them has them still.
LEMMA TailKeyed ==
    ASSUME NEW s, NEW list, KeyedTo(s, list), s # <<>>
    PROVE  /\ KeyedTo(Tail(s), list)
           /\ Head(s).route.controller \in ToSet(list) /\ IsFiniteSet(Head(s).route.attributes)
           /\ Head(s).key = <<IndexIn(list, Head(s).route.controller), Head(s).route.name>>
  <1>1. s \in Seq(ToSet(s)) /\ DOMAIN s = 1..Len(s)
    BY DEF KeyedTo, IsSequence
  <1>2. /\ Tail(s) \in Seq(ToSet(s)) /\ Head(s) = s[1] /\ 1 \in DOMAIN s
        /\ \A i \in DOMAIN Tail(s) : i + 1 \in DOMAIN s /\ Tail(s)[i] = s[i + 1]
    BY <1>1, TailByIndex
  <1>3. IsSequence(Tail(s))
    BY <1>2, SequenceOfElements
  <1> QED
    BY <1>2, <1>3 DEF KeyedTo

\* Attaching another controller changes no keys.
LEMMA KeysStay ==
    ASSUME NEW list \in Seq(Controllers), NEW d \in Controllers, NEW s
    PROVE  /\ AttachedTo(s, list) => AttachedTo(s, Append(list, d))
           /\ KeyedTo(s, list) => KeyedTo(s, Append(list, d))
  <1>1. \A c \in ToSet(list) : /\ c \in ToSet(Append(list, d))
                               /\ IndexIn(Append(list, d), c) = IndexIn(list, c)
    BY IndexStays
  <1> QED
    BY <1>1 DEF AttachedTo, KeyedTo

------------------------------------------------------------------------------
\* Records

IsRequest(q) ==
    q = [stage |-> q.stage, todo |-> q.todo, attributes |-> q.attributes, line |-> q.line,
         outcome |-> q.outcome]

\* What a request becomes when its stage changes, or the number of its attributes.
LEMMA FieldsUpdated ==
    ASSUME NEW q, IsRequest(q), NEW stage, NEW attributes
    PROVE  /\ [q EXCEPT !.stage = stage]
                = [stage |-> stage, todo |-> q.todo, attributes |-> q.attributes, line |-> q.line,
                   outcome |-> q.outcome]
           /\ [q EXCEPT !.attributes = attributes]
                = [stage |-> q.stage, todo |-> q.todo, attributes |-> attributes, line |-> q.line,
                   outcome |-> q.outcome]
  BY DEF IsRequest

------------------------------------------------------------------------------
\* The inductive invariant

Waits(q) == q.stage = "queued" \/ (q.stage = "calling" /\ Head(q.todo).route.synchronized)

GoodRequest(q, attached) ==
    /\ IsRequest(q)
    /\ q.stage \in InProgress \cup {"idle", "answered"}
    /\ q.stage \in InProgress <=> q.todo # <<>>
    /\ q.outcome \in Outcomes <=> q.stage = "answered"
    /\ q.attributes \in Nat
    /\ q.stage = "parsing" => AttachedTo(q.todo, attached)
    /\ q.stage \in {"binding", "queued", "calling"} => KeyedTo(q.todo, attached)

\* The routes are those of the controllers, and each request has its shape.
RequestsGood ==
    /\ controllers \in Seq(Controllers)
    /\ initialized \in BOOLEAN
    /\ routes.defined \in BOOLEAN
    /\ routes.defined => routes.table = ParseMappings(controllers)
    /\ request = [r \in Requests |-> request[r]]
    /\ \A r \in Requests : GoodRequest(request[r], controllers)

\* Who waits for a synchronized method, or is in it, stands in the line of its
\* key, and in no other; who is in it stands first.
LinesKept ==
    /\ lines \in Seq(Seq(Requests))
    /\ \A k \in DOMAIN synchronizers : synchronizers[k] \in DOMAIN lines
    /\ \A s \in DOMAIN lines : \A i \in DOMAIN lines[s] :
         Waits(request[lines[s][i]]) /\ request[lines[s][i]].line = s
    /\ \A s \in DOMAIN lines : \A i, j \in DOMAIN lines[s] : lines[s][i] = lines[s][j] => i = j
    /\ \A r \in Requests : Waits(request[r]) =>
         /\ current(r).route.synchronized
         /\ current(r).key \in DOMAIN synchronizers
         /\ request[r].line = synchronizers[current(r).key]
         /\ r \in ToSet(lines[request[r].line])
    /\ \A r \in Requests : Calling(r) => Head(lines[request[r].line]) = r

IndInv == RequestsGood /\ LinesKept

------------------------------------------------------------------------------
\* Steps of one request

\* What the steps leave alone, when they change one request to q.
Changes(r, q) ==
    /\ request' = [request EXCEPT ![r] = q]
    /\ UNCHANGED controllers

\* A request that is changed to one of good shape.
LEMMA ChangedRequest ==
    ASSUME RequestsGood, NEW r \in Requests, NEW q, Changes(r, q), GoodRequest(q, controllers),
           initialized' \in BOOLEAN, routes'.defined \in BOOLEAN,
           routes'.defined => routes'.table = ParseMappings(controllers)
    PROVE  /\ RequestsGood'
           /\ request'[r] = q
           /\ \A s \in Requests \ {r} : request'[s] = request[s]
  <1>1. /\ request' = [s \in Requests |-> IF s = r THEN q ELSE request[s]]
        /\ \A s \in Requests : request'[s] = IF s = r THEN q ELSE request[s]
    BY DEF RequestsGood, Changes
  <1>2. \A s \in Requests : GoodRequest(request'[s], controllers)
    BY <1>1 DEF RequestsGood
  <1>3. request' = [s \in Requests |-> request'[s]]
    BY <1>1
  <1> QED
    BY <1>1, <1>2, <1>3 DEF RequestsGood, Changes

\* The number of attributes that a route asks for is a number.
LEMMA AttributesCounted ==
    ASSUME NEW route, IsFiniteSet(route.attributes)
    PROVE  Cardinality(Attributes(route)) \in Nat
  <1>1. Attributes(route) \subseteq route.attributes
    BY DEF Attributes
  <1>2. IsFiniteSet(Attributes(route))
    BY <1>1, FS_Subset
  <1> QED
    BY <1>2, FS_CardinalityType

\* A request has a good shape, and waits for no other, whose routes begin to be
\* called.
LEMMA BindingGood ==
    ASSUME NEW todo, KeyedTo(todo, controllers), todo # <<>>
    PROVE  GoodRequest(Binding(todo), controllers) /\ ~Waits(Binding(todo))
  <1> DEFINE count == Cardinality(Attributes(Head(todo).route))
             n == Binding(todo)
  <1>1. count \in Nat
    BY TailKeyed, AttributesCounted
  <1>2. n = [stage |-> "binding", todo |-> todo, attributes |-> count, line |-> 0, outcome |-> "none"]
    BY DEF Binding
  <1> HIDE DEF count, n
  <1>3. GoodRequest(n, controllers) /\ ~Waits(n)
    BY <1>1, <1>2 DEF GoodRequest, IsRequest, Waits, InProgress, Outcomes
  <1> QED BY <1>3 DEF n

\* One that is answered.
LEMMA EndedGood ==
    ASSUME NEW outcome \in Outcomes
    PROVE  GoodRequest(Ended(outcome), controllers) /\ ~Waits(Ended(outcome))
  <1>1. 0 \in Nat
    OBVIOUS
  <1> QED
    BY <1>1 DEF Ended, GoodRequest, IsRequest, Waits, InProgress

\* One whose body is parsed.
LEMMA ParsingGood ==
    ASSUME NEW todo, AttachedTo(todo, controllers), todo # <<>>
    PROVE  GoodRequest(Parsing(todo), controllers) /\ ~Waits(Parsing(todo))
  <1>1. 0 \in Nat
    OBVIOUS
  <1> QED
    BY <1>1 DEF Parsing, GoodRequest, IsRequest, Waits, InProgress, Outcomes

\* So it is for one that goes on with its next route, or ends.
LEMMA ContinueGood ==
    ASSUME RequestsGood, NEW r \in Requests, NEW todo, KeyedTo(todo, controllers),
           Continue(r, todo), UNCHANGED <<controllers, routes, initialized>>
    PROVE  /\ RequestsGood' /\ ~Waits(request'[r])
           /\ \A s \in Requests \ {r} : request'[s] = request[s]
  <1> DEFINE q == IF todo = <<>> THEN Ended("ok") ELSE Binding(todo)
  <1>1. GoodRequest(q, controllers) /\ ~Waits(q)
    BY BindingGood, EndedGood DEF Outcomes
  <1>2. Changes(r, q)
    BY DEF Changes, Continue
  <1>3. initialized' \in BOOLEAN /\ routes'.defined \in BOOLEAN
        /\ (routes'.defined => routes'.table = ParseMappings(controllers))
    BY DEF RequestsGood
  <1> HIDE DEF q
  <1> QED
    BY <1>1, <1>2, <1>3, ChangedRequest

\* So it is for one that is answered.
LEMMA AnswerGood ==
    ASSUME RequestsGood, NEW r \in Requests, NEW outcome \in Outcomes,
           Answer(r, outcome), UNCHANGED <<controllers, routes, initialized>>
    PROVE  /\ RequestsGood' /\ ~Waits(request'[r])
           /\ \A s \in Requests \ {r} : request'[s] = request[s]
  <1>1. GoodRequest(Ended(outcome), controllers) /\ ~Waits(Ended(outcome))
    BY EndedGood
  <1>2. Changes(r, Ended(outcome))
    BY DEF Changes, Answer
  <1>3. initialized' \in BOOLEAN /\ routes'.defined \in BOOLEAN
        /\ (routes'.defined => routes'.table = ParseMappings(controllers))
    BY DEF RequestsGood
  <1> QED
    BY <1>1, <1>2, <1>3, ChangedRequest

------------------------------------------------------------------------------
\* Lines

\* A step of a request that stands in no line leaves the lines as they are.
LEMMA OutsideOfLines ==
    ASSUME LinesKept, NEW r \in Requests, ~Waits(request[r]), ~Waits(request'[r]),
           \A s \in Requests \ {r} : request'[s] = request[s],
           UNCHANGED <<lines, synchronizers>>
    PROVE  LinesKept'
  <1>1. \A s \in DOMAIN lines : \A i \in DOMAIN lines[s] :
          lines[s][i] \in Requests /\ lines[s][i] # r
    BY DEF LinesKept
  <1>2. \A s \in DOMAIN lines : \A i \in DOMAIN lines[s] :
          Waits(request'[lines[s][i]]) /\ request'[lines[s][i]].line = s
    BY <1>1 DEF LinesKept
  <1>3. \A s \in Requests : Waits(request'[s]) => s # r /\ request'[s] = request[s] /\ Waits(request[s])
    OBVIOUS
  <1>4. \A s \in Requests : Calling(s)' => Waits(request'[s])
    BY DEF Calling, Waits, current
  <1>5. \A s \in Requests : s # r /\ Calling(s)' => Calling(s)
    BY DEF Calling, current
  <1>6. \A s \in Requests : Waits(request'[s]) =>
          /\ current(s)'.route.synchronized
          /\ current(s)'.key \in DOMAIN synchronizers
          /\ request'[s].line = synchronizers[current(s)'.key]
          /\ s \in ToSet(lines[request'[s].line])
    BY <1>3 DEF LinesKept, current
  <1>7. \A s \in Requests : Calling(s)' => Head(lines[request'[s].line]) = s
    BY <1>3, <1>4, <1>5 DEF LinesKept
  <1> QED
    BY <1>2, <1>6, <1>7 DEF LinesKept

\* What does not depend on which line a request is in.
LEMMA LineOfElement ==
    ASSUME LinesKept, NEW s \in DOMAIN lines
    PROVE  /\ lines[s] \in Seq(Requests) /\ DOMAIN lines[s] = 1..Len(lines[s]) /\ Len(lines[s]) \in Nat
           /\ \A i \in DOMAIN lines[s] : /\ lines[s][i] \in Requests /\ Waits(request[lines[s][i]])
                                         /\ request[lines[s][i]].line = s
  BY DEF LinesKept

\* A call that enters the line of a synchronizer that is there.
LEMMA EnterLine ==
    ASSUME LinesKept, NEW r \in Requests, ~Waits(request[r]), NEW key \in DOMAIN synchronizers,
           NEW s, s = synchronizers[key], UNCHANGED synchronizers,
           lines' = [lines EXCEPT ![s] = Append(@, r)],
           \A q \in Requests \ {r} : request'[q] = request[q],
           request'[r].stage = IF lines[s] = <<>> THEN "calling" ELSE "queued",
           request'[r].line = s,
           Head(request'[r].todo).key = key, Head(request'[r].todo).route.synchronized
    PROVE  LinesKept'
  <1> DEFINE line == lines[s]
             more == Append(line, r)
  <1>1. s \in DOMAIN lines /\ lines \in Seq(Seq(Requests))
    BY DEF LinesKept
  <1>2. line \in Seq(Requests) /\ DOMAIN line = 1..Len(line) /\ Len(line) \in Nat
    BY <1>1, LineOfElement
  <1>3. /\ more \in Seq(Requests) /\ DOMAIN more = 1..Len(line) + 1
        /\ \A i \in 1..Len(line) : more[i] = line[i]
        /\ more[Len(line) + 1] = r
        /\ line # <<>> => Head(more) = Head(line)
        /\ line = <<>> => Head(more) = r
    BY <1>2, AppendByIndex
  <1>4. /\ DOMAIN lines' = DOMAIN lines /\ lines'[s] = more
        /\ \A t \in DOMAIN lines : t # s => lines'[t] = lines[t]
    BY <1>1
  <1>5. \A t \in DOMAIN lines : \A i \in DOMAIN lines[t] : lines[t][i] \in Requests \ {r}
    BY LineOfElement
  <1>6. Waits(request'[r])
    BY DEF Waits
  <1> HIDE DEF more
  <1>7. lines' \in Seq(Seq(Requests))
    BY <1>1, <1>3
  <1>8. \A t \in DOMAIN lines' : \A i \in DOMAIN lines'[t] :
          Waits(request'[lines'[t][i]]) /\ request'[lines'[t][i]].line = t
    <2> SUFFICES ASSUME NEW t \in DOMAIN lines, NEW i \in DOMAIN lines'[t]
                 PROVE  Waits(request'[lines'[t][i]]) /\ request'[lines'[t][i]].line = t
      BY <1>4
    <2>1. CASE t # s
      BY <2>1, <1>4, <1>5, LineOfElement
    <2>2. CASE t = s /\ i \in 1..Len(line)
      <3>1. \A k \in DOMAIN lines[s] : /\ lines[s][k] \in Requests \ {r}
                                       /\ Waits(request[lines[s][k]]) /\ request[lines[s][k]].line = s
        BY <1>1, <1>5, LineOfElement
      <3>2. i \in DOMAIN line /\ lines'[t][i] = line[i]
        BY <2>2, <1>2, <1>3, <1>4
      <3> HIDE DEF line
      <3> QED
        BY <2>2, <3>1, <3>2 DEF line
    <2>3. CASE t = s /\ i = Len(line) + 1
      BY <2>3, <1>3, <1>4, <1>6
    <2> QED
      BY <2>1, <2>2, <2>3, <1>2, <1>3, <1>4
  <1>9. \A t \in DOMAIN lines' : \A i, j \in DOMAIN lines'[t] : lines'[t][i] = lines'[t][j] => i = j
    <2> SUFFICES ASSUME NEW t \in DOMAIN lines, NEW i \in DOMAIN lines'[t], NEW j \in DOMAIN lines'[t],
                        lines'[t][i] = lines'[t][j]
                 PROVE  i = j
      BY <1>4
    <2>1. CASE t # s
      BY <2>1, <1>4 DEF LinesKept
    <2>2. CASE t = s
      <3>1. \A k, l \in 1..Len(line) : line[k] = line[l] => k = l
        <4>1. \A k, l \in DOMAIN lines[s] : lines[s][k] = lines[s][l] => k = l
          BY <1>1 DEF LinesKept
        <4> QED
          BY <4>1, <1>2
      <3>2. \A k \in 1..Len(line) : line[k] # r
        BY <1>1, <1>2, <1>5
      <3> HIDE DEF line
      <3> QED
        BY <2>2, <3>1, <3>2, <1>2, <1>3, <1>4
    <2> QED BY <2>1, <2>2
  <1>10. ASSUME NEW q \in Requests, Waits(request'[q])
         PROVE  /\ current(q)'.route.synchronized
                /\ current(q)'.key \in DOMAIN synchronizers
                /\ request'[q].line = synchronizers[current(q)'.key]
                /\ q \in ToSet(lines'[request'[q].line])
    <2>1. CASE q = r
      <3>1. r \in ToSet(more)
        BY <1>2, <1>3 DEF ToSet
      <3> QED
        BY <2>1, <3>1, <1>4 DEF current
    <2>2. CASE q # r
      <3>1. request'[q] = request[q] /\ Waits(request[q])
        BY <1>10, <2>2
      <3>2. /\ current(q).route.synchronized /\ current(q).key \in DOMAIN synchronizers
            /\ request[q].line = synchronizers[current(q).key] /\ request[q].line \in DOMAIN lines
            /\ q \in ToSet(lines[request[q].line])
        BY <3>1 DEF LinesKept
      <3>3. q \in ToSet(lines'[request[q].line])
        <4>1. CASE request[q].line # s
          BY <3>2, <4>1, <1>4
        <4>2. CASE request[q].line = s
          BY <3>2, <4>2, <1>2, <1>3, <1>4 DEF ToSet
        <4> QED BY <4>1, <4>2
      <3> QED
        BY <3>1, <3>2, <3>3 DEF current
    <2> QED BY <2>1, <2>2
  <1>11. ASSUME NEW q \in Requests, Calling(q)'
         PROVE  Head(lines'[request'[q].line]) = q
    <2>1. CASE q = r
      <3>1. line = <<>>
        BY <2>1, <1>11 DEF Calling
      <3> QED
        BY <2>1, <3>1, <1>3, <1>4
    <2>2. CASE q # r
      <3>1. request'[q] = request[q] /\ Calling(q) /\ Waits(request[q])
        BY <1>11, <2>2 DEF Calling, Waits, current
      <3>2. /\ Head(lines[request[q].line]) = q /\ request[q].line \in DOMAIN lines
            /\ q \in ToSet(lines[request[q].line])
        BY <3>1 DEF LinesKept
      <3>3. CASE request[q].line # s
        BY <3>1, <3>2, <3>3, <1>4
      <3>4. CASE request[q].line = s
        <4>1. line # <<>>
          BY <3>2, <3>4 DEF ToSet
        <4> QED
          BY <3>1, <3>2, <3>4, <4>1, <1>3, <1>4
      <3> QED BY <3>3, <3>4
    <2> QED BY <2>1, <2>2
  <1> QED
    BY <1>1, <1>4, <1>7, <1>8, <1>9, <1>10, <1>11 DEF LinesKept

\* A call that enters the line of a synchronizer that it creates.
LEMMA EnterNewLine ==
    ASSUME LinesKept, NEW r \in Requests, ~Waits(request[r]), NEW key, key \notin DOMAIN synchronizers,
           NEW n, n = Len(lines) + 1,
           synchronizers' = [k \in {key} \cup DOMAIN synchronizers |->
                               IF k = key THEN n ELSE synchronizers[k]],
           lines' = Append(lines, <<r>>),
           \A q \in Requests \ {r} : request'[q] = request[q],
           request'[r].stage = "calling", request'[r].line = n,
           Head(request'[r].todo).key = key, Head(request'[r].todo).route.synchronized
    PROVE  LinesKept'
  <1>1. lines \in Seq(Seq(Requests)) /\ <<r>> \in Seq(Requests)
    BY DEF LinesKept
  <1>2. DOMAIN lines = 1..Len(lines) /\ Len(lines) \in Nat
    BY <1>1
  <1>3. /\ lines' \in Seq(Seq(Requests)) /\ DOMAIN lines' = 1..n
        /\ \A t \in DOMAIN lines : t # n /\ lines'[t] = lines[t]
        /\ lines'[n] = <<r>> /\ n \in DOMAIN lines'
        /\ \A t \in DOMAIN lines' : t # n => t \in DOMAIN lines
    BY <1>1, <1>2, AppendByIndex
  <1>4. /\ DOMAIN synchronizers' = {key} \cup DOMAIN synchronizers
        /\ synchronizers'[key] = n
        /\ \A k \in DOMAIN synchronizers : k # key /\ synchronizers'[k] = synchronizers[k]
    OBVIOUS
  <1>5. DOMAIN <<r>> = {1} /\ <<r>>[1] = r /\ Head(<<r>>) = r
    OBVIOUS
  <1>6. Waits(request'[r])
    BY DEF Waits
  <1>7. \A t \in DOMAIN lines : \A i \in DOMAIN lines[t] : lines[t][i] \in Requests \ {r}
    BY LineOfElement
  <1>8. \A t \in DOMAIN lines' : \A i \in DOMAIN lines'[t] :
          Waits(request'[lines'[t][i]]) /\ request'[lines'[t][i]].line = t
    <2> SUFFICES ASSUME NEW t \in DOMAIN lines', NEW i \in DOMAIN lines'[t]
                 PROVE  Waits(request'[lines'[t][i]]) /\ request'[lines'[t][i]].line = t
      OBVIOUS
    <2>1. CASE t = n
      BY <2>1, <1>3, <1>5, <1>6
    <2>2. CASE t # n
      <3>1. t \in DOMAIN lines /\ lines'[t] = lines[t]
        BY <2>2, <1>3
      <3>2. /\ lines[t][i] \in Requests \ {r} /\ Waits(request[lines[t][i]])
            /\ request[lines[t][i]].line = t
        BY <3>1, <1>7, LineOfElement
      <3> QED
        BY <3>1, <3>2
    <2> QED BY <2>1, <2>2
  <1>9. \A t \in DOMAIN lines' : \A i, j \in DOMAIN lines'[t] : lines'[t][i] = lines'[t][j] => i = j
    <2> SUFFICES ASSUME NEW t \in DOMAIN lines', NEW i \in DOMAIN lines'[t], NEW j \in DOMAIN lines'[t],
                        lines'[t][i] = lines'[t][j]
                 PROVE  i = j
      OBVIOUS
    <2>1. CASE t = n
      BY <2>1, <1>3, <1>5
    <2>2. CASE t # n
      <3>1. t \in DOMAIN lines /\ lines'[t] = lines[t]
        BY <2>2, <1>3
      <3> QED
        BY <3>1 DEF LinesKept
    <2> QED BY <2>1, <2>2
  <1>10. ASSUME NEW q \in Requests, Waits(request'[q])
         PROVE  /\ current(q)'.route.synchronized
                /\ current(q)'.key \in DOMAIN synchronizers'
                /\ request'[q].line = synchronizers'[current(q)'.key]
                /\ q \in ToSet(lines'[request'[q].line])
    <2>1. CASE q = r
      BY <2>1, <1>3, <1>4, <1>5 DEF current, ToSet
    <2>2. CASE q # r
      <3>1. request'[q] = request[q] /\ Waits(request[q])
        BY <1>10, <2>2
      <3>2. /\ current(q).route.synchronized /\ current(q).key \in DOMAIN synchronizers
            /\ request[q].line = synchronizers[current(q).key] /\ request[q].line \in DOMAIN lines
            /\ q \in ToSet(lines[request[q].line])
        BY <3>1 DEF LinesKept
      <3> QED
        BY <3>1, <3>2, <1>3, <1>4 DEF current
    <2> QED BY <2>1, <2>2
  <1>11. ASSUME NEW q \in Requests, Calling(q)'
         PROVE  Head(lines'[request'[q].line]) = q
    <2>1. CASE q = r
      BY <2>1, <1>3, <1>5
    <2>2. CASE q # r
      <3>1. request'[q] = request[q] /\ Calling(q) /\ Waits(request[q])
        BY <1>11, <2>2 DEF Calling, Waits, current
      <3>2. Head(lines[request[q].line]) = q /\ request[q].line \in DOMAIN lines
        BY <3>1 DEF LinesKept
      <3> QED
        BY <3>1, <3>2, <1>3
    <2> QED BY <2>1, <2>2
  <1>12. \A k \in DOMAIN synchronizers' : synchronizers'[k] \in DOMAIN lines'
    <2>1. \A k \in DOMAIN synchronizers : synchronizers[k] \in DOMAIN lines
      BY DEF LinesKept
    <2>2. \A t \in DOMAIN lines : t \in DOMAIN lines'
      BY <1>2, <1>3
    <2> QED
      BY <2>1, <2>2, <1>3, <1>4
  <1> QED
    BY <1>3, <1>8, <1>9, <1>10, <1>11, <1>12 DEF LinesKept

\* The first call of a line begins.
LEMMA FirstBegins ==
    ASSUME LinesKept, NEW r \in Requests, request[r].stage = "queued", Head(lines[request[r].line]) = r,
           UNCHANGED <<lines, synchronizers>>,
           \A q \in Requests \ {r} : request'[q] = request[q],
           request'[r].stage = "calling", request'[r].line = request[r].line,
           request'[r].todo = request[r].todo
    PROVE  LinesKept'
  <1>1. /\ Waits(request[r]) /\ current(r).route.synchronized /\ current(r)' = current(r)
        /\ Waits(request'[r])
    BY DEF LinesKept, Waits, current
  <1>2. \A q \in Requests : /\ Waits(request'[q]) <=> Waits(request[q])
                            /\ request'[q].line = request[q].line
                            /\ current(q)' = current(q)
    BY <1>1 DEF current
  <1>3. \A q \in Requests : q # r /\ Calling(q)' => Calling(q)
    BY DEF Calling, current
  <1>4. \A s \in DOMAIN lines : \A i \in DOMAIN lines[s] :
          Waits(request'[lines[s][i]]) /\ request'[lines[s][i]].line = s
    BY <1>2, LineOfElement
  <1>5. \A q \in Requests : Waits(request'[q]) =>
          /\ current(q)'.route.synchronized
          /\ current(q)'.key \in DOMAIN synchronizers
          /\ request'[q].line = synchronizers[current(q)'.key]
          /\ q \in ToSet(lines[request'[q].line])
    BY <1>2 DEF LinesKept
  <1>6. \A q \in Requests : Calling(q)' => Head(lines[request'[q].line]) = q
    BY <1>2, <1>3 DEF LinesKept
  <1> QED
    BY <1>4, <1>5, <1>6 DEF LinesKept

\* The call that executes leaves its line.
LEMMA FirstLeaves ==
    ASSUME LinesKept, NEW r \in Requests, Calling(r), NEW s, s = request[r].line,
           lines' = [lines EXCEPT ![s] = Tail(@)], UNCHANGED synchronizers,
           \A q \in Requests \ {r} : request'[q] = request[q], ~Waits(request'[r])
    PROVE  LinesKept'
  <1> DEFINE line == lines[s]
             rest == Tail(line)
  <1>1. /\ Waits(request[r]) /\ s \in DOMAIN lines /\ r \in ToSet(line) /\ Head(line) = r
        /\ lines \in Seq(Seq(Requests))
    BY DEF LinesKept, Waits, Calling, current
  <1>2. line \in Seq(Requests) /\ DOMAIN line = 1..Len(line) /\ Len(line) \in Nat /\ line # <<>>
    BY <1>1 DEF ToSet
  <1>3. /\ rest \in Seq(Requests) /\ Len(rest) = Len(line) - 1 /\ DOMAIN rest = 1..Len(line)-1
        /\ \A i \in 1..Len(line)-1 : rest[i] = line[i + 1] /\ i + 1 \in DOMAIN line
        /\ line[1] = r /\ 1 \in DOMAIN line
    BY <1>1, <1>2, TailByIndex
  <1>4. /\ DOMAIN lines' = DOMAIN lines /\ lines'[s] = rest
        /\ \A t \in DOMAIN lines : t # s => lines'[t] = lines[t]
    BY <1>1
  <1>5. \A i, j \in DOMAIN line : line[i] = line[j] => i = j
    BY <1>1 DEF LinesKept
  <1>6. \A i \in DOMAIN line : /\ line[i] \in Requests /\ Waits(request[line[i]])
                               /\ request[line[i]].line = s
    BY <1>1, LineOfElement
  <1>9. lines' \in Seq(Seq(Requests))
    <2> HIDE DEF line
    <2>1. rest \in Seq(Requests)
      BY <1>3
    <2>2. lines' = [lines EXCEPT ![s] = rest]
      BY DEF line
    <2> HIDE DEF rest
    <2>3. DOMAIN lines = 1..Len(lines) /\ Len(lines) \in Nat
      BY <1>1
    <2>4. lines' \in [1..Len(lines) -> Seq(Requests)]
      <3>1. \A t \in 1..Len(lines) : lines[t] \in Seq(Requests)
        BY <1>1
      <3>2. \A t \in 1..Len(lines) : lines'[t] \in Seq(Requests)
        BY <2>1, <2>2, <2>3, <3>1
      <3>3. lines' = [t \in 1..Len(lines) |-> lines'[t]]
        BY <2>2, <2>3
      <3> QED
        BY <3>2, <3>3
    <2> QED
      BY <2>3, <2>4, IsASeq
  <1> HIDE DEF line, rest
  <1>7. \A i \in DOMAIN rest : /\ rest[i] \in Requests \ {r} /\ Waits(request[rest[i]])
                               /\ request[rest[i]].line = s
    <2> SUFFICES ASSUME NEW i \in 1..Len(line)-1
                 PROVE  /\ rest[i] \in Requests \ {r} /\ Waits(request[rest[i]])
                        /\ request[rest[i]].line = s
      BY <1>3
    <2>1. rest[i] = line[i + 1] /\ i + 1 \in DOMAIN line /\ i + 1 # 1
      BY <1>2, <1>3
    <2>2. line[i + 1] # line[1]
      BY <2>1, <1>3, <1>5
    <2> QED
      BY <2>1, <2>2, <1>3, <1>6
  <1>8. \A t \in DOMAIN lines : t # s => \A i \in DOMAIN lines[t] : lines[t][i] \in Requests \ {r}
    BY LineOfElement
  <1>10. \A t \in DOMAIN lines' : \A i \in DOMAIN lines'[t] :
          Waits(request'[lines'[t][i]]) /\ request'[lines'[t][i]].line = t
    <2> SUFFICES ASSUME NEW t \in DOMAIN lines, NEW i \in DOMAIN lines'[t]
                 PROVE  Waits(request'[lines'[t][i]]) /\ request'[lines'[t][i]].line = t
      BY <1>4
    <2>1. CASE t = s
      BY <2>1, <1>4, <1>7
    <2>2. CASE t # s
      BY <2>2, <1>4, <1>8, LineOfElement
    <2> QED BY <2>1, <2>2
  <1>11. \A t \in DOMAIN lines' : \A i, j \in DOMAIN lines'[t] : lines'[t][i] = lines'[t][j] => i = j
    <2> SUFFICES ASSUME NEW t \in DOMAIN lines, NEW i \in DOMAIN lines'[t], NEW j \in DOMAIN lines'[t],
                        lines'[t][i] = lines'[t][j]
                 PROVE  i = j
      BY <1>4
    <2>1. CASE t = s
      <3>1. i \in 1..Len(line)-1 /\ j \in 1..Len(line)-1 /\ rest[i] = rest[j]
        BY <2>1, <1>3, <1>4
      <3>2. line[i + 1] = line[j + 1] /\ i + 1 \in DOMAIN line /\ j + 1 \in DOMAIN line
        BY <3>1, <1>3
      <3>3. i + 1 = j + 1
        BY <3>2, <1>5
      <3> QED
        BY <3>1, <3>3, <1>2
    <2>2. CASE t # s
      BY <2>2, <1>4 DEF LinesKept
    <2> QED BY <2>1, <2>2
  <1>12. ASSUME NEW q \in Requests, Waits(request'[q])
         PROVE  /\ current(q)'.route.synchronized
                /\ current(q)'.key \in DOMAIN synchronizers
                /\ request'[q].line = synchronizers[current(q)'.key]
                /\ q \in ToSet(lines'[request'[q].line])
                /\ q # r /\ request'[q] = request[q] /\ q \in ToSet(lines[request[q].line])
                /\ request[q].line \in DOMAIN lines
    <2>1. q # r /\ request'[q] = request[q] /\ Waits(request[q])
      BY <1>12
    <2>2. /\ current(q).route.synchronized /\ current(q).key \in DOMAIN synchronizers
          /\ request[q].line = synchronizers[current(q).key] /\ request[q].line \in DOMAIN lines
          /\ q \in ToSet(lines[request[q].line])
      BY <2>1 DEF LinesKept
    <2>3. q \in ToSet(lines'[request[q].line])
      <3>1. CASE request[q].line # s
        BY <2>2, <3>1, <1>4
      <3>2. CASE request[q].line = s
        <4>1. PICK i \in DOMAIN line : line[i] = q
          BY <2>2, <3>2 DEF ToSet, line
        <4>2. i - 1 \in DOMAIN rest /\ rest[i - 1] = q
          <5>1. i # 1
            BY <4>1, <2>1, <1>3
          <5>2. i - 1 \in 1..Len(line)-1 /\ (i - 1) + 1 = i
            BY <5>1, <1>2
          <5> QED
            BY <5>2, <4>1, <1>3
        <4> QED
          BY <4>2, <3>2, <1>4 DEF ToSet
      <3> QED BY <3>1, <3>2
    <2> QED
      BY <2>1, <2>2, <2>3 DEF current
  <1>13. ASSUME NEW q \in Requests, Calling(q)'
         PROVE  Head(lines'[request'[q].line]) = q
    <2>1. Waits(request'[q])
      BY <1>13 DEF Calling, Waits, current
    <2>2. q # r /\ request'[q] = request[q] /\ request[q].line \in DOMAIN lines
      BY <2>1, <1>12
    <2>3. Calling(q)
      BY <1>13, <2>2 DEF Calling, current
    <2>4. Head(lines[request[q].line]) = q
      BY <2>3 DEF LinesKept
    <2>5. request[q].line # s
      BY <2>2, <2>4, <1>1 DEF line
    <2> QED
      BY <2>2, <2>4, <2>5, <1>4
  <1> QED
    BY <1>1, <1>4, <1>9, <1>10, <1>11, <1>12, <1>13 DEF LinesKept

------------------------------------------------------------------------------
\* Steps

\* A request whose call waits or executes has a good shape still.
LEMMA CallGood ==
    ASSUME NEW q, GoodRequest(q, controllers), q.stage \in {"binding", "queued", "calling"},
           NEW stage \in {"queued", "calling"}, NEW line, NEW p,
           p = [stage |-> stage, todo |-> q.todo, attributes |-> q.attributes, line |-> line,
                outcome |-> q.outcome]
    PROVE  GoodRequest(p, controllers)
  BY DEF GoodRequest, IsRequest, InProgress, Outcomes

\* Attaching a controller.
LEMMA attachControllerStep ==
    ASSUME IndInv, NEW c \in Controllers, attachController(c)
    PROVE  IndInv'
  <1>1. controllers' = Append(controllers, c) /\ controllers \in Seq(Controllers)
        /\ UNCHANGED <<initialized, synchronizers, lines, request>> /\ routes' = Undefined
    BY DEF attachController, IndInv, RequestsGood
  <1>2. controllers' \in Seq(Controllers)
    BY <1>1
  <1>3. routes'.defined = FALSE
    BY <1>1 DEF Undefined
  <1>4. \A r \in Requests : GoodRequest(request[r], controllers')
    <2>1. \A s : /\ AttachedTo(s, controllers) => AttachedTo(s, controllers')
                 /\ KeyedTo(s, controllers) => KeyedTo(s, controllers')
      BY <1>1, KeysStay
    <2> QED
      BY <2>1 DEF IndInv, RequestsGood, GoodRequest
  <1>5. RequestsGood'
    BY <1>1, <1>2, <1>3, <1>4 DEF IndInv, RequestsGood
  <1>6. LinesKept'
    BY <1>1 DEF IndInv, LinesKept, Calling, current
  <1> QED
    BY <1>5, <1>6 DEF IndInv

\* The beginning of a request.
LEMMA handleRequestStep ==
    ASSUME IndInv, NEW r \in Requests, NEW ask, handleRequest(r, ask)
    PROVE  IndInv'
  <1> DEFINE table    == IF routes'.defined THEN routes'.table ELSE <<>>
             selected == RoutesOf(table, ask.method, ask.path)
             body     == \E i \in DOMAIN selected : selected[i].body
             q == IF ~hasRoute(table, ask.path) THEN Ended("not_found")
                  ELSE IF selected = <<>>       THEN Ended("not_allowed")
                  ELSE IF ~body                 THEN Binding(Keyed(selected))
                  ELSE IF ask.parser            THEN Parsing(selected)
                  ELSE Ended("internal")
  <1>1. /\ request[r].stage \in {"idle", "answered"} /\ initialized' = TRUE
        /\ routes' = IF initialized THEN routes ELSE TableOf(controllers)
        /\ UNCHANGED <<synchronizers, lines>>
        /\ Changes(r, q)
    BY DEF handleRequest, Changes
  <1>2. /\ initialized' \in BOOLEAN /\ routes'.defined \in BOOLEAN
        /\ routes'.defined => routes'.table = ParseMappings(controllers)
    BY <1>1 DEF IndInv, RequestsGood, TableOf
  <1>3. AttachedTo(table, controllers)
    BY <1>2, TableAttached, NoneAttached DEF IndInv, RequestsGood
  <1> HIDE DEF table
  <1>4. AttachedTo(selected, controllers)
    BY <1>3, SelectedAttached
  <1> HIDE DEF selected, body
  <1>5. GoodRequest(q, controllers) /\ ~Waits(q)
    <2>1. \A outcome \in {"not_found", "not_allowed", "internal"} :
            GoodRequest(Ended(outcome), controllers) /\ ~Waits(Ended(outcome))
      BY EndedGood DEF Outcomes
    <2>2. selected # <<>> =>
            /\ GoodRequest(Binding(Keyed(selected)), controllers) /\ ~Waits(Binding(Keyed(selected)))
            /\ GoodRequest(Parsing(selected), controllers) /\ ~Waits(Parsing(selected))
      BY <1>4, KeyedRoutes, BindingGood, ParsingGood
    <2> QED
      BY <2>1, <2>2
  <1> HIDE DEF q
  <1>6. /\ RequestsGood' /\ request'[r] = q
        /\ \A s \in Requests \ {r} : request'[s] = request[s]
    BY <1>1, <1>2, <1>5, ChangedRequest DEF IndInv
  <1>7. ~Waits(request[r])
    BY <1>1 DEF Waits
  <1>8. LinesKept'
    BY <1>1, <1>5, <1>6, <1>7, OutsideOfLines DEF IndInv
  <1> QED
    BY <1>6, <1>8 DEF IndInv

\* The steps between the calls of a request.
LEMMA StepsBetweenCalls ==
    ASSUME IndInv, NEW r \in Requests,
           ParseBody(r) \/ BuildAttribute(r) \/ Reject(r) \/ SkipRoute(r)
    PROVE  IndInv'
  <1>1. RequestsGood /\ LinesKept /\ GoodRequest(request[r], controllers)
    BY DEF IndInv, RequestsGood
  <1>2. CASE ParseBody(r)
    <2>1. request[r].stage = "parsing" /\ Continue(r, Keyed(request[r].todo))
          /\ UNCHANGED <<controllers, routes, initialized, synchronizers, lines>>
      BY <1>2 DEF ParseBody
    <2>2. AttachedTo(request[r].todo, controllers) /\ request[r].todo # <<>> /\ ~Waits(request[r])
      BY <1>1, <2>1 DEF GoodRequest, InProgress, Waits
    <2>3. KeyedTo(Keyed(request[r].todo), controllers)
      BY <2>2, KeyedRoutes
    <2>4. /\ RequestsGood' /\ ~Waits(request'[r])
          /\ \A s \in Requests \ {r} : request'[s] = request[s]
      BY <1>1, <2>1, <2>3, ContinueGood
    <2> QED
      BY <1>1, <2>1, <2>2, <2>4, OutsideOfLines DEF IndInv
  <1>3. CASE BuildAttribute(r)
    <2> DEFINE q == [request[r] EXCEPT !.attributes = @ - 1]
    <2>1. request[r].stage = "binding" /\ request[r].attributes > 0
          /\ UNCHANGED <<controllers, routes, initialized, synchronizers, lines>>
          /\ Changes(r, q)
      BY <1>1, <1>3 DEF BuildAttribute, Changes, RequestsGood
    <2>2. IsRequest(request[r])
      BY <1>1 DEF GoodRequest
    <2>3. q = [stage |-> "binding", todo |-> request[r].todo, attributes |-> request[r].attributes - 1,
               line |-> request[r].line, outcome |-> request[r].outcome]
      BY <2>1, <2>2, FieldsUpdated
    <2>4. request[r].attributes - 1 \in Nat
      BY <1>1, <2>1 DEF GoodRequest
    <2> HIDE DEF q
    <2>5. GoodRequest(q, controllers) /\ ~Waits(q)
      BY <1>1, <2>1, <2>3, <2>4 DEF GoodRequest, IsRequest, InProgress, Waits
    <2>6. initialized' \in BOOLEAN /\ routes'.defined \in BOOLEAN
          /\ (routes'.defined => routes'.table = ParseMappings(controllers))
      BY <1>1, <2>1 DEF RequestsGood
    <2>7. /\ RequestsGood' /\ request'[r] = q
          /\ \A s \in Requests \ {r} : request'[s] = request[s]
      BY <1>1, <2>1, <2>5, <2>6, ChangedRequest
    <2>8. ~Waits(request[r])
      BY <2>1 DEF Waits
    <2> QED
      BY <1>1, <2>1, <2>5, <2>7, <2>8, OutsideOfLines DEF IndInv
  <1>4. CASE Reject(r)
    <2>1. request[r].stage \in {"parsing", "binding"} /\ Answer(r, "failed")
          /\ UNCHANGED <<controllers, routes, initialized, synchronizers, lines>>
      BY <1>4 DEF Reject
    <2>2. ~Waits(request[r]) /\ "failed" \in Outcomes
      BY <2>1 DEF Waits, Outcomes
    <2>3. /\ RequestsGood' /\ ~Waits(request'[r])
          /\ \A s \in Requests \ {r} : request'[s] = request[s]
      BY <1>1, <2>1, <2>2, AnswerGood
    <2> QED
      BY <1>1, <2>1, <2>2, <2>3, OutsideOfLines DEF IndInv
  <1>5. CASE SkipRoute(r)
    <2>1. request[r].stage = "binding" /\ Continue(r, Tail(request[r].todo))
          /\ UNCHANGED <<controllers, routes, initialized, synchronizers, lines>>
      BY <1>5 DEF SkipRoute
    <2>2. KeyedTo(request[r].todo, controllers) /\ request[r].todo # <<>> /\ ~Waits(request[r])
      BY <1>1, <2>1 DEF GoodRequest, InProgress, Waits
    <2>3. KeyedTo(Tail(request[r].todo), controllers)
      BY <2>2, TailKeyed
    <2>4. /\ RequestsGood' /\ ~Waits(request'[r])
          /\ \A s \in Requests \ {r} : request'[s] = request[s]
      BY <1>1, <2>1, <2>3, ContinueGood
    <2> QED
      BY <1>1, <2>1, <2>2, <2>4, OutsideOfLines DEF IndInv
  <1> QED
    BY <1>2, <1>3, <1>4, <1>5

\* The call of a method, at once or through its synchronizer.
LEMMA CallRouteStep ==
    ASSUME IndInv, NEW r \in Requests, CallRoute(r)
    PROVE  IndInv'
  <1> DEFINE key == current(r).key
             s == synchronizers[key]
             stageIn == IF lines[s] = <<>> THEN "calling" ELSE "queued"
             n == Len(lines) + 1
             Q(stage, line) == Called(request[r].todo, stage, line)
  <1>1. /\ RequestsGood /\ LinesKept /\ GoodRequest(request[r], controllers) /\ IsRequest(request[r])
        /\ request[r].stage = "binding" /\ UNCHANGED <<controllers, routes, initialized>>
        /\ request = [q \in Requests |-> request[q]]
    BY DEF IndInv, RequestsGood, CallRoute, GoodRequest
  <1>2. ~Waits(request[r]) /\ current(r) = Head(request[r].todo)
    BY <1>1 DEF Waits, current
  <1>3. initialized' \in BOOLEAN /\ routes'.defined \in BOOLEAN
        /\ (routes'.defined => routes'.table = ParseMappings(controllers))
    BY <1>1 DEF RequestsGood
  <1>4. ASSUME NEW stage \in {"queued", "calling"}, NEW line, Changes(r, Q(stage, line))
        PROVE  /\ RequestsGood' /\ request'[r] = Q(stage, line)
               /\ \A q \in Requests \ {r} : request'[q] = request[q]
    <2>1. GoodRequest(Q(stage, line), controllers)
      <3>1. 0 \in Nat
        OBVIOUS
      <3> QED
        BY <1>1, <3>1 DEF Called, GoodRequest, IsRequest, InProgress, Outcomes
    <2> HIDE DEF Q
    <2> QED
      BY <1>1, <1>3, <1>4, <2>1, ChangedRequest
  <1>5. CASE ~current(r).route.synchronized
    <2>1. request' = [request EXCEPT ![r] = Q("calling", 0)] /\ UNCHANGED <<synchronizers, lines>>
      BY <1>1, <1>5 DEF CallRoute
    <2>2. Changes(r, Q("calling", 0))
      BY <1>1, <2>1 DEF Changes
    <2>3. /\ RequestsGood' /\ request'[r] = Q("calling", 0)
          /\ \A q \in Requests \ {r} : request'[q] = request[q]
      BY <1>4, <2>2
    <2>4. ~Waits(request'[r])
      BY <1>2, <1>5, <2>3 DEF Waits, Called
    <2> QED
      BY <1>1, <1>2, <2>1, <2>3, <2>4, OutsideOfLines DEF IndInv
  <1>6. CASE current(r).route.synchronized /\ key \in DOMAIN synchronizers
    <2>1. /\ request' = [request EXCEPT ![r] = Q(stageIn, s)]
          /\ lines' = [lines EXCEPT ![s] = Append(@, r)] /\ UNCHANGED synchronizers
      BY <1>1, <1>6 DEF CallRoute, Enter
    <2>2. stageIn \in {"queued", "calling"}
      OBVIOUS
    <2> HIDE DEF stageIn, s
    <2>3. Changes(r, Q(stageIn, s))
      BY <1>1, <2>1 DEF Changes
    <2>4. /\ RequestsGood' /\ request'[r] = Q(stageIn, s)
          /\ \A q \in Requests \ {r} : request'[q] = request[q]
      BY <1>4, <2>2, <2>3
    <2>5. /\ request'[r].stage = IF lines[s] = <<>> THEN "calling" ELSE "queued"
          /\ request'[r].line = s /\ request'[r].todo = request[r].todo
      BY <2>4 DEF stageIn, Called
    <2>6. Head(request'[r].todo).key = key /\ Head(request'[r].todo).route.synchronized
      BY <1>2, <1>6, <2>5
    <2> HIDE DEF key, Q
    <2>7. LinesKept'
      BY <1>1, <1>2, <1>6, <2>1, <2>4, <2>5, <2>6, EnterLine DEF s
    <2> QED
      BY <2>4, <2>7 DEF IndInv
  <1>7. CASE current(r).route.synchronized /\ key \notin DOMAIN synchronizers
    <2>1. /\ request' = [request EXCEPT ![r] = Q("calling", n)]
          /\ lines' = Append(lines, <<r>>)
          /\ synchronizers' = [k \in {key} \cup DOMAIN synchronizers |->
                                 IF k = key THEN n ELSE synchronizers[k]]
      BY <1>1, <1>7 DEF CallRoute, Enter, Remember
    <2>2. n = Len(lines) + 1
      OBVIOUS
    <2> HIDE DEF n
    <2>3. Changes(r, Q("calling", n))
      BY <1>1, <2>1 DEF Changes
    <2>4. /\ RequestsGood' /\ request'[r] = Q("calling", n)
          /\ \A q \in Requests \ {r} : request'[q] = request[q]
      BY <1>4, <2>3
    <2>5. request'[r].stage = "calling" /\ request'[r].line = n /\ request'[r].todo = request[r].todo
      BY <2>4 DEF Called
    <2>6. Head(request'[r].todo).key = key /\ Head(request'[r].todo).route.synchronized
      BY <1>2, <1>7, <2>5
    <2> HIDE DEF key, Q
    <2>7. LinesKept'
      BY <1>1, <1>2, <1>7, <2>1, <2>2, <2>4, <2>5, <2>6, EnterNewLine
    <2> QED
      BY <2>4, <2>7 DEF IndInv
  <1> QED
    BY <1>5, <1>6, <1>7

\* The first call of a line begins.
LEMMA BeginQueuedStep ==
    ASSUME IndInv, NEW r \in Requests, BeginQueued(r)
    PROVE  IndInv'
  <1> DEFINE q == [stage |-> "calling", todo |-> request[r].todo,
                   attributes |-> request[r].attributes, line |-> request[r].line,
                   outcome |-> request[r].outcome]
  <1>1. /\ RequestsGood /\ LinesKept /\ GoodRequest(request[r], controllers) /\ IsRequest(request[r])
        /\ request[r].stage = "queued" /\ Head(lines[request[r].line]) = r
        /\ request' = [request EXCEPT ![r].stage = "calling"]
        /\ UNCHANGED <<controllers, routes, initialized, synchronizers, lines>>
    BY DEF IndInv, RequestsGood, BeginQueued, GoodRequest
  <1>2. GoodRequest(q, controllers)
    BY <1>1, CallGood
  <1>3. Changes(r, q)
    BY <1>1, FieldsUpdated DEF Changes
  <1>4. initialized' \in BOOLEAN /\ routes'.defined \in BOOLEAN
        /\ (routes'.defined => routes'.table = ParseMappings(controllers))
    BY <1>1 DEF RequestsGood
  <1>5. q.stage = "calling" /\ q.line = request[r].line /\ q.todo = request[r].todo
    OBVIOUS
  <1> HIDE DEF q
  <1>6. /\ RequestsGood' /\ request'[r] = q
        /\ \A p \in Requests \ {r} : request'[p] = request[p]
    BY <1>1, <1>2, <1>3, <1>4, ChangedRequest
  <1>7. LinesKept'
    BY <1>1, <1>5, <1>6, FirstBegins
  <1> QED
    BY <1>6, <1>7 DEF IndInv

\* A call returns or throws.
LEMMA LeaveStep ==
    ASSUME IndInv, NEW r \in Requests, Return(r) \/ Throw(r)
    PROVE  IndInv'
  <1>1. /\ RequestsGood /\ LinesKept /\ GoodRequest(request[r], controllers)
        /\ request[r].stage = "calling" /\ Leave(r)
        /\ UNCHANGED <<controllers, routes, initialized, synchronizers>>
    BY DEF IndInv, RequestsGood, Return, Throw
  <1>2. KeyedTo(request[r].todo, controllers) /\ request[r].todo # <<>>
    BY <1>1 DEF GoodRequest, InProgress
  <1>3. /\ RequestsGood' /\ ~Waits(request'[r])
        /\ \A s \in Requests \ {r} : request'[s] = request[s]
    <2>1. CASE Return(r)
      <3>1. KeyedTo(Tail(request[r].todo), controllers)
        BY <1>2, TailKeyed
      <3>2. Continue(r, Tail(request[r].todo))
        BY <2>1 DEF Return
      <3> QED
        BY <1>1, <3>1, <3>2, ContinueGood
    <2>2. CASE Throw(r)
      <3>1. Answer(r, "failed") /\ "failed" \in Outcomes
        BY <2>2 DEF Throw, Outcomes
      <3> QED
        BY <1>1, <3>1, AnswerGood
    <2> QED BY <2>1, <2>2
  <1>4. LinesKept'
    <2>1. CASE current(r).route.synchronized
      <3>1. Calling(r) /\ lines' = [lines EXCEPT ![request[r].line] = Tail(@)]
        BY <1>1, <2>1 DEF Calling, Leave
      <3> QED
        BY <1>1, <1>3, <3>1, FirstLeaves
    <2>2. CASE ~current(r).route.synchronized
      <3>1. UNCHANGED lines /\ ~Waits(request[r])
        BY <1>1, <2>2 DEF Leave, Waits, current
      <3> QED
        BY <1>1, <1>3, <3>1, OutsideOfLines
    <2> QED BY <2>1, <2>2
  <1> QED
    BY <1>3, <1>4 DEF IndInv

------------------------------------------------------------------------------
\* Theorems

\* The router begins with the invariant.
LEMMA InitHolds == Init => IndInv
  <1> SUFFICES ASSUME Init PROVE IndInv
    OBVIOUS
  <1>1. /\ controllers = <<>> /\ routes = Undefined /\ initialized = FALSE
        /\ DOMAIN synchronizers = {} /\ lines = <<>> /\ request = [r \in Requests |-> NewRequest]
    BY DEF Init
  <1>2. /\ controllers \in Seq(Controllers) /\ routes.defined = FALSE
        /\ lines \in Seq(Seq(Requests)) /\ DOMAIN lines = {}
    BY <1>1, EmptySeq DEF Undefined
  <1>3. GoodRequest(NewRequest, controllers) /\ ~Waits(NewRequest) /\ NewRequest.stage = "idle"
    <2>1. 0 \in Nat
      OBVIOUS
    <2> QED
      BY <2>1 DEF NewRequest, GoodRequest, IsRequest, InProgress, Outcomes, Waits
  <1>4. \A r \in Requests : request[r] = NewRequest
    BY <1>1
  <1> HIDE DEF NewRequest
  <1>5. RequestsGood
    BY <1>1, <1>2, <1>3, <1>4 DEF RequestsGood
  <1>6. LinesKept
    BY <1>1, <1>2, <1>3, <1>4 DEF LinesKept, Calling
  <1> QED
    BY <1>5, <1>6 DEF IndInv

\* Each step keeps it.
LEMMA StepKeeps == IndInv /\ [Next]_vars => IndInv'
  <1> SUFFICES ASSUME IndInv, [Next]_vars PROVE IndInv'
    OBVIOUS
  <1>1. CASE \E c \in Controllers : attachController(c)
    BY <1>1, attachControllerStep
  <1>2. CASE \E r \in Requests, ask \in Asks : handleRequest(r, ask)
    BY <1>2, handleRequestStep
  <1>3. CASE \E r \in Requests : Progress(r)
    BY <1>3, StepsBetweenCalls, CallRouteStep, BeginQueuedStep, LeaveStep DEF Progress
  <1>4. CASE UNCHANGED vars
    BY <1>4 DEF vars, IndInv, RequestsGood, LinesKept, Calling, current
  <1> QED
    BY <1>1, <1>2, <1>3, <1>4 DEF Next

\* The router keeps the invariant.
THEOREM IndInvAlways == Spec => []IndInv
  BY InitHolds, StepKeeps, PTL DEF Spec

\* The state of the router keeps its shape: who waits or executes in a
\* synchronized method stands in its line, once, and nobody else does.
THEOREM TypeCorrect == Spec => []TypeOK
  <1>1. IndInv => TypeOK
    <2> SUFFICES ASSUME IndInv PROVE TypeOK
      OBVIOUS
    <2>1. \A r \in Requests : GoodRequest(request[r], controllers)
      BY DEF IndInv, RequestsGood
    <2>2. ASSUME NEW s \in DOMAIN lines, NEW r \in ToSet(lines[s])
          PROVE  /\ request[r].stage \in {"queued", "calling"}
                 /\ current(r).route.synchronized
                 /\ request[r].line = s
      <3>1. r \in Requests /\ Waits(request[r]) /\ request[r].line = s
        BY LineOfElement DEF IndInv, ToSet
      <3> QED
        BY <3>1 DEF Waits, IndInv, LinesKept
    <2>3. \A s \in DOMAIN lines : lines[s] \in Seq(Requests)
      BY LineOfElement DEF IndInv
    <2>4. /\ controllers \in Seq(Controllers) /\ initialized \in BOOLEAN /\ routes.defined \in BOOLEAN
          /\ \A k \in DOMAIN synchronizers : synchronizers[k] \in DOMAIN lines
      BY DEF IndInv, RequestsGood, LinesKept
    <2> QED
      BY <2>1, <2>2, <2>3, <2>4 DEF TypeOK, GoodRequest
  <1> QED
    BY <1>1, IndInvAlways, PTL

\* The calls of one synchronized method never overlap: they have one key, and
\* with it one line, of which only the first executes.
THEOREM NeverOverlapping == Spec => []CallsNeverOverlap
  <1>1. IndInv => CallsNeverOverlap
    <2> SUFFICES ASSUME IndInv, NEW r \in Requests, NEW s \in Requests,
                        Calling(r), Calling(s), Method(r) = Method(s)
                 PROVE  r = s
      BY DEF CallsNeverOverlap
    <2>1. ASSUME NEW q \in Requests, Calling(q)
          PROVE  /\ Waits(request[q]) /\ Head(lines[synchronizers[current(q).key]]) = q
                 /\ current(q).key = <<IndexIn(controllers, Method(q)[1]), Method(q)[2]>>
      <3>1. Waits(request[q]) /\ request[q].stage = "calling"
        BY <2>1 DEF Calling, Waits, current
      <3>2. Head(lines[synchronizers[current(q).key]]) = q
        BY <2>1, <3>1 DEF IndInv, LinesKept
      <3>3. KeyedTo(request[q].todo, controllers) /\ request[q].todo # <<>>
        BY <3>1 DEF IndInv, RequestsGood, GoodRequest, InProgress
      <3>4. current(q).key = <<IndexIn(controllers, current(q).route.controller), current(q).route.name>>
        BY <3>3, TailKeyed DEF current
      <3> QED
        BY <3>1, <3>2, <3>4 DEF Method
    <2>2. current(r).key = current(s).key
      BY <2>1
    <2> QED
      BY <2>1, <2>2
  <1> QED
    BY <1>1, IndInvAlways, PTL

------------------------------------------------------------------------------
\* What a table answers

\* The pattern that is selected is one of the table and matches the path.
LEMMA SelectedMatches ==
    ASSUME NEW table, IsSequence(table), NEW path, hasRoute(table, path)
    PROVE  /\ Matches(SelectedPattern(table, path), path)
           /\ \E e \in ToSet(table) : e.path = SelectedPattern(table, path)
  <1> DEFINE found == MatchingPatterns(table, path)
  <1>1. /\ found # {} /\ found \subseteq 1..Len(table) /\ Len(table) \in Nat
        /\ \A i \in found : Matches(table[i].path, path) /\ table[i] \in ToSet(table)
    BY DEF hasRoute, MatchingPatterns, IsSequence, ToSet
  <1> HIDE DEF found
  <1>2. Min(found) \in found /\ Max(found) \in found
    <2>1. found \subseteq Nat \ {0}
      BY <1>1
    <2> QED
      BY <1>1, <2>1, LeastOfNaturals, GreatestOfNaturals
  <1>3. SelectedPattern(table, path) = table[Min(found)].path
        \/ SelectedPattern(table, path) = table[Max(found)].path
    BY DEF SelectedPattern, found
  <1> QED
    BY <1>1, <1>2, <1>3

\* A path that a route of the table matches is found.
LEMMA MatchedIsFound ==
    ASSUME NEW table, IsSequence(table), NEW path, NEW e \in ToSet(table), Matches(e.path, path)
    PROVE  hasRoute(table, path)
  <1> DEFINE I == {i \in DOMAIN table : table[i].path = e.path}
  <1>1. DOMAIN table = 1..Len(table) /\ Len(table) \in Nat
    BY DEF IsSequence
  <1>2. I \subseteq Nat \ {0} /\ I # {}
    BY <1>1 DEF ToSet
  <1>3. PICK n \in I : \A i \in I : n =< i
    <2> HIDE DEF I
    <2> QED
      BY <1>2, LeastNatural
  <1>4. \A j \in 1..n-1 : table[j].path # table[n].path
    <2> SUFFICES ASSUME NEW j \in 1..n-1, table[j].path = table[n].path PROVE FALSE
      OBVIOUS
    <2>1. j \in I /\ ~ n =< j
      BY <1>1
    <2> QED
      BY <1>3, <2>1
  <1>5. n \in MatchingPatterns(table, path)
    BY <1>4 DEF MatchingPatterns
  <1> QED
    BY <1>5 DEF hasRoute

\* The routes that the decorators of a method give for a request: they are in
\* the table and match, and the method is one of theirs.
LEMMA MappedRoutes ==
    ASSUME NEW list \in Seq(Controllers), NEW method, NEW path, NEW pair
    PROVE  pair \in MappedMethods(list, method, path) <=>
             \E e \in ToSet(ParseMappings(list)) :
               /\ method \in e.methods /\ Matches(e.path, path)
               /\ pair = <<e.controller, e.name>>
  <1> DEFINE Leads(c, root, rootPath, property, mapping, end) ==
               /\ method \in mapping.methods
               /\ root.methods # {} => method \in root.methods
               /\ Matches(rootPath \o end, path)
  <1>1. pair \in MappedMethods(list, method, path) <=>
          \E c \in ToSet(list) : \E property \in ToSet(Mapping[c].properties) :
             Maps(c, property, method, path) /\ pair = <<c, property.name>>
    BY DEF MappedMethods
  <1>2. ASSUME NEW c, NEW property
        PROVE  Maps(c, property, method, path) <=>
          \E root \in ToSet(RootMappings(c)) : \E rootPath \in ToSet(root.paths) :
          \E mapping \in ToSet(property.mappings) : \E end \in ToSet(mapping.paths) :
             Leads(c, root, rootPath, property, mapping, end)
    BY DEF Maps
  <1>3. ASSUME NEW c, NEW root, NEW rootPath, NEW property, NEW mapping, NEW end
        PROVE  LET e == RouteOf(c, root, rootPath, property, mapping, end)
               IN  /\ e.controller = c /\ e.name = property.name
                   /\ Leads(c, root, rootPath, property, mapping, end) <=>
                        method \in e.methods /\ Matches(e.path, path)
                   /\ Leads(c, root, rootPath, property, mapping, end) =>
                        MatchMethods(root.methods, mapping.methods)
    BY DEF RouteOf, CommonMethods, MatchMethods
  <1> HIDE DEF Leads
  <1>4. ASSUME pair \in MappedMethods(list, method, path)
        PROVE  \E e \in ToSet(ParseMappings(list)) :
                 /\ method \in e.methods /\ Matches(e.path, path)
                 /\ pair = <<e.controller, e.name>>
    <2>1. PICK c \in ToSet(list) : \E property \in ToSet(Mapping[c].properties) :
             Maps(c, property, method, path) /\ pair = <<c, property.name>>
      BY <1>1, <1>4
    <2>2. PICK property \in ToSet(Mapping[c].properties) :
             Maps(c, property, method, path) /\ pair = <<c, property.name>>
      BY <2>1
    <2>3. PICK root \in ToSet(RootMappings(c)) : \E rootPath \in ToSet(root.paths) :
             \E mapping \in ToSet(property.mappings) : \E end \in ToSet(mapping.paths) :
                Leads(c, root, rootPath, property, mapping, end)
      BY <1>2, <2>2
    <2>4. PICK rootPath \in ToSet(root.paths) :
             \E mapping \in ToSet(property.mappings) : \E end \in ToSet(mapping.paths) :
                Leads(c, root, rootPath, property, mapping, end)
      BY <2>3
    <2>5. PICK mapping \in ToSet(property.mappings) : \E end \in ToSet(mapping.paths) :
                Leads(c, root, rootPath, property, mapping, end)
      BY <2>4
    <2>6. PICK end \in ToSet(mapping.paths) : Leads(c, root, rootPath, property, mapping, end)
      BY <2>5
    <2> DEFINE e == RouteOf(c, root, rootPath, property, mapping, end)
    <2>7. /\ e.controller = c /\ e.name = property.name
          /\ method \in e.methods /\ Matches(e.path, path)
          /\ MatchMethods(root.methods, mapping.methods)
      BY <1>3, <2>6
    <2>8. e \in ToSet(ParseMappings(list))
      BY <2>7, TableElements
    <2> HIDE DEF e
    <2> QED
      BY <2>2, <2>7, <2>8
  <1>5. ASSUME NEW e \in ToSet(ParseMappings(list)), method \in e.methods, Matches(e.path, path),
               pair = <<e.controller, e.name>>
        PROVE  pair \in MappedMethods(list, method, path)
    <2>1. PICK c \in ToSet(list) : \E root \in ToSet(RootMappings(c)) :
             \E rootPath \in ToSet(root.paths) : \E property \in ToSet(Mapping[c].properties) :
             \E mapping \in ToSet(property.mappings) : \E end \in ToSet(mapping.paths) :
                e = RouteOf(c, root, rootPath, property, mapping, end)
      BY TableElements
    <2>2. PICK root \in ToSet(RootMappings(c)) :
             \E rootPath \in ToSet(root.paths) : \E property \in ToSet(Mapping[c].properties) :
             \E mapping \in ToSet(property.mappings) : \E end \in ToSet(mapping.paths) :
                e = RouteOf(c, root, rootPath, property, mapping, end)
      BY <2>1
    <2>3. PICK rootPath \in ToSet(root.paths), property \in ToSet(Mapping[c].properties) :
             \E mapping \in ToSet(property.mappings) : \E end \in ToSet(mapping.paths) :
                e = RouteOf(c, root, rootPath, property, mapping, end)
      BY <2>2
    <2>4. PICK mapping \in ToSet(property.mappings) : \E end \in ToSet(mapping.paths) :
                e = RouteOf(c, root, rootPath, property, mapping, end)
      BY <2>3
    <2>5. PICK end \in ToSet(mapping.paths) : e = RouteOf(c, root, rootPath, property, mapping, end)
      BY <2>4
    <2>6. /\ pair = <<c, property.name>>
          /\ Leads(c, root, rootPath, property, mapping, end)
      BY <1>3, <1>5, <2>5
    <2>7. Maps(c, property, method, path)
      BY <1>2, <2>6
    <2> QED
      BY <1>1, <2>6, <2>7
  <1> QED
    BY <1>4, <1>5

\* The pattern of a route that matches is one of those that match a path.
LEMMA MatchedPattern ==
    ASSUME NEW list \in Seq(Controllers), NEW path, NEW e \in ToSet(ParseMappings(list)),
           Matches(e.path, path)
    PROVE  e.path \in MatchedPatterns(list, path)
  <1>1. PICK c \in ToSet(list) : \E root \in ToSet(RootMappings(c)) :
           \E rootPath \in ToSet(root.paths) : \E property \in ToSet(Mapping[c].properties) :
           \E mapping \in ToSet(property.mappings) : \E end \in ToSet(mapping.paths) :
              e = RouteOf(c, root, rootPath, property, mapping, end)
    BY TableElements
  <1>2. PICK root \in ToSet(RootMappings(c)) :
           \E rootPath \in ToSet(root.paths) : \E property \in ToSet(Mapping[c].properties) :
           \E mapping \in ToSet(property.mappings) : \E end \in ToSet(mapping.paths) :
              e = RouteOf(c, root, rootPath, property, mapping, end)
    BY <1>1
  <1>3. PICK rootPath \in ToSet(root.paths), property \in ToSet(Mapping[c].properties) :
           \E mapping \in ToSet(property.mappings) : \E end \in ToSet(mapping.paths) :
              e = RouteOf(c, root, rootPath, property, mapping, end)
    BY <1>2
  <1>4. PICK mapping \in ToSet(property.mappings) : \E end \in ToSet(mapping.paths) :
              e = RouteOf(c, root, rootPath, property, mapping, end)
    BY <1>3
  <1>5. PICK end \in ToSet(mapping.paths) : e = RouteOf(c, root, rootPath, property, mapping, end)
    BY <1>4
  <1>6. e.path = rootPath \o end
    BY <1>5 DEF RouteOf
  <1> DEFINE roots == UNION {ToSet(m.paths) : m \in ToSet(RootMappings(c))}
             ends == UNION {ToSet(m.paths) : m \in ToSet(property.mappings)}
  <1>7. rootPath \in roots /\ end \in ends
    OBVIOUS
  <1>8. e.path \in Patterns(c, property)
    <2>1. Patterns(c, property) = {r \o p : r \in roots, p \in ends}
      BY DEF Patterns
    <2> HIDE DEF roots, ends
    <2> QED
      BY <1>6, <1>7, <2>1
  <1> QED
    BY <1>8 DEF MatchedPatterns

\* A cached table is that of all controllers, and answers with methods that the
\* decorators lead to, with all of them unless different patterns match.
THEOREM RoutesStayFaithful == Spec => []RoutesAreFaithful
  <1>1. ASSUME NEW list \in Seq(Controllers), NEW ask
        PROVE  LET answering == {<<e.controller, e.name>> :
                                   e \in ToSet(RoutesOf(ParseMappings(list), ask.method, ask.path))}
                   mapped == MappedMethods(list, ask.method, ask.path)
               IN  /\ answering \subseteq mapped
                   /\ (\A p, q \in MatchedPatterns(list, ask.path) : p = q) => answering = mapped
    <2> DEFINE table == ParseMappings(list)
               answering == {<<e.controller, e.name>> :
                               e \in ToSet(RoutesOf(table, ask.method, ask.path))}
               mapped == MappedMethods(list, ask.method, ask.path)
               selected == SelectedPattern(table, ask.path)
    <2>1. IsSequence(table)
      BY TableElements
    <2>2. \A e : e \in ToSet(RoutesOf(table, ask.method, ask.path)) <=>
                /\ hasRoute(table, ask.path)
                /\ e \in ToSet(table) /\ e.path = selected /\ ask.method \in e.methods
      BY <2>1, SelectedElements
    <2>3. hasRoute(table, ask.path) => Matches(selected, ask.path)
      BY <2>1, SelectedMatches
    <2>4. \A pair : pair \in mapped <=>
             \E e \in ToSet(table) :
               /\ ask.method \in e.methods /\ Matches(e.path, ask.path)
               /\ pair = <<e.controller, e.name>>
      BY MappedRoutes
    <2>5. \A e \in ToSet(table) : Matches(e.path, ask.path) =>
             hasRoute(table, ask.path) /\ e.path \in MatchedPatterns(list, ask.path)
      BY <2>1, MatchedIsFound, MatchedPattern
    <2>6. hasRoute(table, ask.path) => \E e \in ToSet(table) : e.path = selected
      BY <2>1, SelectedMatches
    <2> HIDE DEF table, mapped, selected
    <2>7. answering \subseteq mapped
      BY <2>2, <2>3, <2>4
    <2>8. ASSUME \A p, q \in MatchedPatterns(list, ask.path) : p = q PROVE mapped \subseteq answering
      <3> SUFFICES ASSUME NEW e \in ToSet(table), ask.method \in e.methods, Matches(e.path, ask.path)
                   PROVE  <<e.controller, e.name>> \in answering
        BY <2>4
      <3>1. hasRoute(table, ask.path) /\ e.path \in MatchedPatterns(list, ask.path)
        BY <2>5
      <3>2. e.path = selected
        BY <2>3, <2>5, <2>6, <2>8, <3>1
      <3>3. e \in ToSet(RoutesOf(table, ask.method, ask.path))
        BY <2>2, <3>1, <3>2
      <3> QED
        BY <3>3
    <2> QED
      BY <2>7, <2>8 DEF table, mapped
  <1>2. IndInv => RoutesAreFaithful
    <2> SUFFICES ASSUME IndInv, routes.defined PROVE RoutesAreFaithful
      BY DEF RoutesAreFaithful
    <2>1. controllers \in Seq(Controllers) /\ routes.table = ParseMappings(controllers)
      BY DEF IndInv, RequestsGood
    <2> QED
      BY <1>1, <2>1 DEF RoutesAreFaithful
  <1> QED
    BY <1>2, IndInvAlways, PTL
==============================================================================
