------------------------ MODULE ControllerDecorators ------------------------
(***************************************************************************)
(* What the decorators of a request controller write into its mapping      *)
(* object (RequestControllerUtils): each reads the object, copies it with  *)
(* one part changed, and sets it again.  TypeScript applies the decorators *)
(* of parameters, methods and the class in an order that depends on how    *)
(* they are written, so that every decorator may find the object, and the  *)
(* property of its method, undefined or with whatever others left there.   *)
(*                                                                         *)
(* An operation of an OpenAPI document is [id, says, summary]: says are    *)
(* its parameters, body, responses and tags, each taken as a whole.        *)
(***************************************************************************)
EXTENDS Naturals, Lists, FiniteSetsExt

CONSTANTS Methods,          \* names of the controller's methods
          MappingValues,    \* what is mapped: methods and paths
          OperationIds,     \* explicit ids of @Operation
          MaxDecorations    \* bound on the decorators of the controller

None == "none"
Null == [of |-> None, value |-> None]

VARIABLES mapping,     \* mappings, operations and openApiPartials of the class
          properties,  \* controllerProperties
          applied      \* history: the decorators applied by now

decoratorVars == <<mapping, properties, applied>>

NewProperty == [mappings |-> <<>>, params |-> <<>>, attributes |-> <<>>,
                synchronized |-> FALSE, body |-> FALSE, operations |-> <<>>]

DecoratorInit ==
    /\ mapping = [mappings |-> <<>>, operations |-> <<>>, partials |-> <<>>]
    /\ properties = [name \in {} |-> NewProperty]
    /\ applied = <<>>

------------------------------------------------------------------------------
\* The mapping object

PropertyOf(name) == IF name \in DOMAIN properties THEN properties[name] ELSE NewProperty

WithProperty(name, property) ==
    [n \in DOMAIN properties \cup {name} |-> IF n = name THEN property ELSE properties[n]]

\* Parameters are counted from 0; those before a new one may still be unknown.
WithParam(params, i, param) ==
    [j \in 1..(IF i < Len(params) THEN Len(params) ELSE i + 1) |->
        IF j = i + 1 THEN param ELSE IF j <= Len(params) THEN params[j] ELSE Null]

\* What was said of an operation is joined with what is said now, but for the
\* summary and the description, which are taken from the decorator alone.
MergedOperation(old, new) ==
    [id |-> new.id, says |-> old.says \cup new.says, summary |-> new.summary]

WithOperation(operations, config) ==
    LET same == Those(operations, LAMBDA op : op.id = config.id)
    IN  IF same = <<>> THEN Append(operations, config)
        ELSE <<MergedOperation(Head(same), config)>>
               \o Those(operations, LAMBDA op : op.id # config.id)

\* A decorator of a kind says value, of an operation if it has an id.
Apply(kind, name, index, id, value) ==
    /\ Len(applied) < MaxDecorations
    /\ applied' = Append(applied, [kind |-> kind, name |-> name, index |-> index,
                                  id |-> id, value |-> value])

------------------------------------------------------------------------------
\* The decorators

\* @RequestMapping and its kin, at the class.
attachControllerMapping(pattern) ==
    /\ Apply("mapping", None, 0, None, pattern)
    /\ mapping' = [mapping EXCEPT !.mappings = Append(@, pattern)]
    /\ UNCHANGED properties

\* Fault: the property is written as if it were the first of its method.
attachControllerMethodMappingAfresh(name, pattern) ==
    /\ Apply("mapping", name, 0, None, pattern)
    /\ properties' = WithProperty(name, [NewProperty EXCEPT !.mappings =
                                            <<pattern>> \o PropertyOf(name).mappings])
    /\ UNCHANGED mapping

\* The same at a method.
attachControllerMethodMapping(name, pattern) ==
    /\ Apply("mapping", name, 0, None, pattern)
    /\ properties' = WithProperty(name, [PropertyOf(name) EXCEPT !.mappings = <<pattern>> \o @])
    /\ UNCHANGED mapping

\* @RequestParam, @RequestHeader and @PathVariable: a parameter and a line of
\* the operation that has the method's name.
PathVariable(name, i) ==
    /\ Apply("param", name, i, name, "path")
    /\ properties' = WithProperty(name, [PropertyOf(name) EXCEPT
           !.params = WithParam(@, i, [of |-> "param", value |-> "path"]),
           !.operations = WithOperation(@, [id |-> name, says |-> {"path"}, summary |-> None])])
    /\ UNCHANGED mapping

\* @RequestBody.
RequestBody(name, i) ==
    /\ Apply("body", name, i, name, "body")
    /\ properties' = WithProperty(name, [PropertyOf(name) EXCEPT
           !.body = TRUE,
           !.params = WithParam(@, i, [of |-> "body", value |-> "body"]),
           !.operations = WithOperation(@, [id |-> name, says |-> {"body"}, summary |-> None])])
    /\ UNCHANGED mapping

\* @ModelAttribute at a parameter.
ModelAttributeParam(name, i) ==
    /\ Apply("attribute", name, i, None, "user")
    /\ properties' = WithProperty(name, [PropertyOf(name) EXCEPT
           !.params = WithParam(@, i, [of |-> "attribute", value |-> "user"])])
    /\ UNCHANGED mapping

\* @ModelAttribute at a method, which then builds the attribute.
attachControllerMethodModelAttributeBuilder(name) ==
    /\ Apply("builder", name, 0, None, "user")
    /\ properties' = WithProperty(name, [PropertyOf(name) EXCEPT !.attributes = <<"user">> \o @])
    /\ UNCHANGED mapping

\* @SynchronizedRequest.
attachControllerSynchronizedRequest(name) ==
    /\ Apply("synchronized", name, 0, None, None)
    /\ properties' = WithProperty(name, [PropertyOf(name) EXCEPT !.synchronized = TRUE])
    /\ UNCHANGED mapping

\* @Operation at a method, with an id or by the method's name, and @ApiResponse.
attachControllerOperation(name, id, says, summary) ==
    LET config == [id |-> IF id = None THEN name ELSE id, says |-> {says}, summary |-> summary]
    IN  /\ Apply("operation", name, 0, config.id, says)
        /\ properties' = WithProperty(name, [PropertyOf(name) EXCEPT
               !.operations = WithOperation(@, config)])
        /\ UNCHANGED mapping

\* @Operation at the class: nothing is merged.
attachClassOperation(id) ==
    /\ Apply("operation", None, 0, None, id)
    /\ mapping' = [mapping EXCEPT !.operations = Append(@, id)]
    /\ UNCHANGED properties

\* @OpenAPIDefinition.
attachControllerOpenApiDocument(partial) ==
    /\ Apply("partial", None, 0, None, partial)
    /\ mapping' = [mapping EXCEPT !.partials = Append(@, partial)]
    /\ UNCHANGED properties

DecoratorNext ==
    \/ \E pattern \in MappingValues : attachControllerMapping(pattern)
    \/ \E id \in OperationIds : attachClassOperation(id) \/ attachControllerOpenApiDocument(id)
    \/ \E name \in Methods :
         \/ \E pattern \in MappingValues : attachControllerMethodMapping(name, pattern)
         \/ \E i \in 0..1 : PathVariable(name, i) \/ RequestBody(name, i) \/ ModelAttributeParam(name, i)
         \/ attachControllerMethodModelAttributeBuilder(name)
         \/ attachControllerSynchronizedRequest(name)
         \/ attachControllerOperation(name, None, "response", None)
         \/ \E id \in OperationIds \cup {None} :
              attachControllerOperation(name, id, "tag", "summary")

DecoratorSpec == DecoratorInit /\ [][DecoratorNext]_decoratorVars

------------------------------------------------------------------------------
\* Properties

\* What the decorators of a kind wrote, in their order.
Written(kind, name) ==
    LET theirs == Those(applied, LAMBDA d : d.kind = kind /\ d.name = name)
    IN  [i \in DOMAIN theirs |-> theirs[i].value]

ParamKinds == {"param", "body", "attribute"}

\* The decorators of a method's parameters, in the list of those applied.
ParamPlaces(name) == {k \in DOMAIN applied : applied[k].name = name /\ applied[k].kind \in ParamKinds}

\* A parameter is that of the last decorator of its index, or unknown.
ParamsAreTold(name, params) ==
    /\ \A k \in ParamPlaces(name) :
         /\ applied[k].index < Len(params)
         /\ (\A j \in ParamPlaces(name) : j > k => applied[j].index # applied[k].index)
              => params[applied[k].index + 1] = [of |-> applied[k].kind, value |-> applied[k].value]
    /\ \A i \in DOMAIN params :
         params[i] # Null => \E k \in ParamPlaces(name) : applied[k].index = i - 1

\* What decorators said of the operations of a method.
Sayings(name) ==
    {[id |-> d.id, fact |-> d.value] : d \in {e \in ToSet(applied) : e.name = name /\ e.id # None}}

\* Everything that was said under an id is said by one operation.
OperationsAreTold(name, operations) ==
    /\ \A i, j \in DOMAIN operations : operations[i].id = operations[j].id => i = j
    /\ UNION {{[id |-> op.id, fact |-> f] : f \in op.says} : op \in ToSet(operations)} = Sayings(name)

\* What a property of the mapping object must tell of its method.
PropertyIsTold(name, property) ==
    /\ property.mappings = Reverse(Written("mapping", name))
    /\ property.attributes = Reverse(Written("builder", name))
    /\ property.synchronized <=> Written("synchronized", name) # <<>>
    /\ property.body <=> Written("body", name) # <<>>
    /\ ParamsAreTold(name, property.params)
    /\ OperationsAreTold(name, property.operations)

\* In whatever order its decorators are applied, the mapping of a controller
\* tells all of them: the mappings of its methods from the outermost to the
\* innermost, a parameter by the last decorator of its index, and an operation
\* by everything that was said under its id, once.
DecorationsAreKept ==
    /\ mapping.mappings = Written("mapping", None)
    /\ mapping.operations = Written("operation", None)
    /\ mapping.partials = Written("partial", None)
    /\ DOMAIN properties = {d.name : d \in ToSet(applied)} \ {None}
    /\ \A name \in DOMAIN properties : PropertyIsTold(name, properties[name])
==============================================================================
