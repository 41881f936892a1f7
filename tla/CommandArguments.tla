--------------------------- MODULE CommandArguments ---------------------------
(***************************************************************************)
(* Commands of a command line program: CommandArgumentUtils.parseArguments *)
(* and the decorator addArgumentParser, which makes what was parsed known  *)
(* to AutowireServiceImpl under its name while the method of the command   *)
(* runs.  An argument is a name and a value, which is NoText when there is *)
(* no "=".  The paths of node and of the script are left out.              *)
(***************************************************************************)
EXTENDS Integers, Lists

CONSTANTS Configuration,   \* ArgumentConfigurationMap, as a sequence of records
          Words,           \* the names that do not begin with "-"
          NoText,
          Given,           \* arguments
          MaxArguments,
          Environments     \* values of process.env, as functions of names

VARIABLES args, environment,
          result,          \* ParsedCommandArgumentObject
          names,           \* AutowireServiceImpl._data
          stage            \* "idle", or the method of the command runs, or it is over

commandVars == <<args, environment, result, names, stage>>

Keys == {Configuration[i].key : i \in DOMAIN Configuration}

\* An object with what is set over it.
Over(set, object) ==
    [name \in DOMAIN set \cup DOMAIN object |-> IF name \in DOMAIN set THEN set[name] ELSE object[name]]

------------------------------------------------------------------------------
\* parseArguments

\* A name that two keys have belongs to the later one.
KeysWith(field, name) == {i \in DOMAIN Configuration : Configuration[i][field] = name}

IsUserArgument(name) == KeysWith("long", name) \cup KeysWith("short", name) # {}

KeyOf(name) ==
    Configuration[Max(IF KeysWith("long", name) # {} THEN KeysWith("long", name)
                                                     ELSE KeysWith("short", name))]

Failed == "an error"

parseArgumentWithParam(type, text) ==
    CASE type = "boolean" -> IF text = "on" THEN "true" ELSE IF text = "off" THEN "false" ELSE Failed
      [] type = "string"  -> text
      [] type = "integer" -> IF text = "7" THEN text ELSE Failed

parseSingleArgument(type) == parseArgumentWithParam(type, IF type = "boolean" THEN "on" ELSE "")

ParsedValue(type, text) ==
    IF text = NoText THEN parseSingleArgument(type) ELSE parseArgumentWithParam(type, text)

parseCommandArgumentType(argument) ==
    IF argument.value # NoText THEN "other"
    ELSE CASE argument.name \in {"-h", "--help"}    -> "HELP"
           [] argument.name \in {"-v", "--version"} -> "VERSION"
           [] argument.name = "--"                  -> "DISABLE_ARGUMENT_PARSING"
           [] OTHER -> "other"

\* Fault: the first argument of a key counts.
FirstTold(r, key, value) == [r EXCEPT !.userArgs = Over(@, [k \in {key} |-> value])]

Told(r, key, value) == [r EXCEPT !.userArgs = Over([k \in {key} |-> value], @)]

\* One round of the loop; r.status is not "OK" when it has returned.
Loop(r, argument) ==
    LET type == parseCommandArgumentType(argument)
    IN  IF r.status # "OK" THEN r
        ELSE IF ~r.parsingArgs THEN [r EXCEPT !.extraArgs = Append(@, argument)]
        ELSE IF type \in {"HELP", "VERSION"} THEN [r EXCEPT !.status = type]
        ELSE IF type = "DISABLE_ARGUMENT_PARSING" THEN [r EXCEPT !.parsingArgs = FALSE]
        ELSE IF argument.name \in Words THEN [r EXCEPT !.freeArgs = Append(@, argument)]
        ELSE IF ~IsUserArgument(argument.name) THEN [r EXCEPT !.status = "ERROR"]
        ELSE LET key == KeyOf(argument.name)
                 value == ParsedValue(key.type, argument.value)
             IN  IF value = Failed THEN [r EXCEPT !.status = "ERROR"]
                                   ELSE Told(r, key.key, value)

\* The variables of the environment that stand for keys without an argument.
Environmental(env, r) ==
    {i \in DOMAIN Configuration :
       /\ Configuration[i].env \in DOMAIN env
       /\ i = Max(KeysWith("env", Configuration[i].env))
       /\ Configuration[i].key \notin DOMAIN r.userArgs}

EnvironmentValue(env, key) == parseArgumentWithParam(key.type, env[key.env])

\* A variable that cannot be parsed throws.
WithEnvironment(env, r) ==
    LET used == {Configuration[i] : i \in Environmental(env, r)}
    IN  IF \E key \in used : EnvironmentValue(env, key) = Failed
        THEN [r EXCEPT !.status = "THROWN", !.userArgs = <<>>]
        ELSE [r EXCEPT !.userArgs =
                Over(@, [k \in {key.key : key \in used} |->
                           EnvironmentValue(env, CHOOSE key \in used : key.key = k)])]

NothingParsed == [status |-> "OK", parsingArgs |-> TRUE, freeArgs |-> <<>>, extraArgs |-> <<>>,
                  userArgs |-> <<>>]

\* An error without errorString, and without a look at the environment.
parseArguments(env, arguments) ==
    IF arguments = <<>> THEN [NothingParsed EXCEPT !.status = "NO_ARGUMENTS"]
    ELSE LET round[n \in 0..Len(arguments)] ==
                 IF n = 0 THEN NothingParsed ELSE Loop(round[n - 1], arguments[n])
             r == round[Len(arguments)]
         IN  IF r.status = "OK" THEN WithEnvironment(env, r) ELSE r

------------------------------------------------------------------------------
\* addArgumentParser

\* finally: the names of the call are deleted, but those of the keys are not,
\* because keys() of an array is empty.
Deleted(all) == [name \in DOMAIN all \cap Keys |-> all[name]]

run(arguments) ==
    LET r == parseArguments(environment, arguments)
    IN  /\ stage = "idle"
        /\ args' = arguments
        /\ result' = r
        /\ names' = IF r.status = "THROWN" THEN names
                    ELSE Over([freeArgs |-> r.freeArgs, extraArgs |-> r.extraArgs], Over(r.userArgs, names))
        /\ stage' = IF r.status \in {"OK", "NO_ARGUMENTS"} THEN "method" ELSE "over"
        /\ UNCHANGED environment

\* The method, if it was called, returns or throws.  Nothing happens before
\* this step when it was not.
commandEnds ==
    /\ stage # "idle"
    /\ stage' = "idle" /\ args' = <<>> /\ result' = NothingParsed
    /\ names' = Deleted(names)
    /\ UNCHANGED environment

Init ==
    /\ args = <<>> /\ environment \in Environments /\ result = NothingParsed
    /\ names = <<>> /\ stage = "idle"

Next ==
    \/ \E n \in 0..MaxArguments : \E arguments \in [1..n -> Given] : run(arguments)
    \/ commandEnds

CommandSpec == Init /\ [][Next]_commandVars

------------------------------------------------------------------------------
\* Properties

EndMarker == Min({i \in DOMAIN args : parseCommandArgumentType(args[i]) = "DISABLE_ARGUMENT_PARSING"}
                   \cup {Len(args) + 1})

IsOption(i) == i < EndMarker /\ args[i].name \notin Words

ValueAt(i) == ParsedValue(KeyOf(args[i].name).type, args[i].value)

\* The arguments that keep the command from running.
Stops ==
    {i \in DOMAIN args : IsOption(i) /\
       \/ parseCommandArgumentType(args[i]) # "other"
       \/ ~IsUserArgument(args[i].name)
       \/ ValueAt(i) = Failed}

TellsKey(i, key) == IsOption(i) /\ KeyOf(args[i].name).key = key.key

\* A command with arguments is run if none of those before "--" asks for
\* something else or is wrong.  Its method sees the words before "--", all that
\* comes after it, and for each key the value of the last argument that tells
\* it, or else that of the environment.  A variable that several keys have is for
\* the last of them, and the names of the parser's own results are not free for keys.
MethodSeesItsArguments ==
    /\ stage = "method" /\ args # <<>> =>
         /\ Stops = {}
         /\ names["freeArgs"] = Those(SubSeq(args, 1, EndMarker - 1), LAMBDA a : a.name \in Words)
         /\ names["extraArgs"] = SubSeq(args, EndMarker + 1, Len(args))
         /\ \A i \in DOMAIN Configuration :
              LET key == Configuration[i]
                  told == {j \in DOMAIN args : TellsKey(j, key)}
              IN  key.key \notin {"freeArgs", "extraArgs"} =>
                    /\ told # {} => names[key.key] = ValueAt(Max(told))
                    /\ told = {} /\ key.env \in DOMAIN environment /\ i = Max(KeysWith("env", key.env)) =>
                         names[key.key] = EnvironmentValue(environment, key)
    /\ result.status \in {"HELP", "VERSION"} => parseCommandArgumentType(args[Min(Stops)]) = result.status
    /\ result.status = "ERROR" => parseCommandArgumentType(args[Min(Stops)]) = "other"
==============================================================================
