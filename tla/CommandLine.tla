----------------------------- MODULE CommandLine -----------------------------
(***************************************************************************)
(* The command line of wotan: arguments (argparse.ts) override the         *)
(* defaults in .fimbullinter.yaml (optparse.ts, cli.ts), the save command  *)
(* replaces these defaults (commands/save.ts, format in utils.ts).         *)
(*                                                                         *)
(* A value of JavaScript is a tuple of its type and the value, as options  *)
(* are told apart by typeof. YAML reads what was written, with one         *)
(* exception: a string that looks like a date is not quoted by the schema  *)
(* used for writing, and is not a string for the one used for reading.     *)
(***************************************************************************)
EXTENDS Integers, Sequences, SequencesExt, FiniteSets, TLC

CONSTANTS
    Arguments,      \* sequences of arguments
    Yamls,          \* contents of .fimbullinter.yaml the user writes
    Trimmed,        \* what trimSingleQuotes and sanitizeExtensionArgument do to strings
    Sanitized,      \* that they change, ...
    Items,          \* the parts of strings that contain commas,
    NumberOf,       \* and the number a string starts with, if it does
    Dates,          \* strings that look like a date
    Dashed,         \* strings that start with "-"
    Thrown          \* an exception

VARIABLES
    yaml,           \* the file, a function of the keys it has
    last            \* the last command: arguments, options before and what they were parsed to

cliVars == <<yaml, last>>

NoValue == <<"undefined">>
Bool(b) == <<"boolean", b>>
Str(s) == <<"string", s>>
Num(n) == <<"number", n>>
Array(items) == <<"array", items>>      \* of strings; others are of type "object"

Truthy(v) == v \notin {NoValue, Bool(FALSE), Num(0), Str("")}

-----------------------------------------------------------------------------
(* OptionParser and GLOBAL_OPTIONS_SPEC.                                   *)

ListKeys == {"modules", "files", "exclude", "project"}
BooleanKeys == {"references", "cache"}
StringKeys == {"config", "formatter"}
Keys == ListKeys \union BooleanKeys \union StringKeys \union {"fix", "extensions", "reportUselessDirectives"}

Trim(s) == IF s \in DOMAIN Trimmed THEN Trimmed[s] ELSE s
Sanitize(s) == IF s \in DOMAIN Sanitized THEN Sanitized[s] ELSE s
NotEmpty(s) == s # ""
Split(s) == SelectSeq(IF s \in DOMAIN Items THEN Items[s] ELSE <<s>>, NotEmpty)
SanitizeAll(items) == [i \in DOMAIN items |-> Sanitize(items[i])]

\* The types an option may have; lists accept a string
Types(key) ==
    CASE key \in ListKeys \union {"extensions"} -> {"array", "string"}
      [] key \in BooleanKeys -> {"boolean"}
      [] key = "fix" -> {"boolean", "number"}
      [] key = "reportUselessDirectives" -> {"string", "boolean"}
      [] OTHER -> {"string"}

Default(key) ==
    CASE key \in ListKeys -> Array(<<>>)
      [] key \in BooleanKeys \union {"fix", "reportUselessDirectives"} -> Bool(FALSE)
      [] OTHER -> NoValue

Severity(s) ==
    CASE s = "off" -> Bool(FALSE)
      [] s \in {"warn", "warning"} -> Str("warning")
      [] s \in {"hint", "suggestion"} -> Str("suggestion")
      [] OTHER -> Str("error")

ParseOption(key, value) ==
    LET items == IF value[1] = "string" THEN <<value[2]>> ELSE value[2]
    IN  IF value[1] \notin Types(key) THEN Default(key)
        ELSE IF key = "extensions" THEN Array(SanitizeAll(items))
        ELSE IF key \in ListKeys THEN Array(items)
        ELSE IF key = "reportUselessDirectives" /\ value[1] = "string" THEN Severity(value[2])
        ELSE value

OptionAt(options, key) == IF key \in DOMAIN options THEN options[key] ELSE NoValue

ParseGlobalOptions(options) == [key \in Keys |-> ParseOption(key, OptionAt(options, key))]

-----------------------------------------------------------------------------
(* parseArguments. The loops look at the rest of the arguments.            *)

OptionOf ==
    [a \in {"-p", "--project"} |-> "project"] @@ [a \in {"-e", "--exclude"} |-> "exclude"]
    @@ [a \in {"-r", "--references"} |-> "references"] @@ [a \in {"--cache"} |-> "cache"]
    @@ [a \in {"-f", "--formatter"} |-> "formatter"] @@ [a \in {"-c", "--config"} |-> "config"]
    @@ [a \in {"--fix"} |-> "fix"] @@ [a \in {"--ext"} |-> "extensions"] @@ [a \in {"-m", "--module"} |-> "modules"]
    @@ [a \in {"--report-useless-directives"} |-> "reportUselessDirectives"]

\* What an argument means to an option whose argument is optional: Thrown if it does not belong to it
ParseOptional(key, argument) ==
    CASE argument = "true" -> Bool(TRUE)
      [] argument = "false" -> Bool(FALSE)
      [] key = "fix" /\ argument \in DOMAIN NumberOf -> Num(NumberOf[argument])
      [] key = "reportUselessDirectives" /\ argument \in {"off", "error", "warn", "warning", "hint", "suggestion"} ->
            Severity(argument)
      [] OTHER -> Thrown

\* Mutant: the default grows, too.
PushToDefault(result, key, items) == [result EXCEPT ![key] = Array(@[2] \o items)]

\* A list that is specified replaces the default, again and again it grows.
Push(result, key, items) ==
    IF key \in result.given THEN [result EXCEPT ![key] = Array(@[2] \o items)]
                            ELSE [result EXCEPT ![key] = Array(items), !.given = @ \union {key}]

Expected(key, argument) ==
    CASE key = "modules" -> Split(argument)
      [] key = "extensions" -> SelectSeq(SanitizeAll(Split(argument)), NotEmpty)
      [] OTHER -> SelectSeq(<<argument>>, NotEmpty)

OptionalKeys == BooleanKeys \union {"fix", "reportUselessDirectives"}

RECURSIVE ParseLoop(_, _)
ParseLoop(args, result) ==
    IF args = <<>> THEN result
    ELSE LET arg  == Head(args)
             rest == Tail(args)
             key  == OptionOf[arg]
         IN  IF arg = "--" THEN Push(result, "files", SelectSeq(rest, NotEmpty))
             ELSE IF arg \notin DOMAIN OptionOf
             THEN IF arg \in Dashed THEN Thrown ELSE ParseLoop(rest, Push(result, "files", SelectSeq(<<arg>>, NotEmpty)))
             ELSE IF key \in OptionalKeys
             THEN IF rest # <<>> /\ ParseOptional(key, Head(rest)) # Thrown
                  THEN ParseLoop(Tail(rest), [result EXCEPT ![key] = ParseOptional(key, Head(rest))])
                  ELSE ParseLoop(rest, [result EXCEPT ![key] = Bool(TRUE)])
             ELSE IF rest = <<>> THEN Thrown
             ELSE IF key \in StringKeys
             THEN ParseLoop(Tail(rest), [result EXCEPT ![key] = IF Head(rest) = "" THEN NoValue ELSE Str(Head(rest))])
             ELSE ParseLoop(Tail(rest), Push(result, key, Expected(key, Head(rest))))

Options(result) == [key \in Keys |-> result[key]]

ParseLintCommand(args, defaults) ==
    LET parsed == ParseLoop(args, defaults @@ "given" :> {})
        result == IF parsed.extensions = Array(<<>>) THEN [parsed EXCEPT !.extensions = NoValue] ELSE parsed
        usesProject == result.project # Array(<<>>) \/ result.files = Array(<<>>)
    IN  IF parsed = Thrown THEN Thrown
        ELSE IF result.extensions # NoValue /\ usesProject THEN Thrown
        ELSE IF result.cache = Bool(TRUE) /\ ~usesProject THEN Thrown
        ELSE Options(result)

\* test and show have a few options of their own.
TestOptionOf == [a \in {"--exact"} |-> "exact"] @@ [a \in {"--bail"} |-> "bail"] @@ [a \in {"-u", "--update"} |-> "updateBaselines"]

RECURSIVE ParseTestLoop(_, _)
ParseTestLoop(args, result) ==
    IF args = <<>> THEN result
    ELSE LET arg  == Head(args)
             rest == Tail(args)
         IN  IF arg = "--" THEN Push(result, "files", SelectSeq(rest, NotEmpty))
             ELSE IF arg \in DOMAIN TestOptionOf
             THEN IF rest # <<>> /\ Head(rest) \in {"true", "false"}
                  THEN ParseTestLoop(Tail(rest), [result EXCEPT ![TestOptionOf[arg]] = ParseOptional("cache", Head(rest))])
                  ELSE ParseTestLoop(rest, [result EXCEPT ![TestOptionOf[arg]] = Bool(TRUE)])
             ELSE IF arg \in {"-m", "--module"}
             THEN IF rest = <<>> THEN Thrown ELSE ParseTestLoop(Tail(rest), Push(result, "modules", Split(Head(rest))))
             ELSE IF arg \in Dashed THEN Thrown
             ELSE ParseTestLoop(rest, Push(result, "files", SelectSeq(<<arg>>, NotEmpty)))

ParseTestCommand(args) ==
    LET result == ParseTestLoop(args, [given |-> {}, files |-> Array(<<>>), modules |-> Array(<<>>),
                                       exact |-> Bool(FALSE), bail |-> Bool(FALSE), updateBaselines |-> Bool(FALSE)])
    IN  IF result = Thrown THEN Thrown ELSE IF result.files = Array(<<>>) THEN Thrown ELSE result

RECURSIVE ParseShowLoop(_, _)
ParseShowLoop(args, result) ==
    IF args = <<>> THEN result
    ELSE LET arg  == Head(args)
             rest == Tail(args)
         IN  IF arg = "--" THEN Push(result, "files", SelectSeq(rest, NotEmpty))
             ELSE IF arg \notin {"-f", "--format", "-c", "--config", "-m", "--module"}
             THEN IF arg \in Dashed THEN Thrown ELSE ParseShowLoop(rest, Push(result, "files", SelectSeq(<<arg>>, NotEmpty)))
             ELSE IF rest = <<>> THEN Thrown
             ELSE IF arg \in {"-m", "--module"} THEN ParseShowLoop(Tail(rest), Push(result, "modules", Split(Head(rest))))
             ELSE IF arg \in {"-c", "--config"}
             THEN ParseShowLoop(Tail(rest), [result EXCEPT !.config = IF Head(rest) = "" THEN NoValue ELSE Str(Head(rest))])
             ELSE IF Head(rest) \in {"json", "json5", "yaml"} THEN ParseShowLoop(Tail(rest), [result EXCEPT !.format = Str(Head(rest))])
             ELSE Thrown

ParseShowCommand(args, defaults) ==
    LET result == ParseShowLoop(args, [given |-> {}, files |-> Array(<<>>), modules |-> defaults.modules,
                                       config |-> defaults.config, format |-> NoValue])
    IN  IF result = Thrown THEN Thrown ELSE IF Len(result.files[2]) # 1 THEN Thrown ELSE result

Commands == {"lint", "save", "test", "show", "validate"}

ParseArguments(args, options) ==
    LET trimmed  == [i \in DOMAIN args |-> Trim(args[i])]
        defaults == ParseGlobalOptions(options)
        name     == IF trimmed # <<>> /\ Head(trimmed) \in Commands THEN Head(trimmed) ELSE "none"
    IN  [command |-> IF name = "none" THEN "lint" ELSE name,
         options |-> CASE name = "none" -> ParseLintCommand(trimmed, defaults)
                       [] name \in {"lint", "save"} -> ParseLintCommand(Tail(trimmed), defaults)
                       [] name = "test" -> ParseTestCommand(Tail(trimmed))
                       [] name = "show" -> ParseShowCommand(Tail(trimmed), defaults)
                       [] name = "validate" -> Thrown]

-----------------------------------------------------------------------------
(* Commands.                                                               *)

\* convertToPrintable leaves out what is undefined or empty; YAML reads dates.
Printable(options) ==
    LET kept == {key \in DOMAIN options : options[key] \notin {NoValue, Array(<<>>), <<"object", "{}">>}}
    IN  [key \in kept |-> options[key]]

Reloaded(v) ==
    IF (v[1] = "string" /\ v[2] \in Dates) \/ (v[1] = "array" /\ ToSet(v[2]) \intersect Dates # {})
    THEN <<"object", v[2]>> ELSE v

SavedOptions(options, config) ==
    [key \in {"cache", "fix", "reportUselessDirectives", "references"} |->
        IF Truthy(config[key]) THEN config[key] ELSE NoValue] @@ config @@ options

\* An empty file is the same as none.
RunCommand(args) ==
    LET command == ParseArguments(args, yaml)
    IN  /\ last' = [args |-> args, before |-> yaml, command |-> command.command, options |-> command.options]
        /\ yaml' = IF command.command = "save" /\ command.options # Thrown
                   THEN LET saved == Printable(SavedOptions(yaml, command.options))
                        IN  [key \in DOMAIN saved |-> Reloaded(saved[key])]
                   ELSE yaml

CommandLineInit ==
    /\ yaml \in Yamls
    /\ last = [args |-> <<>>, before |-> <<>>, command |-> "none", options |-> Thrown]

CommandLineNext == last.command = "none" /\ \E args \in Arguments : RunCommand(args)

CommandLineSpec == CommandLineInit /\ [][CommandLineNext]_cliVars

-----------------------------------------------------------------------------
(* Properties.                                                             *)

OptionsParsed == last.options # Thrown

HasDate(options) == \E key \in DOMAIN options : options[key] # Reloaded(options[key])

\* The next run without arguments does what the arguments of the save command would have done
\* ("this default configuration is automatically picked up", packages/wotan/README.md:210), and
\* saving without arguments changes nothing any more.
SaveIsPickedUp ==
    (last.command = "save" /\ OptionsParsed /\ ~HasDate(last.options)) =>
        /\ ParseArguments(<<>>, yaml) = [command |-> "lint", options |-> last.options]
        /\ Printable(SavedOptions(yaml, ParseGlobalOptions(yaml))) = Printable(yaml)

\* Every option of a command is either the default, whatever this is, or it was specified and does
\* not depend on the defaults: they "can be overridden or cleared by explicitly specifying them"
\* (packages/wotan/README.md:212). No default is mixed with an argument.
OverridesOrKeeps ==
    (last.command \in {"lint", "save", "show"} /\ OptionsParsed) =>
        LET parse(d)  == ParseArguments(last.args, d).options
            fitting   == {d \in Yamls \union {last.before} : parse(d) # Thrown}
        IN  \A key \in DOMAIN last.options \intersect Keys :
               \/ \A d \in fitting : parse(d)[key] = IF key = "extensions" /\ ParseGlobalOptions(d)[key] = Array(<<>>) THEN NoValue
                                                   ELSE ParseGlobalOptions(d)[key]
               \/ \A d \in fitting : parse(d)[key] = last.options[key]

\* Defaults and arguments fit together, before and after they are saved.
SaveKeepsOptions == SaveIsPickedUp /\ OverridesOrKeeps

\* "Using `wotan save` will not alter third party configuration." (packages/wotan/README.md:220)
ThirdPartyKept ==
    last.command = "save" => \A key \in (DOMAIN last.before \union DOMAIN yaml) \ Keys : OptionAt(yaml, key) = OptionAt(last.before, key)
=============================================================================
