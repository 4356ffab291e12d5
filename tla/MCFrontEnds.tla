----------------------------- MODULE MCFrontEnds -----------------------------
(***************************************************************************)
(* Instances of what linting is started with, for TLC: configurations of   *)
(* both formats, the command line and the test command.                    *)
(***************************************************************************)
EXTENDS Configuration, TslintConfiguration, CommandLine, TestCommand

-----------------------------------------------------------------------------
(* Instances of Configuration                                              *)

CONSTANTS tsFile, jsFile  \* files to lint
CONSTANTS prefix          \* of rules
CONSTANTS sub, root       \* directories
CONSTANTS proc            \* a processor

MCParentDir == sub :> root @@ root :> root

Plain(extends) ==
    [extends |-> extends, rulesDirectories |-> <<>>, aliases |-> <<>>, rules |-> <<>>, overrides |-> <<>>,
     processor |-> Undefined, exclude |-> <<>>, settings |-> <<>>]

Disk(raw, rc) ==
    [raw |-> raw, rc |-> rc, local |-> "here" :> "b",
     rules |-> "rules" :> {"x", "y"} @@ "base" :> {"x"}]

InRoot == sub :> <<Undefined>> @@ root :> <<Undefined, "a">>
InBoth == sub :> <<"b", "a">> @@ root :> <<"c">>
Nowhere == sub :> <<Undefined>> @@ root :> <<Undefined>>

Lists(names) == {<<>>} \union {<<x>> : x \in names} \union {<<x, y>> : x, y \in names}

Named(name, extends) == [Plain(extends) EXCEPT !.settings = ("k" :> name @@ name :> 1)]

\* A configuration may extend itself, one or two of two others, another one up to two of the others, a third
\* one none, itself, the first, or one that does not exist, or it cannot be read.
ExtendGraphs ==
    {Disk("a" :> Named("a", x) @@ "b" :> Named("b", y) @@ "c" :> z, rc) :
        x \in {<<>>, <<"a">>, <<"b">>} \union {<<e1, e2>> : e1, e2 \in {"b", "c"}}, y \in Lists({"a", "c"}) \ {<<"a", "a">>, <<"c", "c">>},
        z \in {Broken} \union {Named("c", e) : e \in {<<>>, <<"c">>, <<"a">>, <<"missing">>}},
        rc \in {InBoth}}

Glob(files, negated) == [files |-> files, negated |-> negated]
Globs == {<<>>, <<Glob({tsFile}, FALSE)>>, <<Glob({tsFile, jsFile}, FALSE), Glob({tsFile}, TRUE)>>}

Override(files, rules, processor, settings) ==
    [files |-> files, rules |-> rules, processor |-> processor, settings |-> settings]

RuleX == <<Undefined, "x">>
RuleSettings == {<<>>, RuleX :> [severity |-> "off"], RuleX :> [options |-> 1]}

\* a extends c, then b, which has an override, exclude, and any rules and processor
Flattened ==
    {Disk("a" :> [Plain(<<"c", "b">>) EXCEPT !.rules = ra, !.processor = pa, !.settings = "k" :> 1,
                    !.overrides = <<Override(ga, RuleX :> [severity |-> "hint"], Undefined, <<>>)>>]
          @@ "b" :> [Plain(<<>>) EXCEPT !.rules = rb, !.exclude = gb,
                       !.overrides = <<Override(<<Glob({tsFile}, FALSE)>>, ra, po, "k" :> 2 @@ "l" :> 2),
                                       Override(<<Glob({jsFile}, FALSE)>>, <<>>, pa, "l" :> 3)>>]
          @@ "c" :> [Plain(<<>>) EXCEPT !.rules = RuleX :> [severity |-> "warn", options |-> 2], !.processor = proc],
          InRoot) :
        ra, rb \in RuleSettings, pa \in {Undefined, Off}, po \in {Undefined, Off, proc}, ga \in Globs \ {<<>>},
        gb \in {<<>>, <<Glob({tsFile, jsFile}, FALSE), Glob({tsFile}, TRUE)>>}}

PX == <<prefix, "x">>
PY == <<prefix, "y">>
PZ == <<prefix, "z">>
AliasValues == {Off, [rule |-> PX], [rule |-> PY], [rule |-> RuleX, options |-> 1], [rule |-> PX, options |-> 2], [options |-> 1]}

\* a extends b; both have aliases, b a directory of rules, a may have one
Aliased ==
    {Disk("a" :> [Plain(<<"b">>) EXCEPT !.aliases = PY :> y @@ PZ :> z, !.rulesDirectories = d,
                    !.rules = PX :> <<>> @@ PY :> [severity |-> "warning"] @@ PZ :> [options |-> 3]]
          @@ "b" :> [Plain(<<>>) EXCEPT !.aliases = bx, !.rulesDirectories = prefix :> "base", !.rules = PX :> <<>>],
          Nowhere) :
        y \in AliasValues, z \in {[rule |-> PY], [rule |-> PY, options |-> 3]}, d \in {<<>>, prefix :> "rules"},
        bx \in {<<>>, PX :> [rule |-> <<Undefined, "t">>, options |-> 4]}}

MCConfigInstances == ExtendGraphs \union Flattened \union Aliased

-----------------------------------------------------------------------------
(* Instances of TslintConfiguration                                        *)

TslintRules == {<<>>, "x" :> [severity |-> "off", options |-> 1], "x" :> [severity |-> "warning", options |-> 2] @@ "y" :> [severity |-> "error", options |-> 1]}

TslintRaw(rules, jsRules, exclude) == [rules |-> rules, jsRules |-> jsRules, rulesDirectory |-> <<"rules">>, exclude |-> exclude]

Globals ==
    {Undefined, [Plain(<<"a">>) EXCEPT !.settings = "k" :> 1], [Plain(<<>>) EXCEPT !.rules = RuleX :> <<>>],
     [Plain(<<>>) EXCEPT !.processor = proc, !.settings = "k" :> 1,
                         !.overrides = <<Override(<<Glob({jsFile}, FALSE)>>, <<>>, "other", "k" :> 2)>>],
     [Plain(<<>>) EXCEPT !.overrides = <<Override(<<Glob({tsFile}, FALSE)>>, RuleX :> [severity |-> "off"], Undefined, <<>>)>>]}

\* Two drives; the home directory is on the other one, or contains the files
Parents == "c" :> "c" @@ "user" :> "c" @@ "project" :> "user" @@ "sub" :> "project" @@ "d" :> "d" @@ "tools" :> "d"

TslintInstance(dirs, home, raw, global) ==
    [parents |-> Parents, dirs |-> dirs, home |-> home, raw |-> "project" :> raw @@ "d" :> Broken, global |-> global]

NoTslintRules == TslintRaw(<<>>, <<>>, <<>>)

MCTslintInstances ==
    {TslintInstance(dirs, home, NoTslintRules, Undefined) : dirs \in SUBSET {"user", "project", "d"}, home \in {"user", "d"}}
    \union {TslintInstance({}, "d", TslintRaw(rules, js, exclude), global) :
               rules, js \in TslintRules, exclude \in Globs, global \in Globals}

-----------------------------------------------------------------------------
(* Arguments for CommandLine                                               *)

Tokens == {"-p", "-e", "-c", "-m", "--ext", "-r", "--fix", "--report-useless-directives", "--cache", "--", "", "false",
           "x", "a,b", "1.ts", "2001-01-01", "hint"}

Short == UNION {[1..n -> Tokens] : n \in 0..2}

\* Options of all kinds one after the other, so that the second takes up what the first leaves
Pairs == {<<o1, v1, o2, v2>> : o1, o2 \in {"-p", "-e", "-c", "-m", "-r", "--fix", "--report-useless-directives", "--ext"},
                              v1 \in {"", "a,b", "false", "-c"}, v2 \in {"1.ts", "x"}}

MCArguments ==
    {<<name>> \o args : name \in {"save", "'lint'", "show"}, args \in Short}
    \union {<<"save", "f">> \o args : args \in Pairs} \union {<<"save">> \o args : args \in Pairs}
    \union {<<"test", o, v, "f">> : o \in {"-u", "--exact", "--bail", "-m", "-p"}, v \in {"false", "a,b"}}
    \union {<<"show", o, v, "f">> : o \in {"-f", "-c", "-m", "-p"}, v \in {"yaml", "a,b", ""}}
    \union {<<"validate">>} \union Short

MCTrimmed == "'lint'" :> "lint"
MCSanitized == "a" :> ".a" @@ "b" :> ".b" @@ "x" :> ".x" @@ "1.ts" :> ".1.ts" @@ "false" :> ".false" @@ "-c" :> ".-c"
MCItems == "a,b" :> <<"a", "b">>

MCNumberOf == "1.ts" :> 1 @@ "2001-01-01" :> 2001
MCDashed == {"-p", "-e", "-c", "-m", "-f", "-u", "-r", "--ext", "--fix", "--report-useless-directives", "--cache", "--", "--exact", "--bail"}

MCYamls ==
    {<<>>,
     "project" :> Str("p") @@ "exclude" :> Array(<<"a", "b">>) @@ "config" :> Str("c") @@ "cache" :> Bool(TRUE)
        @@ "modules" :> Str("m") @@ "fix" :> Num(3) @@ "formatter" :> Num(1),
     "files" :> Str("f") @@ "extensions" :> Str("x") @@ "fix" :> Bool(TRUE) @@ "modules" :> Bool(TRUE)
        @@ "reportUselessDirectives" :> Str("warn") @@ "plugin" :> <<"object", "p">>,
     "references" :> Bool(TRUE) @@ "extensions" :> Array(<<>>) @@ "reportUselessDirectives" :> Bool(TRUE)
        @@ "plugin" :> Array(<<>>)}

-----------------------------------------------------------------------------
(* Suites of tests for TestCommand                                         *)

CONSTANTS src1, src2  \* files that are linted

D == <<"baselines", "d">>
NestedDir == <<"baselines", "d", "default">>
Other == <<"baselines", "f">>

Line(length, cr) == [length |-> length, cr |-> cr]
Finding(start, end, label) == [start |-> start, end |-> end, label |-> label]
Summary(lines, findings) == [lines |-> lines, findings |-> findings]

Clean == Summary(<<Line(1, FALSE)>>, <<>>)
Dirty == Summary(<<Line(1, FALSE)>>, <<Finding(0, 1, "f")>>)

Res(file, summary, fixes, outside) ==
    [file |-> file, summary |-> summary, fixable |-> summary.findings # <<>>, fixes |-> fixes, fixed |-> fixes, outside |-> outside]

T(path, name, lint, fix) == [path |-> path, name |-> name, skipped |-> FALSE, lint |-> lint, fix |-> fix, fixable |-> TRUE]

Lints == {<<Res(src1, Clean, 0, FALSE)>>, <<Res(src1, Clean, 0, FALSE), Res(src2, Dirty, 1, FALSE)>>,
          <<Res(src1, Dirty, 0, FALSE)>>}

P(dir, file, kind) == [dir |-> dir, file |-> file, kind |-> kind]

\* Up to two baselines that are right, wrong or left over
Files == {P(D, src1, "lint"), P(D, src1, "fix"), P(D, src2, "fix"), P(NestedDir, src1, "lint"), P(Other, src2, "lint")}
Baselines == {[path \in s |-> IF path.kind = "lint" THEN CreateBaseline(c) ELSE 1] :
                 s \in {s \in SUBSET Files : Cardinality(s) < 3}, c \in {Clean, Dirty}}

Second == {T(<<"d">>, "", <<Res(src1, Clean, 0, FALSE)>>, TRUE), T(<<>>, "f", <<Res(src2, Dirty, 0, FALSE)>>, FALSE),
           [T(<<"d">>, "", <<>>, TRUE) EXCEPT !.skipped = TRUE], [T(<<>>, "f", NoResult, TRUE) EXCEPT !.fixable = FALSE],
           [T(<<>>, "d", <<Res(src1, Dirty, 1, FALSE)>>, TRUE) EXCEPT !.fixable = FALSE], T(<<>>, "f", <<Res(src1, Clean, 0, TRUE)>>, TRUE)}

\* One summary with any two findings
SplitLines == {<<Line(1, FALSE), Line(0, TRUE), Line(2, FALSE)>>, <<Line(2, TRUE), Line(1, FALSE)>>}
Marked == {Summary(l, <<Finding(s1, e1, "f"), Finding(s2, e2, "g")>>) :
             l \in SplitLines, s1 \in 0..3, e1 \in 0..6, s2 \in 0..5, e2 \in 0..6}

Size(s) == StartOfLine(s.lines, Len(s.lines) + 1) - 1
Fitting == {s \in Marked : \A found \in ToSet(s.findings) : found.start <= found.end /\ found.end <= Size(s)}

MCSuites ==
    {[tests |-> <<T(<<"test">>, "d", lint, fix), second>>, initial |-> b, traversed |-> r] :
        lint \in Lints, fix \in BOOLEAN, second \in Second, b \in Baselines, r \in {{}, {D}}}
    \union {[tests |-> <<T(<<"test">>, "d", <<Res(src1, s, 0, FALSE)>>, FALSE)>>, initial |-> <<>>, traversed |-> {}] : s \in Fitting}

MCTestOptions == [updateBaselines : BOOLEAN, bail : BOOLEAN, exact : BOOLEAN]
===============================================================================
