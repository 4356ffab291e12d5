----------------------------- MODULE TestCommand -----------------------------
(***************************************************************************)
(* wotan test: each test configuration is linted and, unless it is         *)
(* disabled, fixed; the results are compared with baselines on disk or     *)
(* replace them (commands/test.ts, baseline.ts).                           *)
(*                                                                         *)
(* A directory is a sequence of names, a baseline a record of the          *)
(* directory of its test, the file and its kind. All test configurations   *)
(* match one pattern.                                                      *)
(***************************************************************************)
EXTENDS Integers, Sequences, SequencesExt, FiniteSetsExt, TLC

CONSTANTS
    Suites,         \* what may be tested, see suite
    TestOptions,    \* records of updateBaselines, bail and exact
    NoResult        \* what linting or fixing returns that throws

VARIABLES
    suite,          \* tests: in the order they are run, with path and name; initial: the baselines; traversed: directories that are read
                    \* while files that match the pattern are searched
    testOptions,
    queue,          \* tests that are left; the first is running
    testPhase,          \* "open", "lint", "fix" or "exact" of the first test
    results,        \* that are to be checked
    containsFixes,
    baselines,      \* a function of those on disk
    baselinesSeen,
    listed,         \* the cache of glob: the baselines in each directory when it was first read
    success,
    outcome         \* "running", "passed", "failed" or "error"

testVars == <<suite, testOptions, queue, testPhase, results, containsFixes, baselines, baselinesSeen, listed, success, outcome>>

-----------------------------------------------------------------------------
(* createBaseline: lines of code, each followed by a line per finding in   *)
(* it. A line is a record of its length and whether it ends with "\r".     *)

\* Finding.compare; the rest of it is left out.
Compare(f, g) == f.start < g.start \/ (f.start = g.start /\ f.end <= g.end)

FormatFinding(f, lineStart, lineLength, nextLineStart) ==
    LET start == IF f.start > lineStart THEN f.start ELSE lineStart
        end   == IF f.end < lineStart + lineLength THEN f.end ELSE lineStart + lineLength
    IN  [indent |-> start - lineStart, length |-> end - start, label |-> IF f.end <= nextLineStart THEN f.label ELSE "none"]

RECURSIVE MarkLines(_, _, _, _)
MarkLines(lines, lineStart, pending, findings) ==
    IF lines = <<>> THEN <<>>
    ELSE LET line          == Head(lines)
             nextLineStart == lineStart + line.length + (IF line.cr THEN 2 ELSE 1)
             begins(f)     == f.start < nextLineStart
             here          == pending \o SelectSeq(findings, begins)
         IN  <<[code |-> line, marks |-> [i \in DOMAIN here |-> FormatFinding(here[i], lineStart, line.length, nextLineStart)]]>>
             \o MarkLines(Tail(lines), nextLineStart, SelectSeq(here, LAMBDA f : f.end > nextLineStart),
                          SelectSeq(findings, LAMBDA f : ~begins(f)))

CreateBaseline(summary) == MarkLines(summary.lines, 0, <<>>, SortSeq(summary.findings, Compare))

\* "~".repeat throws for a negative number.
Throws(baseline) == \E i \in DOMAIN baseline : \E m \in ToSet(baseline[i].marks) : m.length < 0

-----------------------------------------------------------------------------
(* Where baselines are, below the directory wotan is started in.           *)

\* getTestName: the name of .test.json is empty.
TestName(t) == IF t.name = "" THEN "default" ELSE t.name

BaselineDirectory(t) ==
    (IF t.path # <<>> /\ Head(t.path) \in {"test", "tests", "__test", "__tests", "test__", "tests__", "__test__", "__tests__"}
     THEN <<"baselines">> \o Tail(t.path)
     ELSE <<"baselines">> \o t.path) \o <<TestName(t)>>

-----------------------------------------------------------------------------
(* checkResult.                                                            *)

Test == Head(queue)
Result == Head(results)
Baseline(kind) == [dir |-> BaselineDirectory(Test), file |-> Result.file, kind |-> kind]
Actual(kind) == IF kind = "fix" THEN Result.fixed ELSE CreateBaseline(Result.summary)

Abort(reason) == outcome' = reason /\ UNCHANGED <<queue, testPhase, results, containsFixes, listed>>

\* Continue with the next result unless a mismatch ends the run
End(pass) ==
    /\ success' = (success /\ pass)
    /\ IF ~pass /\ testOptions.bail THEN Abort("failed")
       ELSE /\ results' = Tail(results)
            /\ containsFixes' = (containsFixes \/ (testPhase = "lint" /\ Result.fixable))
            /\ UNCHANGED <<outcome, queue, testPhase, listed>>

\* Mutant: a baseline that is left over is no failure.
CheckUnfixedQuietly == UNCHANGED <<baselines, baselinesSeen>> /\ End(TRUE)

\* Nothing was fixed: there should be no baseline.
CheckUnfixed ==
    LET file == Baseline("fix")
    IN  /\ baselines' = IF testOptions.updateBaselines THEN [p \in DOMAIN baselines \ {file} |-> baselines[p]] ELSE baselines
        /\ baselinesSeen' = IF file \in DOMAIN baselines /\ ~testOptions.updateBaselines THEN baselinesSeen \union {file}
                            ELSE baselinesSeen
        /\ End(file \in DOMAIN baselines => testOptions.updateBaselines)

CheckBaseline(kind) ==
    LET file == Baseline(kind)
        same == IF file \in DOMAIN baselines THEN baselines[file] = Actual(kind) ELSE FALSE
    IN  /\ baselinesSeen' = baselinesSeen \union {file}
        /\ baselines' = IF testOptions.updateBaselines THEN (file :> Actual(kind)) @@ baselines ELSE baselines
        /\ End(same \/ testOptions.updateBaselines)

Unchecked == UNCHANGED <<baselines, baselinesSeen, success>>

CheckResult ==
    /\ outcome = "running" /\ testPhase \in {"lint", "fix"} /\ results # <<>>
    /\ IF Result.outside \/ (testPhase = "lint" /\ Throws(CreateBaseline(Result.summary))) THEN Abort("error") /\ Unchecked
       ELSE IF testPhase = "fix" /\ (~containsFixes \/ Result.fixes = 0) THEN CheckUnfixed ELSE CheckBaseline(testPhase)
    /\ UNCHANGED <<suite, testOptions>>

-----------------------------------------------------------------------------
(* run and test.                                                           *)

Goto(next, files) ==
    /\ testPhase' = next
    /\ results' = files
    /\ UNCHANGED <<suite, testOptions, outcome>>

\* A test that requires another version of TypeScript
SkipTest ==
    /\ outcome = "running" /\ testPhase = "open" /\ queue # <<>> /\ Test.skipped
    /\ queue' = Tail(queue)
    /\ Goto("open", <<>>)
    /\ UNCHANGED <<containsFixes, listed>> /\ Unchecked

StartTest ==
    /\ outcome = "running" /\ testPhase = "open" /\ queue # <<>> /\ ~Test.skipped
    /\ baselinesSeen' = {}
    /\ containsFixes' = FALSE
    /\ IF Test.lint = NoResult THEN outcome' = "error" /\ UNCHANGED <<suite, testOptions, testPhase, results>>
                               ELSE Goto("lint", Test.lint)
    /\ UNCHANGED <<queue, listed, baselines, success>>

\* Without fixable findings the results of linting are used again.
StartFix ==
    /\ outcome = "running" /\ testPhase = "lint" /\ results = <<>> /\ Test.fix
    /\ Goto("fix", Test.lint)
    /\ UNCHANGED <<queue, containsFixes, listed>> /\ Unchecked

\* Otherwise the files are linted again and fixed, which may throw before or after any result.
FixingThrows == testPhase = "fix" /\ containsFixes /\ ~Test.fixable

FixThrows ==
    /\ outcome = "running" /\ FixingThrows
    /\ Abort("error")
    /\ UNCHANGED <<suite, testOptions>> /\ Unchecked

Checked ==
    /\ outcome = "running" /\ results = <<>> /\ ~FixingThrows
    /\ testPhase = "fix" \/ (testPhase = "lint" /\ ~Test.fix)

FinishTest ==
    /\ Checked /\ ~testOptions.exact
    /\ queue' = Tail(queue)
    /\ Goto("open", <<>>)
    /\ UNCHANGED <<containsFixes, listed>> /\ Unchecked

\* glob.sync('**') in the directory of the test reads what was not read before.
Under(dir) == {p \in DOMAIN baselines : IsPrefix(dir, p.dir)}
Directories == {BaselineDirectory(t) : t \in ToSet(suite.tests)} \union {p.dir : p \in DOMAIN suite.initial}
BelowOf(dir) == {d \in Directories : IsPrefix(dir, d)}
Listing(dir) == [d \in BelowOf(dir) |-> IF d \in DOMAIN listed THEN listed[d] ELSE {p \in DOMAIN baselines : p.dir = d}]
Remaining == UNION {Listing(BaselineDirectory(Test))[d] : d \in BelowOf(BaselineDirectory(Test))} \ baselinesSeen

\* Baselines that were not checked are removed or reported. Removing one that does not exist throws.
CheckExact ==
    /\ Checked /\ testOptions.exact
    /\ listed' = Listing(BaselineDirectory(Test)) @@ listed
    /\ IF testOptions.updateBaselines
       THEN /\ baselines' = [p \in DOMAIN baselines \ Remaining |-> baselines[p]]
            /\ outcome' = IF Remaining \subseteq DOMAIN baselines THEN outcome ELSE "error"
            /\ UNCHANGED success
       ELSE /\ success' = (success /\ Remaining = {})
            /\ outcome' = IF Remaining # {} /\ testOptions.bail THEN "failed" ELSE outcome
            /\ UNCHANGED baselines
    /\ queue' = Tail(queue)
    /\ testPhase' = "open"
    /\ UNCHANGED <<suite, testOptions, results, containsFixes, baselinesSeen>>

FinishTests ==
    /\ outcome = "running" /\ testPhase = "open" /\ queue = <<>>
    /\ outcome' = IF success THEN "passed" ELSE "failed"
    /\ UNCHANGED <<suite, testOptions, queue, testPhase, results, containsFixes, listed>> /\ Unchecked

TestInit ==
    /\ suite \in Suites
    /\ testOptions \in TestOptions
    /\ queue = suite.tests
    /\ testPhase = "open" /\ results = <<>> /\ containsFixes = FALSE
    /\ baselines = suite.initial
    /\ baselinesSeen = {}
    /\ listed = [d \in suite.traversed |-> {p \in DOMAIN suite.initial : p.dir = d}]
    /\ success = TRUE /\ outcome = "running"

TestNext == SkipTest \/ StartTest \/ CheckResult \/ StartFix \/ FixThrows \/ FinishTest \/ CheckExact \/ FinishTests

TestSpec == TestInit /\ [][TestNext]_testVars

-----------------------------------------------------------------------------
(* Properties.                                                             *)

\* The baselines a test should have
Results(t) == ToSet(t.lint)
Fixing(t) == {r \in Results(t) : t.fix /\ r.fixes # 0 /\ \E x \in Results(t) : x.fixable}
Path(t, r, kind) == [dir |-> BaselineDirectory(t), file |-> r.file, kind |-> kind]
Has(path, content) == IF path \in DOMAIN baselines THEN baselines[path] = content ELSE FALSE

Agrees(t) ==
    /\ t.lint # NoResult
    /\ \A r \in Results(t) : Has(Path(t, r, "lint"), CreateBaseline(r.summary))
    /\ \A r \in Fixing(t) : Has(Path(t, r, "fix"), r.fixed)
    /\ t.fix => \A r \in Results(t) \ Fixing(t) : Path(t, r, "fix") \notin DOMAIN baselines
    /\ testOptions.exact => Under(BaselineDirectory(t)) \subseteq {Path(t, r, "lint") : r \in Results(t)} \union {Path(t, r, "fix") : r \in Fixing(t)}

Run == {t \in ToSet(suite.tests) : ~t.skipped}

\* No two tests share a directory, none is inside of that of another, and the pattern is not
\* one like **/*.test.json that has all baselines read before the first test.
Separate ==
    /\ suite.traversed = {}
    /\ \A i, j \in DOMAIN suite.tests : i # j => ~IsPrefix(BaselineDirectory(suite.tests[i]), BaselineDirectory(suite.tests[j]))

\* The tests pass if and only if all baselines are what they should be, none is left over and, with --exact, there
\* is no other; nothing is changed. This holds for tests that share directories, too.
TestReports ==
    ~testOptions.updateBaselines =>
        /\ baselines = suite.initial
        /\ outcome \in {"passed", "failed"} => (outcome = "passed") = \A t \in Run : Agrees(t)

\* With -u all baselines are what they should be in the end, so that the same tests pass afterwards
\* ("removing and adding files as necessary", docs/testing-rules.md:31); --bail "has no effect" (:35). Files of other
\* tests are not touched.
UpdateWrites ==
    (testOptions.updateBaselines /\ Separate) =>
        /\ outcome = "passed" => \A t \in Run : Agrees(t)
        /\ outcome # "failed"
        /\ outcome = "error" => \E t \in Run : \/ t.lint = NoResult
                                               \/ ~t.fixable
                                               \/ \E r \in Results(t) : r.outside \/ Throws(CreateBaseline(r.summary))
        /\ \A p \in DOMAIN baselines \union DOMAIN suite.initial :
              (\A t \in Run : ~IsPrefix(BaselineDirectory(t), p.dir)) => p \in DOMAIN suite.initial /\ Has(p, suite.initial[p])

\* The markup of a baseline covers exactly the visible characters of its findings, each of which is
\* labelled once where it ends, however they overlap and whatever lines they extend over. Only
\* findings that start between "\r" and "\n" cannot be shown.
StartOfLine(lines, i) == FoldLeft(LAMBDA sum, l : sum + l.length + (IF l.cr THEN 2 ELSE 1), 0, SubSeq(lines, 1, i - 1))

MarkupCovers ==
    (testPhase = "lint" /\ results # <<>>) =>
        LET summary  == Result.summary
            lines    == summary.lines
            starts   == [i \in DOMAIN lines |-> StartOfLine(lines, i)]
            baseline == CreateBaseline(summary)
            visible  == UNION {starts[i] .. starts[i] + lines[i].length - 1 : i \in DOMAIN lines}
            covered  == UNION {UNION {starts[i] + m.indent .. starts[i] + m.indent + m.length - 1 : m \in ToSet(baseline[i].marks)} :
                               i \in DOMAIN lines}
            found    == ToSet(summary.findings)
            labelled(f) == {i \in DOMAIN lines : \E m \in ToSet(baseline[i].marks) : m.label = f.label}
        IN  IF \E f \in found, i \in DOMAIN lines : lines[i].cr /\ f.start = starts[i] + lines[i].length + 1
            THEN Throws(baseline)
            ELSE /\ ~Throws(baseline)
                 /\ [i \in DOMAIN baseline |-> baseline[i].code] = lines
                 /\ covered = visible \intersect UNION {f.start .. f.end - 1 : f \in found}
                 /\ \A f \in found : \E i \in DOMAIN lines :
                       /\ labelled(f) = {i}
                       /\ i = Len(lines) \/ f.end <= starts[i + 1]
                       /\ i = 1 \/ f.end > starts[i] \/ f.start = starts[i]

\* Baselines say what linting finds, are compared with that and updated to that.
BaselinesRight == TestReports /\ UpdateWrites /\ MarkupCovers

\* "Always returns with exit code 0." (docs/testing-rules.md:32, of -u)
UpdateNeverFails == testOptions.updateBaselines => outcome # "error"
=============================================================================
