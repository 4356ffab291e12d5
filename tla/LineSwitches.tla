---------------------------- MODULE LineSwitches ----------------------------
(***************************************************************************)
(* Disabling findings by comments: DefaultLineSwitchParser and             *)
(* LineSwitchFilterFactory in                                              *)
(* packages/wotan/src/services/default/line-switches.ts. The comments of a *)
(* file are turned into disabled ranges per rule, findings are filtered by *)
(* these ranges, and afterwards comments that had no effect are reported   *)
(* with a fix that deletes them.                                           *)
(*                                                                         *)
(* The file has Lines lines of Width positions. A comment takes one        *)
(* position; names of rules are members of sets instead of text.           *)
(***************************************************************************)
EXTENDS Naturals, FiniteSets, Sequences, SequencesExt

CONSTANTS
    Lines, Width,  \* size of the file
    RuleNames,     \* the rules that are executed
    AllNames,      \* names in comments
    CommentLists,  \* the comments of a file, sorted by position
    FindingSets    \* what the rules report

ASSUME SizeAssumption == Lines \in Nat \ {0} /\ Width \in Nat \ {0}

(***************************************************************************)
(* rules is the list of predicates of a comment, each the set of names it  *)
(* matches; one that matches all names stands for a comment without names. *)
(***************************************************************************)
ASSUME CommentsAssumption ==
    \A cs \in CommentLists :
        /\ cs \in Seq([at : 0..Lines * Width - 1, kind : {"block", "line", "next"}, enable : BOOLEAN,
                       rules : Seq(SUBSET AllNames) \ {<<>>}])
        /\ \A c, d \in DOMAIN cs : c < d => cs[c].at < cs[d].at

ASSUME FindingsAssumption ==
    \A F \in FindingSets :
        /\ F \subseteq [rule : RuleNames, pos : 0..Lines * Width, end : 0..Lines * Width]
        /\ \A f \in F : f.pos <= f.end

VARIABLES
    comments,     \* the comments of the file
    findings,     \* findings of the rules that have not been filtered yet
    phase,        \* "parse", "filter" or "report"
    next,         \* index of the next comment
    disables,     \* for each rule the disabled ranges and the switch they come from
    switchState,  \* SwitchState of each predicate of each comment
    kept,         \* findings that pass the filter
    dropped       \* findings that are disabled

switchesVars == <<comments, findings, phase, next, disables, switchState, kept, dropped>>

SwitchState == {"NoMatch", "NoChange", "Redundant", "Unused", "Used"}

FileEnd == Lines * Width

Infinity == FileEnd + 2

-----------------------------------------------------------------------------
(* DefaultLineSwitchParser                                                 *)

LineStart(n) == n * Width

\* The end of a switch that affects line n: the last line needs none.
SwitchBack(n) == IF n + 1 = Lines THEN Infinity ELSE LineStart(n + 1)

\* What a comment switches; without a next line it is out of range.
RawSwitch(c) ==
    LET line == c.at \div Width IN
    CASE c.kind = "block" -> [pos |-> c.at, end |-> Infinity]
      [] c.kind = "line" -> [pos |-> LineStart(line), end |-> SwitchBack(line)]
      [] c.kind = "next" /\ line + 1 = Lines -> [pos |-> FileEnd + 1, end |-> Infinity]
      [] OTHER -> [pos |-> LineStart(line + 1), end |-> SwitchBack(line + 1)]

OutOfRange(c) == RawSwitch(c).pos > FileEnd

-----------------------------------------------------------------------------
(* LineSwitchFilterFactory.parseLineSwitches                               *)

Matching(c, n) == c.rules[n] \cap RuleNames

\* The rules the predicates before n already match
MatchedBefore(c, n) == UNION {Matching(c, m) : m \in 1..n - 1}

\* rulesToSwitch: the first predicate that matches the rule
PredicateFor(c, r) == CHOOSE n \in DOMAIN c.rules : r \in c.rules[n] /\ r \notin MatchedBefore(c, n)

Switches(c, r) == ~OutOfRange(c) /\ \E n \in DOMAIN c.rules : r \in c.rules[n]

\* Mutant: an enable comment has no effect.
SwitchNeverBack(ranges, c, by) ==
    LET raw == RawSwitch(c) IN
    IF c.enable \/ (ranges # <<>> /\ raw.pos < Last(ranges).end) THEN ranges
    ELSE Append(ranges, [pos |-> raw.pos, end |-> raw.end, by |-> by])

\* The disabled ranges of a rule after comment c: a range that is still open can be
\* closed, otherwise a new one starts unless it is nested inside the last one.
Switch(ranges, c, by) ==
    LET raw == RawSwitch(c)
        new == [pos |-> raw.pos, end |-> raw.end, by |-> by]
    IN  IF c.enable
        THEN IF ranges = <<>> \/ Last(ranges).end # Infinity THEN ranges
             ELSE Append(Front(ranges), [Last(ranges) EXCEPT !.end = raw.pos])
                    \o IF raw.end = Infinity THEN <<>>
                       ELSE <<[pos |-> raw.end, end |-> Infinity, by |-> by]>>
        ELSE IF ranges # <<>> /\ (Last(ranges).end = Infinity \/ raw.pos < Last(ranges).end)
             THEN ranges
             ELSE Append(ranges, new)

\* The ranges that disable a finding
Hits(ranges, f) == {k \in DOMAIN ranges : f.end > ranges[k].pos /\ f.pos < ranges[k].end}

-----------------------------------------------------------------------------
(* Actions                                                                 *)

SwitchesInit ==
    /\ comments \in CommentLists
    /\ findings \in FindingSets
    /\ phase = "parse"
    /\ next = 1
    /\ disables = [r \in RuleNames |-> <<>>]
    /\ switchState = [c \in DOMAIN comments |-> [n \in DOMAIN comments[c].rules |-> "NoMatch"]]
    /\ kept = {} /\ dropped = {}

ParseNext ==
    /\ phase = "parse" /\ next <= Len(comments)
    /\ LET comment == comments[next]
           after == [r \in RuleNames |->
                       IF Switches(comment, r) THEN Switch(disables[r], comment, <<next, PredicateFor(comment, r)>>)
                       ELSE disables[r]]
       IN  /\ disables' = after
           /\ switchState' = [switchState EXCEPT ![next] =
                 [n \in DOMAIN comment.rules |->
                    CASE OutOfRange(comment) \/ Matching(comment, n) = {} -> "NoMatch"
                      [] ~OutOfRange(comment) /\ Matching(comment, n) # {} /\ Matching(comment, n) \subseteq MatchedBefore(comment, n)
                           -> "Redundant"
                      [] OTHER -> IF \E r \in Matching(comment, n) \ MatchedBefore(comment, n) : after[r] # disables[r]
                                  THEN "Unused" ELSE "NoChange"]]
    /\ next' = next + 1
    /\ UNCHANGED <<comments, findings, phase, kept, dropped>>

Parsed ==
    /\ phase = "parse" /\ next > Len(comments)
    /\ phase' = "filter"
    /\ UNCHANGED <<comments, findings, next, disables, switchState, kept, dropped>>

Keep(f) ==
    /\ phase = "filter" /\ f \in findings
    /\ Hits(disables[f.rule], f) = {}
    /\ findings' = findings \ {f}
    /\ kept' = kept \union {f}
    /\ UNCHANGED <<comments, phase, next, disables, switchState, dropped>>

\* Mutant: it is not noted that the switch was of use.
DropQuietly(f) ==
    /\ phase = "filter" /\ f \in findings
    /\ Hits(disables[f.rule], f) # {}
    /\ findings' = findings \ {f}
    /\ dropped' = dropped \union {f}
    /\ UNCHANGED <<comments, phase, next, disables, switchState, kept>>

\* The first range that contains a part of the finding is used.
Drop(f) ==
    /\ phase = "filter" /\ f \in findings
    /\ LET hits == Hits(disables[f.rule], f)
           by == disables[f.rule][Min(hits)].by
       IN  /\ hits # {}
           /\ switchState' = [switchState EXCEPT ![by[1]][by[2]] = "Used"]
    /\ findings' = findings \ {f}
    /\ dropped' = dropped \union {f}
    /\ UNCHANGED <<comments, phase, next, disables, kept>>

Filtered ==
    /\ phase = "filter" /\ findings = {}
    /\ phase' = "report"
    /\ UNCHANGED <<comments, findings, next, disables, switchState, kept, dropped>>

SwitchesNext ==
    \/ ParseNext \/ Parsed
    \/ \E f \in findings : Keep(f)
    \/ \E f \in findings : Drop(f)
    \/ Filtered

SwitchesSpec == SwitchesInit /\ [][SwitchesNext]_switchesVars

-----------------------------------------------------------------------------
(* reportUseless                                                           *)

\* An enable switch only needs to change something.
HasEffect(c, n) == switchState[c][n] = "Used" \/ (comments[c].enable /\ switchState[c][n] = "Unused")

\* The whole comment is reported.
Useless(c) == OutOfRange(comments[c]) \/ \A n \in DOMAIN comments[c].rules : ~HasEffect(c, n)

\* A single rule of the comment is reported.
UselessRule(c, n) == ~Useless(c) /\ ~HasEffect(c, n) /\ comments[c].rules[n] # RuleNames

\* The comments that are left when all reported ones are deleted
Fixed ==
    LET indexed == [c \in DOMAIN comments |-> [index |-> c, comment |-> comments[c]]]
        useful == SelectSeq(indexed, LAMBDA x : ~Useless(x.index))
        rules(c) == SelectSeq([n \in DOMAIN comments[c].rules |-> [index |-> n, names |-> comments[c].rules[n]]],
                              LAMBDA x : ~UselessRule(c, x.index))
    IN  [k \in DOMAIN useful |->
            [useful[k].comment EXCEPT
                !.rules = [n \in DOMAIN rules(useful[k].index) |-> rules(useful[k].index)[n].names]]]

RangesFor(cs, r) ==
    FoldLeft(LAMBDA ranges, c : IF Switches(c, r) THEN Switch(ranges, c, <<0, 0>>) ELSE ranges, <<>>, cs)

-----------------------------------------------------------------------------
(* Properties                                                              *)

SwitchesTypeOK ==
    /\ phase \in {"parse", "filter", "report"}
    /\ next \in 1..Len(comments) + 1
    /\ \A r \in RuleNames : \A k \in DOMAIN disables[r] : LET x == disables[r][k] IN
         /\ x.pos \in 0..FileEnd /\ x.end \in 0..Infinity
         /\ x.by[1] \in DOMAIN comments /\ x.by[2] \in DOMAIN comments[x.by[1]].rules
    /\ \A c \in DOMAIN comments : switchState[c] \in [DOMAIN comments[c].rules -> SwitchState]
    /\ kept \cap dropped = {} /\ findings \cap (kept \union dropped) = {}

\* Ranges are in order and only the last one is open: the loops in filter and
\* parseLineSwitches look at the last or the first range only (lines 121, 167).
RangesInOrder ==
    \A r \in RuleNames : \A k \in DOMAIN disables[r] : k < Len(disables[r]) =>
        /\ disables[r][k].end # Infinity
        /\ disables[r][k].end <= disables[r][k + 1].pos

Covers(c, x) == RawSwitch(comments[c]).pos <= x /\ x < RawSwitch(comments[c]).end

ForLine(c) == comments[c].kind # "block"

\* A comment after c enables the rule at position x.
EnabledLater(c, r, x) ==
    \E e \in DOMAIN comments : e > c /\ comments[e].enable /\ Switches(comments[e], r) /\ Covers(e, x)

\* Comments in or about the same line: an earlier one begins or ends after the start of
\* what c disables, without covering all of it. The code may then ignore c or a part of
\* it (lines 121 and 128), for example disable after disable-line (see DisablesUntilEnabled).
Overtaken(c, r) ==
    \E d \in 1..c - 1 :
        LET new == RawSwitch(comments[c])
            old == RawSwitch(comments[d])
        IN  /\ Switches(comments[d], r)
            /\ IF comments[d].enable THEN new.pos < old.pos \/ (old.end # Infinity /\ new.pos < old.end)
               ELSE new.pos < old.end /\ ~(old.pos <= new.pos /\ new.end <= old.end)

\* Two comments enable the rule, and the later one begins before the other: enable-line
\* after enable changes nothing, after enable-next-line it takes back the earlier one.
OutOfOrder(e, r) ==
    \E d \in DOMAIN comments :
        LET one   == RawSwitch(comments[e])
            other == RawSwitch(comments[d])
        IN  /\ comments[d].enable /\ Switches(comments[d], r)
            /\ IF d < e THEN one.pos < other.pos ELSE other.pos < one.pos

EnabledAgain(c, r, x) ==
    \E e \in DOMAIN comments :
        e > c /\ comments[e].enable /\ Switches(comments[e], r) /\ Covers(e, x) /\ ~OutOfOrder(e, r)

\* No comment enables a rule in a single line (see UnusedIsUnneeded for what happens
\* if there is one).
EnablesBlocksOnly == \A c \in DOMAIN comments : comments[c].enable => ~ForLine(c)

InOneLine(f) == \A n \in 0..Lines - 1 : ~(f.pos < LineStart(n) /\ LineStart(n) < f.end)

\* A finding is dropped only if a comment disables one of its positions and no later
\* comment enables it again. A comment for a single line stays in effect on that line.
\* A finding in several lines can hit the empty range that is left where a line is
\* enabled after a comment in it has disabled the rest.
DropsOnlyDisabled ==
    \A f \in dropped : InOneLine(f) \/ EnablesBlocksOnly =>
        \E x \in {f.pos} \union (f.pos..f.end - 1) : \E c \in DOMAIN comments :
            /\ ~comments[c].enable /\ Switches(comments[c], f.rule) /\ Covers(c, x)
            /\ ForLine(c) \/ ~EnabledAgain(c, f.rule, x)

\* Every comment, also one that adds no range, disables all it covers, except for what later
\* comments enable, unless an earlier comment about the same line gets in its way.
DisablesWhatItCovers ==
    \A f \in kept : \A x \in f.pos..f.end - 1 : \A c \in DOMAIN comments :
        ~comments[c].enable /\ Switches(comments[c], f.rule) /\ Covers(c, x) /\ ~Overtaken(c, f.rule) =>
            EnabledLater(c, f.rule, x)

\* Findings are dropped where comments disable them and nowhere else, although the code looks at the
\* last or the first range only. DisablesWhatItCovers and DropsOnlyDisabled name the comments about
\* one line, and the findings in several lines, for which that is not so.
DisablesExactly == SwitchesTypeOK /\ RangesInOrder /\ DropsOnlyDisabled /\ DisablesWhatItCovers

\* "disables all rules from the start of the comment until the end of the file (or until it is
\* enabled again)" (packages/wotan/README.md:140)
DisablesUntilEnabled ==
    \A f \in kept : \A x \in f.pos..f.end - 1 : \A c \in DOMAIN comments :
        ~comments[c].enable /\ ~ForLine(c) /\ Switches(comments[c], f.rule) /\ Covers(c, x) =>
            EnabledLater(c, f.rule, x)

\* Every finding that was dropped is still dropped after all that is reported has
\* been deleted: nothing that is needed is reported.
StaysDropped == \A f \in dropped : Hits(RangesFor(Fixed, f.rule), f) # {}

DeletingUselessIsSafe == phase = "report" /\ EnablesBlocksOnly => StaysDropped

\* "comments that are redundant (i.e. rules are already disabled) or unused (there are
\* no findings for the specified rules)" are reported (packages/wotan/README.md:161).
UnusedIsUnneeded == phase = "report" => StaysDropped
=============================================================================
