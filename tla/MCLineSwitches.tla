--------------------------- MODULE MCLineSwitches ---------------------------
(***************************************************************************)
(* Instances of LineSwitches for TLC: all lists of comments in a short     *)
(* file, and findings in some of its lines.                                *)
(***************************************************************************)
EXTENDS LineSwitches

CONSTANTS r, s, u   \* rules, u is unknown

Kinds == {"block", "line", "next"}

Comments(lines, kinds, predicates) ==
    [at : 0..lines * Width - 1, kind : kinds, enable : BOOLEAN, rules : predicates]

\* Lists of comments at different positions
Sorted(cs, n) == {l \in [1..n -> cs] : \A c \in 1..n - 1 : l[c].at < l[c + 1].at}

\* Up to two comments for one rule, three that do not only concern the next line
OneRule ==
    UNION {Sorted(Comments(Lines, Kinds, {<<{r}>>}), n) : n \in 0..2}
        \union Sorted(Comments(Lines, {"block", "line"}, {<<{r}>>}), 3)

\* Two comments for several rules, one of them unknown or twice, or for all
TwoRules ==
    Sorted(Comments(2, {"block", "next"}, {<<{s}, {r}>>, <<{s}, {u}, {s}>>, <<{r, s}>>}), 2)

MCCommentLists == OneRule \union TwoRules

Point(rule, x) == [rule |-> rule, pos |-> x, end |-> x + 1]

\* A finding from the end of the first line to the start of the second
Span == [rule |-> r, pos |-> Width - 1, end |-> Width + 1]

\* One between the positions of a line
Empty == [rule |-> r, pos |-> Width + 1, end |-> Width + 1]

\* Findings at the start of some lines or at the end of all
LineFindings ==
    {{Point(r, LineStart(n)) : n \in lines} : lines \in SUBSET (0..Lines - 1)}
        \union {{Point(r, LineStart(n) + Width - 1) : n \in 0..Lines - 1}}

\* or one that spans two lines or nothing, or findings of two rules
MCFindingSets == LineFindings \union {{Span}, {Empty}, {Point(r, Width), Point(s, Width)}}
=============================================================================
