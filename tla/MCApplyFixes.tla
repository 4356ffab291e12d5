---------------------------- MODULE MCApplyFixes ----------------------------
(***************************************************************************)
(* Instances of ApplyFixes for TLC: families of lists of fixes over a      *)
(* short text.                                                             *)
(***************************************************************************)
EXTENDS ApplyFixes

Ranges(n, maxLength) ==
    {r \in [start : 0..n, end : 0..n] : r.start <= r.end /\ r.end <= r.start + maxLength}

\* All fixes with at most the given number of replacements
Fixes(n, maxLength, maxParts) == UNION {[1..k -> Ranges(n, maxLength)] : k \in 1..maxParts}

\* Those that list their replacements by position and do not combine any.
Ordered(fs) == {f \in fs : \A k \in 1..Len(f) - 1 : f[k].end < f[k + 1].start}

\* Three fixes of one or two ranges
ThreeRanges == [1..3 -> Ordered(Fixes(3, 1, 2))]

\* Three fixes of up to three insertions, two that have more space
ThreeInsertions == [1..3 -> Ordered(Fixes(2, 0, 3))] \union [1..2 -> Ordered(Fixes(4, 0, 3))]

\* Four fixes of up to two insertions
FourInsertions == [1..4 -> Ordered(Fixes(3, 0, 2))]

\* A fix of up to three replacements in any order, touching and overlapping, and
\* another one
AnyOrder == {<<f, g>> : f \in Fixes(2, 2, 3), g \in Fixes(2, 1, 1)}

MCFixLists == ThreeRanges \union ThreeInsertions \union AnyOrder
=============================================================================
