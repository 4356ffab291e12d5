---------------------------- MODULE VueProcessor ----------------------------
(***************************************************************************)
(* The processor of Vue components (packages/ve/src/index.ts), used by the *)
(* loop of Linter.lintAndFix, and the ranges of changes (utils.ts).        *)
(*                                                                         *)
(* A component is a sequence of characters; a tag counts as one of them.   *)
(***************************************************************************)
EXTENDS Integers, Sequences, SequencesExt

CONSTANTS
    Components,     \* contents of .vue files
    Insertions,     \* texts that fixes insert
    MaxFixes        \* bound: fixes of one file

VARIABLES
    content,        \* of lintAndFix
    source, range,  \* of the processor
    text,           \* what TypeScript sees
    lastRange,      \* the range of the last change, in the text before and after it
    fixCount

vueVars == <<content, source, range, text, lastRange, fixCount>>

Scripts == {"<script>", "<script lang=ts>"}
Starts == Scripts \union {"<template>"}
Ends == {"</template>", "</script>"}

\* Positions count from 0, as in the code.
At(s, pos) == s[pos + 1]
Slice(s, from, to) == SubSeq(s, from + 1, to)
MinOf(x, y) == IF x < y THEN x ELSE y

\* In a script everything up to its end is text.
IsTag(s, i) ==
    /\ s[i] \in Starts \union Ends
    /\ s[i] # "</script>" => \A j \in 1..i - 1 : s[j] \in Scripts => \E k \in j + 1..i - 1 : s[k] = "</script>"

\* The number of elements that are open after the first n characters; void elements do not count.
Depth(s, n) ==
    Cardinality({i \in 1..n : IsTag(s, i) /\ s[i] \in Starts}) - Cardinality({i \in 1..n : IsTag(s, i) /\ s[i] \in Ends})

Opening(s) == {i \in 1..Len(s) : s[i] \in Scripts /\ IsTag(s, i) /\ Depth(s, i) = 1}
Closing(s) == {i \in 1..Len(s) : s[i] = "</script>" /\ IsTag(s, i) /\ Depth(s, i) = 0}

\* getSuffixForFile
Suffix(s) ==
    IF Opening(s) = {} THEN "" ELSE IF s[Max(Opening(s))] = "<script lang=ts>" THEN ".ts" ELSE ".js"

\* lastIndexOf("\n", from), 0 if there is none
LastBreak(s, from) == Max({0} \union {p \in 0..MinOf(from, Len(s) - 1) : At(s, p) = "lf"})

Breaks(s, to) == Cardinality({p \in 0..to - 1 : At(s, p) = "lf"})

\* The constructor. The line break after the tag, "\r\n" or "\n", does not belong to the script. Infinity,
\* the end of a script that is not closed, stands for the end of the file, with which it moves.
ScriptRange(s) ==
    LET tag   == IF Opening(s) = {} THEN 0 ELSE Max(Opening(s))
        after == Slice(s, tag, Len(s))
        skip  == IF IsPrefix(<<"cr", "lf">>, after) THEN 2 ELSE IF IsPrefix(<<"lf">>, after) THEN 1 ELSE 0
    IN  [start |-> tag + skip,
         end |-> IF Closing(s) = {} THEN Len(s) ELSE Max(Closing(s)) - 1,
         line |-> Breaks(s, tag + skip),
         firstLineOffset |-> IF skip = 0 THEN tag - LastBreak(s, tag) ELSE 0]

\* substring swaps its arguments if they are in the wrong order
Preprocess(s, r) == Slice(s, MinOf(r.start, r.end), IF r.end < r.start THEN r.start ELSE MinOf(r.end, Len(s)))

\* mapFinding and mapReplacement
AdjustPosition(r, p) ==
    [character |-> IF p.line = 0 THEN p.character + r.firstLineOffset ELSE p.character,
     line |-> p.line + r.line, position |-> p.position + r.start]
MapReplacement(r, replacement) ==
    [start |-> replacement.start + r.start, end |-> replacement.end + r.start, text |-> replacement.text]

\* If a script is closed, the last one is, and only once.
ScriptEnds(s) ==
    Opening(s) # {} /\ Closing(s) # {} =>
        /\ Max(Opening(s)) < Max(Closing(s))
        /\ \A j \in Max(Opening(s)) + 1..Max(Closing(s)) - 1 : s[j] # "</script>"

\* Fixes do not insert tags.
ASSUME ComponentsAssumption ==
    /\ Components \subseteq Seq(STRING)
    /\ \A s \in Components : ScriptEnds(s)
    /\ Insertions \subseteq Seq(STRING \ (Starts \union Ends))

-----------------------------------------------------------------------------
Change(start, length, newLength) == [start |-> start, length |-> length, newLength |-> newLength]

InvertChangeRange(c) == Change(c.start, c.newLength, c.length)

\* Mutant: the common end may overlap with the common start.
OverlappingChangeRange(original, changed) ==
    LET diff   == Len(changed) - Len(original)
        minEnd == MinOf(Len(original), Len(changed))
        start  == Max({n \in 0..minEnd : Slice(original, 0, n) = Slice(changed, 0, n)})
        ends   == {e \in Len(original) - minEnd..Len(original) :
                      Slice(original, e, Len(original)) = Slice(changed, e + diff, Len(changed))}
    IN  Change(start, Min(ends) - start, Min(ends) - start + diff)

\* calculateChangeRange: the end is not looked for if one text starts with the other
CalculateChangeRange(original, changed) ==
    LET diff     == Len(changed) - Len(original)
        minEnd   == MinOf(Len(original), Len(changed))
        start    == Max({n \in 0..minEnd : Slice(original, 0, n) = Slice(changed, 0, n)})
        maxStart == Len(original) - minEnd + start
        ends     == {e \in maxStart..Len(original) :
                        Slice(original, e, Len(original)) = Slice(changed, e + diff, Len(changed))}
        end      == IF start = minEnd THEN Len(original) ELSE Min(ends)
    IN  Change(start, end - start, end - start + diff)

-----------------------------------------------------------------------------
VueInit ==
    /\ content \in Components
    /\ source = content
    /\ range = ScriptRange(content)
    /\ text = Preprocess(content, range)
    /\ lastRange = Change(0, 0, 0)
    /\ fixCount = 0

\* applyFixes for one replacement
Applied(s, r) == Slice(s, 0, r.start) \o r.text \o Slice(s, r.end, Len(s))

\* Mutant: the end of the script stays where it was.
MovedEnd(r, newSource) == r

Moved(r, newSource) == [r EXCEPT !.end = @ + Len(newSource) - Len(source)]

\* processor.updateSource
UpdateSource(newSource, change) ==
    /\ source' = newSource
    /\ range' = Moved(range, newSource)
    /\ lastRange' = [change EXCEPT !.start = @ - range.start]

\* The fix of a finding in the text, mapped by postprocess, is applied to the content.
Fix(replacement) ==
    LET mapped == MapReplacement(range, replacement)
        fixed  == Applied(content, mapped)
    IN  /\ fixCount < MaxFixes
        /\ UpdateSource(fixed, Change(mapped.start, mapped.end - mapped.start, Len(mapped.text)))
        /\ content' = fixed
        /\ text' = Preprocess(fixed, range')
        /\ fixCount' = fixCount + 1

\* It causes a syntax error: two calls of updateSource, the text stays what it was.
FixFails(replacement) ==
    LET mapped == MapReplacement(range, replacement)
        fixed  == Applied(content, mapped)
        change == Change(mapped.start, mapped.end - mapped.start, Len(mapped.text))
        there  == Moved(range, fixed)
    IN  /\ fixCount < MaxFixes
        /\ source' = content
        /\ range' = [there EXCEPT !.end = @ + Len(content) - Len(fixed)]
        /\ lastRange' = [InvertChangeRange(change) EXCEPT !.start = @ - there.start]
        /\ fixCount' = MaxFixes
        /\ UNCHANGED <<content, text>>

Replacements ==
    {[start |-> s, end |-> e, text |-> t] : s \in 0..Len(text), e \in 0..Len(text), t \in Insertions}

\* A file without suffix is not linted.
VueNext == Suffix(content) # "" /\ \E r \in Replacements : r.start <= r.end /\ (Fix(r) \/ FixFails(r))

VueSpec == VueInit /\ [][VueNext]_vueVars

-----------------------------------------------------------------------------
(* Properties.                                                             *)

\* Line and character of a position
Location(s, p) ==
    LET breaks == {n \in 0..p - 1 : At(s, n) = "lf"}
    IN  [line |-> Cardinality(breaks), character |-> IF breaks = {} THEN p ELSE p - Max(breaks) - 1, position |-> p]

\* The script starts in the line of the tag, which is not the first line.
InLineOfTag == range.firstLineOffset # 0 /\ range.line # 0

\* Whatever was fixed or taken back: the text is the script in the content, and findings in the text are mapped
\* to the same line and position in the content, and to the same character, with one exception. If there is no line
\* break after the tag, and the tag is not in the first line of the file, characters in the line of the tag are one too
\* high: line 72 of packages/ve/src/index.ts subtracts the position of the line break before the tag, not that of the
\* start of the line, although the comment in line 119 claims to handle this line (see FirstLineFits). A new processor
\* for the fixed content would see the same script, apart from a line break that a fix put at its start. There is a
\* suffix if and only if there is a script.
ScriptMapsBack ==
    /\ source = content
    /\ text = Preprocess(content, range)
    /\ \A p \in 0..Len(text) :
          LET mapped == AdjustPosition(range, Location(text, p))
              there  == Location(content, mapped.position)
          IN  /\ mapped.line = there.line
              /\ mapped.character = there.character + IF InLineOfTag /\ Location(text, p).line = 0 THEN 1 ELSE 0
              /\ p < Len(text) => At(content, mapped.position) = At(text, p)
    /\ Preprocess(content, ScriptRange(content)) \in
          {text} \union {Slice(text, n, Len(text)) : n \in {n \in 1..2 : n <= Len(text) /\ At(text, n - 1) = "lf"}}
    /\ Suffix(content) = "" <=> Opening(content) = {}

\* What is outside of the range is the same before and after a change.
RangeCovers(change, before, after) ==
    /\ change.length >= 0 /\ change.newLength >= 0
    /\ Len(after) - Len(before) = change.newLength - change.length
    /\ Slice(before, 0, change.start) = Slice(after, 0, change.start)
    /\ Slice(before, change.start + change.length, Len(before)) = Slice(after, change.start + change.newLength, Len(after))

\* Fixes change nothing but the script, and the range that is given to the parser (updateSource, or
\* calculateChangeRange for processors that do not return one) covers what they change, also when they are taken back.
FixesStayInScript ==
    [][content' # content =>
           LET change == [lastRange' EXCEPT !.start = @ + range.start]
           IN  /\ RangeCovers(change, content, content')
               /\ RangeCovers(lastRange', text, text')
               /\ range.start <= change.start /\ change.start + change.length <= range.start + Len(text)
               /\ RangeCovers(CalculateChangeRange(text, text'), text, text')]_vueVars

\* "special handling for first line if there is no line break after opening tag" (packages/ve/src/index.ts:119):
\* line and character of a finding are those of its position.
FirstLineFits ==
    \A p \in 0..Len(text) :
        LET mapped == AdjustPosition(range, Location(text, p)) IN mapped = Location(content, mapped.position)
=============================================================================
