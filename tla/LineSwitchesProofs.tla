------------------------- MODULE LineSwitchesProofs -------------------------
(***************************************************************************)
(* Findings are dropped where comments disable them and nowhere else, for  *)
(* files of any size, although parseLineSwitches only looks at the last    *)
(* range of a rule and filter stops at the first range that fits. What the *)
(* statements leave out by name: comments that an earlier one about the    *)
(* same line has Overtaken, comments OutOfOrder, and findings in several   *)
(* lines if a comment enables a single line.                               *)
(***************************************************************************)
EXTENDS LineSwitches, WellFoundedInduction, TLAPS

Comment == [at : 0..FileEnd - 1, kind : {"block", "line", "next"}, enable : BOOLEAN,
            rules : Seq(SUBSET AllNames) \ {<<>>}]

Finding == [rule : RuleNames, pos : 0..FileEnd, end : 0..FileEnd]

Disabled == [pos : 0..FileEnd, end : 0..Infinity, by : Nat \X Nat]

-----------------------------------------------------------------------------
(* Operators                                                               *)

\* The file is not empty, and nothing in it is at infinity.
LEMMA SizeOfFile == FileEnd \in Nat \ {0} /\ Infinity = FileEnd + 2
BY SizeAssumption DEF FileEnd, Infinity

\* Lines start in the file, and before the next one does.
LEMMA LinesInFile ==
    ASSUME NEW n \in 0..Lines - 1
    PROVE  /\ LineStart(n) \in 0..FileEnd /\ SwitchBack(n) \in 1..Infinity
           /\ LineStart(n) < SwitchBack(n)
           /\ SwitchBack(n) = Infinity \/ SwitchBack(n) <= FileEnd
           /\ SwitchBack(n) = Infinity <=> n + 1 = Lines
           /\ SwitchBack(n) # Infinity => SwitchBack(n) = LineStart(n + 1) /\ SwitchBack(n) = LineStart(n) + Width
<1>1. Lines \in Nat \ {0} /\ Width \in Nat \ {0} /\ n \in Nat /\ n + 1 <= Lines
  BY SizeAssumption
<1>2. ASSUME NEW i \in Nat, NEW j \in Nat, i <= j
      PROVE  i * Width <= j * Width /\ i * Width \in Nat /\ j * Width \in Nat
  BY <1>1, <1>2
<1>3. n * Width \in Nat /\ (n + 1) * Width = n * Width + Width
  BY <1>1
<1>4. n * Width <= FileEnd /\ (n + 1) * Width <= FileEnd
  BY <1>1, <1>2 DEF FileEnd
<1>5. QED
  BY <1>1, <1>3, <1>4, SizeOfFile DEF LineStart, SwitchBack

\* A comment is in one of the lines.
LEMMA LineOfComment ==
    ASSUME NEW at \in 0..FileEnd - 1
    PROVE  at \div Width \in 0..Lines - 1
<1>1. Lines \in Nat \ {0} /\ Width \in Nat \ {0} /\ at \in Nat /\ at < Lines * Width
  BY SizeAssumption DEF FileEnd
<1>2. at \div Width \in Nat /\ at = Width * (at \div Width) + (at % Width) /\ at % Width \in Nat
  BY <1>1
<1>3. ASSUME NEW q \in Nat, q >= Lines
      PROVE  Width * q >= Lines * Width
  BY <1>1, <1>3
<1>4. QED
  BY <1>1, <1>2, <1>3

\* Lines are in order.
LEMMA LinesInOrder ==
    ASSUME NEW m \in Nat, NEW n \in Nat
    PROVE  /\ m <= n <=> LineStart(m) <= LineStart(n)
           /\ LineStart(m) \in Nat
<1>1. Width \in Nat \ {0}
  BY SizeAssumption
<1>2. ASSUME NEW i \in Nat, NEW j \in Nat, i <= j
      PROVE  i * Width <= j * Width
  BY <1>1, <1>2
<1>3. ASSUME NEW i \in Nat, NEW j \in Nat, i < j
      PROVE  i * Width < j * Width
  <2>1. (i + 1) * Width <= j * Width /\ (i + 1) * Width = i * Width + Width
    BY <1>1, <1>2, <1>3
  <2>2. QED
    BY <1>1, <2>1
<1>4. m * Width \in Nat /\ n * Width \in Nat
  BY <1>1
<1>5. m <= n => m * Width <= n * Width
  BY <1>2
<1>6. n < m => n * Width < m * Width
  BY <1>3
<1>7. QED
  BY <1>4, <1>5, <1>6 DEF LineStart

\* A comment for a line switches its own one or the next.
LEMMA SwitchOfLine ==
    ASSUME NEW c \in Comment, ~OutOfRange(c), c.kind # "block"
    PROVE  \E n \in 0..Lines - 1 :
             /\ RawSwitch(c) = [pos |-> LineStart(n), end |-> SwitchBack(n)]
             /\ n = c.at \div Width \/ n = (c.at \div Width) + 1
<1> DEFINE line == c.at \div Width
<1>1. line \in 0..Lines - 1
  BY LineOfComment DEF Comment
<1>2. c.kind \in {"line", "next"} /\ c.at \in 0..FileEnd - 1
  BY DEF Comment
<1>3. CASE c.kind = "line"
  <2>1. RawSwitch(c) = [pos |-> LineStart(line), end |-> SwitchBack(line)]
    BY <1>3 DEF RawSwitch
  <2>2. QED
    BY <1>1, <2>1
<1>4. CASE c.kind = "next" /\ line + 1 # Lines
  <2>1. RawSwitch(c) = [pos |-> LineStart(line + 1), end |-> SwitchBack(line + 1)]
    BY <1>4 DEF RawSwitch
  <2>2. line + 1 \in 0..Lines - 1
    BY <1>1, <1>4, SizeAssumption
  <2>3. QED
    BY <2>1, <2>2
<1>5. CASE c.kind = "next" /\ line + 1 = Lines
  <2>1. RawSwitch(c) = [pos |-> FileEnd + 1, end |-> Infinity]
    BY <1>5 DEF RawSwitch
  <2>2. QED
    BY <2>1, SizeOfFile DEF OutOfRange
<1>6. QED
  BY <1>2, <1>3, <1>4, <1>5

\* What a comment switches is not empty. A comment that is not for a line switches everything after it.
LEMMA SwitchInFile ==
    ASSUME NEW c \in Comment, ~OutOfRange(c)
    PROVE  /\ RawSwitch(c).pos \in 0..FileEnd /\ RawSwitch(c).end \in 1..Infinity
           /\ RawSwitch(c).pos < RawSwitch(c).end
           /\ RawSwitch(c).end = Infinity \/ RawSwitch(c).end <= FileEnd
           /\ c.kind = "block" => RawSwitch(c) = [pos |-> c.at, end |-> Infinity]
<1> DEFINE line == c.at \div Width
<1>1. line \in 0..Lines - 1
  BY LineOfComment DEF Comment
<1>2. c.kind \in {"block", "line", "next"} /\ c.at \in 0..FileEnd - 1
  BY DEF Comment
<1>3. CASE c.kind = "block"
  <2>1. RawSwitch(c) = [pos |-> c.at, end |-> Infinity]
    BY <1>3 DEF RawSwitch
  <2>2. QED
    BY <1>2, <2>1, SizeOfFile
<1>4. CASE c.kind = "line"
  <2>1. RawSwitch(c) = [pos |-> LineStart(line), end |-> SwitchBack(line)]
    BY <1>4 DEF RawSwitch
  <2>2. QED
    BY <1>1, <1>4, <2>1, LinesInFile, SizeOfFile
<1>5. CASE c.kind = "next" /\ line + 1 # Lines
  <2>1. RawSwitch(c) = [pos |-> LineStart(line + 1), end |-> SwitchBack(line + 1)]
    BY <1>5 DEF RawSwitch
  <2>2. line + 1 \in 0..Lines - 1
    BY <1>1, <1>5, SizeAssumption
  <2>3. QED
    BY <1>5, <2>1, <2>2, LinesInFile, SizeOfFile
<1>6. CASE c.kind = "next" /\ line + 1 = Lines
  <2>1. RawSwitch(c) = [pos |-> FileEnd + 1, end |-> Infinity]
    BY <1>6 DEF RawSwitch
  <2>2. QED
    BY <2>1, SizeOfFile DEF OutOfRange
<1>7. QED
  BY <1>2, <1>3, <1>4, <1>5, <1>6

\* Where lines start, comments for a line start and end.
LEMMA SwitchOnLines ==
    ASSUME NEW c \in Comment, ~OutOfRange(c)
    PROVE  /\ c.kind # "block" => \E n \in 0..Lines - 1 : RawSwitch(c).pos = LineStart(n)
           /\ RawSwitch(c).end # Infinity =>
                /\ c.kind # "block" /\ RawSwitch(c).end = RawSwitch(c).pos + Width
                /\ \E n \in 0..Lines - 1 : RawSwitch(c).end = LineStart(n)
<1>1. CASE c.kind = "block"
  BY <1>1, SwitchInFile
<1>2. CASE c.kind # "block"
  <2>1. PICK n \in 0..Lines - 1 : RawSwitch(c) = [pos |-> LineStart(n), end |-> SwitchBack(n)]
    BY <1>2, SwitchOfLine
  <2>2. RawSwitch(c).pos = LineStart(n) /\ RawSwitch(c).end = SwitchBack(n)
    BY <2>1
  <2>3. SwitchBack(n) # Infinity =>
          n + 1 \in 0..Lines - 1 /\ SwitchBack(n) = LineStart(n + 1) /\ SwitchBack(n) = LineStart(n) + Width
    BY LinesInFile, SizeAssumption
  <2>4. QED
    BY <1>2, <2>2, <2>3
<1>3. QED
  BY <1>1, <1>2

\* A comment that switches everything after it starts before the lines of later comments end.
LEMMA SwitchBeforeLine ==
    ASSUME NEW b \in Comment, NEW e \in Comment, ~OutOfRange(b), ~OutOfRange(e), b.at < e.at,
           RawSwitch(b).end = Infinity, RawSwitch(e).end # Infinity
    PROVE  RawSwitch(b).pos <= RawSwitch(e).end
<1>1. Lines \in Nat \ {0} /\ Width \in Nat \ {0} /\ b.at \in Nat /\ e.at \in Nat
  BY SizeAssumption, SizeOfFile DEF Comment
<1>2. PICK n \in 0..Lines - 1 :
         /\ RawSwitch(e) = [pos |-> LineStart(n), end |-> SwitchBack(n)]
         /\ n = e.at \div Width \/ n = (e.at \div Width) + 1
  BY SwitchOnLines, SwitchOfLine
<1>3. RawSwitch(e).end = LineStart(n + 1)
  <2>1. RawSwitch(e).end = SwitchBack(n)
    BY <1>2
  <2>2. QED
    BY <2>1, LinesInFile
<1>4. ASSUME NEW at \in Nat
      PROVE  /\ at \div Width \in Nat /\ at = Width * (at \div Width) + (at % Width)
             /\ at % Width \in 0..Width - 1
  BY <1>1
<1>5. /\ b.at \div Width \in Nat /\ b.at = Width * (b.at \div Width) + (b.at % Width)
      /\ b.at % Width \in 0..Width - 1
  BY <1>1, <1>4
<1>6. /\ e.at \div Width \in Nat /\ e.at = Width * (e.at \div Width) + (e.at % Width)
      /\ e.at % Width \in 0..Width - 1
  BY <1>1, <1>4
<1> DEFINE from == b.at \div Width
           to == e.at \div Width
<1> HIDE DEF from, to
<1>7. Width * from = LineStart(from) /\ Width * to = LineStart(to) /\ LineStart(to + 1) = LineStart(to) + Width
  <2>1. from \in Nat /\ to \in Nat
    BY <1>5, <1>6 DEF from, to
  <2>2. QED
    BY <1>1, <2>1 DEF LineStart
<1>8. LineStart(from) <= b.at /\ e.at < LineStart(to + 1)
  <2>1. LineStart(from) \in Nat /\ LineStart(to) \in Nat
    BY <1>5, <1>6, LinesInOrder DEF from, to
  <2>2. b.at = LineStart(from) + (b.at % Width) /\ e.at = LineStart(to) + (e.at % Width)
    BY <1>5, <1>6, <1>7 DEF from, to
  <2>3. b.at % Width \in Nat /\ e.at % Width \in Nat /\ e.at % Width < Width
    BY <1>1, <1>5, <1>6
  <2> DEFINE one == b.at % Width
             other == e.at % Width
  <2> HIDE DEF one, other
  <2>4. LineStart(from) <= b.at
    BY <1>1, <2>1, <2>2, <2>3 DEF one
  <2>5. e.at < LineStart(to + 1)
    BY <1>1, <1>7, <2>1, <2>2, <2>3 DEF other
  <2>6. QED
    BY <2>4, <2>5
<1>9. from \in Nat /\ to \in Nat /\ n \in Nat /\ to <= n
  BY <1>2, <1>5, <1>6 DEF from, to
<1>10. LineStart(to + 1) <= LineStart(n + 1) /\ LineStart(to + 1) \in Nat /\ LineStart(n + 1) \in Nat
  BY <1>9, LinesInOrder
<1>11. CASE b.kind = "block"
  <2>1. RawSwitch(b).pos = b.at
    BY <1>11, SwitchInFile
  <2>2. QED
    BY <1>1, <1>3, <1>8, <1>10, <2>1
<1>12. CASE b.kind # "block"
  <2>1. PICK m \in 0..Lines - 1 :
           /\ RawSwitch(b) = [pos |-> LineStart(m), end |-> SwitchBack(m)]
           /\ m = from \/ m = from + 1
    BY <1>12, SwitchOfLine DEF from
  <2>2. LineStart(from) < LineStart(to + 1) /\ LineStart(from) \in Nat
    BY <1>1, <1>8, <1>9, <1>10, LinesInOrder
  <2>3. ~(to + 1 <= from)
    BY <1>9, <1>10, <2>2, LinesInOrder
  <2>4. m <= n + 1 /\ m \in Nat /\ n + 1 \in Nat
    BY <1>9, <2>1, <2>3
  <2>5. LineStart(m) <= LineStart(n + 1)
    BY <2>4, LinesInOrder
  <2>6. RawSwitch(b).pos = LineStart(m)
    BY <2>1
  <2>7. QED
    BY <1>3, <2>5, <2>6
<1>13. QED
  BY <1>11, <1>12

\* A set of natural numbers has a least element.
LEMMA Least ==
    ASSUME NEW T \in SUBSET Nat, T # {}
    PROVE  \E x \in T : \A y \in T : x <= y
<1> DEFINE R == {ss \in Nat \X Nat : ss[1] < ss[2]}
<1>1. IsWellFoundedOn(R, Nat)
  BY NatLessThanWellFounded DEF OpToRel
<1>2. PICK x \in T : \A y \in T : <<y, x>> \notin R
  BY <1>1, WFMin
<1>3. \A y \in T : <<y, x>> \in Nat \X Nat /\ <<y, x>>[1] = y /\ <<y, x>>[2] = x
  BY <1>2
<1>4. \A y \in T : ~(y < x)
  BY <1>2, <1>3
<1>5. QED
  BY <1>2, <1>4

\* Rules that are switched are matched by a predicate of the comment.
LEMMA PredicateOfComment ==
    ASSUME NEW c \in Comment, NEW r \in RuleNames, Switches(c, r)
    PROVE  PredicateFor(c, r) \in DOMAIN c.rules /\ PredicateFor(c, r) \in Nat
<1> DEFINE matching == {n \in DOMAIN c.rules : r \in c.rules[n]}
<1>1. DOMAIN c.rules = 1..Len(c.rules) /\ Len(c.rules) \in Nat
  BY DEF Comment
<1>2. matching \in SUBSET Nat /\ matching # {}
  BY <1>1 DEF Switches
<1>3. PICK n \in matching : \A m \in matching : n <= m
  <2> HIDE DEF matching
  <2> QED
    BY <1>2, Least
<1>4. r \notin MatchedBefore(c, n)
  <2>1. ASSUME NEW m \in 1..n - 1
        PROVE  r \notin Matching(c, m)
    <3>1. m \in DOMAIN c.rules /\ ~(n <= m)
      BY <1>1, <1>3, <2>1
    <3>2. m \notin matching
      BY <1>3, <3>1
    <3>3. QED
      BY <3>1, <3>2 DEF Matching
  <2>2. QED
    BY <2>1 DEF MatchedBefore
<1>5. \E m \in DOMAIN c.rules : r \in c.rules[m] /\ r \notin MatchedBefore(c, m)
  BY <1>3, <1>4
<1>6. QED
  BY <1>1, <1>5 DEF PredicateFor

-----------------------------------------------------------------------------
(* What a comment changes about the ranges                                 *)

\* A comment that enables nothing, or disables what is part of the last range
Ignored(ranges, c) == IF c.enable THEN ranges = <<>> \/ Last(ranges).end # Infinity
                      ELSE ranges # <<>> /\ (Last(ranges).end = Infinity \/ RawSwitch(c).pos < Last(ranges).end)

\* A comment that disables adds a range after the last one.
LEMMA SwitchAdds ==
    ASSUME NEW c \in Comment, ~OutOfRange(c), NEW ranges \in Seq(Disabled), NEW by \in Nat \X Nat,
           ~c.enable, ~Ignored(ranges, c)
    PROVE  LET after == Switch(ranges, c, by) IN
           /\ after \in Seq(Disabled)
           /\ Len(after) = Len(ranges) + 1
           /\ \A k \in 1..Len(ranges) : after[k] = ranges[k]
           /\ after[Len(ranges) + 1] = [pos |-> RawSwitch(c).pos, end |-> RawSwitch(c).end, by |-> by]
           /\ ranges # <<>> => ranges[Len(ranges)].end # Infinity /\ ranges[Len(ranges)].end <= RawSwitch(c).pos
<1> DEFINE new == [pos |-> RawSwitch(c).pos, end |-> RawSwitch(c).end, by |-> by]
<1>1. Switch(ranges, c, by) = Append(ranges, new)
  BY DEF Switch, Ignored
<1>2. new \in Disabled
  BY SwitchInFile, SizeOfFile DEF Disabled
<1>3. ranges # <<>> => ranges[Len(ranges)] \in Disabled
  OBVIOUS
<1>4. ranges # <<>> => ranges[Len(ranges)].end # Infinity /\ ranges[Len(ranges)].end <= RawSwitch(c).pos
  BY <1>3, SwitchInFile, SizeOfFile DEF Ignored, Last, Disabled
<1> HIDE DEF new
<1>5. QED
  BY <1>1, <1>2, <1>4 DEF new

\* A comment that enables closes the last range, and opens one after its line.
LEMMA SwitchCloses ==
    ASSUME NEW c \in Comment, ~OutOfRange(c), NEW ranges \in Seq(Disabled), NEW by \in Nat \X Nat,
           c.enable, ~Ignored(ranges, c)
    PROVE  LET after == Switch(ranges, c, by)
               last  == Len(ranges)
           IN  /\ after \in Seq(Disabled) /\ last \in Nat \ {0}
               /\ ranges[last].end = Infinity
               /\ \A k \in 1..last - 1 : after[k] = ranges[k]
               /\ after[last] = [ranges[last] EXCEPT !.end = RawSwitch(c).pos]
               /\ RawSwitch(c).end = Infinity => Len(after) = last
               /\ RawSwitch(c).end # Infinity =>
                    /\ Len(after) = last + 1
                    /\ after[last + 1] = [pos |-> RawSwitch(c).end, end |-> Infinity, by |-> by]
<1> DEFINE last   == Len(ranges)
           raw    == RawSwitch(c)
           closed == [ranges[last] EXCEPT !.end = raw.pos]
           new    == [pos |-> raw.end, end |-> Infinity, by |-> by]
           front  == Front(ranges)
<1>1. ranges # <<>> /\ last \in Nat \ {0} /\ ranges[last] \in Disabled /\ ranges[last].end = Infinity
  BY DEF Ignored, Last
<1>2. closed \in Disabled
  <2>1. raw.pos \in 0..Infinity
    BY SwitchInFile, SizeOfFile
  <2> HIDE DEF raw
  <2>2. QED
    BY <1>1, <2>1 DEF Disabled
<1>3. raw.end # Infinity => new \in Disabled
  BY SwitchInFile, SizeOfFile DEF Disabled
<1>4. Switch(ranges, c, by) = Append(front, closed) \o IF raw.end = Infinity THEN <<>> ELSE <<new>>
  BY <1>1 DEF Switch, Ignored, Last
<1>5. front \in Seq(Disabled) /\ Len(front) = last - 1 /\ \A k \in 1..last - 1 : front[k] = ranges[k]
  <2>1. front = SubSeq(ranges, 1, last - 1)
    BY DEF Front
  <2>2. front = [k \in 1..last - 1 |-> ranges[k]]
    BY <1>1, <2>1
  <2>3. \A k \in 1..last - 1 : ranges[k] \in Disabled
    BY <1>1
  <2> HIDE DEF front, last
  <2>4. QED
    BY <1>1, <2>2, <2>3
<1> HIDE DEF closed, new, front, last, raw
<1> DEFINE shut == Append(front, closed)
<1>6. /\ shut \in Seq(Disabled) /\ Len(shut) = last /\ shut[last] = closed
      /\ \A k \in 1..last - 1 : shut[k] = ranges[k]
  BY <1>1, <1>2, <1>5
<1>7. Switch(ranges, c, by) = IF raw.end = Infinity THEN shut ELSE Append(shut, new)
  <2>1. shut \o <<>> = shut /\ shut \o <<new>> = Append(shut, new)
    BY <1>6
  <2>2. QED
    BY <1>4, <2>1
<1> HIDE DEF shut
<1>8. CASE raw.end = Infinity
  BY <1>1, <1>6, <1>7, <1>8 DEF last, closed, raw
<1>9. CASE raw.end # Infinity
  <2>1. /\ Append(shut, new) \in Seq(Disabled) /\ Len(Append(shut, new)) = last + 1
        /\ Append(shut, new)[last + 1] = new
        /\ \A k \in 1..last : Append(shut, new)[k] = shut[k]
    BY <1>1, <1>3, <1>6, <1>9
  <2>2. QED
    BY <1>1, <1>6, <1>7, <1>9, <2>1 DEF last, closed, raw, new
<1>10. QED
  BY <1>8, <1>9

\* All other comments change nothing.
LEMMA SwitchIgnores ==
    ASSUME NEW c \in Comment, NEW ranges \in Seq(Disabled), NEW by, Ignored(ranges, c)
    PROVE  Switch(ranges, c, by) = ranges
BY DEF Switch, Ignored

-----------------------------------------------------------------------------
(* The invariant                                                           *)

\* The ranges of a rule come from comments before n that switch it.
RangesTyped(ranges, r, n) ==
    /\ ranges \in Seq(Disabled)
    /\ \A k \in DOMAIN ranges : LET by == ranges[k].by IN
         /\ by[1] \in DOMAIN comments /\ by[1] < n
         /\ by[2] \in DOMAIN comments[by[1]].rules
         /\ Switches(comments[by[1]], r)

RangesOrdered(ranges) ==
    \A k \in DOMAIN ranges : k < Len(ranges) => ranges[k].end # Infinity /\ ranges[k].end <= ranges[k + 1].pos

\* Comment e enables rule r.
Enables(e, r) == comments[e].enable /\ Switches(comments[e], r)

\* Comment b disables what is between pos and end. Later comments that enable the rule begin
\* after the range, unless b is for a line or they are out of order.
Reason(b, pos, end, r, n) ==
    /\ b < n /\ ~comments[b].enable /\ Switches(comments[b], r)
    /\ RawSwitch(comments[b]).pos <= pos /\ end <= RawSwitch(comments[b]).end
    /\ EnablesBlocksOnly => pos = RawSwitch(comments[b]).pos /\ (~ForLine(b) => pos < end)
    /\ ~ForLine(b) =>
         /\ end # Infinity => \E e \in DOMAIN comments :
              e < n /\ Enables(e, r) /\ end = RawSwitch(comments[e]).pos
         /\ \A e \in DOMAIN comments : b < e /\ e < n /\ Enables(e, r) /\ ~OutOfOrder(e, r) =>
              \A y \in 0..FileEnd : pos <= y /\ y < end => ~Covers(e, y)

\* A range that is closed before it starts is so because of a line.
OnLine(pos, end) == end <= pos => \E n \in 0..Lines - 1 : end <= LineStart(n) /\ LineStart(n) <= pos

RangesMeant(ranges, r, n) ==
    \A k \in DOMAIN ranges :
        /\ \E b \in DOMAIN comments : Reason(b, ranges[k].pos, ranges[k].end, r, n)
        /\ OnLine(ranges[k].pos, ranges[k].end)

\* The last range starts or ends where a comment says so.
LastFrom(pos, end, r, n) ==
    \E d \in DOMAIN comments :
        LET raw == RawSwitch(comments[d]) IN
        /\ d < n /\ Switches(comments[d], r)
        /\ \/ ~comments[d].enable /\ pos = raw.pos /\ end = raw.end
           \/ comments[d].enable /\ raw.end # Infinity /\ pos = raw.end /\ end = Infinity
           \/ comments[d].enable /\ end = raw.pos

RangesLast(ranges, r, n) ==
    ranges # <<>> => LastFrom(ranges[Len(ranges)].pos, ranges[Len(ranges)].end, r, n)

InRange(ranges, x) == \E j \in DOMAIN ranges : ranges[j].pos <= x /\ x < ranges[j].end

\* What a comment covers is disabled, or enabled by a later one, unless an earlier one is in the way.
RangesCover(ranges, r, n) ==
    \A m \in DOMAIN comments :
        m < n /\ ~comments[m].enable /\ Switches(comments[m], r) /\ ~Overtaken(m, r) =>
            \A x \in 0..FileEnd : Covers(m, x) =>
                \/ InRange(ranges, x)
                \/ \E e \in DOMAIN comments : m < e /\ e < n /\ Enables(e, r) /\ Covers(e, x)

RangesTrue(ranges, r, n) ==
    /\ RangesTyped(ranges, r, n) /\ RangesOrdered(ranges) /\ RangesMeant(ranges, r, n)
    /\ RangesLast(ranges, r, n) /\ RangesCover(ranges, r, n)

Types ==
    /\ comments \in CommentLists
    /\ \A f \in findings \union kept \union dropped : f \in Finding /\ f.pos <= f.end
    /\ phase \in {"parse", "filter", "report"}
    /\ next \in 1..Len(comments) + 1
    /\ phase # "parse" => next = Len(comments) + 1
    /\ phase = "parse" => kept = {} /\ dropped = {}
    /\ DOMAIN disables = RuleNames
    /\ DOMAIN switchState = DOMAIN comments
    /\ \A c \in DOMAIN comments : switchState[c] \in [DOMAIN comments[c].rules -> SwitchState]
    /\ kept \cap dropped = {} /\ findings \cap (kept \union dropped) = {}

FilterTrue ==
    /\ \A f \in kept : Hits(disables[f.rule], f) = {}
    /\ \A f \in dropped : Hits(disables[f.rule], f) # {}

SwitchesInv == Types /\ (\A r \in RuleNames : RangesTrue(disables[r], r, next)) /\ FilterTrue

-----------------------------------------------------------------------------
(* Comments                                                                *)

\* The comments of a file are in the file, one after the other.
LEMMA CommentsOfFile ==
    ASSUME comments \in CommentLists
    PROVE  /\ Len(comments) \in Nat /\ DOMAIN comments = 1..Len(comments)
           /\ \A c \in DOMAIN comments : comments[c] \in Comment /\ c \in Nat
           /\ \A c, d \in DOMAIN comments : c < d => comments[c].at < comments[d].at
<1>1. comments \in Seq(Comment) /\ \A c, d \in DOMAIN comments : c < d => comments[c].at < comments[d].at
  BY CommentsAssumption DEF Comment, FileEnd
<1>2. QED
  BY <1>1

\* What a comment that switches a rule covers
LEMMA SwitchingComment ==
    ASSUME comments \in CommentLists, NEW c \in DOMAIN comments, NEW r, Switches(comments[c], r)
    PROVE  LET raw == RawSwitch(comments[c]) IN
           /\ c \in Nat /\ comments[c] \in Comment /\ ~OutOfRange(comments[c])
           /\ raw.pos \in 0..FileEnd /\ raw.end \in 1..Infinity /\ raw.pos < raw.end
           /\ raw.end = Infinity \/ raw.end <= FileEnd
           /\ ~ForLine(c) => raw.pos = comments[c].at /\ raw.end = Infinity
           /\ ForLine(c) => \E n \in 0..Lines - 1 : raw.pos = LineStart(n)
           /\ raw.end # Infinity =>
                ForLine(c) /\ raw.end = raw.pos + Width /\ \E n \in 0..Lines - 1 : raw.end = LineStart(n)
<1>1. comments[c] \in Comment /\ ~OutOfRange(comments[c]) /\ c \in Nat
  BY CommentsOfFile DEF Switches
<1>2. ~ForLine(c) => RawSwitch(comments[c]) = [pos |-> comments[c].at, end |-> Infinity]
  BY <1>1, SwitchInFile DEF ForLine
<1>3. ~ForLine(c) => RawSwitch(comments[c]).pos = comments[c].at /\ RawSwitch(comments[c]).end = Infinity
  BY <1>2
<1>4. QED
  BY <1>1, <1>3, SwitchInFile, SwitchOnLines DEF ForLine

\* A range that is closed, or that no comment enables, keeps its reason.
LEMMA ReasonStays ==
    ASSUME comments \in CommentLists, NEW r, NEW n \in DOMAIN comments, NEW b \in DOMAIN comments,
           NEW pos \in 0..FileEnd, NEW end \in 0..Infinity, Reason(b, pos, end, r, n),
           Enables(n, r) => end # Infinity
    PROVE  Reason(b, pos, end, r, n + 1)
<1>1. n \in Nat /\ b \in Nat /\ \A e \in DOMAIN comments : e \in Nat
  BY CommentsOfFile
<1>2. ASSUME ~ForLine(b), NEW e \in DOMAIN comments, b < e, e < n + 1, Enables(e, r), ~OutOfOrder(e, r),
             NEW y \in 0..FileEnd, pos <= y, y < end
      PROVE  ~Covers(e, y)
  <2>1. CASE e < n
    BY <1>2, <2>1 DEF Reason
  <2>2. CASE e = n
    <3>1. end # Infinity
      BY <1>2, <2>2
    <3>2. PICK d \in DOMAIN comments : d < n /\ Enables(d, r) /\ end = RawSwitch(comments[d]).pos
      BY <1>2, <3>1 DEF Reason
    <3>3. ~(RawSwitch(comments[n]).pos < RawSwitch(comments[d]).pos)
      BY <1>2, <2>2, <3>2 DEF OutOfOrder, Enables
    <3>4. RawSwitch(comments[n]).pos \in Nat
      BY <1>2, <2>2, SwitchingComment, SizeOfFile DEF Enables
    <3>5. y < RawSwitch(comments[n]).pos
      BY <1>2, <3>2, <3>3, <3>4, SizeOfFile
    <3>6. QED
      BY <2>2, <3>4, <3>5, SizeOfFile DEF Covers
  <2>3. QED
    BY <1>1, <1>2, <2>1, <2>2
<1>3. ASSUME ~ForLine(b), end # Infinity
      PROVE  \E e \in DOMAIN comments : e < n + 1 /\ Enables(e, r) /\ end = RawSwitch(comments[e]).pos
  BY <1>1, <1>3 DEF Reason
<1>4. QED
  BY <1>1, <1>2, <1>3 DEF Reason

\* Comment n closes an open range,
LEMMA ReasonClosed ==
    ASSUME comments \in CommentLists, NEW r, NEW n \in DOMAIN comments, NEW b \in DOMAIN comments,
           NEW pos \in 0..FileEnd, Reason(b, pos, Infinity, r, n), Enables(n, r)
    PROVE  Reason(b, pos, RawSwitch(comments[n]).pos, r, n + 1)
<1> DEFINE end == RawSwitch(comments[n]).pos
<1>1. n \in Nat /\ b \in Nat /\ b < n /\ \A e \in DOMAIN comments : e \in Nat
  BY CommentsOfFile DEF Reason
<1>2. end \in 0..FileEnd /\ FileEnd \in Nat /\ Infinity = FileEnd + 2
  BY SwitchingComment, SizeOfFile DEF Enables
<1>3. Switches(comments[b], r) /\ RawSwitch(comments[b]).end \in Nat /\ RawSwitch(comments[b]).pos <= pos
      /\ Infinity <= RawSwitch(comments[b]).end
  BY SwitchingComment, SizeOfFile DEF Reason
<1>4. ASSUME EnablesBlocksOnly, ~ForLine(b)
      PROVE  pos < end
  <2>1. end = comments[n].at
    BY <1>4, SwitchingComment DEF EnablesBlocksOnly, Enables
  <2>2. pos = comments[b].at
    BY <1>3, <1>4, SwitchingComment DEF Reason
  <2>3. QED
    BY <1>1, <2>1, <2>2, CommentsOfFile
<1>5. ASSUME ~ForLine(b), NEW e \in DOMAIN comments, b < e, e < n + 1, Enables(e, r), ~OutOfOrder(e, r),
             NEW y \in 0..FileEnd, pos <= y, y < end
      PROVE  ~Covers(e, y)
  <2>1. CASE e < n
    <3>1. y < Infinity
      BY <1>2
    <3>2. QED
      BY <1>5, <2>1, <3>1 DEF Reason
  <2>2. CASE e = n
    BY <1>2, <1>5, <2>2 DEF Covers
  <2>3. QED
    BY <1>1, <1>5, <2>1, <2>2
<1>6. end <= RawSwitch(comments[b]).end
  BY <1>2, <1>3
<1>7. \E e \in DOMAIN comments : e < n + 1 /\ Enables(e, r) /\ end = RawSwitch(comments[e]).pos
  BY <1>1
<1>8. /\ b < n + 1 /\ ~comments[b].enable
      /\ EnablesBlocksOnly => pos = RawSwitch(comments[b]).pos
  BY <1>1 DEF Reason
<1> HIDE DEF end
<1>9. Reason(b, pos, end, r, n + 1)
  BY <1>3, <1>4, <1>5, <1>6, <1>7, <1>8 DEF Reason
<1>10. QED
  BY <1>9 DEF end

\* and opens one after its line.
LEMMA ReasonReopened ==
    ASSUME comments \in CommentLists, NEW r, NEW n \in DOMAIN comments, NEW b \in DOMAIN comments,
           NEW pos \in 0..FileEnd, Reason(b, pos, Infinity, r, n), Enables(n, r), RawSwitch(comments[n]).end # Infinity
    PROVE  Reason(b, RawSwitch(comments[n]).end, Infinity, r, n + 1)
<1> DEFINE from == RawSwitch(comments[n]).end
<1>1. n \in Nat /\ b \in Nat /\ b < n /\ \A e \in DOMAIN comments : e \in Nat
  BY CommentsOfFile DEF Reason
<1>2. /\ Switches(comments[n], r) /\ Switches(comments[b], r)
      /\ Infinity <= RawSwitch(comments[b]).end /\ RawSwitch(comments[b]).end \in 1..Infinity
  BY SwitchingComment DEF Enables, Reason
<1>3. FileEnd \in Nat /\ Infinity = FileEnd + 2 /\ from \in Nat /\ RawSwitch(comments[b]).end = Infinity
  BY <1>2, SwitchingComment, SizeOfFile
<1>4. RawSwitch(comments[b]).pos <= from
  <2>1. comments[b].at < comments[n].at
    BY <1>1, CommentsOfFile
  <2>2. QED
    BY <1>2, <1>3, <2>1, SwitchingComment, SwitchBeforeLine
<1>5. ~EnablesBlocksOnly
  BY <1>2, SwitchingComment DEF EnablesBlocksOnly, Enables
<1>6. ASSUME ~ForLine(b), NEW e \in DOMAIN comments, b < e, e < n + 1, Enables(e, r), ~OutOfOrder(e, r),
             NEW y \in 0..FileEnd, from <= y
      PROVE  ~Covers(e, y)
  <2> DEFINE one   == RawSwitch(comments[n])
             other == RawSwitch(comments[e])
  <2>1. /\ Switches(comments[e], r)
        /\ other.pos \in Nat /\ other.end \in Nat /\ one.pos \in Nat /\ one.end \in Nat /\ Width \in Nat
        /\ one.end = one.pos + Width
        /\ other.end # Infinity => other.end = other.pos + Width
    BY <1>2, <1>6, SwitchingComment, SizeOfFile, SizeAssumption DEF Enables
  <2>2. SUFFICES ASSUME other.pos <= y, y < other.end
                 PROVE  FALSE
    BY DEF Covers
  <2>3. CASE e = n
    BY <1>3, <1>6, <2>2, <2>3
  <2>4. CASE e < n /\ other.end # Infinity
    <3>1. one.pos < other.pos
      BY <1>6, <2>1, <2>2, <2>4
    <3>2. comments[n].enable /\ ~(n < e)
      BY <1>1, <2>4 DEF Enables
    <3>3. QED
      BY <1>2, <1>6, <2>4, <3>1, <3>2 DEF OutOfOrder
  <2>5. CASE e < n /\ other.end = Infinity
    <3>1. Covers(e, FileEnd)
      BY <1>3, <1>6, <2>1, <2>2, <2>5 DEF Covers
    <3>2. FileEnd \in 0..FileEnd /\ pos <= FileEnd /\ FileEnd < Infinity
      BY <1>3
    <3>3. QED
      BY <1>6, <2>5, <3>1, <3>2 DEF Reason
  <2>6. QED
    BY <1>1, <1>6, <2>3, <2>4, <2>5
<1>7. b < n + 1 /\ ~comments[b].enable
  BY <1>1 DEF Reason
<1> HIDE DEF from
<1>8. Reason(b, from, Infinity, r, n + 1)
  BY <1>2, <1>4, <1>5, <1>6, <1>7 DEF Reason
<1>9. QED
  BY <1>8 DEF from

\* A comment that does not change the ranges
LEMMA IgnoredKeeps ==
    ASSUME comments \in CommentLists, NEW r, NEW n \in DOMAIN comments, NEW ranges, RangesTrue(ranges, r, n),
           Enables(n, r) => \A k \in DOMAIN ranges : ranges[k].end # Infinity,
           Switches(comments[n], r) => Ignored(ranges, comments[n])
    PROVE  RangesTrue(ranges, r, n + 1)
<1>1. n \in Nat /\ \A e \in DOMAIN comments : e \in Nat
  BY CommentsOfFile
<1>2. RangesTyped(ranges, r, n + 1) /\ ranges \in Seq(Disabled)
  BY <1>1 DEF RangesTrue, RangesTyped
<1>3. ASSUME NEW k \in DOMAIN ranges
      PROVE  ranges[k].pos \in 0..FileEnd /\ ranges[k].end \in 0..Infinity
  <2>1. ranges[k] \in Disabled
    BY <1>2
  <2>2. QED
    BY <2>1 DEF Disabled
<1>4. RangesMeant(ranges, r, n + 1)
  <2> SUFFICES ASSUME NEW k \in DOMAIN ranges
               PROVE  /\ \E b \in DOMAIN comments : Reason(b, ranges[k].pos, ranges[k].end, r, n + 1)
                      /\ OnLine(ranges[k].pos, ranges[k].end)
    BY DEF RangesMeant
  <2>1. PICK b \in DOMAIN comments : Reason(b, ranges[k].pos, ranges[k].end, r, n)
    BY DEF RangesTrue, RangesMeant
  <2>2. Reason(b, ranges[k].pos, ranges[k].end, r, n + 1)
    BY <1>3, <2>1, ReasonStays
  <2>3. QED
    BY <2>2 DEF RangesTrue, RangesMeant
<1>5. RangesLast(ranges, r, n + 1)
  BY <1>1 DEF RangesTrue, RangesLast, LastFrom
<1>6. ASSUME ~comments[n].enable, Switches(comments[n], r), ~Overtaken(n, r), NEW x \in 0..FileEnd, Covers(n, x)
      PROVE  InRange(ranges, x)
  <2> DEFINE last == Len(ranges)
             new  == RawSwitch(comments[n])
  <2>1. last \in DOMAIN ranges /\ (ranges[last].end = Infinity \/ new.pos < ranges[last].end)
    BY <1>2, <1>6 DEF Ignored, Last
  <2>2. ranges[last].pos \in Nat /\ ranges[last].end \in Nat /\ FileEnd \in Nat /\ Infinity = FileEnd + 2
    BY <1>3, <2>1, SizeOfFile
  <2>3. new.pos \in Nat /\ new.end \in Nat /\ new.pos <= x /\ x < new.end
    BY <1>6, SwitchingComment, SizeOfFile DEF Covers
  <2>4. PICK d \in DOMAIN comments : /\ d < n /\ Switches(comments[d], r)
                                     /\ LET old == RawSwitch(comments[d]) IN
                                        \/ ~comments[d].enable /\ ranges[last].pos = old.pos /\ ranges[last].end = old.end
                                        \/ /\ comments[d].enable /\ old.end # Infinity
                                           /\ ranges[last].pos = old.end /\ ranges[last].end = Infinity
                                        \/ comments[d].enable /\ ranges[last].end = old.pos
    <3>1. ranges # <<>>
      BY <1>2, <2>1
    <3>2. QED
      BY <3>1 DEF RangesTrue, RangesLast, LastFrom
  <2> DEFINE old == RawSwitch(comments[d])
  <2>5. old.pos \in Nat /\ old.end \in Nat
    BY <2>4, SwitchingComment, SizeOfFile
  <2>6. d \in 1..n - 1
    BY <1>1, <2>4, CommentsOfFile
  <2>7. /\ comments[d].enable => ~(new.pos < old.pos) /\ ~(old.end # Infinity /\ new.pos < old.end)
        /\ ~comments[d].enable => ~(new.pos < old.end) \/ (old.pos <= new.pos /\ new.end <= old.end)
    BY <1>6, <2>4, <2>6 DEF Overtaken
  <2> HIDE DEF old, new, last
  <2>8. CASE ~comments[d].enable
    <3>1. ranges[last].pos = old.pos /\ ranges[last].end = old.end
      BY <2>4, <2>8 DEF old
    <3>2. new.pos < old.end
      <4>1. new.pos < Infinity
        BY <2>2, <2>3
      <4>2. QED
        BY <2>1, <3>1, <4>1
    <3>3. ranges[last].pos <= x /\ x < ranges[last].end
      BY <2>3, <2>5, <2>7, <2>8, <3>1, <3>2
    <3>4. QED
      BY <2>1, <3>3 DEF InRange
  <2>9. CASE comments[d].enable
    <3>1. \/ old.end # Infinity /\ ranges[last].pos = old.end /\ ranges[last].end = Infinity
          \/ ranges[last].end = old.pos
      BY <2>4, <2>9 DEF old
    <3>2. old.pos # Infinity
      BY <2>2, <2>4, SwitchingComment DEF old
    <3>3. ranges[last].end # old.pos
      BY <2>1, <2>7, <2>9, <3>2
    <3>4. ranges[last].pos <= x /\ x < ranges[last].end
      BY <2>2, <2>3, <2>5, <2>7, <2>9, <3>1, <3>3
    <3>5. QED
      BY <2>1, <3>4 DEF InRange
  <2>10. QED
    BY <2>8, <2>9
<1>7. RangesCover(ranges, r, n + 1)
  <2> SUFFICES ASSUME NEW m \in DOMAIN comments, m < n + 1, ~comments[m].enable, Switches(comments[m], r),
                      ~Overtaken(m, r), NEW x \in 0..FileEnd, Covers(m, x)
               PROVE  \/ InRange(ranges, x)
                      \/ \E e \in DOMAIN comments : m < e /\ e < n + 1 /\ Enables(e, r) /\ Covers(e, x)
    BY DEF RangesCover
  <2>1. CASE m = n
    BY <1>6, <2>1
  <2>2. CASE m < n
    BY <1>1, <2>2 DEF RangesTrue, RangesCover
  <2>3. QED
    BY <1>1, <2>1, <2>2
<1>8. QED
  BY <1>2, <1>4, <1>5, <1>7 DEF RangesTrue

\* A comment that adds a range
LEMMA AddedKeeps ==
    ASSUME comments \in CommentLists, NEW r, NEW n \in DOMAIN comments, NEW ranges, RangesTrue(ranges, r, n),
           Switches(comments[n], r), ~comments[n].enable, ~Ignored(ranges, comments[n]),
           NEW p \in DOMAIN comments[n].rules
    PROVE  RangesTrue(Switch(ranges, comments[n], <<n, p>>), r, n + 1)
<1> DEFINE c     == comments[n]
           by    == <<n, p>>
           last  == Len(ranges)
           after == Switch(ranges, c, by)
           raw   == RawSwitch(c)
<1>1. n \in Nat /\ \A e \in DOMAIN comments : e \in Nat
  BY CommentsOfFile
<1>2. c \in Comment /\ ~OutOfRange(c) /\ p \in Nat
  <2>1. c \in Comment /\ ~OutOfRange(c)
    BY CommentsOfFile DEF Switches
  <2>2. QED
    BY <2>1 DEF Comment
<1>3. ranges \in Seq(Disabled)
  BY DEF RangesTrue, RangesTyped
<1>4. by \in Nat \X Nat /\ by[1] = n /\ by[2] = p
  BY <1>1, <1>2
<1>5. /\ after \in Seq(Disabled) /\ Len(after) = last + 1
      /\ \A k \in 1..last : after[k] = ranges[k]
      /\ after[last + 1] = [pos |-> raw.pos, end |-> raw.end, by |-> by]
      /\ ranges # <<>> => ranges[last].end # Infinity /\ ranges[last].end <= raw.pos
  <2> HIDE DEF by
  <2> QED
    BY <1>2, <1>3, <1>4, SwitchAdds
<1>6. after[last + 1].pos = raw.pos /\ after[last + 1].end = raw.end /\ after[last + 1].by[1] = n /\ after[last + 1].by[2] = p
  BY <1>4, <1>5
<1> HIDE DEF after, by, raw
<1>7. last \in Nat /\ DOMAIN ranges = 1..last /\ DOMAIN after = 1..last + 1
  BY <1>3, <1>5
<1> HIDE DEF last
<1>8. RangesTyped(after, r, n + 1)
  <2> SUFFICES ASSUME NEW k \in DOMAIN after
               PROVE  /\ after[k].by[1] \in DOMAIN comments /\ after[k].by[1] < n + 1
                      /\ after[k].by[2] \in DOMAIN comments[after[k].by[1]].rules
                      /\ Switches(comments[after[k].by[1]], r)
    BY <1>5 DEF RangesTyped
  <2>1. CASE k = last + 1
    BY <1>1, <1>6, <2>1 DEF c
  <2>2. CASE k # last + 1
    <3>1. k \in DOMAIN ranges /\ after[k] = ranges[k]
      BY <1>5, <1>7, <2>2
    <3>2. QED
      BY <1>1, <3>1 DEF RangesTrue, RangesTyped
  <2>3. QED
    BY <2>1, <2>2
<1>9. RangesOrdered(after)
  <2> SUFFICES ASSUME NEW k \in DOMAIN after, k < Len(after)
               PROVE  after[k].end # Infinity /\ after[k].end <= after[k + 1].pos
    BY DEF RangesOrdered
  <2>1. k \in DOMAIN ranges /\ after[k] = ranges[k]
    BY <1>5, <1>7
  <2>2. CASE k = last
    BY <1>5, <1>6, <1>7, <2>1, <2>2 DEF last
  <2>3. CASE k # last
    <3>1. k < last /\ after[k + 1] = ranges[k + 1]
      BY <1>5, <1>7, <2>1, <2>3
    <3>2. QED
      BY <2>1, <3>1 DEF RangesTrue, RangesOrdered, last
  <2>4. QED
    BY <2>2, <2>3
<1>10. raw.pos \in 0..FileEnd /\ raw.end \in 1..Infinity /\ raw.pos < raw.end
  BY SwitchingComment DEF raw, c
<1>11. Reason(n, raw.pos, raw.end, r, n + 1)
  <2>1. ~ForLine(n) => raw.end = Infinity
    BY SwitchingComment DEF raw, c
  <2>2. raw.end <= raw.end /\ raw.pos <= raw.pos
    BY <1>10, SizeOfFile
  <2>3. \A e \in DOMAIN comments : ~(n < e /\ e < n + 1)
    BY <1>1
  <2>4. QED
    BY <1>1, <1>10, <2>1, <2>2, <2>3 DEF Reason, raw, c
<1>12. RangesMeant(after, r, n + 1)
  <2> SUFFICES ASSUME NEW k \in DOMAIN after
               PROVE  /\ \E b \in DOMAIN comments : Reason(b, after[k].pos, after[k].end, r, n + 1)
                      /\ OnLine(after[k].pos, after[k].end)
    BY DEF RangesMeant
  <2>1. CASE k = last + 1
    <3>1. OnLine(raw.pos, raw.end)
      BY <1>10, SizeOfFile DEF OnLine
    <3>2. QED
      BY <1>6, <1>11, <2>1, <3>1
  <2>2. CASE k # last + 1
    <3>1. k \in DOMAIN ranges /\ after[k] = ranges[k]
      BY <1>5, <1>7, <2>2
    <3>2. PICK b \in DOMAIN comments : Reason(b, ranges[k].pos, ranges[k].end, r, n)
      BY <3>1 DEF RangesTrue, RangesMeant
    <3>3. ranges[k].pos \in 0..FileEnd /\ ranges[k].end \in 0..Infinity
      <4>1. ranges[k] \in Disabled
        BY <1>3, <3>1
      <4>2. QED
        BY <4>1 DEF Disabled
    <3>4. Reason(b, ranges[k].pos, ranges[k].end, r, n + 1)
      BY <3>2, <3>3, ReasonStays DEF Enables
    <3>5. QED
      BY <3>1, <3>4 DEF RangesTrue, RangesMeant
  <2>3. QED
    BY <2>1, <2>2
<1>13. RangesLast(after, r, n + 1)
  <2>1. Len(after) = last + 1 /\ n < n + 1
    BY <1>1, <1>5
  <2>2. QED
    BY <1>6, <2>1 DEF RangesLast, LastFrom, raw, c
<1>14. RangesCover(after, r, n + 1)
  <2> SUFFICES ASSUME NEW m \in DOMAIN comments, m < n + 1, ~comments[m].enable, Switches(comments[m], r),
                      ~Overtaken(m, r), NEW x \in 0..FileEnd, Covers(m, x)
               PROVE  \/ InRange(after, x)
                      \/ \E e \in DOMAIN comments : m < e /\ e < n + 1 /\ Enables(e, r) /\ Covers(e, x)
    BY DEF RangesCover
  <2>1. CASE m = n
    <3>1. last + 1 \in DOMAIN after /\ after[last + 1].pos <= x /\ x < after[last + 1].end
      BY <1>6, <1>7, <2>1 DEF Covers, raw, c
    <3>2. QED
      BY <3>1 DEF InRange
  <2>2. CASE m < n
    <3>1. \/ InRange(ranges, x)
          \/ \E e \in DOMAIN comments : m < e /\ e < n /\ Enables(e, r) /\ Covers(e, x)
      BY <2>2 DEF RangesTrue, RangesCover
    <3>2. InRange(ranges, x) => InRange(after, x)
      BY <1>5, <1>7 DEF InRange
    <3>3. QED
      BY <1>1, <3>1, <3>2
  <2>3. QED
    BY <1>1, <2>1, <2>2
<1>15. QED
  BY <1>8, <1>9, <1>12, <1>13, <1>14 DEF RangesTrue, after, by

\* A comment that closes the last range, and opens one after its line
LEMMA ClosedKeeps ==
    ASSUME comments \in CommentLists, NEW r, NEW n \in DOMAIN comments, NEW ranges, RangesTrue(ranges, r, n),
           Switches(comments[n], r), comments[n].enable, ~Ignored(ranges, comments[n]),
           NEW p \in DOMAIN comments[n].rules
    PROVE  RangesTrue(Switch(ranges, comments[n], <<n, p>>), r, n + 1)
<1> DEFINE c     == comments[n]
           by    == <<n, p>>
           last  == Len(ranges)
           after == Switch(ranges, c, by)
           raw   == RawSwitch(c)
<1>1. n \in Nat /\ \A e \in DOMAIN comments : e \in Nat
  BY CommentsOfFile
<1>2. c \in Comment /\ ~OutOfRange(c) /\ p \in Nat
  <2>1. c \in Comment /\ ~OutOfRange(c)
    BY CommentsOfFile DEF Switches
  <2>2. QED
    BY <2>1 DEF Comment
<1>3. ranges \in Seq(Disabled)
  BY DEF RangesTrue, RangesTyped
<1>4. by \in Nat \X Nat /\ by[1] = n /\ by[2] = p
  BY <1>1, <1>2
<1>5. /\ after \in Seq(Disabled) /\ last \in Nat \ {0}
      /\ ranges[last].end = Infinity
      /\ \A k \in 1..last - 1 : after[k] = ranges[k]
      /\ after[last] = [ranges[last] EXCEPT !.end = raw.pos]
      /\ raw.end = Infinity => Len(after) = last
      /\ raw.end # Infinity => /\ Len(after) = last + 1
                               /\ after[last + 1] = [pos |-> raw.end, end |-> Infinity, by |-> by]
  <2> HIDE DEF by
  <2> QED
    BY <1>2, <1>3, <1>4, SwitchCloses, SMTT(60)
<1>6. /\ raw.pos \in 0..FileEnd /\ raw.end \in 1..Infinity /\ raw.pos < raw.end
      /\ raw.end = Infinity \/ raw.end <= FileEnd
      /\ ~ForLine(n) => raw.pos = c.at /\ raw.end = Infinity
  <2>1. ~ForLine(n) => raw = [pos |-> c.at, end |-> Infinity]
    BY <1>2, SwitchInFile DEF raw, ForLine
  <2> HIDE DEF raw
  <2>2. ~ForLine(n) => raw.pos = c.at /\ raw.end = Infinity
    BY <2>1
  <2>3. QED
    BY <1>2, <2>2, SwitchInFile DEF raw
<1>7. /\ raw.end # Infinity => /\ after[last + 1].pos = raw.end /\ after[last + 1].end = Infinity
                               /\ after[last + 1].by[1] = n /\ after[last + 1].by[2] = p
  BY <1>4, <1>5
<1> HIDE DEF after, by, raw
<1>8. DOMAIN ranges = 1..last /\ DOMAIN after = 1..Len(after) /\ Len(after) \in {last, last + 1}
  BY <1>3, <1>5
<1>9. after[last].pos = ranges[last].pos /\ after[last].end = raw.pos /\ after[last].by = ranges[last].by
  <2>1. ranges[last] \in Disabled
    BY <1>3, <1>5
  <2> HIDE DEF last
  <2>2. QED
    BY <1>5, <2>1 DEF Disabled
<1> HIDE DEF last
<1>10. ASSUME NEW k \in DOMAIN after
       PROVE  \/ k < last /\ k \in DOMAIN ranges /\ after[k] = ranges[k]
              \/ k = last
              \/ k = last + 1 /\ raw.end # Infinity
  BY <1>5, <1>8
<1>11. last \in DOMAIN ranges /\ last \in DOMAIN after
  BY <1>5, <1>8
<1>12. \A k \in DOMAIN ranges : k < last => ranges[k].end # Infinity
  BY DEF RangesTrue, RangesOrdered, last
<1>13. RangesTyped(after, r, n + 1)
  <2> SUFFICES ASSUME NEW k \in DOMAIN after
               PROVE  /\ after[k].by[1] \in DOMAIN comments /\ after[k].by[1] < n + 1
                      /\ after[k].by[2] \in DOMAIN comments[after[k].by[1]].rules
                      /\ Switches(comments[after[k].by[1]], r)
    BY <1>5 DEF RangesTyped
  <2>1. CASE k = last + 1 /\ raw.end # Infinity
    BY <1>1, <1>7, <2>1 DEF c
  <2>2. CASE k \in DOMAIN ranges /\ after[k].by = ranges[k].by
    BY <1>1, <2>2 DEF RangesTrue, RangesTyped
  <2>3. QED
    BY <1>9, <1>10, <1>11, <2>1, <2>2
<1>14. RangesOrdered(after)
  <2> SUFFICES ASSUME NEW k \in DOMAIN after, k < Len(after)
               PROVE  after[k].end # Infinity /\ after[k].end <= after[k + 1].pos
    BY DEF RangesOrdered
  <2>1. CASE k = last
    <3>1. raw.end # Infinity
      BY <1>5, <1>8, <2>1
    <3>2. QED
      BY <1>6, <1>7, <1>9, <2>1, <3>1, SizeOfFile
  <2>2. CASE k # last
    <3>1. k < last /\ k \in DOMAIN ranges /\ after[k] = ranges[k]
      BY <1>5, <1>8, <1>10, <2>2
    <3>2. after[k + 1].pos = ranges[k + 1].pos
      <4>1. CASE k + 1 = last
        BY <1>9, <4>1
      <4>2. CASE k + 1 # last
        <5>1. k + 1 \in 1..last - 1
          BY <1>5, <1>8, <3>1, <4>2
        <5>2. QED
          BY <1>5, <5>1
      <4>3. QED
        BY <4>1, <4>2
    <3>3. QED
      BY <3>1, <3>2 DEF RangesTrue, RangesOrdered, last
  <2>3. QED
    BY <2>1, <2>2
<1>15. Enables(n, r) /\ Switches(comments[n], r)
  BY DEF Enables
<1>16. PICK b \in DOMAIN comments : Reason(b, ranges[last].pos, Infinity, r, n)
  BY <1>5, <1>11 DEF RangesTrue, RangesMeant
<1>17. \A k \in DOMAIN ranges : ranges[k].pos \in 0..FileEnd /\ ranges[k].end \in 0..Infinity
  <2>1. \A k \in DOMAIN ranges : ranges[k] \in Disabled
    BY <1>3
  <2>2. QED
    BY <2>1 DEF Disabled
<1>18. OnLine(ranges[last].pos, raw.pos)
  <2>1. ForLine(n) => \E l \in 0..Lines - 1 : raw.pos = LineStart(l)
    BY <1>15, SwitchingComment DEF raw, c
  <2>2. CASE ForLine(n)
    BY <1>6, <2>1, <2>2, SizeOfFile DEF OnLine
  <2>3. CASE ~ForLine(n)
    <3>1. PICK d \in DOMAIN comments : /\ d < n /\ Switches(comments[d], r)
                                       /\ LET old == RawSwitch(comments[d]) IN
                                          \/ ~comments[d].enable /\ ranges[last].pos = old.pos
                                          \/ /\ comments[d].enable /\ old.end # Infinity
                                             /\ ranges[last].pos = old.end
                                          \/ ranges[last].end = old.pos
      <4>1. ranges # <<>> /\ last = Len(ranges)
        BY <1>11 DEF last
      <4>2. QED
        BY <4>1 DEF RangesTrue, RangesLast, LastFrom
    <3> DEFINE old == RawSwitch(comments[d])
    <3>2. /\ old.pos \in 0..FileEnd
          /\ ~ForLine(d) => old.pos = comments[d].at /\ old.end = Infinity
          /\ ForLine(d) => \E l \in 0..Lines - 1 : old.pos = LineStart(l)
          /\ old.end # Infinity => \E l \in 0..Lines - 1 : old.end = LineStart(l)
      BY <3>1, SwitchingComment
    <3>3. ranges[last].end # old.pos
      BY <1>5, <3>2, SizeOfFile
    <3>4. comments[d].at < c.at /\ raw.pos = c.at
      BY <1>1, <1>6, <2>3, <3>1, CommentsOfFile DEF c
    <3> HIDE DEF old
    <3>5. CASE ranges[last].pos = old.pos /\ ~ForLine(d)
      <4>1. ~(raw.pos <= ranges[last].pos)
        BY <1>1, <1>6, <1>11, <1>17, <3>2, <3>4, <3>5, SizeOfFile
      <4>2. QED
        BY <4>1 DEF OnLine
    <3>6. CASE \E l \in 0..Lines - 1 : ranges[last].pos = LineStart(l)
      BY <1>11, <1>17, <3>6, SizeOfFile DEF OnLine
    <3>7. \/ ranges[last].pos = old.pos
          \/ old.end # Infinity /\ ranges[last].pos = old.end
      BY <3>1, <3>3 DEF old
    <3>8. QED
      BY <3>2, <3>5, <3>6, <3>7
  <2>4. QED
    BY <2>2, <2>3
<1>19. RangesMeant(after, r, n + 1)
  <2> SUFFICES ASSUME NEW k \in DOMAIN after
               PROVE  /\ \E d \in DOMAIN comments : Reason(d, after[k].pos, after[k].end, r, n + 1)
                      /\ OnLine(after[k].pos, after[k].end)
    BY DEF RangesMeant
  <2>1. CASE k < last /\ k \in DOMAIN ranges /\ after[k] = ranges[k]
    <3>1. PICK d \in DOMAIN comments : Reason(d, ranges[k].pos, ranges[k].end, r, n)
      BY <2>1 DEF RangesTrue, RangesMeant
    <3>2. Reason(d, ranges[k].pos, ranges[k].end, r, n + 1)
      BY <1>12, <1>17, <2>1, <3>1, ReasonStays
    <3>3. QED
      BY <2>1, <3>2 DEF RangesTrue, RangesMeant
  <2>2. CASE k = last
    <3>1. Reason(b, ranges[last].pos, raw.pos, r, n + 1)
      BY <1>11, <1>15, <1>16, <1>17, ReasonClosed DEF raw, c
    <3>2. QED
      BY <1>9, <1>18, <2>2, <3>1
  <2>3. CASE k = last + 1 /\ raw.end # Infinity
    <3>1. Reason(b, raw.end, Infinity, r, n + 1)
      BY <1>11, <1>15, <1>16, <1>17, <2>3, ReasonReopened DEF raw, c
    <3>2. OnLine(raw.end, Infinity)
      BY <1>6, <2>3, SizeOfFile DEF OnLine
    <3>3. QED
      BY <1>7, <2>3, <3>1, <3>2
  <2>4. QED
    BY <1>10, <2>1, <2>2, <2>3
<1>20. RangesLast(after, r, n + 1)
  <2>1. n < n + 1
    BY <1>1
  <2>2. CASE raw.end = Infinity
    <3>1. Len(after) = last
      BY <1>5, <2>2
    <3>2. QED
      BY <1>9, <1>15, <2>1, <3>1 DEF RangesLast, LastFrom, raw, c
  <2>3. CASE raw.end # Infinity
    <3>1. Len(after) = last + 1
      BY <1>5, <2>3
    <3>2. QED
      BY <1>7, <1>15, <2>1, <2>3, <3>1 DEF RangesLast, LastFrom, raw, c
  <2>4. QED
    BY <2>2, <2>3
<1>21. RangesCover(after, r, n + 1)
  <2> SUFFICES ASSUME NEW m \in DOMAIN comments, m < n + 1, ~comments[m].enable, Switches(comments[m], r),
                      ~Overtaken(m, r), NEW x \in 0..FileEnd, Covers(m, x)
               PROVE  \/ InRange(after, x)
                      \/ \E e \in DOMAIN comments : m < e /\ e < n + 1 /\ Enables(e, r) /\ Covers(e, x)
    BY DEF RangesCover
  <2>1. m # n
    OBVIOUS
  <2>2. m < n /\ m \in Nat
    BY <1>1, <2>1
  <2>3. CASE \E e \in DOMAIN comments : m < e /\ e < n /\ Enables(e, r) /\ Covers(e, x)
    BY <1>1, <2>3
  <2>4. CASE InRange(ranges, x)
    <3>1. PICK j \in DOMAIN ranges : ranges[j].pos <= x /\ x < ranges[j].end
      BY <2>4 DEF InRange
    <3>2. CASE j # last
      <4>1. j \in 1..last - 1 /\ j \in DOMAIN after
        BY <1>5, <1>8, <3>2
      <4>2. after[j] = ranges[j]
        BY <1>5, <4>1
      <4>3. QED
        BY <3>1, <4>1, <4>2 DEF InRange
    <3>3. CASE j = last /\ x < raw.pos
      BY <1>9, <1>11, <3>1, <3>3 DEF InRange
    <3>4. CASE raw.pos <= x /\ x < raw.end
      <4>1. Covers(n, x) /\ Enables(n, r)
        BY <3>4 DEF Covers, Enables, raw, c
      <4>2. QED
        BY <1>1, <2>2, <4>1
    <3>5. CASE raw.end <= x
      <4>1. raw.end # Infinity /\ x < Infinity
        BY <1>6, <3>5, SizeOfFile
      <4>2. last + 1 \in DOMAIN after
        BY <1>5, <1>8, <4>1
      <4>3. QED
        BY <1>7, <3>5, <4>1, <4>2 DEF InRange
    <3>6. QED
      BY <1>6, <3>2, <3>3, <3>4, <3>5
  <2>5. QED
    BY <2>2, <2>3, <2>4 DEF RangesTrue, RangesCover
<1>22. QED
  BY <1>13, <1>14, <1>19, <1>20, <1>21 DEF RangesTrue, after, by

\* Whatever a comment does to the ranges of a rule it switches
LEMMA SwitchKeeps ==
    ASSUME comments \in CommentLists, NEW r, NEW n \in DOMAIN comments, NEW ranges, RangesTrue(ranges, r, n),
           Switches(comments[n], r), NEW p \in DOMAIN comments[n].rules
    PROVE  RangesTrue(Switch(ranges, comments[n], <<n, p>>), r, n + 1)
<1>1. CASE Ignored(ranges, comments[n])
  <2>1. Switch(ranges, comments[n], <<n, p>>) = ranges
    BY <1>1, SwitchIgnores, CommentsOfFile DEF RangesTrue, RangesTyped
  <2>2. ASSUME comments[n].enable, NEW k \in DOMAIN ranges
        PROVE  ranges[k].end # Infinity
    <3>1. k \in 1..Len(ranges) /\ Len(ranges) \in Nat
      BY DEF RangesTrue, RangesTyped
    <3>2. CASE k = Len(ranges)
      BY <1>1, <2>2, <3>2 DEF Ignored, Last
    <3>3. CASE k # Len(ranges)
      BY <3>1, <3>3 DEF RangesTrue, RangesOrdered
    <3>4. QED
      BY <3>2, <3>3
  <2>3. QED
    BY <1>1, <2>1, <2>2, IgnoredKeeps DEF Enables
<1>2. CASE ~Ignored(ranges, comments[n])
  BY <1>2, AddedKeeps, ClosedKeeps
<1>3. QED
  BY <1>1, <1>2

-----------------------------------------------------------------------------
(* The invariant holds                                                     *)

\* Before parsing there are no ranges.
LEMMA SwitchesInitially == SwitchesInit => SwitchesInv
<1> SUFFICES ASSUME SwitchesInit
             PROVE  SwitchesInv
  OBVIOUS
<1>1. /\ comments \in CommentLists /\ findings \in FindingSets /\ phase = "parse" /\ next = 1
      /\ disables = [r \in RuleNames |-> <<>>] /\ kept = {} /\ dropped = {}
      /\ switchState = [c \in DOMAIN comments |-> [n \in DOMAIN comments[c].rules |-> "NoMatch"]]
  BY DEF SwitchesInit
<1>2. Types
  <2>1. \A f \in findings : f \in Finding /\ f.pos <= f.end
    BY <1>1, FindingsAssumption DEF Finding, FileEnd
  <2>2. next \in 1..Len(comments) + 1
    BY <1>1, CommentsOfFile
  <2>3. \A c \in DOMAIN comments : switchState[c] \in [DOMAIN comments[c].rules -> SwitchState]
    BY <1>1 DEF SwitchState
  <2>4. QED
    BY <1>1, <2>1, <2>2, <2>3 DEF Types
<1>3. ASSUME NEW r \in RuleNames
      PROVE  RangesTrue(<<>>, r, 1)
  <2>1. <<>> \in Seq(Disabled) /\ DOMAIN <<>> = {}
    OBVIOUS
  <2>2. QED
    BY <2>1 DEF RangesTrue, RangesTyped, RangesOrdered, RangesMeant, RangesLast, RangesCover
<1>4. QED
  BY <1>1, <1>2, <1>3 DEF SwitchesInv, FilterTrue

\* Ranges are about comments, which do not change.
LEMMA SameComments ==
    ASSUME comments' = comments, NEW r, NEW n, NEW ranges, RangesTrue(ranges, r, n)
    PROVE  RangesTrue(ranges, r, n)'
<1>1. /\ EnablesBlocksOnly' <=> EnablesBlocksOnly
      /\ \A e : (Enables(e, r)' <=> Enables(e, r)) /\ (ForLine(e)' <=> ForLine(e)) /\ \A x : Covers(e, x)' <=> Covers(e, x)
      /\ \A e : (OutOfOrder(e, r)' <=> OutOfOrder(e, r)) /\ (Overtaken(e, r)' <=> Overtaken(e, r))
  BY DEF EnablesBlocksOnly, Enables, ForLine, Covers, OutOfOrder, Overtaken
<1>2. \A b, pos, end : Reason(b, pos, end, r, n)' <=> Reason(b, pos, end, r, n)
  BY <1>1 DEF Reason
<1>3. \A pos, end : LastFrom(pos, end, r, n)' <=> LastFrom(pos, end, r, n)
  BY DEF LastFrom
<1>4. RangesMeant(ranges, r, n)'
  BY <1>2 DEF RangesTrue, RangesMeant
<1>5. RangesLast(ranges, r, n)'
  BY <1>3 DEF RangesTrue, RangesLast
<1>6. RangesTyped(ranges, r, n)' /\ RangesOrdered(ranges)'
  BY DEF RangesTrue, RangesTyped, RangesOrdered
<1>7. RangesCover(ranges, r, n)'
  BY <1>1 DEF RangesTrue, RangesCover
<1>8. QED
  BY <1>4, <1>5, <1>6, <1>7 DEF RangesTrue

\* The ranges of all rules are those after the comment.
LEMMA ParseNextKeeps ==
    ASSUME SwitchesInv, ParseNext
    PROVE  SwitchesInv'
<1> DEFINE comment == comments[next]
           after == [r \in RuleNames |->
                      IF Switches(comment, r) THEN Switch(disables[r], comment, <<next, PredicateFor(comment, r)>>)
                      ELSE disables[r]]
           state(n) == CASE OutOfRange(comment) \/ Matching(comment, n) = {} -> "NoMatch"
                         [] /\ ~OutOfRange(comment) /\ Matching(comment, n) # {}
                            /\ Matching(comment, n) \subseteq MatchedBefore(comment, n) -> "Redundant"
                         [] OTHER -> IF \E r \in Matching(comment, n) \ MatchedBefore(comment, n) : after[r] # disables[r]
                                     THEN "Unused" ELSE "NoChange"
<1>1. /\ phase = "parse" /\ next <= Len(comments)
      /\ disables' = after
      /\ switchState' = [switchState EXCEPT ![next] = [n \in DOMAIN comment.rules |-> state(n)]]
      /\ next' = next + 1
      /\ UNCHANGED <<comments, findings, phase, kept, dropped>>
  BY DEF ParseNext
<1>2. \A n : state(n) \in SwitchState
  BY DEF SwitchState
<1>3. /\ comments \in CommentLists /\ next \in DOMAIN comments /\ next \in Nat /\ next + 1 \in 1..Len(comments) + 1
      /\ kept = {} /\ dropped = {}
  <2>1. comments \in CommentLists /\ next \in 1..Len(comments) + 1 /\ kept = {} /\ dropped = {}
    BY <1>1 DEF SwitchesInv, Types
  <2>2. Len(comments) \in Nat /\ DOMAIN comments = 1..Len(comments)
    BY <2>1, CommentsOfFile
  <2>3. next \in 1..Len(comments)
    BY <1>1, <2>1, <2>2
  <2>4. QED
    BY <2>1, <2>2, <2>3
<1> DEFINE states == [n \in DOMAIN comment.rules |-> state(n)]
<1>4. states \in [DOMAIN comments[next].rules -> SwitchState]
  BY <1>2
<1>5. switchState' = [switchState EXCEPT ![next] = states]
  BY <1>1
<1> HIDE DEF state, states
<1>6. /\ DOMAIN switchState' = DOMAIN comments
      /\ \A c \in DOMAIN comments : switchState'[c] \in [DOMAIN comments[c].rules -> SwitchState]
  BY <1>3, <1>4, <1>5 DEF SwitchesInv, Types
<1>7. Types'
  BY <1>1, <1>3, <1>6 DEF SwitchesInv, Types
<1>8. ASSUME NEW r \in RuleNames
      PROVE  RangesTrue(disables[r], r, next)'
  <2>1. RangesTrue(disables[r], r, next)
    BY DEF SwitchesInv
  <2>2. RangesTrue(disables'[r], r, next + 1)
    <3>1. CASE Switches(comment, r)
      <4>1. PredicateFor(comment, r) \in DOMAIN comments[next].rules
        BY <1>3, <3>1, CommentsOfFile, PredicateOfComment
      <4>2. disables'[r] = Switch(disables[r], comments[next], <<next, PredicateFor(comment, r)>>)
        BY <1>1, <3>1
      <4>3. QED
        BY <1>3, <2>1, <3>1, <4>1, <4>2, SwitchKeeps
    <3>2. CASE ~Switches(comment, r)
      <4>1. disables'[r] = disables[r]
        BY <1>1, <3>2
      <4>2. ~Enables(next, r) /\ ~Switches(comments[next], r)
        BY <3>2 DEF Enables
      <4>3. QED
        BY <1>3, <2>1, <4>1, <4>2, IgnoredKeeps
    <3>3. QED
      BY <3>1, <3>2
  <2> HIDE DEF after, comment
  <2>3. ASSUME NEW ranges, NEW n, RangesTrue(ranges, r, n), ranges = disables[r]', n = next'
        PROVE  RangesTrue(disables[r], r, next)'
    <3>1. comments' = comments
      BY <1>1
    <3>2. RangesTrue(ranges, r, n)'
      BY <2>3, <3>1, SameComments
    <3>3. QED
      BY <2>3, <3>2
  <2>4. next' = next + 1
    BY <1>1
  <2>5. QED
    BY <2>2, <2>3, <2>4
<1>9. FilterTrue'
  BY <1>1, <1>3 DEF FilterTrue
<1>10. QED
  BY <1>7, <1>8, <1>9 DEF SwitchesInv

\* Filtering does not change the ranges.
LEMMA RangesStay ==
    ASSUME SwitchesInv, UNCHANGED <<comments, next, disables>>, NEW r \in RuleNames
    PROVE  RangesTrue(disables[r], r, next)'
<1>1. RangesTrue(disables[r], r, next)
  BY DEF SwitchesInv
<1>2. \A ranges, n : RangesTrue(ranges, r, n) => RangesTrue(ranges, r, n)'
  BY SameComments
<1>3. QED
  BY <1>1, <1>2

\* Parsing a comment and filtering a finding keep what the ranges mean.
LEMMA SwitchesStep == SwitchesInv /\ [SwitchesNext]_switchesVars => SwitchesInv'
<1> SUFFICES ASSUME SwitchesInv, [SwitchesNext]_switchesVars
             PROVE  SwitchesInv'
  OBVIOUS
<1>1. CASE ParseNext
  BY <1>1, ParseNextKeeps
<1>2. ASSUME UNCHANGED <<comments, next, disables>>, Types', FilterTrue'
      PROVE  SwitchesInv'
  BY <1>2, RangesStay DEF SwitchesInv
<1>3. CASE Parsed
  <2>1. next = Len(comments) + 1
    BY <1>3, CommentsOfFile DEF Parsed, SwitchesInv, Types
  <2>2. Types' /\ FilterTrue'
    BY <1>3, <2>1 DEF Parsed, SwitchesInv, Types, FilterTrue
  <2>3. QED
    BY <1>2, <1>3, <2>2 DEF Parsed
<1>4. CASE Filtered
  <2>1. Types' /\ FilterTrue'
    BY <1>4 DEF Filtered, SwitchesInv, Types, FilterTrue
  <2>2. QED
    BY <1>2, <1>4, <2>1 DEF Filtered
<1>5. ASSUME NEW f \in findings, Keep(f)
      PROVE  SwitchesInv'
  <2>1. Types' /\ FilterTrue'
    BY <1>5, SMTT(30) DEF Keep, SwitchesInv, Types, FilterTrue
  <2>2. QED
    BY <1>2, <1>5, <2>1 DEF Keep
<1>6. ASSUME NEW f \in findings, Drop(f)
      PROVE  SwitchesInv'
  <2> DEFINE by == disables[f.rule][Min(Hits(disables[f.rule], f))].by
  <2>1. /\ phase = "filter" /\ Hits(disables[f.rule], f) # {}
        /\ switchState' = [switchState EXCEPT ![by[1]][by[2]] = "Used"]
        /\ findings' = findings \ {f} /\ dropped' = dropped \union {f}
        /\ UNCHANGED <<comments, phase, next, disables, kept>>
    BY <1>6 DEF Drop
  <2> HIDE DEF by
  <2>2. /\ DOMAIN switchState' = DOMAIN comments
        /\ \A c \in DOMAIN comments : switchState'[c] \in [DOMAIN comments[c].rules -> SwitchState]
    BY <2>1 DEF SwitchesInv, Types, SwitchState
  <2>3. Types'
    BY <2>1, <2>2 DEF SwitchesInv, Types
  <2>4. FilterTrue'
    BY <2>1 DEF SwitchesInv, FilterTrue
  <2>5. QED
    BY <1>2, <2>1, <2>3, <2>4
<1>7. CASE UNCHANGED switchesVars
  <2>1. UNCHANGED <<comments, findings, phase, next, disables, switchState, kept, dropped>>
    BY <1>7 DEF switchesVars
  <2>2. Types' /\ FilterTrue'
    BY <2>1 DEF SwitchesInv, Types, FilterTrue
  <2>3. QED
    BY <1>2, <2>1, <2>2
<1>8. QED
  BY <1>1, <1>3, <1>4, <1>5, <1>6, <1>7 DEF SwitchesNext

\* At any time the disabled ranges of every rule are those the comments read so far ask for, and findings were
\* filtered by them (parseLineSwitches and filter).
THEOREM SwitchesInvariance == SwitchesSpec => []SwitchesInv
BY SwitchesInitially, SwitchesStep, PTL DEF SwitchesSpec

-----------------------------------------------------------------------------
(* What follows from it                                                    *)

\* A dropped finding has a position that is disabled: the first one in the range that was found.
LEMMA DroppedIsDisabled == SwitchesInv => DropsOnlyDisabled
<1> SUFFICES ASSUME SwitchesInv, NEW f \in dropped, InOneLine(f) \/ EnablesBlocksOnly
             PROVE  \E x \in {f.pos} \union (f.pos..f.end - 1) : \E c \in DOMAIN comments :
                      /\ ~comments[c].enable /\ Switches(comments[c], f.rule) /\ Covers(c, x)
                      /\ ForLine(c) \/ ~EnabledAgain(c, f.rule, x)
  BY DEF DropsOnlyDisabled
<1> DEFINE ranges == disables[f.rule]
<1>1. f \in Finding /\ f.rule \in RuleNames /\ f.pos \in 0..FileEnd /\ f.end \in 0..FileEnd /\ f.pos <= f.end
  BY DEF SwitchesInv, Types, Finding
<1>2. RangesTrue(ranges, f.rule, next)
  BY <1>1 DEF SwitchesInv
<1>3. PICK k \in DOMAIN ranges : f.end > ranges[k].pos /\ f.pos < ranges[k].end
  BY DEF SwitchesInv, FilterTrue, Hits
<1> DEFINE from == ranges[k].pos
           to   == ranges[k].end
<1>4. from \in 0..FileEnd /\ to \in 0..Infinity /\ FileEnd \in Nat /\ Infinity = FileEnd + 2
  <2>1. ranges[k] \in Disabled
    BY <1>2 DEF RangesTrue, RangesTyped
  <2>2. QED
    BY <2>1, SizeOfFile DEF Disabled
<1>5. PICK b \in DOMAIN comments : Reason(b, from, to, f.rule, next)
  BY <1>2 DEF RangesTrue, RangesMeant
<1>6. OnLine(from, to)
  BY <1>2 DEF RangesTrue, RangesMeant
<1>7. comments \in CommentLists /\ next = Len(comments) + 1
  BY DEF SwitchesInv, Types
<1>8. /\ ~comments[b].enable /\ Switches(comments[b], f.rule)
      /\ RawSwitch(comments[b]).pos <= from /\ to <= RawSwitch(comments[b]).end
      /\ EnablesBlocksOnly => from = RawSwitch(comments[b]).pos /\ (~ForLine(b) => from < to)
      /\ ~ForLine(b) => \A e \in DOMAIN comments : b < e /\ e < next /\ Enables(e, f.rule) /\ ~OutOfOrder(e, f.rule) =>
           \A y \in 0..FileEnd : from <= y /\ y < to => ~Covers(e, y)
  BY <1>5 DEF Reason
<1>9. /\ RawSwitch(comments[b]).pos \in Nat /\ RawSwitch(comments[b]).end \in Nat
      /\ RawSwitch(comments[b]).pos < RawSwitch(comments[b]).end
  BY <1>4, <1>7, <1>8, SwitchingComment
<1> HIDE DEF from, to
<1> DEFINE x == IF from <= f.pos THEN f.pos ELSE from
<1>10. x \in {f.pos} \union (f.pos..f.end - 1) /\ x \in 0..FileEnd /\ from <= x
  BY <1>1, <1>3, <1>4 DEF from
<1>11. from < to => x < to
  BY <1>1, <1>3, <1>4 DEF to
<1>12. from < to \/ (ForLine(b) /\ from = RawSwitch(comments[b]).pos)
  <2>1. SUFFICES ASSUME to <= from
                 PROVE  ForLine(b) /\ from = RawSwitch(comments[b]).pos
    BY <1>4
  <2>2. PICK n \in 0..Lines - 1 : to <= LineStart(n) /\ LineStart(n) <= from
    BY <1>6, <2>1 DEF OnLine
  <2>3. LineStart(n) \in Nat
    BY LinesInFile, SizeOfFile
  <2>4. f.pos < LineStart(n) /\ LineStart(n) < f.end
    BY <1>1, <1>3, <1>4, <2>2, <2>3 DEF from, to
  <2>5. EnablesBlocksOnly
    BY <2>4 DEF InOneLine
  <2>6. ~(from < to)
    BY <1>4, <2>1
  <2>7. QED
    BY <1>8, <2>5, <2>6
<1>13. x < RawSwitch(comments[b]).end
  <2>1. CASE from < to
    BY <1>4, <1>8, <1>9, <1>10, <1>11, <2>1
  <2>2. CASE ForLine(b) /\ from = RawSwitch(comments[b]).pos
    <3>1. f.pos < RawSwitch(comments[b]).end
      BY <1>1, <1>3, <1>4, <1>8, <1>9 DEF to
    <3>2. QED
      BY <1>9, <2>2, <3>1
  <2>3. QED
    BY <1>12, <2>1, <2>2
<1> HIDE DEF x
<1>14. Covers(b, x)
  BY <1>4, <1>8, <1>9, <1>10, <1>13 DEF Covers
<1>15. ASSUME ~ForLine(b), EnabledAgain(b, f.rule, x)
       PROVE  FALSE
  <2>1. PICK e \in DOMAIN comments : /\ e > b /\ comments[e].enable /\ Switches(comments[e], f.rule)
                                     /\ Covers(e, x) /\ ~OutOfOrder(e, f.rule)
    BY <1>15 DEF EnabledAgain
  <2>2. b < e /\ e < next
    BY <1>7, <2>1, CommentsOfFile
  <2>3. QED
    BY <1>8, <1>10, <1>11, <1>12, <1>15, <2>1, <2>2 DEF Enables
<1>16. QED
  BY <1>8, <1>10, <1>14, <1>15

\* A finding that is kept has no position in a range.
LEMMA KeptIsEnabled == SwitchesInv => DisablesWhatItCovers
<1> SUFFICES ASSUME SwitchesInv, NEW f \in kept, NEW x \in f.pos..f.end - 1, NEW c \in DOMAIN comments,
                    ~comments[c].enable, Switches(comments[c], f.rule), Covers(c, x), ~Overtaken(c, f.rule)
             PROVE  EnabledLater(c, f.rule, x)
  BY DEF DisablesWhatItCovers
<1> DEFINE ranges == disables[f.rule]
<1>1. f.rule \in RuleNames /\ f.pos \in 0..FileEnd /\ f.end \in 0..FileEnd /\ FileEnd \in Nat
  BY SizeOfFile DEF SwitchesInv, Types, Finding
<1>2. RangesTrue(ranges, f.rule, next)
  BY <1>1 DEF SwitchesInv
<1>3. x \in 0..FileEnd /\ c \in Nat /\ c < next
  <2>1. comments \in CommentLists /\ next = Len(comments) + 1
    BY DEF SwitchesInv, Types
  <2>2. c \in 1..Len(comments) /\ Len(comments) \in Nat
    BY <2>1, CommentsOfFile
  <2>3. QED
    BY <1>1, <2>1, <2>2
<1>4. \/ InRange(ranges, x)
      \/ \E e \in DOMAIN comments : c < e /\ e < next /\ Enables(e, f.rule) /\ Covers(e, x)
  BY <1>2, <1>3 DEF RangesTrue, RangesCover
<1>5. ~InRange(ranges, x)
  <2> SUFFICES ASSUME NEW j \in DOMAIN ranges, ranges[j].pos <= x, x < ranges[j].end
               PROVE  FALSE
    BY DEF InRange
  <2>1. ranges[j].pos \in Nat /\ ranges[j].end \in Nat
    <3>1. ranges[j] \in Disabled
      BY <1>2 DEF RangesTrue, RangesTyped
    <3>2. QED
      BY <3>1, SizeOfFile DEF Disabled
  <2>2. f.end > ranges[j].pos /\ f.pos < ranges[j].end
    BY <1>1, <2>1
  <2>3. j \in Hits(ranges, f)
    BY <2>2 DEF Hits
  <2>4. QED
    BY <2>3 DEF SwitchesInv, FilterTrue
<1>6. PICK e \in DOMAIN comments : c < e /\ Enables(e, f.rule) /\ Covers(e, x)
  BY <1>4, <1>5
<1>7. e \in Nat
  BY CommentsOfFile DEF SwitchesInv, Types
<1>8. QED
  BY <1>3, <1>6, <1>7 DEF EnabledLater, Enables

\* The parts together
LEMMA ExactInEveryState == SwitchesInv => DisablesExactly
<1> SUFFICES ASSUME SwitchesInv
             PROVE  DisablesExactly
  OBVIOUS
<1>1. SwitchesTypeOK
  <2>1. ASSUME NEW r \in RuleNames, NEW k \in DOMAIN disables[r]
        PROVE  LET x == disables[r][k] IN
               /\ x.pos \in 0..FileEnd /\ x.end \in 0..Infinity
               /\ x.by[1] \in DOMAIN comments /\ x.by[2] \in DOMAIN comments[x.by[1]].rules
    <3>1. RangesTyped(disables[r], r, next)
      BY DEF SwitchesInv, RangesTrue
    <3>2. disables[r][k] \in Disabled
      BY <3>1 DEF RangesTyped
    <3>3. QED
      BY <3>1, <3>2 DEF RangesTyped, Disabled
  <2>2. QED
    BY <2>1 DEF SwitchesTypeOK, SwitchesInv, Types
<1>2. RangesInOrder
  BY DEF SwitchesInv, RangesTrue, RangesOrdered, RangesInOrder
<1>3. QED
  BY <1>1, <1>2, DroppedIsDisabled, KeptIsEnabled DEF DisablesExactly

\* A finding is dropped only if a comment disables a position of it that no later comment enables; what a comment
\* disables is dropped unless a later one enables it, although the code looks at the last or the first range only.
\* The first part is about findings in one line, or all if no comment enables a single line, and takes comments
\* that are OutOfOrder as not enabling. The second is about comments that none before them has Overtaken: the code
\* ignores others, which DisablesUntilEnabled is about.
THEOREM DisabledExactly == SwitchesSpec => []DisablesExactly
BY SwitchesInvariance, ExactInEveryState, PTL
=============================================================================
