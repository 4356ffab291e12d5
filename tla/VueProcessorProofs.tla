------------------------- MODULE VueProcessorProofs -------------------------
(***************************************************************************)
(* The script of a component is mapped to where it is, and fixes change    *)
(* nothing else, for any component whose script ends at its end tag and    *)
(* any number of fixes that insert no tags.                                *)
(***************************************************************************)
EXTENDS VueProcessor, FiniteSetTheorems, TLAPS

-----------------------------------------------------------------------------
(* Numbers                                                                 *)

\* A set of natural numbers has a least element.
LEMMA Least ==
    ASSUME NEW T \in SUBSET Nat, T # {}
    PROVE  \E x \in T : \A y \in T : x <= y
<1> DEFINE R == {ss \in Nat \X Nat : ss[1] < ss[2]}
<1>1. IsWellFoundedOn(R, Nat)
  BY NatLessThanWellFounded DEF OpToRel
<1>2. PICK x \in T : \A y \in T : <<y, x>> \notin R
  BY <1>1, WFMin
<1>3. \A y \in T : <<y, x>> \in Nat \X Nat /\ <<y, x>>[1] = y /\ <<y, x>>[2] = x
  BY <1>2
<1>4. \A y \in T : ~(y < x)
  BY <1>2, <1>3
<1>5. QED
  BY <1>2, <1>4

\* Min is the least element of a set.
LEMMA MinIsLeast ==
    ASSUME NEW T \in SUBSET Nat, T # {}
    PROVE  Min(T) \in T /\ \A y \in T : Min(T) <= y
<1>1. PICK x \in T : \A y \in T : x <= y
  BY Least
<1>2. QED
  BY <1>1 DEF Min

\* Max is the greatest element of a bounded set.
LEMMA MaxIsGreatest ==
    ASSUME NEW b \in Nat, NEW T \in SUBSET (0..b), T # {}
    PROVE  Max(T) \in T /\ \A y \in T : y <= Max(T)
<1> DEFINE B == {c \in 0..b : b - c \in T}
<1>1. ASSUME NEW y \in T
      PROVE  b - y \in B
  <2>1. y \in 0..b /\ b - (b - y) = y /\ b - y \in 0..b
    OBVIOUS
  <2>2. QED
    BY <2>1
<1>2. B \in SUBSET Nat /\ B # {}
  <2>1. PICK y \in T : TRUE
    OBVIOUS
  <2>2. B # {}
    BY <1>1
  <2>3. QED
    BY <2>2
<1>3. PICK c \in B : \A d \in B : c <= d
  BY <1>2, Least
<1>4. b - c \in T
  OBVIOUS
<1>5. \A y \in T : b - c >= y
  <2>1. TAKE y \in T
  <2>2. c <= b - y /\ c \in 0..b /\ y \in 0..b
    BY <1>1, <1>3
  <2>3. QED
    BY <2>2
<1>6. \E x \in T : \A y \in T : x >= y
  BY <1>4, <1>5
<1>7. Max(T) \in T /\ \A y \in T : Max(T) >= y
  BY <1>6 DEF Max
<1>8. T \subseteq Int
  OBVIOUS
<1>9. QED
  BY <1>7, <1>8

\* An element no other exceeds is the greatest.
LEMMA IsMax ==
    ASSUME NEW T \in SUBSET Int, NEW x \in T, \A y \in T : y <= x
    PROVE  Max(T) = x
<1>1. \A y \in T : x >= y
  OBVIOUS
<1>2. Max(T) \in T /\ \A y \in T : Max(T) >= y
  BY <1>1 DEF Max
<1>3. Max(T) >= x /\ x >= Max(T) /\ Max(T) \in Int /\ x \in Int
  BY <1>1, <1>2
<1>4. QED
  BY <1>3

-----------------------------------------------------------------------------
(* Sequences                                                               *)

\* Two sequences are the same if they have the same elements.
LEMMA SameSeq ==
    ASSUME NEW S, NEW s \in Seq(S), NEW t \in Seq(S), Len(s) = Len(t), \A n \in 1..Len(s) : s[n] = t[n]
    PROVE  s = t
OBVIOUS

\* A slice has the elements between its bounds.
LEMMA SliceType ==
    ASSUME NEW S, NEW s \in Seq(S), NEW a \in 0..Len(s), NEW b \in a..Len(s)
    PROVE  /\ Slice(s, a, b) \in Seq(S) /\ Len(Slice(s, a, b)) = b - a
           /\ \A n \in 1..b - a : Slice(s, a, b)[n] = s[n + a] /\ n + a \in a + 1..b
<1>1. Len(s) \in Nat /\ a \in Nat /\ b \in Nat /\ a <= b /\ b <= Len(s)
  OBVIOUS
<1>2. SubSeq(s, a + 1, b) \in Seq(S) /\ Len(SubSeq(s, a + 1, b)) = b - a
  BY <1>1
<1>3. ASSUME NEW n \in 1..b - a
      PROVE  SubSeq(s, a + 1, b)[n] = s[n + a] /\ n + a \in a + 1..b
  <2>1. n + a \in a + 1..b /\ a + 1 + n - 1 = n + a
    BY <1>1
  <2>2. SubSeq(s, a + 1, b)[n] = s[a + 1 + n - 1]
    BY <1>1, <1>2
  <2>3. QED
    BY <2>1, <2>2
<1>4. QED
  BY <1>2, <1>3 DEF Slice

\* The elements of two sequences one after the other
LEMMA Concatenated ==
    ASSUME NEW S, NEW s \in Seq(S), NEW t \in Seq(S)
    PROVE  /\ s \o t \in Seq(S) /\ Len(s \o t) = Len(s) + Len(t) /\ Len(s) \in Nat /\ Len(t) \in Nat
           /\ \A n \in 1..Len(s) : (s \o t)[n] = s[n]
           /\ \A n \in 1..Len(t) : (s \o t)[n + Len(s)] = t[n]
<1>1. Len(s) \in Nat /\ Len(t) \in Nat
  OBVIOUS
<1>2. s \o t \in Seq(S) /\ Len(s \o t) = Len(s) + Len(t)
  OBVIOUS
<1>3. \A n \in 1..Len(s) : (s \o t)[n] = s[n]
  BY <1>1
<1>4. \A n \in 1..Len(t) : (s \o t)[n + Len(s)] = t[n]
  BY <1>1
<1>5. QED
  BY <1>1, <1>2, <1>3, <1>4

\* u is s with t between a and b: what comes before it, what is inserted and, moved, what comes after it.
Replaces(u, s, t, a, b) ==
    /\ Len(u) = Len(s) + Len(t) - (b - a)
    /\ \A n \in 1..a : u[n] = s[n]
    /\ \A n \in 1..Len(t) : u[n + a] = t[n]
    /\ \A n \in b + 1..Len(s) : u[n + Len(t) - (b - a)] = s[n]

\* That is a text after a replacement.
LEMMA AppliedType ==
    ASSUME NEW S, NEW s \in Seq(S), NEW t \in Seq(S), NEW a \in 0..Len(s), NEW b \in a..Len(s),
           NEW u, u = Slice(s, 0, a) \o t \o Slice(s, b, Len(s))
    PROVE  u \in Seq(S) /\ Replaces(u, s, t, a, b)
<1> DEFINE x == Slice(s, 0, a)
           y == x \o t
           z == Slice(s, b, Len(s))
<1>0. u = y \o z
  OBVIOUS
<1>1. Len(s) \in Nat /\ Len(t) \in Nat /\ a \in Nat /\ b \in Nat /\ a <= b /\ b <= Len(s)
  OBVIOUS
<1>2. x \in Seq(S) /\ Len(x) = a /\ \A n \in 1..a : x[n] = s[n]
  <2>1. 0 \in 0..Len(s) /\ a \in 0..Len(s) /\ a - 0 = a /\ \A n \in 1..a : n + 0 = n
    BY <1>1
  <2>2. /\ x \in Seq(S) /\ Len(x) = a - 0
        /\ \A n \in 1..a - 0 : x[n] = s[n + 0] /\ n + 0 \in 0 + 1..a
    BY <2>1, SliceType
  <2> HIDE DEF x
  <2>3. QED
    BY <2>1, <2>2
<1>3. z \in Seq(S) /\ Len(z) = Len(s) - b /\ \A n \in 1..Len(s) - b : z[n] = s[n + b]
  <2>1. b \in 0..Len(s) /\ Len(s) \in b..Len(s)
    BY <1>1
  <2>2. /\ z \in Seq(S) /\ Len(z) = Len(s) - b
        /\ \A n \in 1..Len(s) - b : z[n] = s[n + b] /\ n + b \in b + 1..Len(s)
    BY <2>1, SliceType
  <2>3. QED
    BY <2>2
<1> HIDE DEF x, z
<1>4. /\ y \in Seq(S) /\ Len(y) = a + Len(t)
      /\ \A n \in 1..a : y[n] = x[n]
      /\ \A n \in 1..Len(t) : y[n + a] = t[n]
  <2>1. x \in Seq(S) /\ t \in Seq(S)
    BY <1>2
  <2>2. /\ x \o t \in Seq(S) /\ Len(x \o t) = Len(x) + Len(t)
        /\ \A n \in 1..Len(x) : (x \o t)[n] = x[n]
        /\ \A n \in 1..Len(t) : (x \o t)[n + Len(x)] = t[n]
    BY ONLY <2>1, Concatenated
  <2> HIDE DEF y
  <2>3. QED
    BY <1>2, <2>2 DEF y
<1> HIDE DEF y
<1>5. /\ u \in Seq(S) /\ Len(u) = a + Len(t) + (Len(s) - b)
      /\ \A n \in 1..a + Len(t) : u[n] = y[n]
      /\ \A n \in 1..Len(s) - b : u[n + (a + Len(t))] = z[n]
  <2>1. y \in Seq(S) /\ z \in Seq(S)
    BY <1>3, <1>4
  <2>2. /\ y \o z \in Seq(S) /\ Len(y \o z) = Len(y) + Len(z)
        /\ \A n \in 1..Len(y) : (y \o z)[n] = y[n]
        /\ \A n \in 1..Len(z) : (y \o z)[n + Len(y)] = z[n]
    BY ONLY <2>1, Concatenated
  <2>3. QED
    BY <1>0, <1>3, <1>4, <2>2
<1>6. \A n \in 1..a : u[n] = s[n]
  <2>1. \A n \in 1..a : n \in 1..a + Len(t)
    BY <1>1
  <2>2. QED
    BY <1>2, <1>4, <1>5, <2>1
<1>7. \A n \in 1..Len(t) : u[n + a] = t[n]
  <2>1. \A n \in 1..Len(t) : n + a \in 1..a + Len(t)
    BY <1>1
  <2>2. QED
    BY <1>4, <1>5, <2>1
<1>8. ASSUME NEW n \in b + 1..Len(s)
      PROVE  u[n + Len(t) - (b - a)] = s[n]
  <2>1. /\ n - b \in 1..Len(s) - b /\ n - b + b = n
        /\ n + Len(t) - (b - a) = (n - b) + (a + Len(t))
    BY <1>1
  <2>2. u[(n - b) + (a + Len(t))] = z[n - b] /\ z[n - b] = s[n - b + b]
    BY <1>3, <1>5, <2>1
  <2>3. QED
    BY <2>1, <2>2
<1>9. Len(u) = Len(s) + Len(t) - (b - a)
  BY <1>1, <1>5
<1>10. QED
  BY <1>5, <1>6, <1>7, <1>8, <1>9 DEF Replaces
-----------------------------------------------------------------------------
(* Lines                                                                   *)

\* The line breaks before a position
LineBreaks(s, p) == {n \in 0..p - 1 : At(s, n) = "lf"}

\* There are finitely many.
LEMMA LineBreaksType ==
    ASSUME NEW s, NEW p \in Nat
    PROVE  /\ LineBreaks(s, p) \subseteq 0..p /\ LineBreaks(s, p) \subseteq 0..p - 1 /\ IsFiniteSet(LineBreaks(s, p))
           /\ Cardinality(LineBreaks(s, p)) \in Nat /\ (Cardinality(LineBreaks(s, p)) = 0 <=> LineBreaks(s, p) = {})
           /\ Breaks(s, p) = Cardinality(LineBreaks(s, p))
<1>1. LineBreaks(s, p) \subseteq 0..p - 1 /\ 0..p - 1 \subseteq 0..p
  BY DEF LineBreaks
<1>2. IsFiniteSet(0..p - 1)
  BY FS_Interval
<1>3. IsFiniteSet(LineBreaks(s, p))
  BY <1>1, <1>2, FS_Subset
<1>4. Cardinality(LineBreaks(s, p)) \in Nat /\ (Cardinality(LineBreaks(s, p)) = 0 <=> LineBreaks(s, p) = {})
  BY <1>3, FS_CardinalityType, FS_EmptySet
<1>5. Breaks(s, p) = Cardinality(LineBreaks(s, p))
  BY DEF Breaks, LineBreaks
<1>6. QED
  BY <1>1, <1>3, <1>4, <1>5

\* They depend on what comes before the position.
LEMMA SameLineBreaks ==
    ASSUME NEW s, NEW u, NEW p \in Nat, \A n \in 1..p : s[n] = u[n]
    PROVE  LineBreaks(s, p) = LineBreaks(u, p) /\ Breaks(s, p) = Breaks(u, p)
<1>1. \A n \in 0..p - 1 : n + 1 \in 1..p
  OBVIOUS
<1>2. LineBreaks(s, p) = LineBreaks(u, p)
  BY <1>1 DEF LineBreaks, At
<1>3. QED
  BY <1>2, LineBreaksType

\* The numbers of T moved by d
MovedBy(T, d) == {n + d : n \in T}

\* Elements that are moved do not change in number.
LEMMA Moving ==
    ASSUME NEW T \in SUBSET Int, IsFiniteSet(T), NEW d \in Int
    PROVE  IsFiniteSet(MovedBy(T, d)) /\ Cardinality(MovedBy(T, d)) = Cardinality(T)
<1> DEFINE M == {n + d : n \in T}
           f == [n \in T |-> n + d]
<1>1. f \in [T -> M]
  OBVIOUS
<1>2. \A m, n \in T : f[m] = f[n] => m = n
  <2>1. TAKE m, n \in T
  <2>2. m \in Int /\ n \in Int /\ f[m] = m + d /\ f[n] = n + d
    OBVIOUS
  <2>3. QED
    BY <2>2
<1>3. \A y \in M : \E n \in T : f[n] = y
  OBVIOUS
<1> HIDE DEF f, M
<1>4. f \in Bijection(T, M)
  BY <1>1, <1>2, <1>3 DEF Bijection, Injection, Surjection, IsInjective
<1>5. ExistsBijection(T, M)
  BY <1>4 DEF ExistsBijection
<1>6. IsFiniteSet(M) /\ Cardinality(M) = Cardinality(T)
  BY <1>5, FS_Bijection
<1>7. QED
  BY <1>6 DEF M, MovedBy

\* The first p characters of t are those of s at a.
PartAt(t, p, s, a) == \A n \in 1..p : t[n] = s[n + a]

\* C has the elements of A and, moved by a, those of B.
Joins(C, A, B, a) == C = A \union MovedBy(B, a)

\* The line breaks before a position in a part of a text and in the text
LEMMA LineBreaksInPart ==
    ASSUME NEW s, NEW t, NEW a \in Nat, NEW p \in Nat, PartAt(t, p, s, a), NEW q, q = a + p
    PROVE  /\ Joins(LineBreaks(s, q), LineBreaks(s, a), LineBreaks(t, p), a)
           /\ Breaks(s, q) = Breaks(s, a) + Breaks(t, p)
<1> USE DEF PartAt
<1> DEFINE A == LineBreaks(s, a)
           B == LineBreaks(t, p)
           M == {n + a : n \in B}
           C == LineBreaks(s, a + p)
<1>1. \A n \in 0..p - 1 : n + 1 \in 1..p /\ At(t, n) = At(s, n + a)
  <2>1. TAKE n \in 0..p - 1
  <2>2. n + 1 \in 1..p /\ n + 1 + a = n + a + 1
    OBVIOUS
  <2>3. t[n + 1] = s[n + 1 + a]
    BY <2>2
  <2>4. QED
    BY <2>2, <2>3 DEF At
<1>2. ASSUME NEW n \in C
      PROVE  n \in A \union M
  <2>1. n \in 0..a + p - 1 /\ At(s, n) = "lf"
    BY DEF LineBreaks
  <2>2. CASE n < a
    <3>1. n \in 0..a - 1
      BY <2>1, <2>2
    <3>2. QED
      BY <2>1, <3>1 DEF LineBreaks
  <2>3. CASE n >= a
    <3>1. n - a \in 0..p - 1 /\ n - a + a = n
      BY <2>1, <2>3
    <3>2. At(t, n - a) = "lf"
      BY <1>1, <2>1, <3>1
    <3>3. n - a \in B
      BY <3>1, <3>2 DEF LineBreaks
    <3> HIDE DEF B
    <3>4. QED
      BY <3>1, <3>3
  <2>4. QED
    BY <2>1, <2>2, <2>3
<1>3. ASSUME NEW n \in A \union M
      PROVE  n \in C
  <2>1. CASE n \in A
    <3>1. n \in 0..a - 1 /\ At(s, n) = "lf"
      BY <2>1 DEF LineBreaks
    <3>2. n \in 0..a + p - 1
      BY <3>1
    <3>3. QED
      BY <3>1, <3>2 DEF LineBreaks
  <2>2. CASE n \in M
    <3>1. PICK m \in B : n = m + a
      BY <2>2
    <3>2. m \in 0..p - 1 /\ At(t, m) = "lf"
      BY DEF LineBreaks
    <3>3. n \in 0..a + p - 1 /\ At(s, n) = "lf"
      BY <1>1, <3>1, <3>2
    <3>4. QED
      BY <3>3 DEF LineBreaks
  <2>3. QED
    BY <2>1, <2>2
<1>4. C = A \union M
  BY <1>2, <1>3
<1>5. A \subseteq 0..a - 1 /\ B \subseteq 0..p - 1 /\ IsFiniteSet(A) /\ IsFiniteSet(B)
  BY LineBreaksType
<1>6. IsFiniteSet(M) /\ Cardinality(M) = Cardinality(B)
  <2>1. B \in SUBSET Int /\ a \in Int
    BY <1>5
  <2> HIDE DEF B
  <2>2. IsFiniteSet(MovedBy(B, a)) /\ Cardinality(MovedBy(B, a)) = Cardinality(B)
    BY <1>5, <2>1, Moving
  <2>3. QED
    BY <2>2 DEF MovedBy
<1>7. A \intersect M = {}
  <2>1. ASSUME NEW n \in A, n \in M
        PROVE  FALSE
    <3>1. PICK m \in B : n = m + a
      BY <2>1
    <3>2. m \in 0..p - 1 /\ n \in 0..a - 1
      BY <1>5
    <3>3. QED
      BY <3>1, <3>2
  <2>2. QED
    BY <2>1
<1> HIDE DEF A, B, C, M
<1>8. Cardinality(A \union M) = Cardinality(A) + Cardinality(M) - Cardinality({})
  BY <1>5, <1>6, <1>7, FS_Union
<1>9. Cardinality(A) \in Nat /\ Cardinality(B) \in Nat /\ Cardinality({}) = 0
  BY <1>5, FS_CardinalityType, FS_EmptySet
<1>10. Cardinality(C) = Cardinality(A) + Cardinality(B)
  BY <1>4, <1>6, <1>8, <1>9
<1>11. Breaks(s, a + p) = Cardinality(C) /\ Breaks(s, a) = Cardinality(A) /\ Breaks(t, p) = Cardinality(B)
  <2>1. a + p \in Nat
    OBVIOUS
  <2>2. QED
    BY <2>1, LineBreaksType DEF A, B, C
<1>12. QED
  BY <1>4, <1>10, <1>11 DEF A, B, C, M, MovedBy, Joins

\* Location in terms of line breaks
LEMMA LocationIs ==
    ASSUME NEW s, NEW p \in Nat
    PROVE  /\ Location(s, p).line = Breaks(s, p) /\ Location(s, p).position = p
           /\ LineBreaks(s, p) = {} => Location(s, p).character = p
           /\ LineBreaks(s, p) # {} => Location(s, p).character = p - Max(LineBreaks(s, p)) - 1
<1>1. Location(s, p) = [line |-> Cardinality(LineBreaks(s, p)),
                        character |-> IF LineBreaks(s, p) = {} THEN p ELSE p - Max(LineBreaks(s, p)) - 1, position |-> p]
  BY DEF Location, LineBreaks
<1>2. QED
  BY <1>1, LineBreaksType

\* The greatest element of two sets, one of which is moved behind the other
LEMMA MaxMoved ==
    ASSUME NEW a \in Nat, NEW p \in Nat, NEW A \in SUBSET (0..a - 1), NEW B \in SUBSET (0..p - 1), B # {},
           NEW C, Joins(C, A, B, a)
    PROVE  C # {} /\ Max(C) = Max(B) + a /\ Max(B) \in Int
<1>0. C = A \union {n + a : n \in B}
  BY DEF Joins, MovedBy
<1>1. B \in SUBSET (0..p) /\ p \in Nat
  OBVIOUS
<1>2. Max(B) \in B /\ \A n \in B : n <= Max(B)
  BY ONLY <1>1, B # {}, MaxIsGreatest
<1> DEFINE m == Max(B)
<1>3. m \in B /\ \A n \in B : n <= m
  BY <1>2
<1> HIDE DEF m
<1>4. m \in 0..p - 1
  BY <1>3
<1>5. m + a \in C
  BY <1>0, <1>3
<1>6. ASSUME NEW n \in C
      PROVE  n \in Int /\ n <= m + a
  <2>1. CASE n \in A
    BY <1>4, <2>1
  <2>2. CASE n \in {x + a : x \in B}
    <3>1. PICK x \in B : n = x + a
      BY <2>2
    <3>2. x \in Int /\ x <= m
      BY <1>3
    <3>3. QED
      BY <1>4, <3>1, <3>2
  <2>3. QED
    BY <1>0, <2>1, <2>2
<1>7. C \in SUBSET Int /\ m + a \in C /\ \A n \in C : n <= m + a
  BY <1>5, <1>6
<1>8. Max(C) = m + a
  BY ONLY <1>7, IsMax
<1>9. QED
  BY <1>4, <1>5, <1>8 DEF m

\* The character of a position in a part of a text and in the text: it is the same behind a line break, in the first
\* line it depends on what is before the part.
LEMMA CharacterInPart ==
    ASSUME NEW s, NEW t, NEW a \in Nat, NEW p \in Nat, PartAt(t, p, s, a), NEW q, q = a + p
    PROVE  /\ Breaks(t, p) # 0 => Location(s, q).character = Location(t, p).character
           /\ Breaks(t, p) = 0 => /\ Location(t, p).character = p
                                  /\ Breaks(s, a) = 0 => Location(s, q).character = q
                                  /\ Breaks(s, a) # 0 => Location(s, q).character = q - Max(LineBreaks(s, a)) - 1
                                  /\ a # 0 /\ At(s, a - 1) = "lf" => Location(s, q).character = p
                                  /\ a = 0 => Location(s, q).character = p
<1>1. Joins(LineBreaks(s, q), LineBreaks(s, a), LineBreaks(t, p), a)
  BY LineBreaksInPart
<1>2. /\ LineBreaks(s, a) \in SUBSET (0..a - 1) /\ LineBreaks(t, p) \in SUBSET (0..p - 1)
      /\ (Breaks(s, a) = 0 <=> LineBreaks(s, a) = {}) /\ (Breaks(t, p) = 0 <=> LineBreaks(t, p) = {})
  BY LineBreaksType
<1>3. /\ LineBreaks(t, p) = {} => Location(t, p).character = p
      /\ LineBreaks(t, p) # {} => Location(t, p).character = p - Max(LineBreaks(t, p)) - 1
  BY LocationIs
<1>4. /\ LineBreaks(s, q) = {} => Location(s, q).character = q
      /\ LineBreaks(s, q) # {} => Location(s, q).character = q - Max(LineBreaks(s, q)) - 1
  <2>1. q \in Nat
    OBVIOUS
  <2>2. QED
    BY <2>1, LocationIs
<1>5. a # 0 /\ At(s, a - 1) = "lf" => a - 1 \in LineBreaks(s, a)
  BY DEF LineBreaks
<1> DEFINE A == LineBreaks(s, a)
           B == LineBreaks(t, p)
           C == LineBreaks(s, q)
           there == Location(s, q).character
           here == Location(t, p).character
<1>6. /\ Joins(C, A, B, a) /\ A \in SUBSET (0..a - 1) /\ B \in SUBSET (0..p - 1)
      /\ (B = {} => here = p) /\ (B # {} => here = p - Max(B) - 1)
      /\ (C = {} => there = q) /\ (C # {} => there = q - Max(C) - 1)
  BY <1>1, <1>2, <1>3, <1>4
<1> HIDE DEF A, B, C, here, there
<1>7. ASSUME B # {}
      PROVE  there = here
  <2>1. a \in Nat /\ p \in Nat
    OBVIOUS
  <2>2. C # {} /\ Max(C) = Max(B) + a /\ Max(B) \in Int
    BY ONLY <1>6, <1>7, <2>1, MaxMoved
  <2>3. there = a + p - (Max(B) + a) - 1 /\ here = p - Max(B) - 1
    BY <1>6, <1>7, <2>2
  <2>4. QED
    BY <2>2, <2>3
<1>8. ASSUME B = {}
      PROVE  /\ here = p
             /\ A = {} => there = q
             /\ A # {} => there = q - Max(A) - 1
             /\ a - 1 \in A => there = p
             /\ a = 0 => there = p
  <2>1. C = A
    BY <1>6, <1>8 DEF Joins, MovedBy
  <2>2. ASSUME a - 1 \in A
        PROVE  there = p
    <3>1. A \in SUBSET Int /\ a - 1 \in A /\ \A n \in A : n <= a - 1
      BY <1>6, <2>2
    <3>2. Max(A) = a - 1
      BY ONLY <3>1, IsMax
    <3>3. C # {} /\ Max(C) = a - 1
      BY <2>1, <2>2, <3>2
    <3>4. there = q - (a - 1) - 1
      BY <1>6, <3>3
    <3>5. QED
      BY <3>4
  <2>3. a = 0 => A = {} /\ q = p
    BY <1>6
  <2>4. (A = {} => there = q) /\ (A # {} => there = q - Max(A) - 1)
    BY <1>6, <2>1
  <2>5. here = p
    BY <1>6, <1>8
  <2>6. QED
    BY <2>2, <2>3, <2>4, <2>5
<1>9. /\ B # {} => there = here
      /\ B = {} => /\ here = p
                   /\ A = {} => there = q
                   /\ A # {} => there = q - Max(A) - 1
                   /\ a - 1 \in A => there = p
                   /\ a = 0 => there = p
  BY <1>7, <1>8
<1>10. (Breaks(s, a) = 0 <=> A = {}) /\ (Breaks(t, p) = 0 <=> B = {}) /\ (a # 0 /\ At(s, a - 1) = "lf" => a - 1 \in A)
  BY <1>2, <1>5 DEF A, B
<1>11. QED
  BY ONLY <1>9, <1>10 DEF here, there, A

-----------------------------------------------------------------------------
(* Tags                                                                    *)

\* The tags of a kind among the first n characters
Tags(s, n, K) == {i \in 1..n : IsTag(s, i) /\ s[i] \in K}

\* Depth in terms of tags
LEMMA DepthIs ==
    ASSUME NEW s, NEW n \in Nat
    PROVE  /\ Depth(s, n) = Cardinality(Tags(s, n, Starts)) - Cardinality(Tags(s, n, Ends))
           /\ \A K \in {Starts, Ends} : IsFiniteSet(Tags(s, n, K)) /\ Cardinality(Tags(s, n, K)) \in Nat
           /\ Depth(s, n) \in Int
<1>1. Depth(s, n) = Cardinality(Tags(s, n, Starts)) - Cardinality(Tags(s, n, Ends))
  BY DEF Depth, Tags
<1>2. ASSUME NEW K
      PROVE  IsFiniteSet(Tags(s, n, K)) /\ Cardinality(Tags(s, n, K)) \in Nat
  <2>1. Tags(s, n, K) \subseteq 1..n
    BY DEF Tags
  <2>2. IsFiniteSet(1..n)
    BY FS_Interval
  <2>3. IsFiniteSet(Tags(s, n, K))
    BY <2>1, <2>2, FS_Subset
  <2>4. QED
    BY <2>3, FS_CardinalityType
<1>3. Depth(s, n) \in Int
  BY <1>1, <1>2
<1>4. QED
  BY <1>1, <1>2, <1>3

\* Whether there is a tag depends on what comes before it.
LEMMA TagOfStart ==
    ASSUME NEW s, NEW u, NEW n \in Nat, \A i \in 1..n : u[i] = s[i]
    PROVE  \A i \in 1..n : IsTag(u, i) <=> IsTag(s, i)
<1>1. TAKE i \in 1..n
<1>2. \A j \in 1..i - 1 : j \in 1..n /\ u[j] = s[j]
  OBVIOUS
<1>3. \A j \in 1..i - 1 : \A k \in j + 1..i - 1 : k \in 1..n /\ u[k] = s[k]
  OBVIOUS
<1>4. u[i] = s[i]
  OBVIOUS
<1>5. QED
  BY <1>2, <1>3, <1>4 DEF IsTag

\* So does the depth.
LEMMA DepthOfStart ==
    ASSUME NEW s, NEW u, NEW n \in Nat, \A i \in 1..n : u[i] = s[i], NEW m \in 0..n
    PROVE  Depth(u, m) = Depth(s, m)
<1>1. \A i \in 1..n : IsTag(u, i) <=> IsTag(s, i)
  BY TagOfStart
<1>2. \A i \in 1..m : i \in 1..n
  OBVIOUS
<1>3. \A K : Tags(u, m, K) = Tags(s, m, K)
  BY <1>1, <1>2 DEF Tags
<1>4. m \in Nat
  OBVIOUS
<1>5. QED
  BY <1>3, <1>4, DepthIs

\* A script starts at tag, and u is s with another text up to e, where the script ends.
Alike(s, u, tag, e, d) ==
    /\ Len(s) \in Nat /\ Len(u) = Len(s) + d /\ d \in Int
    /\ tag \in 1..e /\ tag <= e + d /\ e \in 1..Len(s)
    /\ s[tag] \in Scripts
    /\ \A n \in 1..tag : u[n] = s[n]
    /\ \A n \in e + 1..Len(s) : u[n + d] = s[n]
    /\ \A n \in tag + 1..e : s[n] # "</script>"
    /\ \A n \in tag + 1..e + d : u[n] # "</script>"
    /\ e < Len(s) => s[e + 1] = "</script>"

\* In a script there are no tags.
LEMMA NoTagInScript ==
    ASSUME NEW s, NEW tag \in Nat \ {0}, s[tag] \in Scripts, NEW e \in Nat, \A n \in tag + 1..e : s[n] # "</script>"
    PROVE  \A i \in tag + 1..e : ~IsTag(s, i)
<1>1. TAKE i \in tag + 1..e
<1>2. tag \in 1..i - 1
  OBVIOUS
<1>3. \A k \in tag + 1..i - 1 : k \in tag + 1..e
  OBVIOUS
<1>4. QED
  BY <1>2, <1>3 DEF IsTag

\* Behind the end of a script, what comes before the end does not matter.
LEMMA TagBehind ==
    ASSUME NEW s, NEW e \in Nat, s[e + 1] = "</script>", NEW i \in Nat, i > e
    PROVE  IsTag(s, i) <=> /\ s[i] \in Starts \union Ends
                           /\ s[i] # "</script>" =>
                                 \A j \in e + 1..i - 1 : s[j] \in Scripts => \E k \in j + 1..i - 1 : s[k] = "</script>"
<1>1. \A j \in e + 1..i - 1 : j \in 1..i - 1
  OBVIOUS
<1>2. ASSUME s[i] # "</script>", NEW j \in 1..i - 1, j \notin e + 1..i - 1
      PROVE  e + 1 \in j + 1..i - 1
  <2>1. i # e + 1
    BY <1>2
  <2>2. QED
    BY <1>2, <2>1
<1>3. QED
  BY <1>1, <1>2 DEF IsTag

\* The tags behind the script are the same.
LEMMA TagAfter ==
    ASSUME NEW s, NEW u, NEW tag, NEW e, NEW d, Alike(s, u, tag, e, d)
    PROVE  \A i \in e + 1..Len(s) : IsTag(u, i + d) <=> IsTag(s, i)
<1> USE DEF Alike
<1>1. TAKE i \in e + 1..Len(s)
<1>2. e \in Nat /\ e + d \in Nat /\ i \in Nat /\ i + d \in Nat /\ i > e /\ i + d > e + d /\ e < Len(s) /\ d \in Int
  OBVIOUS
<1>3. s[e + 1] = "</script>" /\ u[e + d + 1] = "</script>"
  <2>1. e + 1 \in e + 1..Len(s) /\ e + 1 + d = e + d + 1
    BY <1>2
  <2>2. s[e + 1] = "</script>" /\ u[e + 1 + d] = s[e + 1]
    BY <1>2, <2>1
  <2>3. QED
    BY <2>1, <2>2
<1>4. \A n \in e + 1..i : u[n + d] = s[n] /\ n + d \in e + d + 1..i + d
  BY <1>2
<1>5. \A n \in e + d + 1..i + d : n - d \in e + 1..i /\ u[n] = s[n - d] /\ n - d + d = n
  <2>1. TAKE n \in e + d + 1..i + d
  <2>2. n - d \in e + 1..i /\ n - d + d = n
    BY <1>2
  <2>3. u[n - d + d] = s[n - d]
    BY <1>4, <2>2
  <2>4. QED
    BY <2>2, <2>3
<1> HIDE DEF Alike
<1> DEFINE Ended(t, l, m) == \A j \in l + 1..m - 1 : t[j] \in Scripts => \E k \in j + 1..m - 1 : t[k] = "</script>"
<1>6. ASSUME Ended(s, e, i)
      PROVE  Ended(u, e + d, i + d)
  <2>1. TAKE j \in e + d + 1..(i + d) - 1
  <2>2. HAVE u[j] \in Scripts
  <2>3. j - d \in e + 1..i - 1 /\ s[j - d] \in Scripts
    <3>1. j \in e + d + 1..i + d /\ j - d \in e + 1..i - 1
      BY <1>2
    <3>2. QED
      BY <1>5, <2>2, <3>1
  <2>4. PICK k \in j - d + 1..i - 1 : s[k] = "</script>"
    BY <1>6, <2>3
  <2>5. k + d \in j + 1..(i + d) - 1 /\ k \in e + 1..i
    BY <1>2, <2>3
  <2>6. u[k + d] = "</script>"
    BY <1>4, <2>4, <2>5
  <2>7. QED
    BY <2>5, <2>6
<1>7. ASSUME Ended(u, e + d, i + d)
      PROVE  Ended(s, e, i)
  <2>1. TAKE j \in e + 1..i - 1
  <2>2. HAVE s[j] \in Scripts
  <2>3. j + d \in e + d + 1..(i + d) - 1 /\ u[j + d] \in Scripts
    <3>1. j \in e + 1..i /\ j + d \in e + d + 1..(i + d) - 1
      BY <1>2
    <3>2. QED
      BY <1>4, <2>2, <3>1
  <2>4. PICK k \in j + d + 1..(i + d) - 1 : u[k] = "</script>"
    BY <1>7, <2>3
  <2>5. k - d \in j + 1..i - 1 /\ k \in e + d + 1..i + d
    BY <1>2, <2>3
  <2>6. s[k - d] = "</script>"
    BY <1>5, <2>4, <2>5
  <2>7. QED
    BY <2>5, <2>6
<1>8. u[i + d] = s[i]
  BY <1>2, <1>4
<1>9. IsTag(s, i) <=> s[i] \in Starts \union Ends /\ (s[i] # "</script>" => Ended(s, e, i))
  BY <1>2, <1>3, TagBehind
<1>10. IsTag(u, i + d) <=> u[i + d] \in Starts \union Ends /\ (u[i + d] # "</script>" => Ended(u, e + d, i + d))
  <2> DEFINE f == e + d
             m == i + d
  <2>1. f \in Nat /\ u[f + 1] = "</script>" /\ m \in Nat /\ m > f
    BY <1>2, <1>3
  <2> HIDE DEF f, m
  <2>2. IsTag(u, m) <=> u[m] \in Starts \union Ends /\ (u[m] # "</script>" => Ended(u, f, m))
    BY <2>1, TagBehind
  <2>3. QED
    BY <2>2 DEF f, m
<1> HIDE DEF Ended
<1>11. QED
  BY <1>6, <1>7, <1>8, <1>9, <1>10

\* Two sets of numbers that are the same up to tag and, moved by d, behind e have as many elements.
LEMMA SameCount ==
    ASSUME NEW X \in SUBSET Int, IsFiniteSet(X), NEW Y \in SUBSET Int, NEW tag \in Int, NEW e \in Int, NEW d \in Int,
           tag <= e, tag <= e + d,
           \A i \in X : i <= tag \/ i > e,
           \A i \in Y : i <= tag \/ i > e + d,
           \A i \in Int : i <= tag => (i \in X <=> i \in Y),
           \A i \in Int : i > e => (i \in X <=> i + d \in Y)
    PROVE  Cardinality(Y) = Cardinality(X)
<1> DEFINE f == [i \in X |-> IF i <= tag THEN i ELSE i + d]
<1>1. \A i \in X : f[i] \in Y
  OBVIOUS
<1>2. \A i, j \in X : f[i] = f[j] => i = j
  <2>1. TAKE i, j \in X
  <2>2. i \in Int /\ j \in Int /\ (i <= tag \/ i > e) /\ (j <= tag \/ j > e)
    OBVIOUS
  <2>3. f[i] = (IF i <= tag THEN i ELSE i + d) /\ f[j] = (IF j <= tag THEN j ELSE j + d)
    OBVIOUS
  <2> HIDE DEF f
  <2>4. QED
    BY <2>2, <2>3
<1>3. \A y \in Y : \E i \in X : f[i] = y
  <2>1. TAKE y \in Y
  <2>2. CASE y <= tag
    <3>1. y \in X /\ f[y] = y
      BY <2>2
    <3>2. QED
      BY <3>1
  <2>3. CASE y > e + d
    <3>1. y - d \in Int /\ y - d > e /\ y - d + d = y /\ ~(y - d <= tag)
      BY <2>3
    <3>2. y - d \in X
      BY <3>1
    <3>3. f[y - d] = y
      BY <3>1, <3>2
    <3>4. QED
      BY <3>2, <3>3
  <2>4. QED
    BY <2>2, <2>3
<1>4. f \in [X -> Y]
  BY <1>1
<1> HIDE DEF f
<1>5. f \in Bijection(X, Y)
  BY <1>2, <1>3, <1>4 DEF Bijection, Injection, Surjection, IsInjective
<1>6. ExistsBijection(X, Y)
  BY <1>5 DEF ExistsBijection
<1>7. QED
  BY <1>6, FS_Bijection

\* What Alike says about tags: before the script and behind it they are the same, in it there are none.
LEMMA AlikeTags ==
    ASSUME NEW s, NEW u, NEW tag, NEW e, NEW d, Alike(s, u, tag, e, d)
    PROVE  /\ \A i \in 1..tag : u[i] = s[i] /\ (IsTag(u, i) <=> IsTag(s, i))
           /\ \A i \in tag + 1..e : ~IsTag(s, i)
           /\ \A i \in tag + 1..e + d : ~IsTag(u, i)
           /\ \A i \in e + 1..Len(s) : u[i + d] = s[i] /\ (IsTag(u, i + d) <=> IsTag(s, i))
<1>1. /\ tag \in Nat \ {0} /\ e \in Nat /\ e + d \in Nat
      /\ s[tag] \in Scripts /\ u[tag] \in Scripts
      /\ \A i \in 1..tag : u[i] = s[i]
      /\ \A n \in tag + 1..e : s[n] # "</script>"
      /\ \A n \in tag + 1..e + d : u[n] # "</script>"
      /\ \A i \in e + 1..Len(s) : u[i + d] = s[i]
  BY DEF Alike
<1>2. \A i \in 1..tag : IsTag(u, i) <=> IsTag(s, i)
  BY <1>1, TagOfStart
<1>3. \A i \in tag + 1..e : ~IsTag(s, i)
  BY ONLY <1>1, NoTagInScript
<1>4. \A i \in tag + 1..e + d : ~IsTag(u, i)
  <2> DEFINE f == e + d
  <2>1. f \in Nat /\ \A n \in tag + 1..f : u[n] # "</script>"
    BY <1>1
  <2> HIDE DEF f
  <2>2. \A i \in tag + 1..f : ~IsTag(u, i)
    BY ONLY <1>1, <2>1, NoTagInScript
  <2>3. QED
    BY <2>2 DEF f
<1>5. \A i \in e + 1..Len(s) : IsTag(u, i + d) <=> IsTag(s, i)
  BY TagAfter
<1>6. QED
  BY <1>1, <1>2, <1>3, <1>4, <1>5

\* The depth behind the script is the same.
LEMMA DepthAfter ==
    ASSUME NEW s, NEW u, NEW tag, NEW e, NEW d, Alike(s, u, tag, e, d)
    PROVE  \A n \in e..Len(s) : Depth(u, n + d) = Depth(s, n)
<1>1. TAKE n \in e..Len(s)
<1>2. /\ tag \in Nat /\ e \in Nat /\ d \in Int /\ tag <= e /\ tag <= e + d /\ n \in Nat /\ n + d \in Nat /\ e <= n
      /\ n <= Len(s) /\ Len(s) \in Nat /\ tag >= 1
  BY DEF Alike
<1>3. /\ \A i \in 1..tag : u[i] = s[i] /\ (IsTag(u, i) <=> IsTag(s, i))
      /\ \A i \in tag + 1..e : ~IsTag(s, i)
      /\ \A i \in tag + 1..e + d : ~IsTag(u, i)
      /\ \A i \in e + 1..Len(s) : u[i + d] = s[i] /\ (IsTag(u, i + d) <=> IsTag(s, i))
  BY AlikeTags
<1>4. ASSUME NEW K \in {Starts, Ends}
      PROVE  Cardinality(Tags(u, n + d, K)) = Cardinality(Tags(s, n, K))
  <2> DEFINE X == Tags(s, n, K)
             Y == Tags(u, n + d, K)
  <2>1. X \in SUBSET Int /\ Y \in SUBSET Int
    BY DEF Tags
  <2>2. IsFiniteSet(X)
    BY <1>2, DepthIs
  <2>3. \A i \in X : i <= tag \/ i > e
    <3>1. TAKE i \in X
    <3>2. i \in 1..n /\ IsTag(s, i)
      BY DEF Tags
    <3>3. i \notin tag + 1..e
      BY <1>3, <3>2
    <3>4. QED
      BY <1>2, <3>2, <3>3
  <2>4. \A i \in Y : i <= tag \/ i > e + d
    <3>1. TAKE i \in Y
    <3>2. i \in 1..n + d /\ IsTag(u, i)
      BY DEF Tags
    <3>3. i \notin tag + 1..e + d
      BY <1>3, <3>2
    <3>4. QED
      BY <1>2, <3>2, <3>3
  <2>5. \A i \in Int : i <= tag => (i \in X <=> i \in Y)
    <3>1. TAKE i \in Int
    <3>2. HAVE i <= tag
    <3>3. (i \in 1..n <=> i \in 1..tag) /\ (i \in 1..n + d <=> i \in 1..tag)
      BY <1>2, <3>2
    <3>4. QED
      BY <1>3, <3>3 DEF Tags
  <2>6. \A i \in Int : i > e => (i \in X <=> i + d \in Y)
    <3>1. TAKE i \in Int
    <3>2. HAVE i > e
    <3>3. (i \in 1..n <=> i <= n) /\ (i + d \in 1..n + d <=> i <= n) /\ (i <= n => i \in e + 1..Len(s))
      BY <1>2, <3>2
    <3>4. QED
      BY <1>3, <3>3 DEF Tags
  <2> HIDE DEF X, Y
  <2>7. tag \in Int /\ e \in Int /\ d \in Int /\ tag <= e /\ tag <= e + d
    BY <1>2
  <2>8. Cardinality(Y) = Cardinality(X)
    BY ONLY <2>1, <2>2, <2>3, <2>4, <2>5, <2>6, <2>7, SameCount
  <2>9. QED
    BY <2>8 DEF X, Y
<1>5. /\ Depth(u, n + d) = Cardinality(Tags(u, n + d, Starts)) - Cardinality(Tags(u, n + d, Ends))
      /\ Depth(s, n) = Cardinality(Tags(s, n, Starts)) - Cardinality(Tags(s, n, Ends))
  <2> DEFINE m == n + d
  <2>1. m \in Nat
    BY <1>2
  <2> HIDE DEF m
  <2>2. Depth(u, m) = Cardinality(Tags(u, m, Starts)) - Cardinality(Tags(u, m, Ends))
    BY <2>1, DepthIs
  <2>3. Depth(s, n) = Cardinality(Tags(s, n, Starts)) - Cardinality(Tags(s, n, Ends))
    BY <1>2, DepthIs
  <2>4. QED
    BY <2>2, <2>3 DEF m
<1>6. QED
  BY <1>4, <1>5

\* The tags of a kind at a depth
TagsAt(s, K, depth) == {i \in 1..Len(s) : s[i] \in K /\ IsTag(s, i) /\ Depth(s, i) = depth}

\* Opening and Closing are such sets, of positions in the text.
LEMMA OpeningAndClosing ==
    ASSUME NEW s, Len(s) \in Nat
    PROVE  /\ Opening(s) = TagsAt(s, Scripts, 1) /\ Closing(s) = TagsAt(s, {"</script>"}, 0)
           /\ Opening(s) \subseteq 1..Len(s) /\ Closing(s) \subseteq 1..Len(s)
           /\ Opening(s) # {} => Max(Opening(s)) \in Opening(s) /\ \A i \in Opening(s) : i <= Max(Opening(s))
           /\ Closing(s) # {} => Max(Closing(s)) \in Closing(s) /\ \A i \in Closing(s) : i <= Max(Closing(s))
<1>1. Opening(s) = TagsAt(s, Scripts, 1) /\ Closing(s) = TagsAt(s, {"</script>"}, 0)
  BY DEF Opening, Closing, TagsAt
<1>2. Opening(s) \subseteq 1..Len(s) /\ Closing(s) \subseteq 1..Len(s)
  BY DEF Opening, Closing
<1>3. 1..Len(s) \subseteq 0..Len(s)
  OBVIOUS
<1>4. Opening(s) \in SUBSET (0..Len(s)) /\ Closing(s) \in SUBSET (0..Len(s)) /\ Len(s) \in Nat
  BY <1>2, <1>3
<1>5. ASSUME NEW T \in SUBSET (0..Len(s)), T # {}
      PROVE  Max(T) \in T /\ \A i \in T : i <= Max(T)
  BY <1>5, MaxIsGreatest
<1>6. QED
  BY <1>1, <1>2, <1>4, <1>5

\* Before the script and behind it, the tags of a kind at a depth are the same, in it there are none.
LEMMA AlikeAt ==
    ASSUME NEW s, NEW u, NEW tag, NEW e, NEW d, Alike(s, u, tag, e, d), NEW K, NEW depth
    PROVE  /\ \A i \in 1..tag : i \in TagsAt(s, K, depth) <=> i \in TagsAt(u, K, depth)
           /\ \A i \in TagsAt(s, K, depth) : i \in 1..tag \/ i \in e + 1..Len(s)
           /\ \A i \in TagsAt(u, K, depth) : i \in 1..tag \/ (i - d \in e + 1..Len(s) /\ i - d + d = i)
           /\ \A i \in e + 1..Len(s) : i \in TagsAt(s, K, depth) <=> i + d \in TagsAt(u, K, depth)
<1>1. /\ \A i \in 1..tag : u[i] = s[i] /\ (IsTag(u, i) <=> IsTag(s, i))
      /\ \A i \in tag + 1..e : ~IsTag(s, i)
      /\ \A i \in tag + 1..e + d : ~IsTag(u, i)
      /\ \A i \in e + 1..Len(s) : u[i + d] = s[i] /\ (IsTag(u, i + d) <=> IsTag(s, i))
  BY AlikeTags
<1>2. /\ tag \in Nat /\ e \in Nat /\ d \in Int /\ tag <= e /\ tag <= e + d /\ e <= Len(s)
      /\ Len(s) \in Nat /\ tag >= 1 /\ Len(u) = Len(s) + d
  BY DEF Alike
<1>3. \A i \in 1..tag : Depth(u, i) = Depth(s, i)
  <2>1. \A i \in 1..tag : u[i] = s[i] /\ i \in 0..tag
    BY <1>1, <1>2
  <2>2. QED
    BY <1>2, <2>1, DepthOfStart
<1>4. \A i \in e + 1..Len(s) : Depth(u, i + d) = Depth(s, i)
  <2>1. \A n \in e..Len(s) : Depth(u, n + d) = Depth(s, n)
    BY DepthAfter
  <2>2. \A i \in e + 1..Len(s) : i \in e..Len(s)
    BY <1>2
  <2>3. QED
    BY <2>1, <2>2
<1>5. ASSUME NEW i \in 1..tag
      PROVE  i \in TagsAt(s, K, depth) <=> i \in TagsAt(u, K, depth)
  <2>1. i \in 1..Len(s) /\ i \in 1..Len(u)
    BY <1>2
  <2>2. QED
    BY <1>1, <1>3, <2>1 DEF TagsAt
<1>6. ASSUME NEW i \in TagsAt(s, K, depth)
      PROVE  i \in 1..tag \/ i \in e + 1..Len(s)
  <2>1. i \in 1..Len(s) /\ IsTag(s, i)
    BY DEF TagsAt
  <2>2. i \notin tag + 1..e
    BY <1>1, <2>1
  <2>3. QED
    BY <1>2, <2>1, <2>2
<1>7. ASSUME NEW i \in TagsAt(u, K, depth)
      PROVE  i \in 1..tag \/ (i - d \in e + 1..Len(s) /\ i - d + d = i)
  <2>1. i \in 1..Len(u) /\ IsTag(u, i)
    BY DEF TagsAt
  <2>2. i \notin tag + 1..e + d
    BY <1>1, <2>1
  <2>3. QED
    BY <1>2, <2>1, <2>2
<1>8. ASSUME NEW i \in e + 1..Len(s)
      PROVE  i \in TagsAt(s, K, depth) <=> i + d \in TagsAt(u, K, depth)
  <2>1. i \in 1..Len(s) /\ i + d \in 1..Len(u)
    BY <1>2
  <2>2. QED
    BY <1>1, <1>4, <2>1 DEF TagsAt
<1>9. QED
  BY <1>5, <1>6, <1>7, <1>8

\* The script of the other text starts and ends at the same tags.
LEMMA AlikeScript ==
    ASSUME NEW s, NEW u, NEW tag, NEW e, NEW d, Alike(s, u, tag, e, d), Opening(s) # {}, tag = Max(Opening(s))
    PROVE  /\ Opening(u) # {} /\ Max(Opening(u)) = tag
           /\ Closing(s) = {} => Closing(u) = {}
           /\ Closing(s) # {} /\ Max(Closing(s)) = e + 1 => Closing(u) # {} /\ Max(Closing(u)) = e + d + 1
<1>1. /\ tag \in Nat /\ e \in Nat /\ d \in Int /\ tag <= e /\ tag <= e + d /\ e <= Len(s)
      /\ Len(s) \in Nat /\ tag >= 1 /\ Len(u) = Len(s) + d /\ Len(u) \in Nat
  BY DEF Alike
<1>2. /\ Opening(s) = TagsAt(s, Scripts, 1) /\ Closing(s) = TagsAt(s, {"</script>"}, 0)
      /\ Opening(s) \subseteq 1..Len(s) /\ Closing(s) \subseteq 1..Len(s)
      /\ tag \in Opening(s) /\ \A i \in Opening(s) : i <= tag
      /\ Closing(s) # {} => Max(Closing(s)) \in Closing(s) /\ \A i \in Closing(s) : i <= Max(Closing(s))
  BY <1>1, OpeningAndClosing
<1>3. /\ Opening(u) = TagsAt(u, Scripts, 1) /\ Closing(u) = TagsAt(u, {"</script>"}, 0)
      /\ Opening(u) \subseteq 1..Len(u) /\ Closing(u) \subseteq 1..Len(u)
  BY <1>1, OpeningAndClosing
<1>4. /\ \A i \in 1..tag : i \in Opening(s) <=> i \in Opening(u)
      /\ \A i \in Opening(u) : i \in 1..tag \/ (i - d \in e + 1..Len(s) /\ i - d + d = i)
      /\ \A i \in e + 1..Len(s) : i \in Opening(s) <=> i + d \in Opening(u)
  BY <1>2, <1>3, AlikeAt
<1>5. /\ \A i \in 1..tag : i \in Closing(s) <=> i \in Closing(u)
      /\ \A i \in Closing(u) : i \in 1..tag \/ (i - d \in e + 1..Len(s) /\ i - d + d = i)
      /\ \A i \in e + 1..Len(s) : i \in Closing(s) <=> i + d \in Closing(u)
  BY <1>2, <1>3, AlikeAt
<1>6. Max(Opening(u)) = tag /\ Opening(u) # {}
  <2>1. tag \in 1..tag
    BY <1>1
  <2>2. tag \in Opening(u)
    BY <1>2, <1>4, <2>1
  <2>3. ASSUME NEW i \in Opening(u)
        PROVE  i <= tag
    <3>1. CASE i \in 1..tag
      BY <3>1
    <3>2. CASE i - d \in e + 1..Len(s) /\ i - d + d = i
      <4>1. i - d \in Opening(s)
        BY <1>4, <3>2
      <4>2. i - d <= tag
        BY <1>2, <4>1
      <4>3. QED
        BY <1>1, <3>2, <4>2
    <3>3. QED
      BY <1>4, <3>1, <3>2
  <2>4. Opening(u) \in SUBSET Int
    BY <1>3
  <2>5. QED
    BY <2>2, <2>3, <2>4, IsMax
<1>7. ASSUME Closing(s) = {}
      PROVE  Closing(u) = {}
  <2>1. ASSUME NEW i \in Closing(u)
        PROVE  FALSE
    <3>1. CASE i \in 1..tag
      BY <1>5, <1>7, <3>1
    <3>2. CASE i - d \in e + 1..Len(s) /\ i - d + d = i
      BY <1>5, <1>7, <3>2
    <3>3. QED
      BY <1>5, <3>1, <3>2
  <2>2. QED
    BY <2>1
<1>8. ASSUME Closing(s) # {}, Max(Closing(s)) = e + 1
      PROVE  Closing(u) # {} /\ Max(Closing(u)) = e + d + 1
  <2>1. e + 1 \in Closing(s) /\ \A i \in Closing(s) : i <= e + 1
    BY <1>2, <1>8
  <2>2. e + 1 \in e + 1..Len(s) /\ e + 1 + d = e + d + 1
    BY <1>1, <1>2, <2>1
  <2>3. e + d + 1 \in Closing(u)
    BY <1>5, <2>1, <2>2
  <2>4. ASSUME NEW i \in Closing(u)
        PROVE  i <= e + d + 1
    <3>1. CASE i \in 1..tag
      BY <1>1, <3>1
    <3>2. CASE i - d \in e + 1..Len(s) /\ i - d + d = i
      <4>1. i - d \in Closing(s)
        BY <1>5, <3>2
      <4>2. i - d <= e + 1 /\ i \in Int
        BY <1>3, <2>1, <4>1
      <4>3. QED
        BY <1>1, <4>2
    <3>3. QED
      BY <1>5, <3>1, <3>2
  <2>5. Closing(u) \in SUBSET Int
    BY <1>3
  <2> DEFINE c == e + d + 1
  <2>6. c \in Closing(u) /\ \A i \in Closing(u) : i <= c
    BY <2>3, <2>4
  <2> HIDE DEF c
  <2>7. Max(Closing(u)) = c
    BY <2>5, <2>6, IsMax
  <2>8. QED
    BY <2>6, <2>7 DEF c
<1>9. QED
  BY <1>6, <1>7, <1>8

\* A script that is not closed goes up to the end of the file.
LEMMA NotClosed ==
    ASSUME NEW s, Len(s) \in Nat, Opening(s) # {}, Closing(s) = {}
    PROVE  \A n \in Max(Opening(s)) + 1..Len(s) : s[n] # "</script>"
<1> DEFINE tag == Max(Opening(s))
           Es == {n \in tag + 1..Len(s) : s[n] = "</script>"}
<1>1. /\ tag \in Opening(s) /\ Opening(s) \subseteq 1..Len(s)
  BY OpeningAndClosing
<1>2. tag \in 1..Len(s) /\ s[tag] \in Scripts /\ Depth(s, tag) = 1
  BY <1>1 DEF Opening
<1> HIDE DEF tag
<1>3. SUFFICES ASSUME Es # {} PROVE FALSE
  BY DEF tag
<1>4. Es \in SUBSET Nat
  BY <1>2
<1>5. PICK e \in Es : \A n \in Es : e <= n
  BY <1>3, <1>4, Least
<1>6. e \in tag + 1..Len(s) /\ s[e] = "</script>"
  OBVIOUS
<1>7. \A n \in tag + 1..e - 1 : s[n] # "</script>"
  <2>1. TAKE n \in tag + 1..e - 1
  <2>2. n \in tag + 1..Len(s) /\ ~(e <= n)
    BY <1>2, <1>6
  <2>3. QED
    BY <1>5, <2>2
<1> HIDE DEF Es
<1>8. \A n \in tag + 1..e - 1 : ~IsTag(s, n)
  <2>1. tag \in Nat \ {0} /\ e - 1 \in Nat
    BY <1>2, <1>6
  <2> DEFINE l == e - 1
  <2>2. l \in Nat /\ \A n \in tag + 1..l : s[n] # "</script>"
    BY <1>7, <2>1
  <2> HIDE DEF l
  <2>3. \A n \in tag + 1..l : ~IsTag(s, n)
    BY ONLY <1>2, <2>1, <2>2, NoTagInScript
  <2>4. QED
    BY <2>3 DEF l
<1>9. IsTag(s, e) /\ "</script>" \in Ends /\ "</script>" \notin Starts
  BY <1>6 DEF IsTag, Ends, Starts, Scripts
<1>10. Tags(s, e, Starts) = Tags(s, tag, Starts)
  <2>1. \A n \in 1..e : n \in 1..tag \/ n \in tag + 1..e - 1 \/ n = e
    BY <1>2, <1>6
  <2>2. \A n \in 1..tag : n \in 1..e
    BY <1>2, <1>6
  <2>3. QED
    BY <1>6, <1>8, <1>9, <2>1, <2>2 DEF Tags
<1>11. Tags(s, e, Ends) = Tags(s, tag, Ends) \union {e} /\ e \notin Tags(s, tag, Ends)
  <2>1. \A n \in 1..e : n \in 1..tag \/ n \in tag + 1..e - 1 \/ n = e
    BY <1>2, <1>6
  <2>2. e \in 1..e /\ e \notin 1..tag /\ \A n \in 1..tag : n \in 1..e
    BY <1>2, <1>6
  <2>3. QED
    BY <1>6, <1>8, <1>9, <2>1, <2>2 DEF Tags
<1>12. tag \in Nat /\ e \in Nat
  BY <1>2, <1>6
<1>13. IsFiniteSet(Tags(s, tag, Ends)) /\ Cardinality(Tags(s, tag, Ends)) \in Nat /\ Cardinality(Tags(s, tag, Starts)) \in Nat
  BY <1>12, DepthIs
<1>14. Cardinality(Tags(s, e, Ends)) = Cardinality(Tags(s, tag, Ends)) + 1
  BY <1>11, <1>13, FS_AddElement
<1>15. /\ Depth(s, e) = Cardinality(Tags(s, e, Starts)) - Cardinality(Tags(s, e, Ends))
       /\ Depth(s, tag) = Cardinality(Tags(s, tag, Starts)) - Cardinality(Tags(s, tag, Ends))
  BY <1>12, DepthIs
<1>16. Depth(s, e) = 0
  BY <1>2, <1>10, <1>13, <1>14, <1>15
<1>17. e \in 1..Len(s)
  BY <1>2, <1>6
<1>18. e \in Closing(s)
  BY <1>6, <1>9, <1>16, <1>17 DEF Closing
<1>19. QED
  BY <1>18

-----------------------------------------------------------------------------
(* The script of a file                                                    *)

\* t starts with the characters of o.
StartsWith(t, o) == Len(t) >= Len(o) /\ \A i \in 1..Len(o) : t[i] = o[i]

\* That is what IsPrefix says.
LEMMA PrefixIs ==
    ASSUME NEW S, NEW t \in Seq(S), NEW o \in Seq(S)
    PROVE  IsPrefix(o, t) <=> StartsWith(t, o)
<1> DEFINE n == Len(o)
<1>0. n \in Nat /\ n = Len(o)
  OBVIOUS
<1> HIDE DEF n
<1>1. IsPrefix(o, t) <=> n <= Len(t) /\ SubSeq(o, 1, n) = SubSeq(t, 1, n)
  BY <1>0 DEF IsPrefix
<1>2. SubSeq(o, 1, n) = o
  BY <1>0
<1>3. ASSUME n <= Len(t)
      PROVE  SubSeq(t, 1, n) = o <=> \A i \in 1..n : t[i] = o[i]
  <2> DEFINE v == SubSeq(t, 1, n)
  <2>1. v \in Seq(S) /\ Len(v) = n /\ \A i \in 1..n : v[i] = t[i]
    BY <1>0, <1>3
  <2> HIDE DEF v
  <2>2. ASSUME \A i \in 1..n : t[i] = o[i]
        PROVE  v = o
    <3>1. \A i \in 1..Len(v) : v[i] = o[i]
      BY <2>1, <2>2
    <3>2. QED
      BY <1>0, <2>1, <3>1, SameSeq
  <2>3. v = o <=> \A i \in 1..n : t[i] = o[i]
    BY <1>0, <2>1, <2>2
  <2>4. QED
    BY <2>3 DEF v
<1>4. QED
  BY <1>0, <1>1, <1>2, <1>3 DEF StartsWith

\* A text that starts with a line break
LEMMA StartsWithBreak ==
    ASSUME NEW t \in Seq(STRING)
    PROVE  /\ IsPrefix(<<"lf">>, t) <=> Len(t) >= 1 /\ t[1] = "lf"
           /\ IsPrefix(<<"cr", "lf">>, t) <=> Len(t) >= 2 /\ t[1] = "cr" /\ t[2] = "lf"
<1> DEFINE one == <<"lf">>
           two == <<"cr", "lf">>
           S == STRING \union {"cr", "lf"}
<1>1. t \in Seq(S) /\ "cr" \in S /\ "lf" \in S
  OBVIOUS
<1> HIDE DEF S
<1>2. /\ one \in Seq(S) /\ Len(one) = 1 /\ one[1] = "lf"
      /\ two \in Seq(S) /\ Len(two) = 2 /\ two[1] = "cr" /\ two[2] = "lf"
  BY <1>1
<1> HIDE DEF one, two
<1>3. (IsPrefix(one, t) <=> StartsWith(t, one)) /\ (IsPrefix(two, t) <=> StartsWith(t, two))
  BY <1>1, <1>2, PrefixIs
<1>4. /\ StartsWith(t, one) <=> Len(t) >= 1 /\ \A i \in 1..1 : t[i] = one[i]
      /\ StartsWith(t, two) <=> Len(t) >= 2 /\ \A i \in 1..2 : t[i] = two[i]
  BY <1>2 DEF StartsWith
<1>5. 1..1 = {1} /\ 1..2 = {1, 2}
  OBVIOUS
<1>6. QED
  BY <1>2, <1>3, <1>4, <1>5 DEF one, two

\* The last opening tag of a script, 0 if there is none, the line break behind it, and the end of the script
Tag(s) == IF Opening(s) = {} THEN 0 ELSE Max(Opening(s))
Skip(s) ==
    IF IsPrefix(<<"cr", "lf">>, Slice(s, Tag(s), Len(s))) THEN 2
    ELSE IF IsPrefix(<<"lf">>, Slice(s, Tag(s), Len(s))) THEN 1 ELSE 0
ScriptEnd(s) == IF Closing(s) = {} THEN Len(s) ELSE Max(Closing(s)) - 1

\* ScriptRange in their terms
LEMMA ScriptRangeIs ==
    ASSUME NEW s \in Seq(STRING)
    PROVE  /\ ScriptRange(s).start = Tag(s) + Skip(s)
           /\ ScriptRange(s).end = ScriptEnd(s)
           /\ ScriptRange(s).line = Breaks(s, Tag(s) + Skip(s))
           /\ ScriptRange(s).firstLineOffset = IF Skip(s) = 0 THEN Tag(s) - LastBreak(s, Tag(s)) ELSE 0
           /\ ScriptRange(s) = [start |-> ScriptRange(s).start, end |-> ScriptRange(s).end,
                                line |-> ScriptRange(s).line, firstLineOffset |-> ScriptRange(s).firstLineOffset]
<1> DEFINE T == Tag(s)
           K == Skip(s)
           E == ScriptEnd(s)
<1>1. ScriptRange(s) = [start |-> T + K, end |-> E, line |-> Breaks(s, T + K),
                        firstLineOffset |-> IF K = 0 THEN T - LastBreak(s, T) ELSE 0]
  BY DEF ScriptRange, Tag, Skip, ScriptEnd
<1> HIDE DEF T, K, E
<1>2. /\ ScriptRange(s).start = T + K
      /\ ScriptRange(s).end = E
      /\ ScriptRange(s).line = Breaks(s, T + K)
      /\ ScriptRange(s).firstLineOffset = IF K = 0 THEN T - LastBreak(s, T) ELSE 0
      /\ ScriptRange(s) = [start |-> ScriptRange(s).start, end |-> ScriptRange(s).end,
                           line |-> ScriptRange(s).line, firstLineOffset |-> ScriptRange(s).firstLineOffset]
  BY <1>1
<1>3. QED
  BY <1>2 DEF T, K, E

\* Tag is a position in the text, and where the line break behind it is.
LEMMA SkipIs ==
    ASSUME NEW s \in Seq(STRING)
    PROVE  /\ Len(s) \in Nat /\ Tag(s) \in 0..Len(s) /\ Tag(s) \in Nat /\ Skip(s) \in {0, 1, 2}
           /\ Tag(s) + Skip(s) <= Len(s)
           /\ Skip(s) = 2 <=> Tag(s) + 2 <= Len(s) /\ s[Tag(s) + 1] = "cr" /\ s[Tag(s) + 2] = "lf"
           /\ Skip(s) = 1 <=> Tag(s) + 1 <= Len(s) /\ s[Tag(s) + 1] = "lf"
<1>1. Len(s) \in Nat
  OBVIOUS
<1>2. Tag(s) \in 0..Len(s)
  BY <1>1, OpeningAndClosing DEF Tag
<1> DEFINE T == Tag(s)
           v == Slice(s, T, Len(s))
<1>3. v \in Seq(STRING) /\ Len(v) = Len(s) - T /\ \A n \in 1..Len(s) - T : v[n] = s[n + T]
  <2>1. T \in 0..Len(s) /\ Len(s) \in T..Len(s) /\ s \in Seq(STRING)
    BY <1>1, <1>2
  <2> HIDE DEF T
  <2>2. /\ Slice(s, T, Len(s)) \in Seq(STRING) /\ Len(Slice(s, T, Len(s))) = Len(s) - T
        /\ \A n \in 1..Len(s) - T : Slice(s, T, Len(s))[n] = s[n + T] /\ n + T \in T + 1..Len(s)
    BY ONLY <2>1, SliceType
  <2>3. QED
    BY <2>2
<1>4. Skip(s) = IF IsPrefix(<<"cr", "lf">>, v) THEN 2 ELSE IF IsPrefix(<<"lf">>, v) THEN 1 ELSE 0
  BY DEF Skip
<1>5. T \in 0..Len(s)
  BY <1>2
<1> HIDE DEF T, v
<1>6. /\ IsPrefix(<<"lf">>, v) <=> Len(v) >= 1 /\ v[1] = "lf"
      /\ IsPrefix(<<"cr", "lf">>, v) <=> Len(v) >= 2 /\ v[1] = "cr" /\ v[2] = "lf"
  BY <1>3, StartsWithBreak
<1>7. Len(v) >= 1 => T + 1 <= Len(s) /\ v[1] = s[T + 1]
  <2>1. Len(v) >= 1 => 1 \in 1..Len(s) - T /\ 1 + T = T + 1 /\ T + 1 <= Len(s)
    BY <1>1, <1>3, <1>5
  <2>2. QED
    BY <1>3, <2>1
<1>8. Len(v) >= 2 => T + 2 <= Len(s) /\ v[2] = s[T + 2] /\ Len(v) >= 1
  <2>1. Len(v) >= 2 => 2 \in 1..Len(s) - T /\ 2 + T = T + 2 /\ T + 2 <= Len(s) /\ Len(v) >= 1
    BY <1>1, <1>3, <1>5
  <2>2. QED
    BY <1>3, <2>1
<1>9. (T + 1 <= Len(s) <=> Len(v) >= 1) /\ (T + 2 <= Len(s) <=> Len(v) >= 2)
  BY <1>1, <1>3, <1>5
<1>10. IsPrefix(<<"cr", "lf">>, v) <=> T + 2 <= Len(s) /\ s[T + 1] = "cr" /\ s[T + 2] = "lf"
  BY <1>6, <1>7, <1>8, <1>9
<1>11. IsPrefix(<<"lf">>, v) <=> T + 1 <= Len(s) /\ s[T + 1] = "lf"
  BY <1>6, <1>7, <1>9
<1>12. ~(IsPrefix(<<"lf">>, v) /\ IsPrefix(<<"cr", "lf">>, v))
  BY <1>10, <1>11
<1>13. /\ Skip(s) \in {0, 1, 2}
       /\ Skip(s) = 2 <=> T + 2 <= Len(s) /\ s[T + 1] = "cr" /\ s[T + 2] = "lf"
       /\ Skip(s) = 1 <=> T + 1 <= Len(s) /\ s[T + 1] = "lf"
  BY <1>4, <1>10, <1>11, <1>12
<1>14. T + Skip(s) <= Len(s)
  <2>1. CASE Skip(s) = 0
    BY <1>1, <1>5, <2>1
  <2>2. CASE Skip(s) = 1
    BY <1>13, <2>2
  <2>3. CASE Skip(s) = 2
    BY <1>13, <2>3
  <2>4. QED
    BY <1>13, <2>1, <2>2, <2>3
<1>15. QED
  BY <1>1, <1>5, <1>13, <1>14 DEF T

\* The last line break before a tag, if there is none behind it
LEMMA LastBreakIs ==
    ASSUME NEW s \in Seq(STRING), NEW tag \in 0..Len(s), ~(tag + 1 <= Len(s) /\ s[tag + 1] = "lf")
    PROVE  /\ LastBreak(s, tag) \in Nat
           /\ Breaks(s, tag) = 0 => LastBreak(s, tag) = 0
           /\ Breaks(s, tag) # 0 => LastBreak(s, tag) < tag /\ LastBreak(s, tag) = Max(LineBreaks(s, tag))
<1> DEFINE B == {0} \union {p \in 0..MinOf(tag, Len(s) - 1) : At(s, p) = "lf"}
<1>1. Len(s) \in Nat /\ tag \in Nat /\ tag <= Len(s)
  OBVIOUS
<1>2. \A p \in 0..MinOf(tag, Len(s) - 1) : p \in 0..tag /\ p + 1 <= Len(s)
  BY <1>1 DEF MinOf
<1>3. B \in SUBSET (0..tag)
  BY <1>1, <1>2
<1>4. ASSUME NEW p \in B
      PROVE  p = 0 \/ p \in LineBreaks(s, tag)
  <2>1. SUFFICES ASSUME p \in 0..MinOf(tag, Len(s) - 1), At(s, p) = "lf" PROVE p \in LineBreaks(s, tag)
    OBVIOUS
  <2>2. p \in 0..tag /\ p + 1 <= Len(s) /\ s[p + 1] = "lf"
    BY <1>2, <2>1 DEF At
  <2>3. p # tag
    BY <2>2
  <2>4. p \in 0..tag - 1
    BY <1>1, <2>2, <2>3
  <2>5. QED
    BY <2>1, <2>4 DEF LineBreaks
<1>5. LastBreak(s, tag) = Max(B)
  BY DEF LastBreak
<1>15. ASSUME NEW p \in LineBreaks(s, tag)
       PROVE  p \in B
  <2>1. p \in 0..tag - 1 /\ At(s, p) = "lf"
    BY <1>15 DEF LineBreaks
  <2>2. p \in 0..MinOf(tag, Len(s) - 1)
    BY <1>1, <2>1 DEF MinOf
  <2>3. QED
    BY <2>1, <2>2
<1>6. B # {}
  OBVIOUS
<1> HIDE DEF B
<1>7. Max(B) \in B
  BY <1>1, <1>3, <1>6, MaxIsGreatest
<1>8. (Breaks(s, tag) = 0 <=> LineBreaks(s, tag) = {}) /\ LineBreaks(s, tag) \subseteq 0..tag - 1
  BY <1>1, LineBreaksType
<1>9. Breaks(s, tag) # 0 => tag > 0
  BY <1>1, <1>8
<1>10. Max(B) \in Nat
  <2>1. \A p \in B : p \in Nat
    BY <1>3
  <2>2. QED
    BY <1>7, <2>1
<1>11. Max(B) = 0 \/ Max(B) \in LineBreaks(s, tag)
  BY <1>4, <1>7
<1>12. Breaks(s, tag) = 0 => Max(B) = 0
  BY <1>8, <1>11
<1>13. Breaks(s, tag) # 0 => Max(B) < tag
  BY <1>1, <1>8, <1>9, <1>11
<1>16. ASSUME Breaks(s, tag) # 0
       PROVE  Max(B) = Max(LineBreaks(s, tag))
  <2>1. \A p \in LineBreaks(s, tag) : p \in Nat /\ p <= Max(B)
    <3>1. \A p \in B : p <= Max(B)
      BY <1>1, <1>3, <1>6, MaxIsGreatest
    <3>2. QED
      BY <1>8, <1>15, <3>1
  <2>2. PICK p \in LineBreaks(s, tag) : TRUE
    BY <1>8, <1>16
  <2>3. Max(B) \in LineBreaks(s, tag)
    <3>1. Max(B) = 0 => p = 0
      BY <2>1, <2>2
    <3>2. QED
      BY <1>11, <2>2, <3>1
  <2>4. LineBreaks(s, tag) \in SUBSET Int
    BY <2>1
  <2> DEFINE m == Max(B)
             L == LineBreaks(s, tag)
  <2>5. L \in SUBSET Int /\ m \in L /\ \A n \in L : n <= m
    BY <2>1, <2>3, <2>4
  <2> HIDE DEF m, L
  <2>6. Max(L) = m
    BY ONLY <2>5, IsMax
  <2>7. QED
    BY <2>6 DEF m, L
<1>17. QED
  BY <1>5, <1>10, <1>12, <1>13, <1>16

\* How the first line of the script is mapped: it is a line of the file, or starts in a line that is not the first one,
\* or in the first one.
FirstLine(s, r) ==
    \/ r.firstLineOffset = 0 /\ (r.start = 0 \/ At(s, r.start - 1) = "lf")
    \/ r.firstLineOffset # 0 /\ r.line # 0 /\ r.firstLineOffset = r.start - Max(LineBreaks(s, r.start))
    \/ r.line = 0 /\ r.firstLineOffset = r.start

\* The script starts behind the tag, or behind the line break that follows it, and goes up to its end tag.
BehindTag(s, r) ==
    LET tag == Max(Opening(s)) IN
    /\ \/ r.start = tag
       \/ r.start = tag + 1 /\ s[tag + 1] = "lf"
       \/ r.start = tag + 2 /\ s[tag + 1] = "cr" /\ s[tag + 2] = "lf"
    /\ \A n \in tag + 1..r.end : s[n] # "</script>"
    /\ IF Closing(s) = {} THEN r.end = Len(s) ELSE Max(Closing(s)) = r.end + 1

\* r is the range of the script.
IsScript(s, r) ==
    /\ r \in [start : Nat, end : Nat, line : Nat, firstLineOffset : Int]
    /\ r.start <= r.end /\ r.end <= Len(s)
    /\ r.line = Breaks(s, r.start)
    /\ FirstLine(s, r)
    /\ IF Opening(s) = {} THEN r = ScriptRange(s) ELSE BehindTag(s, r)

\* The line break behind a tag is before the end tag.
LEMMA BreakFits ==
    ASSUME NEW s \in Seq(STRING), NEW tag \in Nat, NEW e \in Nat, tag <= e, e <= Len(s),
           e < Len(s) => s[e + 1] = "</script>"
    PROVE  /\ tag + 1 <= Len(s) /\ s[tag + 1] = "lf" => tag + 1 <= e
           /\ tag + 2 <= Len(s) /\ s[tag + 1] = "cr" /\ s[tag + 2] = "lf" => tag + 2 <= e
<1>1. Len(s) \in Nat
  OBVIOUS
<1>2. ASSUME tag + 1 <= Len(s), s[tag + 1] = "lf"
      PROVE  tag + 1 <= e
  <2>1. tag # e
    BY <1>1, <1>2
  <2>2. QED
    BY <2>1
<1>3. ASSUME tag + 2 <= Len(s), s[tag + 1] = "cr", s[tag + 2] = "lf"
      PROVE  tag + 2 <= e
  <2>1. tag # e
    BY <1>1, <1>3
  <2>2. tag + 1 # e
    <3>1. SUFFICES ASSUME tag + 1 = e PROVE FALSE
      OBVIOUS
    <3>2. e < Len(s) /\ e + 1 = tag + 2
      BY <1>1, <1>3, <3>1
    <3>3. QED
      BY <1>3, <3>2
  <2>3. QED
    BY <2>1, <2>2
<1>4. QED
  BY <1>2, <1>3

\* Where the script ends: at its end tag, or with the file.
LEMMA ScriptEndIs ==
    ASSUME NEW s \in Seq(STRING), ScriptEnds(s)
    PROVE  /\ ScriptEnd(s) \in Nat /\ ScriptEnd(s) <= Len(s) /\ Tag(s) <= ScriptEnd(s)
           /\ ScriptEnd(s) < Len(s) => s[ScriptEnd(s) + 1] = "</script>"
           /\ Opening(s) # {} => \A n \in Tag(s) + 1..ScriptEnd(s) : s[n] # "</script>"
           /\ Closing(s) # {} => Max(Closing(s)) = ScriptEnd(s) + 1
<1>1. Len(s) \in Nat /\ Tag(s) \in 0..Len(s)
  BY SkipIs
<1>2. CASE Closing(s) = {}
  <2>1. ScriptEnd(s) = Len(s)
    BY <1>2 DEF ScriptEnd
  <2>2. Opening(s) # {} => \A n \in Tag(s) + 1..Len(s) : s[n] # "</script>"
    BY <1>1, <1>2, NotClosed DEF Tag
  <2>3. QED
    BY <1>1, <1>2, <2>1, <2>2
<1>3. CASE Closing(s) # {}
  <2> DEFINE c == Max(Closing(s))
  <2>1. ScriptEnd(s) = c - 1
    BY <1>3 DEF ScriptEnd
  <2>2. c \in Closing(s) /\ Closing(s) \subseteq 1..Len(s)
    BY <1>1, <1>3, OpeningAndClosing
  <2>3. s[c] = "</script>" /\ c \in 1..Len(s)
    BY <2>2 DEF Closing
  <2>4. Opening(s) # {} => Tag(s) < c /\ \A n \in Tag(s) + 1..c - 1 : s[n] # "</script>"
    BY <1>3 DEF ScriptEnds, Tag
  <2>5. Opening(s) = {} => Tag(s) = 0
    BY DEF Tag
  <2> HIDE DEF c
  <2>6. c - 1 \in Nat /\ c - 1 <= Len(s) /\ c - 1 + 1 = c /\ Tag(s) <= c - 1
    BY <1>1, <2>3, <2>4, <2>5
  <2>7. QED
    BY <2>1, <2>3, <2>4, <2>6 DEF c
<1>4. QED
  BY <1>2, <1>3

\* The range that the constructor finds is that of the script.
LEMMA ScriptFound ==
    ASSUME NEW s \in Seq(STRING), ScriptEnds(s)
    PROVE  IsScript(s, ScriptRange(s))
<1> DEFINE tag == Tag(s)
           skip == Skip(s)
           e == ScriptEnd(s)
           r == ScriptRange(s)
           offset == r.firstLineOffset
<1>1. /\ r.start = tag + skip /\ r.end = e /\ r.line = Breaks(s, tag + skip)
      /\ offset = (IF skip = 0 THEN tag - LastBreak(s, tag) ELSE 0)
      /\ r = [start |-> r.start, end |-> r.end, line |-> r.line, firstLineOffset |-> offset]
  BY ScriptRangeIs
<1>2. /\ Len(s) \in Nat /\ tag \in 0..Len(s) /\ tag \in Nat /\ skip \in {0, 1, 2} /\ tag + skip <= Len(s)
      /\ skip = 2 <=> tag + 2 <= Len(s) /\ s[tag + 1] = "cr" /\ s[tag + 2] = "lf"
      /\ skip = 1 <=> tag + 1 <= Len(s) /\ s[tag + 1] = "lf"
  BY SkipIs
<1>3. /\ e \in Nat /\ e <= Len(s) /\ tag <= e
      /\ e < Len(s) => s[e + 1] = "</script>"
      /\ Opening(s) # {} => \A n \in tag + 1..e : s[n] # "</script>"
      /\ Closing(s) # {} => Max(Closing(s)) = e + 1
  BY ScriptEndIs
<1>4. Closing(s) = {} => e = Len(s)
  BY DEF ScriptEnd
<1>5. Opening(s) # {} => tag = Max(Opening(s))
  BY DEF Tag
<1>6. Opening(s) = {} => tag = 0
  BY DEF Tag
<1>7. skip = 0 => /\ LastBreak(s, tag) \in Nat
                  /\ Breaks(s, tag) = 0 => LastBreak(s, tag) = 0
                  /\ Breaks(s, tag) # 0 => LastBreak(s, tag) < tag /\ LastBreak(s, tag) = Max(LineBreaks(s, tag))
  <2>1. skip = 0 => ~(tag + 1 <= Len(s) /\ s[tag + 1] = "lf")
    BY <1>2
  <2> HIDE DEF tag, skip
  <2>2. QED
    BY <1>2, <2>1, LastBreakIs
<1> DEFINE start == tag + skip
<1>8. start \in Nat /\ Breaks(s, start) \in Nat
  <2>1. start \in Nat
    BY <1>2
  <2> HIDE DEF start
  <2>2. QED
    BY <2>1, LineBreaksType
<1> HIDE DEF tag, skip, e, r, offset
<1>9. start <= e
  <2>1. /\ tag + 1 <= Len(s) /\ s[tag + 1] = "lf" => tag + 1 <= e
        /\ tag + 2 <= Len(s) /\ s[tag + 1] = "cr" /\ s[tag + 2] = "lf" => tag + 2 <= e
    BY <1>2, <1>3, BreakFits
  <2>2. (skip = 1 => tag + 1 <= e) /\ (skip = 2 => tag + 2 <= e)
    BY <1>2, <2>1
  <2>3. QED
    BY <1>2, <1>3, <2>2
<1>10. offset \in Int /\ FirstLine(s, r)
  <2>1. CASE skip = 0
    <3>1. offset = tag - LastBreak(s, tag) /\ r.start = tag /\ r.line = Breaks(s, tag)
      BY <1>1, <1>2, <2>1
    <3>2. CASE Breaks(s, tag) = 0
      <4>1. offset = tag
        BY <1>2, <1>7, <2>1, <3>1, <3>2
      <4>2. r.line = 0 /\ r.firstLineOffset = r.start
        BY <3>1, <3>2, <4>1 DEF offset
      <4>3. QED
        BY <1>2, <4>1, <4>2 DEF FirstLine
    <3>3. CASE Breaks(s, tag) # 0
      <4>1. offset \in Int /\ offset # 0
        BY <1>2, <1>7, <2>1, <3>1, <3>3
      <4>2. r.firstLineOffset # 0 /\ r.line # 0 /\ r.firstLineOffset = r.start - Max(LineBreaks(s, r.start))
        BY <1>7, <2>1, <3>1, <3>3, <4>1 DEF offset
      <4>3. QED
        BY <4>1, <4>2 DEF FirstLine
    <3>4. QED
      BY <3>2, <3>3
  <2>2. CASE skip # 0
    <3>1. offset = 0 /\ r.firstLineOffset = 0
      BY <1>1, <2>2 DEF offset
    <3>2. r.start - 1 + 1 = tag + skip /\ s[tag + skip] = "lf"
      BY <1>1, <1>2, <2>2
    <3>3. At(s, r.start - 1) = "lf"
      BY <3>2 DEF At
    <3>4. QED
      BY <3>1, <3>3 DEF FirstLine
  <2>3. QED
    BY <2>1, <2>2
<1>11. ASSUME Opening(s) # {}
       PROVE  BehindTag(s, r)
  <2>1. \/ r.start = tag
        \/ r.start = tag + 1 /\ s[tag + 1] = "lf"
        \/ r.start = tag + 2 /\ s[tag + 1] = "cr" /\ s[tag + 2] = "lf"
    <3>1. r.start = tag \/ (skip = 1 /\ r.start = tag + 1) \/ (skip = 2 /\ r.start = tag + 2)
      BY <1>1, <1>2
    <3>2. QED
      BY <1>2, <3>1
  <2>2. \A n \in tag + 1..r.end : s[n] # "</script>"
    BY <1>1, <1>3, <1>11
  <2>3. IF Closing(s) = {} THEN r.end = Len(s) ELSE Max(Closing(s)) = r.end + 1
    BY <1>1, <1>3, <1>4
  <2>4. QED
    BY <1>5, <1>11, <2>1, <2>2, <2>3 DEF BehindTag
<1>12. r \in [start : Nat, end : Nat, line : Nat, firstLineOffset : Int]
  <2>1. r.start \in Nat /\ r.end \in Nat /\ r.line \in Nat /\ offset \in Int
    BY <1>1, <1>3, <1>8, <1>10 DEF start
  <2>2. QED
    BY <1>1, <2>1
<1>13. r.start <= r.end /\ r.end <= Len(s) /\ r.line = Breaks(s, r.start)
  BY <1>1, <1>3, <1>9 DEF start
<1>14. QED
  BY <1>10, <1>11, <1>12, <1>13 DEF IsScript, r

\* u is s with another text, longer by d, between a and b.
Changed(u, s, a, b, d) ==
    /\ Len(u) = Len(s) + d /\ d \in Int
    /\ \A n \in 1..a : u[n] = s[n]
    /\ \A n \in b + 1..Len(s) : u[n + d] = s[n]

\* A replacement in the script: the other text has the same tags outside of it, and the range of its script is r
\* with another end.
LEMMA ScriptReplaced ==
    ASSUME NEW s \in Seq(STRING), NEW r, IsScript(s, r), Opening(s) # {},
           NEW t \in Seq(STRING \ (Starts \union Ends)), NEW a \in r.start..r.end, NEW b \in a..r.end,
           NEW u, u = Slice(s, 0, a) \o t \o Slice(s, b, Len(s)),
           NEW d, d = Len(t) - (b - a), NEW v, v = [r EXCEPT !.end = @ + d]
    PROVE  u \in Seq(STRING) /\ Changed(u, s, a, b, d) /\ IsScript(u, v)
<1> DEFINE tag == Max(Opening(s))
           e == r.end
           f == e + d
<1>1. /\ r \in [start : Nat, end : Nat, line : Nat, firstLineOffset : Int]
      /\ r.start <= e /\ e <= Len(s) /\ r.line = Breaks(s, r.start) /\ FirstLine(s, r) /\ BehindTag(s, r)
  BY DEF IsScript
<1>2. /\ \/ r.start = tag
         \/ r.start = tag + 1 /\ s[tag + 1] = "lf"
         \/ r.start = tag + 2 /\ s[tag + 1] = "cr" /\ s[tag + 2] = "lf"
      /\ \A n \in tag + 1..e : s[n] # "</script>"
      /\ IF Closing(s) = {} THEN e = Len(s) ELSE Max(Closing(s)) = e + 1
  BY <1>1 DEF BehindTag
<1>3. Len(s) \in Nat /\ Len(t) \in Nat /\ a \in Nat /\ b \in Nat /\ r.start <= a /\ a <= b /\ b <= e /\ b <= Len(s) /\ d \in Int
      /\ r.start \in Nat /\ e \in Nat
  BY <1>1
<1>4. tag \in Opening(s) /\ tag \in 1..Len(s) /\ s[tag] \in Scripts
  <2>1. tag \in Opening(s)
    BY <1>3, OpeningAndClosing
  <2>2. QED
    BY <2>1 DEF Opening
<1>5. tag \in Nat /\ tag >= 1 /\ tag <= r.start
  BY <1>2, <1>4
<1>6. t \in Seq(STRING) /\ \A n \in 1..Len(t) : t[n] # "</script>"
  <2>1. \A n \in 1..Len(t) : t[n] \in STRING \ (Starts \union Ends)
    OBVIOUS
  <2>2. "</script>" \in Starts \union Ends
    BY DEF Ends
  <2>3. t \in Seq(STRING)
    OBVIOUS
  <2>4. QED
    BY <2>1, <2>2, <2>3
<1>7. /\ u \in Seq(STRING) /\ Len(u) = Len(s) + Len(t) - (b - a)
      /\ \A n \in 1..a : u[n] = s[n]
      /\ \A n \in 1..Len(t) : u[n + a] = t[n]
      /\ \A n \in b + 1..Len(s) : u[n + Len(t) - (b - a)] = s[n]
  <2>1. a \in 0..Len(s) /\ b \in a..Len(s)
    BY <1>3
  <2>2. s \in Seq(STRING)
    OBVIOUS
  <2>3. u = Slice(s, 0, a) \o t \o Slice(s, b, Len(s))
    OBVIOUS
  <2>4. u \in Seq(STRING) /\ Replaces(u, s, t, a, b)
    BY ONLY <1>6, <2>1, <2>2, <2>3, AppliedType
  <2>5. QED
    BY <2>4 DEF Replaces
<1>8. Len(u) = Len(s) + d /\ \A n \in b + 1..Len(s) : u[n + d] = s[n]
  <2>1. ASSUME NEW n \in b + 1..Len(s)
        PROVE  u[n + d] = s[n]
    <3>1. n + Len(t) - (b - a) = n + d
      BY <1>3
    <3>2. QED
      BY <1>7, <3>1
  <2>2. QED
    BY <1>3, <1>7, <2>1
<1> HIDE DEF tag, e
<1>9. \A n \in tag + 1..e + d : u[n] # "</script>"
  <2>1. TAKE n \in tag + 1..e + d
  <2>2. n \in Int /\ n <= e + d /\ n >= tag + 1 /\ d = Len(t) - (b - a) /\ e <= Len(s)
    BY <1>1, <1>3, <1>5
  <2>3. CASE n <= a
    <3>1. n \in 1..a /\ n \in tag + 1..e
      BY <1>3, <1>5, <2>3
    <3>2. QED
      BY <1>2, <1>7, <3>1
  <2>4. CASE n > a /\ n <= a + Len(t)
    <3>1. n - a \in 1..Len(t) /\ n - a + a = n
      BY ONLY <1>3, <1>5, <2>2, <2>4
    <3>2. u[n - a + a] = t[n - a]
      BY <1>7, <3>1
    <3>3. QED
      BY <1>6, <3>1, <3>2
  <2>5. CASE n > a + Len(t)
    <3>1. n - d \in b + 1..Len(s) /\ n - d \in tag + 1..e /\ n - d + d = n
      BY ONLY <1>3, <1>5, <2>2, <2>5
    <3>2. u[n - d + d] = s[n - d]
      BY <1>8, <3>1
    <3>3. QED
      BY <1>2, <3>1, <3>2
  <2>6. n <= a \/ (n > a /\ n <= a + Len(t)) \/ n > a + Len(t)
    BY <1>3, <1>5
  <2>7. QED
    BY <2>3, <2>4, <2>5, <2>6
<1>10. e < Len(s) => Closing(s) # {} /\ s[e + 1] = "</script>"
  <2>1. SUFFICES ASSUME e < Len(s) PROVE Closing(s) # {} /\ s[e + 1] = "</script>"
    OBVIOUS
  <2>2. Closing(s) # {} /\ Max(Closing(s)) = e + 1
    BY <1>2, <1>3, <2>1
  <2>3. e + 1 \in Closing(s)
    BY <1>3, <2>2, OpeningAndClosing
  <2>4. QED
    BY <2>2, <2>3 DEF Closing
<1>11. Alike(s, u, tag, e, d)
  <2>1. tag \in 1..e /\ tag <= e + d /\ e \in 1..Len(s)
    BY <1>1, <1>3, <1>5
  <2>2. \A n \in 1..tag : u[n] = s[n]
    <3>1. \A n \in 1..tag : n \in 1..a
      BY <1>3, <1>5
    <3>2. QED
      BY <1>7, <3>1
  <2>3. \A n \in e + 1..Len(s) : u[n + d] = s[n]
    <3>1. \A n \in e + 1..Len(s) : n \in b + 1..Len(s)
      BY <1>3
    <3>2. QED
      BY <1>8, <3>1
  <2>4. QED
    BY <1>2, <1>3, <1>4, <1>8, <1>9, <1>10, <2>1, <2>2, <2>3 DEF Alike
<1>12. /\ Opening(u) # {} /\ Max(Opening(u)) = tag
       /\ Closing(s) = {} => Closing(u) = {}
       /\ Closing(s) # {} /\ Max(Closing(s)) = e + 1 => Closing(u) # {} /\ Max(Closing(u)) = e + d + 1
  BY <1>11, AlikeScript DEF tag
<1>13. /\ v.start = r.start /\ v.end = f /\ v.line = r.line /\ v.firstLineOffset = r.firstLineOffset
       /\ f \in Nat /\ r.start <= f /\ f <= Len(u)
       /\ v \in [start : Nat, end : Nat, line : Nat, firstLineOffset : Int]
  <2>1. f \in Nat /\ r.start <= f /\ f <= Len(u)
    <3>1. e <= Len(s) /\ d = Len(t) - (b - a) /\ Len(u) = Len(s) + d
      BY <1>1, <1>8
    <3>2. QED
      BY ONLY <1>3, <3>1
  <2> HIDE DEF f
  <2>2. r.end + d = f
    BY DEF e, f
  <2>3. QED
    BY <1>1, <2>1, <2>2
<1>14. v.line = Breaks(u, v.start) /\ LineBreaks(s, r.start) = LineBreaks(u, r.start)
  <2>1. \A n \in 1..r.start : s[n] = u[n]
    <3>1. \A n \in 1..r.start : n \in 1..a
      BY <1>3
    <3>2. QED
      BY <1>7, <3>1
  <2>2. LineBreaks(s, r.start) = LineBreaks(u, r.start) /\ Breaks(s, r.start) = Breaks(u, r.start)
    BY <1>3, <2>1, SameLineBreaks
  <2>3. QED
    BY <1>1, <1>13, <2>2
<1>15. FirstLine(u, v)
  <2>1. r.start # 0 => At(u, r.start - 1) = At(s, r.start - 1)
    <3>1. r.start # 0 => r.start - 1 + 1 \in 1..a
      BY <1>3
    <3>2. QED
      BY <1>7, <3>1 DEF At
  <2>2. QED
    BY <1>1, <1>13, <1>14, <2>1 DEF FirstLine
<1>16. BehindTag(u, v)
  <2>1. \/ v.start = tag
        \/ v.start = tag + 1 /\ u[tag + 1] = "lf"
        \/ v.start = tag + 2 /\ u[tag + 1] = "cr" /\ u[tag + 2] = "lf"
    <3>1. CASE r.start = tag
      BY <1>13, <3>1
    <3>2. CASE r.start = tag + 1 /\ s[tag + 1] = "lf"
      <4>1. tag + 1 \in 1..a
        BY <1>3, <1>5, <3>2
      <4>2. QED
        BY <1>7, <1>13, <3>2, <4>1
    <3>3. CASE r.start = tag + 2 /\ s[tag + 1] = "cr" /\ s[tag + 2] = "lf"
      <4>1. tag + 1 \in 1..a /\ tag + 2 \in 1..a
        BY <1>3, <1>5, <3>3
      <4>2. QED
        BY <1>7, <1>13, <3>3, <4>1
    <3>4. QED
      BY <1>2, <3>1, <3>2, <3>3
  <2>2. \A n \in tag + 1..v.end : u[n] # "</script>"
    BY <1>9, <1>13
  <2>3. CASE Closing(s) = {}
    <3>1. Closing(u) = {} /\ e = Len(s)
      BY <1>2, <1>12, <2>3
    <3>2. v.end = Len(u)
      BY <1>8, <1>13, <3>1
    <3>3. QED
      BY <1>12, <2>1, <2>2, <3>1, <3>2 DEF BehindTag
  <2>4. CASE Closing(s) # {}
    <3>1. Closing(u) # {} /\ Max(Closing(u)) = v.end + 1
      BY <1>2, <1>12, <1>13, <2>4
    <3>2. QED
      BY <1>12, <2>1, <2>2, <3>1 DEF BehindTag
  <2>5. QED
    BY <2>3, <2>4
<1>17. IsScript(u, v)
  BY <1>12, <1>13, <1>14, <1>15, <1>16 DEF IsScript
<1>18. QED
  BY <1>3, <1>7, <1>8, <1>17 DEF Changed

-----------------------------------------------------------------------------
(* Ranges of changes                                                       *)

\* A range covers a change if the texts are the same before and behind it.
LEMMA Covers ==
    ASSUME NEW S, NEW s \in Seq(S), NEW u \in Seq(S), NEW c, c.start \in Nat, c.length \in Nat, c.newLength \in Nat,
           c.start + c.length <= Len(s), Len(u) = Len(s) + (c.newLength - c.length),
           \A n \in 1..c.start : u[n] = s[n],
           \A n \in c.start + c.length + 1..Len(s) : u[n + (c.newLength - c.length)] = s[n]
    PROVE  RangeCovers(c, s, u)
<1> DEFINE a == c.start
           b == c.start + c.length
           f == c.start + c.newLength
           d == c.newLength - c.length
<1>1. /\ Len(s) \in Nat /\ Len(u) \in Nat /\ a \in Nat /\ b \in Nat /\ f \in Nat /\ a <= b /\ b <= Len(s)
      /\ f <= Len(u) /\ a <= Len(u) /\ Len(s) - b = Len(u) - f /\ b + d = f /\ d \in Int
  OBVIOUS
<1>2. (\A n \in 1..a : u[n] = s[n]) /\ \A n \in b + 1..Len(s) : u[n + d] = s[n]
  OBVIOUS
<1>3. Len(u) - Len(s) = c.newLength - c.length /\ c.length >= 0 /\ c.newLength >= 0
  OBVIOUS
<1> HIDE DEF a, b, f, d
<1>4. Slice(s, 0, a) = Slice(u, 0, a)
  <2>1. 0 \in 0..Len(s) /\ a \in 0..Len(s) /\ 0 \in 0..Len(u) /\ a \in 0..Len(u) /\ s \in Seq(S) /\ u \in Seq(S)
    BY <1>1
  <2>2. /\ Slice(s, 0, a) \in Seq(S) /\ Len(Slice(s, 0, a)) = a - 0
        /\ \A n \in 1..a - 0 : Slice(s, 0, a)[n] = s[n + 0] /\ n + 0 \in 0 + 1..a
    BY ONLY <2>1, SliceType
  <2>3. /\ Slice(u, 0, a) \in Seq(S) /\ Len(Slice(u, 0, a)) = a - 0
        /\ \A n \in 1..a - 0 : Slice(u, 0, a)[n] = u[n + 0] /\ n + 0 \in 0 + 1..a
    BY ONLY <2>1, SliceType
  <2>4. a - 0 = a /\ \A n \in 1..a : n + 0 = n
    BY <1>1
  <2>5. \A n \in 1..Len(Slice(s, 0, a)) : Slice(s, 0, a)[n] = Slice(u, 0, a)[n]
    BY <1>2, <2>2, <2>3, <2>4
  <2> DEFINE v == Slice(s, 0, a)
             w == Slice(u, 0, a)
  <2>6. v \in Seq(S) /\ w \in Seq(S) /\ Len(v) = Len(w) /\ \A n \in 1..Len(v) : v[n] = w[n]
    BY <2>2, <2>3, <2>5
  <2> HIDE DEF v, w
  <2>7. v = w
    BY ONLY <2>6, SameSeq
  <2>8. QED
    BY <2>7 DEF v, w
<1>5. Slice(s, b, Len(s)) = Slice(u, f, Len(u))
  <2>1. b \in 0..Len(s) /\ Len(s) \in b..Len(s) /\ f \in 0..Len(u) /\ Len(u) \in f..Len(u) /\ s \in Seq(S) /\ u \in Seq(S)
    BY <1>1
  <2> DEFINE v == Slice(s, b, Len(s))
             w == Slice(u, f, Len(u))
  <2>2. /\ v \in Seq(S) /\ Len(v) = Len(s) - b
        /\ \A n \in 1..Len(s) - b : v[n] = s[n + b] /\ n + b \in b + 1..Len(s)
    BY ONLY <2>1, SliceType
  <2>3. /\ w \in Seq(S) /\ Len(w) = Len(u) - f
        /\ \A n \in 1..Len(u) - f : w[n] = u[n + f] /\ n + f \in f + 1..Len(u)
    BY ONLY <2>1, SliceType
  <2> HIDE DEF v, w
  <2>4. ASSUME NEW n \in 1..Len(v)
        PROVE  v[n] = w[n]
    <3>1. n \in 1..Len(s) - b /\ n \in 1..Len(u) - f
      BY <1>1, <2>2
    <3>2. n + b + d = n + f
      BY <1>1
    <3>3. v[n] = s[n + b] /\ n + b \in b + 1..Len(s) /\ w[n] = u[n + f]
      BY <2>2, <2>3, <3>1
    <3>4. u[n + b + d] = s[n + b]
      BY <1>2, <3>3
    <3>5. QED
      BY <3>2, <3>3, <3>4
  <2>5. v \in Seq(S) /\ w \in Seq(S) /\ Len(v) = Len(w) /\ \A n \in 1..Len(v) : v[n] = w[n]
    BY <1>1, <2>2, <2>3, <2>4
  <2>6. v = w
    BY ONLY <2>5, SameSeq
  <2>7. QED
    BY <2>6 DEF v, w
<1>6. QED
  BY <1>3, <1>4, <1>5 DEF RangeCovers, a, b, f

\* The range that is calculated covers the change, whatever the texts are.
LEMMA CalculatedRange ==
    ASSUME NEW S, NEW s \in Seq(S), NEW u \in Seq(S)
    PROVE  RangeCovers(CalculateChangeRange(s, u), s, u)
<1> DEFINE diff == Len(u) - Len(s)
           minEnd == MinOf(Len(s), Len(u))
           starts == {n \in 0..minEnd : Slice(s, 0, n) = Slice(u, 0, n)}
           start == Max(starts)
           maxStart == Len(s) - minEnd + start
           ends == {e \in maxStart..Len(s) : Slice(s, e, Len(s)) = Slice(u, e + diff, Len(u))}
           end == IF start = minEnd THEN Len(s) ELSE Min(ends)
<1>1. CalculateChangeRange(s, u) = Change(start, end - start, end - start + diff)
  BY DEF CalculateChangeRange
<1>2. /\ Len(s) \in Nat /\ Len(u) \in Nat /\ diff = Len(u) - Len(s) /\ diff \in Int
      /\ minEnd \in Nat /\ minEnd <= Len(s) /\ minEnd <= Len(u)
  BY DEF MinOf
<1>3. Slice(s, 0, 0) = << >> /\ Slice(u, 0, 0) = << >> /\ Slice(s, Len(s), Len(s)) = << >> /\ Slice(u, Len(u), Len(u)) = << >>
  <2>1. ASSUME NEW v \in Seq(S), NEW n \in 0..Len(v)
        PROVE  Slice(v, n, n) = << >>
    <3>1. n \in n..Len(v) /\ n - n = 0
      OBVIOUS
    <3>2. Slice(v, n, n) \in Seq(S) /\ Len(Slice(v, n, n)) = n - n
      BY <3>1, SliceType
    <3>3. QED
      BY <3>1, <3>2
  <2>2. 0 \in 0..Len(s) /\ 0 \in 0..Len(u) /\ Len(s) \in 0..Len(s) /\ Len(u) \in 0..Len(u)
    BY <1>2
  <2>3. QED
    BY <2>1, <2>2
<1> HIDE DEF diff, minEnd
<1>4. starts \in SUBSET (0..minEnd) /\ starts # {}
  <2>1. 0 \in starts
    BY <1>2, <1>3
  <2>2. QED
    BY <2>1
<1>5. start \in starts
  <2> HIDE DEF starts
  <2>1. QED
    BY <1>2, <1>4, MaxIsGreatest
<1>6. start \in 0..minEnd /\ Slice(s, 0, start) = Slice(u, 0, start)
  BY <1>5
<1> HIDE DEF starts, start
<1>7. ends \in SUBSET Nat /\ ends # {}
  <2>1. maxStart \in Nat /\ maxStart <= Len(s)
    BY <1>2, <1>6
  <2>2. Len(s) + diff = Len(u) /\ Len(s) \in maxStart..Len(s)
    BY <1>2, <2>1
  <2>3. Len(s) \in ends
    BY <1>3, <2>2
  <2>4. maxStart..Len(s) \subseteq Nat
    BY <2>1
  <2>5. QED
    BY <2>3, <2>4
<1>8. Min(ends) \in ends
  <2> HIDE DEF ends
  <2>1. QED
    BY <1>7, MinIsLeast
<1>9. /\ end \in Nat /\ end <= Len(s) /\ end >= Len(s) - minEnd + start
      /\ Slice(s, end, Len(s)) = Slice(u, end + diff, Len(u))
  <2>1. CASE start = minEnd
    <3>1. end = Len(s) /\ end + diff = Len(u)
      BY <1>2, <2>1
    <3>2. end \in Nat /\ end <= Len(s) /\ end >= Len(s) - minEnd + start
      BY <1>2, <2>1, <3>1
    <3>3. QED
      BY <1>3, <3>1, <3>2
  <2>2. CASE start # minEnd
    <3>1. end \in ends
      BY <1>8, <2>2
    <3>2. end \in maxStart..Len(s) /\ Slice(s, end, Len(s)) = Slice(u, end + diff, Len(u))
      BY <3>1
    <3> HIDE DEF end, ends
    <3>3. QED
      BY <1>2, <1>6, <3>2
  <2>3. QED
    BY <2>1, <2>2
<1> HIDE DEF end
<1> DEFINE c == CalculateChangeRange(s, u)
<1>10. c.start = start /\ c.length = end - start /\ c.newLength = end - start + diff
  BY <1>1 DEF Change
<1> HIDE DEF c
<1>11. c.length >= 0 /\ c.newLength >= 0 /\ Len(u) - Len(s) = c.newLength - c.length
  BY <1>2, <1>6, <1>9, <1>10
<1>12. c.start + c.length = end /\ c.start + c.newLength = end + diff
  BY <1>2, <1>6, <1>9, <1>10
<1>13. RangeCovers(c, s, u)
  BY <1>6, <1>9, <1>10, <1>11, <1>12 DEF RangeCovers
<1>14. QED
  BY <1>13 DEF c

-----------------------------------------------------------------------------
(* The invariant                                                           *)

\* The processor knows the content, the range is that of its script, and the text is the script.
VueInv ==
    /\ content \in Seq(STRING)
    /\ source = content
    /\ IsScript(content, range)
    /\ text = Slice(content, range.start, range.end)

\* preprocess returns the script.
LEMMA PreprocessIs ==
    ASSUME NEW s \in Seq(STRING), NEW r, IsScript(s, r)
    PROVE  Preprocess(s, r) = Slice(s, r.start, r.end)
<1>1. r.start \in Nat /\ r.end \in Nat /\ r.start <= r.end /\ r.end <= Len(s) /\ Len(s) \in Nat
  BY DEF IsScript
<1>2. MinOf(r.start, r.end) = r.start /\ MinOf(r.end, Len(s)) = r.end /\ ~(r.end < r.start)
  BY <1>1 DEF MinOf
<1>3. QED
  BY <1>2 DEF Preprocess

\* The constructor establishes the invariant.
LEMMA VueStart == VueInit => VueInv
<1>1. SUFFICES ASSUME VueInit PROVE VueInv
  OBVIOUS
<1>2. content \in Seq(STRING) /\ ScriptEnds(content)
  BY <1>1, ComponentsAssumption DEF VueInit
<1>3. IsScript(content, range)
  BY <1>1, <1>2, ScriptFound DEF VueInit
<1>4. text = Slice(content, range.start, range.end)
  BY <1>1, <1>2, <1>3, PreprocessIs DEF VueInit
<1>5. QED
  BY <1>1, <1>2, <1>3, <1>4 DEF VueInv, VueInit

\* The text of a script, and where its characters are in the content
LEMMA TextIs ==
    ASSUME VueInv
    PROVE  /\ Len(content) \in Nat /\ range.start \in Nat /\ range.end \in Nat
           /\ range.start <= range.end /\ range.end <= Len(content)
           /\ text \in Seq(STRING) /\ Len(text) = range.end - range.start /\ Len(text) \in Nat
           /\ \A n \in 1..Len(text) : text[n] = content[n + range.start]
<1>1. /\ content \in Seq(STRING) /\ Len(content) \in Nat /\ range.start \in Nat /\ range.end \in Nat
      /\ range.start <= range.end /\ range.end <= Len(content)
  BY DEF VueInv, IsScript
<1> DEFINE a == range.start
           b == range.end
<1>2. content \in Seq(STRING) /\ a \in 0..Len(content) /\ b \in a..Len(content) /\ text = Slice(content, a, b) /\ b - a \in Nat
  BY <1>1 DEF VueInv
<1> HIDE DEF a, b
<1>3. /\ Slice(content, a, b) \in Seq(STRING) /\ Len(Slice(content, a, b)) = b - a
      /\ \A n \in 1..b - a : Slice(content, a, b)[n] = content[n + a] /\ n + a \in a + 1..b
  BY ONLY <1>2, SliceType
<1>4. text \in Seq(STRING) /\ Len(text) = b - a /\ Len(text) \in Nat /\ \A n \in 1..Len(text) : text[n] = content[n + a]
  BY <1>2, <1>3
<1>5. QED
  BY <1>1, <1>4 DEF a, b

\* A file has a suffix if it has a script.
LEMMA SuffixIs ==
    ASSUME NEW s
    PROVE  Suffix(s) = "" <=> Opening(s) = {}
BY Zenon DEF Suffix

\* A step fixes something, or fails to, in a file that has a script.
LEMMA StepIs ==
    ASSUME VueNext
    PROVE  Opening(content) # {} /\ \E r \in Replacements : r.start <= r.end /\ (Fix(r) \/ FixFails(r))
BY SuffixIs, Zenon DEF VueNext

\* A fix of the text, mapped to the content: a replacement in the script
LEMMA Mapped ==
    ASSUME VueInv, Opening(content) # {}, NEW r \in Replacements, r.start <= r.end,
           NEW mapped, mapped = MapReplacement(range, r), NEW fixed, fixed = Applied(content, mapped),
           NEW d, d = Len(r.text) - (r.end - r.start)
    PROVE  /\ mapped.start = r.start + range.start /\ mapped.end = r.end + range.start /\ mapped.text = r.text
           /\ r.start \in Nat /\ r.end \in Nat /\ r.start <= r.end /\ r.end <= Len(text) /\ Len(r.text) \in Nat
           /\ fixed \in Seq(STRING) /\ Changed(fixed, content, mapped.start, mapped.end, d)
           /\ Moved(range, fixed) = [range EXCEPT !.end = @ + d]
           /\ IsScript(fixed, Moved(range, fixed))
<1>1. /\ Len(content) \in Nat /\ range.start \in Nat /\ range.end \in Nat
      /\ range.start <= range.end /\ range.end <= Len(content)
      /\ Len(text) = range.end - range.start /\ Len(text) \in Nat
  BY TextIs
<1>2. r.start \in 0..Len(text) /\ r.end \in 0..Len(text) /\ r.text \in Seq(STRING \ (Starts \union Ends))
  BY ComponentsAssumption DEF Replacements
<1> DEFINE a == r.start + range.start
           b == r.end + range.start
<1>3. /\ a \in range.start..range.end /\ b \in a..range.end /\ b - a = r.end - r.start
  BY <1>1, <1>2
<1>4. mapped.start = a /\ mapped.end = b /\ mapped.text = r.text
  BY DEF MapReplacement
<1>5. fixed = Slice(content, 0, a) \o r.text \o Slice(content, b, Len(content)) /\ d = Len(r.text) - (b - a)
  BY <1>3, <1>4 DEF Applied
<1>6. content \in Seq(STRING) /\ IsScript(content, range) /\ source = content
  BY DEF VueInv
<1> HIDE DEF a, b
<1> DEFINE v == [range EXCEPT !.end = @ + d]
<1>7. v = [range EXCEPT !.end = @ + d]
  OBVIOUS
<1> HIDE DEF v
<1>8. fixed \in Seq(STRING) /\ Changed(fixed, content, a, b, d) /\ IsScript(fixed, v)
  BY ONLY Opening(content) # {}, <1>2, <1>3, <1>5, <1>7, <1>6, ScriptReplaced
<1>9. Moved(range, fixed) = v
  <2>1. Len(fixed) - Len(source) = d
    BY <1>1, <1>6, <1>8 DEF Changed
  <2>2. QED
    BY <1>7, <2>1 DEF Moved
<1>10. Len(r.text) \in Nat
  BY <1>2
<1>11. QED
  BY <1>2, <1>4, <1>7, <1>8, <1>9, <1>10 DEF a, b

\* A fix that fails leaves the range as it is.
LEMMA TakenBack ==
    ASSUME VueInv, NEW fixed, NEW d \in Int, Len(fixed) = Len(content) + d,
           NEW there, there = [range EXCEPT !.end = @ + d]
    PROVE  [there EXCEPT !.end = @ + Len(content) - Len(fixed)] = range
<1>1. range \in [start : Nat, end : Nat, line : Nat, firstLineOffset : Int] /\ Len(content) \in Nat
  BY DEF VueInv, IsScript
<1>2. range.end + d + (Len(content) - Len(fixed)) = range.end
  BY <1>1
<1>3. QED
  BY <1>1, <1>2

\* Every step keeps the invariant.
LEMMA VueStep == VueInv /\ [VueNext]_vueVars => VueInv'
<1>1. SUFFICES ASSUME VueInv, [VueNext]_vueVars PROVE VueInv'
  OBVIOUS
<1>2. CASE UNCHANGED vueVars
  BY <1>1, <1>2 DEF VueInv, vueVars
<1>3. ASSUME Opening(content) # {}, NEW r \in Replacements, r.start <= r.end, Fix(r) \/ FixFails(r)
      PROVE  VueInv'
  <2> DEFINE mapped == MapReplacement(range, r)
             fixed == Applied(content, mapped)
             d == Len(r.text) - (r.end - r.start)
  <2>1. /\ fixed \in Seq(STRING) /\ Len(fixed) = Len(content) + d /\ d \in Int
        /\ Moved(range, fixed) = [range EXCEPT !.end = @ + d]
        /\ IsScript(fixed, Moved(range, fixed))
    BY <1>1, <1>3, Mapped DEF Changed
  <2>2. CASE Fix(r)
    <3>1. source' = fixed /\ content' = fixed /\ range' = Moved(range, fixed) /\ text' = Preprocess(fixed, range')
      BY <2>2 DEF Fix, UpdateSource
    <3> HIDE DEF fixed, d
    <3>2. text' = Slice(fixed, range'.start, range'.end)
      BY <2>1, <3>1, PreprocessIs
    <3>3. QED
      BY <2>1, <3>1, <3>2 DEF VueInv
  <2>3. CASE FixFails(r)
    <3>1. /\ source' = content /\ content' = content /\ text' = text
          /\ range' = [Moved(range, fixed) EXCEPT !.end = @ + Len(content) - Len(fixed)]
      BY <2>3 DEF FixFails
    <3> HIDE DEF fixed, d
    <3>2. range' = range
      BY <1>1, <2>1, <3>1, TakenBack
    <3>3. QED
      BY <1>1, <3>1, <3>2 DEF VueInv
  <2>4. QED
    BY <1>3, <2>2, <2>3
<1>4. QED
  BY <1>1, <1>2, <1>3, StepIs

-----------------------------------------------------------------------------
(* Positions                                                               *)

\* If there is a line break, there is a last one.
LEMMA LastLineBreak ==
    ASSUME NEW s, NEW p \in Nat, LineBreaks(s, p) # {}
    PROVE  Max(LineBreaks(s, p)) \in Nat
<1>1. LineBreaks(s, p) \in SUBSET (0..p)
  BY LineBreaksType
<1>2. Max(LineBreaks(s, p)) \in LineBreaks(s, p)
  BY <1>1, MaxIsGreatest
<1>3. QED
  BY <1>1, <1>2

\* Characters are numbers.
LEMMA CharacterIsInt ==
    ASSUME NEW s, NEW p \in Nat
    PROVE  Location(s, p).character \in Int
BY LastLineBreak, LocationIs

\* A position in the text is mapped to the place of its character in the content, or to the next one in the line of
\* the tag.
LEMMA PositionsFit ==
    ASSUME VueInv, NEW p \in 0..Len(text), NEW mapped, mapped = AdjustPosition(range, Location(text, p)),
           NEW there, there = Location(content, mapped.position)
    PROVE  /\ mapped.line = there.line
           /\ mapped.character = there.character + IF InLineOfTag /\ Location(text, p).line = 0 THEN 1 ELSE 0
           /\ p < Len(text) => At(content, mapped.position) = At(text, p)
<1> DEFINE a == range.start
           q == p + a
           here == Location(text, p)
<1>1. /\ a \in Nat /\ Len(text) \in Nat /\ \A n \in 1..Len(text) : text[n] = content[n + a]
  BY TextIs
<1>2. p \in Nat /\ p <= Len(text) /\ q \in Nat /\ q = a + p
  BY <1>1
<1>3. PartAt(text, p, content, a)
  <2>1. \A n \in 1..p : n \in 1..Len(text)
    BY <1>1, <1>2
  <2>2. QED
    BY <1>1, <2>1 DEF PartAt
<1>4. range.line = Breaks(content, a) /\ FirstLine(content, range)
  BY DEF VueInv, IsScript
<1> HIDE DEF a, q
<1>5. here.line = Breaks(text, p) /\ here.position = p
  BY <1>2, LocationIs
<1> HIDE DEF here
<1>6. /\ mapped.line = here.line + range.line /\ mapped.position = q
      /\ mapped.character = IF here.line = 0 THEN here.character + range.firstLineOffset ELSE here.character
  BY <1>5 DEF AdjustPosition, here, q, a
<1>7. there.line = Breaks(content, q) /\ there = Location(content, q)
  BY <1>2, <1>6, LocationIs
<1>8. Breaks(content, q) = Breaks(content, a) + Breaks(text, p) /\ Breaks(content, a) \in Nat /\ Breaks(text, p) \in Nat
  <2>1. Breaks(content, q) = Breaks(content, a) + Breaks(text, p)
    BY <1>1, <1>2, <1>3, LineBreaksInPart
  <2>2. QED
    BY <1>1, <1>2, <2>1, LineBreaksType
<1>9. mapped.line = there.line
  BY <1>4, <1>5, <1>6, <1>7, <1>8
<1>10. /\ Breaks(text, p) # 0 => there.character = here.character
       /\ Breaks(text, p) = 0 => /\ here.character = p
                                 /\ Breaks(content, a) = 0 => there.character = q
                                 /\ Breaks(content, a) # 0 => there.character = q - Max(LineBreaks(content, a)) - 1
                                 /\ a # 0 /\ At(content, a - 1) = "lf" => there.character = p
                                 /\ a = 0 => there.character = p
  BY <1>1, <1>2, <1>3, <1>7, CharacterInPart DEF here
<1>11. mapped.character = there.character + IF InLineOfTag /\ here.line = 0 THEN 1 ELSE 0
  <2>0. here.character \in Int /\ there.character \in Int
    BY <1>2, <1>7, CharacterIsInt DEF here
  <2>1. CASE Breaks(text, p) # 0
    BY <1>5, <1>6, <1>10, <2>0, <2>1
  <2>2. CASE Breaks(text, p) = 0
    <3>1. here.line = 0 /\ mapped.character = p + range.firstLineOffset
      BY <1>5, <1>6, <1>10, <2>2
    <3>2. CASE range.firstLineOffset = 0 /\ (a = 0 \/ At(content, a - 1) = "lf")
      <4>1. there.character = p
        BY <1>10, <2>2, <3>2
      <4>2. ~InLineOfTag
        BY <3>2 DEF InLineOfTag
      <4>3. QED
        BY <1>2, <3>1, <3>2, <4>1, <4>2
    <3>3. CASE range.firstLineOffset # 0 /\ range.line # 0 /\ range.firstLineOffset = a - Max(LineBreaks(content, a))
      <4>1. there.character = q - Max(LineBreaks(content, a)) - 1
        BY <1>4, <1>10, <2>2, <3>3
      <4>2. Max(LineBreaks(content, a)) \in Int
        BY <1>1, <1>4, <3>3, LineBreaksType, LastLineBreak
      <4>3. InLineOfTag
        BY <3>3 DEF InLineOfTag
      <4>4. QED
        BY <1>1, <1>2, <3>1, <3>3, <4>1, <4>2, <4>3
    <3>4. CASE range.line = 0 /\ range.firstLineOffset = a
      <4>1. there.character = q
        BY <1>4, <1>10, <2>2, <3>4
      <4>2. ~InLineOfTag
        BY <3>4 DEF InLineOfTag
      <4>3. QED
        BY <1>1, <1>2, <3>1, <3>4, <4>1, <4>2
    <3>5. QED
      BY <1>4, <3>2, <3>3, <3>4 DEF FirstLine, a
  <2>3. QED
    BY <2>1, <2>2
<1>12. p < Len(text) => At(content, mapped.position) = At(text, p)
  <2>1. SUFFICES ASSUME p < Len(text) PROVE At(content, q) = At(text, p)
    BY <1>6
  <2>2. p + 1 \in 1..Len(text) /\ p + 1 + a = q + 1
    BY <1>1, <1>2, <2>1
  <2>3. text[p + 1] = content[p + 1 + a]
    BY <1>1, <2>2
  <2>4. QED
    BY <2>2, <2>3 DEF At
<1>13. QED
  BY <1>9, <1>11, <1>12 DEF here

\* A new processor finds the same end of the script, and the same start, apart from a line break behind the tag.
LEMMA FoundAgain ==
    ASSUME VueInv
    PROVE  Preprocess(content, ScriptRange(content)) \in
               {text} \union {Slice(text, n, Len(text)) : n \in {n \in 1..2 : n <= Len(text) /\ At(text, n - 1) = "lf"}}
<1>1. content \in Seq(STRING) /\ IsScript(content, range) /\ text = Slice(content, range.start, range.end)
  BY DEF VueInv
<1>2. CASE Opening(content) = {}
  <2>1. ScriptRange(content) = range
    BY <1>1, <1>2 DEF IsScript
  <2>2. QED
    BY <1>1, <2>1, PreprocessIs
<1>3. CASE Opening(content) # {}
  <2> DEFINE tag == Max(Opening(content))
             skip == Skip(content)
             e == range.end
             found == ScriptRange(content)
  <2>1. /\ Len(content) \in Nat /\ range.start \in Nat /\ e \in Nat /\ range.start <= e /\ e <= Len(content)
        /\ Len(text) = e - range.start /\ text \in Seq(STRING)
        /\ \A n \in 1..Len(text) : text[n] = content[n + range.start]
    BY TextIs
  <2>2. /\ \/ range.start = tag
           \/ range.start = tag + 1 /\ content[tag + 1] = "lf"
           \/ range.start = tag + 2 /\ content[tag + 1] = "cr" /\ content[tag + 2] = "lf"
        /\ \A n \in tag + 1..e : content[n] # "</script>"
        /\ IF Closing(content) = {} THEN e = Len(content) ELSE Max(Closing(content)) = e + 1
    BY <1>1, <1>3 DEF IsScript, BehindTag
  <2>3. /\ tag \in Nat /\ skip \in {0, 1, 2}
        /\ skip = 2 <=> tag + 2 <= Len(content) /\ content[tag + 1] = "cr" /\ content[tag + 2] = "lf"
        /\ skip = 1 <=> tag + 1 <= Len(content) /\ content[tag + 1] = "lf"
    <3>1. Tag(content) = tag
      BY <1>3 DEF Tag
    <3> HIDE DEF tag
    <3>2. QED
      BY <1>1, <3>1, SkipIs
  <2>4. Tag(content) = tag /\ ScriptEnd(content) = e
    BY <1>3, <2>1, <2>2 DEF Tag, ScriptEnd
  <2>5. ScriptEnds(content)
    <3>1. Closing(content) # {} => tag < Max(Closing(content)) /\ Max(Closing(content)) - 1 = e
      BY <2>1, <2>2, <2>3
    <3>2. QED
      BY <2>2, <3>1 DEF ScriptEnds
  <2>6. found.start = tag + skip /\ found.end = e
    BY <1>1, <2>4, ScriptRangeIs
  <2>7. IsScript(content, found)
    BY <1>1, <2>5, ScriptFound
  <2>8. found.start <= e
    BY <2>6, <2>7 DEF IsScript
  <2>9. Preprocess(content, found) = Slice(content, tag + skip, e)
    BY <1>1, <2>6, <2>7, PreprocessIs
  <2> HIDE DEF tag, skip, e, found
  <2>10. CASE range.start = tag + skip
    BY <1>1, <2>9, <2>10 DEF found, e
  <2>11. CASE range.start # tag + skip
    <3>1. range.start = tag /\ skip \in 1..2
      BY <2>1, <2>2, <2>3, <2>11
    <3>2. skip <= Len(text) /\ tag + skip <= e
      BY <2>1, <2>3, <2>6, <2>8, <3>1
    <3>3. At(text, skip - 1) = "lf"
      <4>1. skip \in 1..Len(text) /\ skip - 1 + 1 = skip /\ skip + tag = tag + skip
        BY <2>1, <2>3, <3>1, <3>2
      <4>2. text[skip] = content[tag + skip]
        BY <2>1, <3>1, <4>1
      <4>3. content[tag + skip] = "lf"
        BY <2>3, <3>1
      <4>4. QED
        BY <4>1, <4>2, <4>3 DEF At
    <3>4. Slice(text, skip, Len(text)) = Slice(content, tag + skip, e)
      <4> DEFINE m == Len(text)
                 f == tag + skip
                 v == Slice(text, skip, m)
                 w == Slice(content, f, e)
      <4>1. /\ skip \in 0..Len(text) /\ m \in skip..Len(text) /\ text \in Seq(STRING)
            /\ f \in 0..Len(content) /\ e \in f..Len(content) /\ content \in Seq(STRING)
            /\ m - skip = e - f
        BY <1>1, <2>1, <2>3, <3>1, <3>2
      <4> HIDE DEF m, f
      <4>2. /\ v \in Seq(STRING) /\ Len(v) = m - skip
            /\ \A n \in 1..m - skip : v[n] = text[n + skip] /\ n + skip \in skip + 1..m
        BY ONLY <4>1, SliceType
      <4>3. /\ w \in Seq(STRING) /\ Len(w) = e - f
            /\ \A n \in 1..e - f : w[n] = content[n + f] /\ n + f \in f + 1..e
        BY ONLY <4>1, SliceType
      <4> HIDE DEF v, w
      <4>4. ASSUME NEW n \in 1..Len(v)
            PROVE  v[n] = w[n]
        <5>1. n \in 1..m - skip /\ n \in 1..e - f
          BY <4>1, <4>2
        <5>2. n + skip \in 1..Len(text) /\ n + skip + range.start = n + f
          BY <2>1, <2>3, <3>1, <3>2, <5>1 DEF m, f
        <5>3. text[n + skip] = content[n + f]
          BY <2>1, <5>2
        <5>4. QED
          BY <4>2, <4>3, <5>1, <5>3
      <4>5. v \in Seq(STRING) /\ w \in Seq(STRING) /\ Len(v) = Len(w) /\ \A n \in 1..Len(v) : v[n] = w[n]
        BY <4>1, <4>2, <4>3, <4>4
      <4>6. v = w
        BY ONLY <4>5, SameSeq
      <4>7. QED
        BY <4>6 DEF v, w, m, f
    <3>5. skip \in {n \in 1..2 : n <= Len(text) /\ At(text, n - 1) = "lf"}
      BY <3>1, <3>2, <3>3
    <3>6. QED
      BY <2>9, <3>4, <3>5 DEF found
  <2>12. QED
    BY <2>10, <2>11
<1>4. QED
  BY <1>2, <1>3

\* The invariant says where the script is: what the processor maps back.
LEMMA InvMapsBack == VueInv => ScriptMapsBack
<1>1. SUFFICES ASSUME VueInv PROVE ScriptMapsBack
  OBVIOUS
<1>2. source = content /\ text = Preprocess(content, range)
  BY <1>1, PreprocessIs DEF VueInv
<1>3. \A p \in 0..Len(text) :
         LET mapped == AdjustPosition(range, Location(text, p))
             there  == Location(content, mapped.position)
         IN  /\ mapped.line = there.line
             /\ mapped.character = there.character + IF InLineOfTag /\ Location(text, p).line = 0 THEN 1 ELSE 0
             /\ p < Len(text) => At(content, mapped.position) = At(text, p)
  BY <1>1, PositionsFit
<1>4. Preprocess(content, ScriptRange(content)) \in
         {text} \union {Slice(text, n, Len(text)) : n \in {n \in 1..2 : n <= Len(text) /\ At(text, n - 1) = "lf"}}
  BY <1>1, FoundAgain
<1>5. Suffix(content) = "" <=> Opening(content) = {}
  BY SuffixIs, Zenon
<1>6. QED
  BY <1>2, <1>3, <1>4, <1>5, Zenon DEF ScriptMapsBack

-----------------------------------------------------------------------------
(* Changes                                                                 *)

\* After a step, too, the script is a part of the file.
LEMMA TextAfter ==
    ASSUME VueInv'
    PROVE  /\ text' \in Seq(STRING) /\ Len(text') = range'.end - range'.start /\ Len(text') \in Nat
           /\ \A n \in 1..Len(text') : text'[n] = content'[n + range'.start]
<1>1. content' \in Seq(STRING) /\ text' = Slice(content', range'.start, range'.end) /\ IsScript(content', range')
  BY DEF VueInv
<1>2. range'.start \in 0..Len(content') /\ range'.end \in range'.start..Len(content')
  BY <1>1 DEF IsScript
<1> DEFINE b == range'.start
           f == range'.end
           w == content'
           v == text'
<1>3. w \in Seq(STRING) /\ b \in 0..Len(w) /\ f \in b..Len(w) /\ v = Slice(w, b, f)
  BY <1>1, <1>2
<1> HIDE DEF b, f, w, v
<1>4. /\ Slice(w, b, f) \in Seq(STRING) /\ Len(Slice(w, b, f)) = f - b
      /\ \A n \in 1..f - b : Slice(w, b, f)[n] = w[n + b] /\ n + b \in b + 1..f
  BY ONLY <1>3, SliceType
<1>5. v \in Seq(STRING) /\ Len(v) = f - b /\ Len(v) \in Nat /\ \A n \in 1..Len(v) : v[n] = w[n + b]
  BY <1>3, <1>4
<1>6. QED
  BY <1>5 DEF b, f, w, v

\* A fix changes the script and nothing else, and the range that the parser gets covers it.
LEMMA FixCovered ==
    ASSUME VueInv, VueInv', Opening(content) # {}, NEW r \in Replacements, r.start <= r.end, Fix(r)
    PROVE  LET change == [lastRange' EXCEPT !.start = @ + range.start]
           IN  /\ RangeCovers(change, content, content')
               /\ RangeCovers(lastRange', text, text')
               /\ range.start <= change.start /\ change.start + change.length <= range.start + Len(text)
<1> DEFINE mapped == MapReplacement(range, r)
           fixed == Applied(content, mapped)
           d == Len(r.text) - (r.end - r.start)
           a == range.start
           x == r.start
           y == r.end
           l == Len(r.text)
           change == [lastRange' EXCEPT !.start = @ + range.start]
<1>1. /\ mapped.start = x + a /\ mapped.end = y + a /\ mapped.text = r.text
      /\ x \in Nat /\ y \in Nat /\ x <= y /\ y <= Len(text) /\ l \in Nat
      /\ fixed \in Seq(STRING) /\ Changed(fixed, content, mapped.start, mapped.end, d)
      /\ Moved(range, fixed) = [range EXCEPT !.end = @ + d]
  BY Mapped
<1>2. /\ content' = fixed /\ range' = Moved(range, fixed)
      /\ lastRange' = [Change(mapped.start, mapped.end - mapped.start, Len(mapped.text)) EXCEPT !.start = @ - a]
  BY DEF Fix, UpdateSource
<1> HIDE DEF mapped, fixed
<1>3. /\ Len(content) \in Nat /\ a \in Nat /\ range.end \in Nat /\ a <= range.end /\ range.end <= Len(content)
      /\ Len(text) = range.end - a /\ Len(text) \in Nat
  BY TextIs
<1>4. /\ text \in Seq(STRING) /\ \A n \in 1..Len(text) : text[n] = content[n + a]
  BY TextIs
<1>5. range'.start = a /\ range'.end = range.end + d
  <2>1. range \in [start : Nat, end : Nat, line : Nat, firstLineOffset : Int]
    BY DEF VueInv, IsScript
  <2> HIDE DEF d
  <2>2. QED
    BY <1>1, <1>2, <2>1
<1>6. /\ text' \in Seq(STRING) /\ Len(text') = range'.end - range'.start /\ Len(text') \in Nat
      /\ \A n \in 1..Len(text') : text'[n] = content'[n + range'.start]
  BY TextAfter
<1> HIDE DEF a, x, y, l
<1>7. /\ x \in Nat /\ y \in Nat /\ x <= y /\ y <= Len(text) /\ l \in Nat /\ d = l - (y - x) /\ d \in Int
  <2>1. x \in Nat /\ y \in Nat /\ x <= y /\ y <= Len(text) /\ l \in Nat /\ d = l - (y - x)
    BY <1>1 DEF x, y, l
  <2> HIDE DEF d
  <2>2. QED
    BY <2>1
<1> HIDE DEF d
<1>8. /\ lastRange'.start = x /\ lastRange'.length = y - x /\ lastRange'.newLength = l
      /\ change.start = x + a /\ change.length = y - x /\ change.newLength = l
  <2> DEFINE p == x + a
             q == (y + a) - (x + a)
  <2>1. lastRange' = [Change(p, q, l) EXCEPT !.start = @ - a]
    BY <1>1, <1>2 DEF l
  <2>2. p - a = x /\ q = y - x
    BY <1>3, <1>7
  <2> HIDE DEF p, q
  <2>3. lastRange'.start = p - a /\ lastRange'.length = q /\ lastRange'.newLength = l
    BY ONLY <2>1 DEF Change
  <2>4. lastRange' = [start |-> p - a, length |-> q, newLength |-> l]
    BY ONLY <2>1 DEF Change
  <2>5. change.start = p - a + a /\ change.length = q /\ change.newLength = l
    BY ONLY <2>4 DEF change, a
  <2>6. QED
    BY <2>2, <2>3, <2>5
<1>9. /\ Len(fixed) = Len(content) + d
      /\ \A n \in 1..x + a : fixed[n] = content[n]
      /\ \A n \in y + a + 1..Len(content) : fixed[n + d] = content[n]
  <2>1. Changed(fixed, content, x + a, y + a, d)
    BY <1>1
  <2>2. QED
    BY <2>1 DEF Changed
<1> HIDE DEF change
<1>10. RangeCovers(change, content, content')
  <2>1. /\ change.start \in Nat /\ change.length \in Nat /\ change.newLength \in Nat
        /\ change.start + change.length = y + a /\ y + a <= Len(content) /\ change.newLength - change.length = d
    BY <1>3, <1>7, <1>8
  <2>2. content \in Seq(STRING) /\ fixed \in Seq(STRING)
    BY <1>1 DEF VueInv
  <2>3. /\ change.start + change.length <= Len(content) /\ Len(fixed) = Len(content) + (change.newLength - change.length)
        /\ \A n \in 1..change.start : fixed[n] = content[n]
        /\ \A n \in change.start + change.length + 1..Len(content) : fixed[n + (change.newLength - change.length)] = content[n]
    BY <1>8, <1>9, <2>1
  <2>4. RangeCovers(change, content, fixed)
    BY ONLY <2>1, <2>2, <2>3, Covers
  <2>5. QED
    BY <1>2, <2>4
<1>11. RangeCovers(lastRange', text, text')
  <2> DEFINE c == lastRange'
             v == text'
  <2>1. v \in Seq(STRING) /\ Len(v) = Len(text) + d /\ \A n \in 1..Len(v) : v[n] = fixed[n + a]
    <3>1. Len(v) = (range.end + d) - a
      BY <1>5, <1>6
    <3>2. Len(v) = Len(text) + d
      BY <1>3, <1>7, <3>1
    <3>3. QED
      BY <1>2, <1>5, <1>6, <3>2
  <2>2. c.start = x /\ c.length = y - x /\ c.newLength = l
    BY <1>8
  <2> HIDE DEF c, v
  <2>3. /\ c.start \in Nat /\ c.length \in Nat /\ c.newLength \in Nat
        /\ c.start + c.length = y /\ c.newLength - c.length = d
    BY <1>7, <2>2
  <2>4. ASSUME NEW n \in 1..x
        PROVE  v[n] = text[n]
    <3>1. n \in 1..Len(v) /\ n \in 1..Len(text) /\ n + a \in 1..x + a
      BY <1>3, <1>7, <2>1
    <3>2. v[n] = fixed[n + a] /\ text[n] = content[n + a] /\ fixed[n + a] = content[n + a]
      BY <1>4, <1>9, <2>1, <3>1
    <3>3. QED
      BY <3>2
  <2>5. ASSUME NEW n \in y + 1..Len(text)
        PROVE  v[n + d] = text[n]
    <3>1. n + d \in 1..Len(v) /\ n \in 1..Len(text) /\ n + a \in y + a + 1..Len(content) /\ n + d + a = n + a + d
      BY <1>3, <1>7, <2>1
    <3>2. v[n + d] = fixed[n + d + a] /\ text[n] = content[n + a] /\ fixed[n + a + d] = content[n + a]
      BY <1>4, <1>9, <2>1, <3>1
    <3>3. QED
      BY <3>1, <3>2
  <2>6. /\ c.start + c.length <= Len(text) /\ Len(v) = Len(text) + (c.newLength - c.length)
        /\ \A n \in 1..c.start : v[n] = text[n]
        /\ \A n \in c.start + c.length + 1..Len(text) : v[n + (c.newLength - c.length)] = text[n]
    BY <1>7, <2>1, <2>2, <2>3, <2>4, <2>5
  <2>7. RangeCovers(c, text, v)
    BY ONLY <1>4, <2>1, <2>3, <2>6, Covers
  <2>8. QED
    BY <2>7 DEF c, v
<1>12. a <= change.start /\ change.start + change.length <= a + Len(text)
  BY <1>3, <1>7, <1>8
<1>13. QED
  BY <1>10, <1>11, <1>12 DEF a, change

\* A step changes nothing but the script, and both ranges cover what it changes.
LEMMA StepCovered ==
    ASSUME VueInv, VueInv', [VueNext]_vueVars
    PROVE  [/\ content' # content =>
                  LET change == [lastRange' EXCEPT !.start = @ + range.start]
                  IN  /\ RangeCovers(change, content, content')
                      /\ RangeCovers(lastRange', text, text')
                      /\ range.start <= change.start /\ change.start + change.length <= range.start + Len(text)
            /\ RangeCovers(CalculateChangeRange(text, text'), text, text')]_vueVars
<1>1. text \in Seq(STRING)
  BY TextIs
<1>2. text' \in Seq(STRING)
  BY TextAfter
<1>3. RangeCovers(CalculateChangeRange(text, text'), text, text')
  BY <1>1, <1>2, CalculatedRange
<1>4. CASE VueNext
  <2>1. PICK r \in Replacements : Opening(content) # {} /\ r.start <= r.end /\ (Fix(r) \/ FixFails(r))
    BY <1>4, StepIs
  <2>2. CASE Fix(r)
    BY <1>3, <2>1, <2>2, FixCovered
  <2>3. CASE FixFails(r)
    BY <1>3, <2>3 DEF FixFails
  <2>4. QED
    BY <2>1, <2>2, <2>3
<1>5. QED
  BY <1>4

-----------------------------------------------------------------------------
(* Theorems                                                                *)

\* The invariant holds.
LEMMA VueInvariant == VueSpec => []VueInv
BY VueStart, VueStep, PTL DEF VueSpec

\* Whatever was fixed or taken back, for any components whose script ends at its end tag, any texts that contain no
\* tags and any number of fixes: a finding in the text of a component is mapped to its place in the file, and a new
\* processor would find the same script (packages/ve/src/index.ts). In the line of a tag without line break behind it
\* the character is one too high, unless this is the first line of the file: the case that line 119 claims and line 72
\* gets wrong.
THEOREM PositionsMapBack == VueSpec => []ScriptMapsBack
<1>1. VueSpec => []VueInv
  BY VueInvariant
<1>2. VueInv => ScriptMapsBack
  BY InvMapsBack
<1>3. QED
  BY <1>1, <1>2, PTL

\* Fixes change nothing but the script, and the ranges that updateSource and calculateChangeRange return cover what
\* they change: outside of them the old tree of the parser may be used again.
THEOREM OnlyScriptChanges == VueSpec => FixesStayInScript
<1>1. VueInv /\ VueInv' /\ [VueNext]_vueVars =>
         [/\ content' # content =>
                LET change == [lastRange' EXCEPT !.start = @ + range.start]
                IN  /\ RangeCovers(change, content, content')
                    /\ RangeCovers(lastRange', text, text')
                    /\ range.start <= change.start /\ change.start + change.length <= range.start + Len(text)
          /\ RangeCovers(CalculateChangeRange(text, text'), text, text')]_vueVars
  BY StepCovered
<1>2. VueInv /\ VueInv' /\ [VueNext]_vueVars =>
         [content' # content =>
            LET change == [lastRange' EXCEPT !.start = @ + range.start]
            IN  /\ RangeCovers(change, content, content')
                /\ RangeCovers(lastRange', text, text')
                /\ range.start <= change.start /\ change.start + change.length <= range.start + Len(text)
                /\ RangeCovers(CalculateChangeRange(text, text'), text, text')]_vueVars
  BY <1>1
<1>3. VueSpec => []VueInv /\ [][VueNext]_vueVars
  BY VueInvariant DEF VueSpec
<1>4. QED
  BY <1>2, <1>3, PTL DEF FixesStayInScript
=============================================================================
