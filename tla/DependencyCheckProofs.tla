------------------------ MODULE DependencyCheckProofs ------------------------
(***************************************************************************)
(* The walk over the dependencies of a file finds out whether the file is  *)
(* up to date, for any dependencies before and after a change and whatever *)
(* cycles they contain.                                                    *)
(*                                                                         *)
(* The argument: at any time parents is a path of files that depend on     *)
(* each other, every cycle owns a run of positions of that path, and what  *)
(* a parent depends on is Ok, in its cycle, the next parent or still in    *)
(* the queue (Walking). So the files that leave the stacks together have   *)
(* no dependencies but each other and files that are Ok, which keeps the   *)
(* statuses true (Truthful).                                               *)
(*                                                                         *)
(* The last part is about the resolver the walk gets the dependencies      *)
(* from: what DependencyResolverImpl keeps over updates of the program is  *)
(* what it would collect now, for any files, any texts and any sequence of *)
(* updates and questions; so its answers are those of FreshResolver.       *)
(***************************************************************************)
EXTENDS DependencyCheck, DependencyResolver, ProgramGraphProofs, FiniteSetTheorems, SequenceTheorems, TLAPS

-----------------------------------------------------------------------------
(* Numbers                                                                 *)

\* A set of natural numbers has a least element.
LEMMA Least ==
    ASSUME NEW T \in SUBSET Nat, T # {}
    PROVE  \E x \in T : \A y \in T : x <= y
<1> DEFINE R == {ss \in Nat \X Nat : ss[1] < ss[2]}
<1>1. IsWellFoundedOn(R, Nat)
  BY NatLessThanWellFounded DEF OpToRel
<1>2. PICK x \in T : \A y \in T : <<y, x>> \notin R
  BY <1>1, WFMin
<1>3. \A y \in T : <<y, x>> \in Nat \X Nat /\ <<y, x>>[1] = y /\ <<y, x>>[2] = x
  BY <1>2
<1>4. \A y \in T : ~(y < x)
  BY <1>2, <1>3
<1>5. QED
  BY <1>2, <1>4

\* A set of positions has a greatest element.
LEMMA Greatest ==
    ASSUME NEW n \in Nat, NEW T \in SUBSET (0..n), T # {}
    PROVE  \E x \in T : \A y \in T : y <= x
<1> DEFINE D == {d \in 0..n : n - d \in T}
<1>1. D \in SUBSET Nat /\ D # {}
  <2>1. PICK x \in T : TRUE
    OBVIOUS
  <2>2. x \in 0..n
    BY <2>1
  <2>3. n - x \in 0..n /\ n - (n - x) = x
    BY <2>2
  <2>4. n - x \in D
    BY <2>1, <2>3
  <2>5. D \subseteq 0..n
    OBVIOUS
  <2>6. 0..n \subseteq Nat
    OBVIOUS
  <2>7. QED
    BY <2>4, <2>5, <2>6
<1> HIDE DEF D
<1>2. PICK d \in D : \A c \in D : d <= c
  BY <1>1, Least
<1>3. d \in 0..n /\ n - d \in T
  BY <1>2 DEF D
<1>4. ASSUME NEW y \in T
      PROVE  y <= n - d
  <2>1. n - y \in 0..n /\ n - (n - y) = y /\ y \in 0..n
    OBVIOUS
  <2>2. n - y \in D
    BY <2>1 DEF D
  <2>3. d <= n - y
    BY <1>2, <2>2
  <2>4. QED
    BY <1>3, <2>1, <2>3
<1>5. QED
  BY <1>3, <1>4

\* What CHOOSE finds for Max.
LEMMA MaxOfPositions ==
    ASSUME NEW n \in Nat, NEW T \in SUBSET (0..n), T # {}
    PROVE  Max(T) \in T /\ \A y \in T : y <= Max(T)
<1>1. \E x \in T : \A y \in T : x >= y
  BY Greatest
<1>2. QED
  BY <1>1 DEF Max

\* What CHOOSE finds for Min.
LEMMA MinOfPositions ==
    ASSUME NEW n \in Nat, NEW T \in SUBSET (0..n), T # {}
    PROVE  Min(T) \in T /\ \A y \in T : Min(T) <= y
<1>1. \E x \in T : \A y \in T : x <= y
  BY Least
<1>2. QED
  BY <1>1 DEF Min

\* No position is at infinity.
LEMMA InfinityFar == Cardinality(Files) \in Nat /\ Infinity \in Nat /\ Cardinality(Files) < Infinity
BY FilesAssumption, FS_CardinalityType DEF Infinity

\* How many dependencies a file may have.
LEMMA ManyChildren == Cardinality(Files) * Cardinality(Specs) \in Nat
<1>1. Cardinality(Files) \in Nat /\ Cardinality(Specs) \in Nat
  BY FilesAssumption, FS_CardinalityType
<1>2. QED
  BY <1>1

\* A sequence of different files is no longer than there are files.
LEMMA DifferentFiles ==
    ASSUME NEW p \in Seq(Files), \A i, j \in DOMAIN p : i < j => p[i] # p[j]
    PROVE  Len(p) <= Cardinality(Files)
<1>1. Len(p) \in Nat /\ DOMAIN p = 1..Len(p) /\ p \in [1..Len(p) -> Files]
  OBVIOUS
<1>2. \A i, j \in 1..Len(p) : p[i] = p[j] => i = j
  BY <1>1
<1>3. p \in Injection(1..Len(p), Files)
  BY <1>1, <1>2 DEF Injection, IsInjective
<1>4. Cardinality(1..Len(p)) <= Cardinality(Files)
  BY <1>3, FilesAssumption, FS_Injection
<1>5. Cardinality(1..Len(p)) = Len(p)
  BY <1>1, FS_Interval
<1>6. QED
  BY <1>4, <1>5

-----------------------------------------------------------------------------
(* Sequences                                                               *)

\* Functions on positions are sequences.
LEMMA FunctionIsSeq ==
    ASSUME NEW T, NEW n \in Nat, NEW q \in [1..n -> T]
    PROVE  q \in Seq(T) /\ Len(q) = n
OBVIOUS

\* What is put on a stack lies on top of what was there.
LEMMA AppendFacts ==
    ASSUME NEW T, NEW q \in Seq(T), NEW x \in T
    PROVE  /\ Append(q, x) \in Seq(T)
           /\ Len(Append(q, x)) = Len(q) + 1
           /\ \A n \in 1..Len(q) : Append(q, x)[n] = q[n]
           /\ Append(q, x)[Len(q) + 1] = x
OBVIOUS

\* A sequence behind another one.
LEMMA ConcatFacts ==
    ASSUME NEW T, NEW q \in Seq(T), NEW o \in Seq(T)
    PROVE  /\ q \o o \in Seq(T) /\ Len(q \o o) = Len(q) + Len(o)
           /\ \A n \in 1..Len(q) : (q \o o)[n] = q[n]
           /\ \A n \in 1..Len(o) : (q \o o)[Len(q) + n] = o[n]
<1>1. /\ q \o o \in Seq(T) /\ Len(q \o o) = Len(q) + Len(o)
      /\ \A n \in 1..Len(q) + Len(o) : (q \o o)[n] = IF n <= Len(q) THEN q[n] ELSE o[n - Len(q)]
  BY ConcatProperties
<1>2. Len(q) \in Nat /\ Len(o) \in Nat
  OBVIOUS
<1>3. ASSUME NEW n \in 1..Len(q)
      PROVE  (q \o o)[n] = q[n]
  BY <1>1, <1>2
<1>4. ASSUME NEW n \in 1..Len(o)
      PROVE  (q \o o)[Len(q) + n] = o[n]
  <2>1. /\ Len(q) + n \in 1..Len(q) + Len(o) /\ ~(Len(q) + n <= Len(q)) /\ Len(q) + n - Len(q) = n
    BY <1>2
  <2>2. QED
    BY <1>1, <2>1
<1>5. QED
  BY <1>1, <1>3, <1>4

\* The beginning of a sequence.
LEMMA PrefixFacts ==
    ASSUME NEW T, NEW q \in Seq(T), NEW m \in 0..Len(q)
    PROVE  /\ SubSeq(q, 1, m) \in Seq(T)
           /\ Len(SubSeq(q, 1, m)) = m
           /\ \A n \in 1..m : SubSeq(q, 1, m)[n] = q[n]
<1>1. Len(q) \in Nat /\ m \in Int /\ 1 \in Int /\ m >= 0
  OBVIOUS
<1>2. \A n \in 1..m : q[n] \in T
  BY <1>1
<1>3. /\ SubSeq(q, 1, m) \in Seq(T)
      /\ Len(SubSeq(q, 1, m)) = IF 1 <= m THEN m - 1 + 1 ELSE 0
      /\ \A n \in 1..m - 1 + 1 : SubSeq(q, 1, m)[n] = q[1 + n - 1]
  BY <1>1, <1>2, SubSeqProperties
<1>4. Len(SubSeq(q, 1, m)) = m
  BY <1>1, <1>3
<1>5. \A n \in 1..m : n \in 1..m - 1 + 1 /\ 1 + n - 1 = n
  BY <1>1
<1>6. QED
  BY <1>3, <1>4, <1>5

\* What is below the top of a stack stays if the top is removed.
LEMMA FrontFacts ==
    ASSUME NEW T, NEW q \in Seq(T), q # <<>>
    PROVE  /\ Len(q) \in Nat /\ Len(q) > 0
           /\ Front(q) \in Seq(T)
           /\ Len(Front(q)) = Len(q) - 1
           /\ \A n \in 1..Len(q) - 1 : Front(q)[n] = q[n]
           /\ Last(q) = q[Len(q)]
           /\ Last(q) \in T
<1>1. Len(q) \in Nat /\ Len(q) > 0
  OBVIOUS
<1>2. Front(q) = SubSeq(q, 1, Len(q) - 1) /\ Last(q) = q[Len(q)]
  BY DEF Front, Last
<1>3. Len(q) - 1 \in 0..Len(q)
  BY <1>1
<1>4. q[Len(q)] \in T
  BY <1>1
<1>5. QED
  BY <1>1, <1>2, <1>3, <1>4, PrefixFacts

\* The elements of a sequence.
LEMMA ElementsOf ==
    ASSUME NEW T, NEW q \in Seq(T)
    PROVE  \A v : v \in ToSet(q) <=> \E n \in 1..Len(q) : v = q[n]
BY DEF ToSet

-----------------------------------------------------------------------------
(* Cycles                                                                  *)

(***************************************************************************)
(* Every cycle has a run of positions in the stack of parents, those of    *)
(* its members. st lists the positions where the runs of the cycles start. *)
(***************************************************************************)
Shape(p, cr, cs, st) ==
    /\ p \in Seq(Files)
    /\ \A m, n \in 1..Len(p) : m < n => p[m] # p[n]
    /\ cr \in Seq(Nat) /\ Len(cr) = Len(p)
    /\ cs \in Seq(SUBSET Files)
    /\ st \in [1..Len(cs) -> 1..Len(p)]
    /\ \A j, k \in 1..Len(cs) : j < k => st[j] < st[k] /\ cs[j] \cap cs[k] = {}
    /\ \A k \in 1..Len(cs) : cr[st[k]] = st[k]
    /\ \A n \in 1..Len(p) :
          \/ cr[n] = Infinity
          \/ /\ cr[n] \in 1..n
             /\ \E k \in 1..Len(cs) : st[k] = cr[n]
             /\ \A j \in cr[n]..n : cr[j] = cr[n]
    /\ \A n \in 1..Len(p), k \in 1..Len(cs) : p[n] \in cs[k] <=> cr[n] = st[k]

\* Positions are not at infinity.
LEMMA ShapePositions ==
    ASSUME NEW p, NEW cr, NEW cs, NEW st, Shape(p, cr, cs, st)
    PROVE  /\ Len(p) \in Nat /\ Len(cs) \in Nat /\ Len(cr) = Len(p)
           /\ Len(p) < Infinity /\ Infinity \in Nat
           /\ \A n \in 1..Len(p) : p[n] \in Files /\ cr[n] \in Nat
           /\ \A k \in 1..Len(cs) : cs[k] \in SUBSET Files /\ st[k] \in 1..Len(p) /\ cr[st[k]] = st[k]
           /\ \A j, k \in 1..Len(cs) : st[j] = st[k] => j = k
<1>1. p \in Seq(Files) /\ cr \in Seq(Nat) /\ Len(cr) = Len(p) /\ cs \in Seq(SUBSET Files)
      /\ st \in [1..Len(cs) -> 1..Len(p)]
  BY DEF Shape
<1>2. \A m, n \in DOMAIN p : m < n => p[m] # p[n]
  BY <1>1 DEF Shape
<1>3. Len(p) <= Cardinality(Files)
  BY <1>1, <1>2, DifferentFiles
<1>4. Len(p) \in Nat /\ Len(cs) \in Nat
  BY <1>1
<1>5. Len(p) < Infinity /\ Infinity \in Nat
  BY <1>3, <1>4, InfinityFar
<1>6. \A n \in 1..Len(p) : p[n] \in Files /\ cr[n] \in Nat
  BY <1>1
<1>7. \A k \in 1..Len(cs) : cs[k] \in SUBSET Files /\ st[k] \in 1..Len(p) /\ cr[st[k]] = st[k]
  BY <1>1 DEF Shape
<1>8. \A j, k \in 1..Len(cs) : j < k => st[j] < st[k]
  BY DEF Shape
<1>9. \A j, k \in 1..Len(cs) : st[j] = st[k] => j = k
  <2> SUFFICES ASSUME NEW j \in 1..Len(cs), NEW k \in 1..Len(cs), st[j] = st[k], j # k
               PROVE  FALSE
    OBVIOUS
  <2>1. j < k \/ k < j
    BY <1>4
  <2>2. st[j] \in Nat /\ st[k] \in Nat
    BY <1>7
  <2>3. QED
    BY <1>8, <2>1, <2>2
<1>10. QED
  BY <1>1, <1>4, <1>5, <1>6, <1>7, <1>9

\* The first position of the cycle that a new dependency on position e closes
FirstOf(cr, e) == IF cr[e] = Infinity THEN e ELSE cr[e]

\* Cycles before the new one stay, those after it become part of it.
LEMMA Kept ==
    ASSUME NEW p, NEW cr, NEW cs, NEW st, Shape(p, cr, cs, st), NEW F \in Nat
    PROVE  \E kept \in 0..Len(cs) : \A k \in 1..Len(cs) : st[k] < F <=> k <= kept
<1> DEFINE T == {k \in 0..Len(cs) : k = 0 \/ st[k] < F}
<1>1. Len(cs) \in Nat /\ \A k \in 1..Len(cs) : st[k] \in Nat
  BY ShapePositions
<1>2. T \in SUBSET (0..Len(cs)) /\ 0 \in T
  BY <1>1
<1>3. PICK kept \in T : \A k \in T : k <= kept
  BY <1>1, <1>2, Greatest
<1>4. \A j, k \in 1..Len(cs) : j < k => st[j] < st[k]
  BY DEF Shape
<1>5. ASSUME NEW k \in 1..Len(cs)
      PROVE  st[k] < F <=> k <= kept
  <2>1. st[k] < F => k <= kept
    <3>1. st[k] < F => k \in T
      BY <1>1
    <3>2. QED
      BY <1>3, <3>1
  <2>2. k <= kept => st[k] < F
    <3> SUFFICES ASSUME k <= kept
                 PROVE  st[k] < F
      OBVIOUS
    <3>1. kept \in 1..Len(cs) /\ st[kept] < F
      BY <1>1, <1>3
    <3>2. k = kept \/ st[k] < st[kept]
      BY <1>4, <3>1
    <3>3. QED
      BY <1>1, <3>1, <3>2
  <2>3. QED
    BY <2>1, <2>2
<1>6. QED
  BY <1>3, <1>5

\* A new cycle begins where another one does, or between two cycles.
LEMMA FirstBegins ==
    ASSUME NEW p, NEW cr, NEW cs, NEW st, Shape(p, cr, cs, st), NEW e \in 1..Len(p)
    PROVE  LET F == FirstOf(cr, e)
           IN  /\ F \in 1..e
               /\ cr[F] \in {F, Infinity}
               /\ \A n \in F..e : cr[n] = cr[e]
               /\ F # e => \E k \in 1..Len(cs) : st[k] = F /\ p[e] \in cs[k]
               /\ \A n \in 1..Len(p) : n >= F => cr[n] >= F
<1> DEFINE F == FirstOf(cr, e)
<1>1. /\ Len(p) \in Nat /\ Len(p) < Infinity /\ Infinity \in Nat
      /\ \A n \in 1..Len(p) : cr[n] \in Nat
  BY ShapePositions
<1>2. ASSUME NEW n \in 1..Len(p), cr[n] # Infinity
      PROVE  /\ cr[n] \in 1..n
             /\ \E k \in 1..Len(cs) : st[k] = cr[n]
             /\ \A j \in cr[n]..n : cr[j] = cr[n]
  BY <1>2 DEF Shape
<1>3. \A n \in 1..Len(p), k \in 1..Len(cs) : p[n] \in cs[k] <=> cr[n] = st[k]
  BY DEF Shape
<1>4. CASE cr[e] = Infinity
  <2>1. F = e
    BY <1>4 DEF FirstOf
  <2>2. ASSUME NEW n \in 1..Len(p), n >= e
        PROVE  cr[n] >= e
    <3> SUFFICES ASSUME cr[n] # Infinity, cr[n] < e
                 PROVE  FALSE
      BY <1>1, <2>2
    <3>1. e \in cr[n]..n
      BY <1>1, <2>2
    <3>2. cr[e] = cr[n]
      BY <1>2, <3>1
    <3>3. QED
      BY <1>4, <3>2
  <2>3. \A n \in e..e : cr[n] = cr[e]
    OBVIOUS
  <2>4. QED
    BY <1>4, <2>1, <2>2, <2>3
<1>5. CASE cr[e] # Infinity
  <2>1. F = cr[e]
    BY <1>5 DEF FirstOf
  <2>2. /\ F \in 1..e
        /\ \E k \in 1..Len(cs) : st[k] = F
        /\ \A j \in F..e : cr[j] = F
    BY <1>2, <1>5, <2>1
  <2>3. cr[F] = F
    BY <2>2
  <2>4. ASSUME NEW n \in 1..Len(p), n >= F
        PROVE  cr[n] >= F
    <3> SUFFICES ASSUME cr[n] # Infinity, cr[n] < F
                 PROVE  FALSE
      BY <1>1, <2>2, <2>4
    <3>1. F \in cr[n]..n
      BY <1>1, <2>2, <2>4
    <3>2. cr[F] = cr[n]
      BY <1>2, <3>1
    <3>3. QED
      BY <2>3, <3>2, <1>1
  <2>5. \E k \in 1..Len(cs) : st[k] = F /\ p[e] \in cs[k]
    BY <1>3, <2>1, <2>2
  <2>6. QED
    BY <2>1, <2>2, <2>3, <2>4, <2>5
<1>6. QED
  BY <1>4, <1>5

\* Every cycle ends once.
LEMMA RunEnds ==
    ASSUME NEW p, NEW cr, NEW cs, NEW st, Shape(p, cr, cs, st)
    PROVE  \E end \in [1..Len(cs) -> 1..Len(p)] :
              /\ \A k \in 1..Len(cs) : cr[end[k]] = st[k]
              /\ \A k \in 1..Len(cs), n \in 1..Len(p) : cr[n] = st[k] => n <= end[k]
<1> DEFINE Run(k) == {n \in 1..Len(p) : cr[n] = st[k]}
           end == [k \in 1..Len(cs) |-> CHOOSE x \in Run(k) : \A y \in Run(k) : y <= x]
<1>1. ASSUME NEW k \in 1..Len(cs)
      PROVE  end[k] \in Run(k) /\ \A y \in Run(k) : y <= end[k]
  <2>1. Len(p) \in Nat /\ st[k] \in 1..Len(p) /\ cr[st[k]] = st[k]
    BY ShapePositions
  <2>2. Run(k) \in SUBSET (0..Len(p)) /\ Run(k) # {}
    BY <2>1
  <2>3. \E x \in Run(k) : \A y \in Run(k) : y <= x
    BY <2>1, <2>2, Greatest
  <2>4. QED
    BY <2>3
<1>2. end \in [1..Len(cs) -> 1..Len(p)]
  BY <1>1
<1>3. QED
  BY <1>1, <1>2

\* The runs that end after a new cycle begins are those of the cycles it takes in.
LEMMA RunsAfter ==
    ASSUME NEW p, NEW cr, NEW cs, NEW st, Shape(p, cr, cs, st), NEW e \in 1..Len(p),
           NEW stop \in e..Len(p),
           \/ stop = e /\ ~(cr[e] < e)
           \/ cr[stop] < stop /\ cr[stop] = cr[e] /\ cr[e] <= e,
           \A n \in e..Len(p) : cr[n] < n /\ cr[n] <= e => n <= stop,
           NEW k \in 1..Len(cs), NEW end \in 1..Len(p), cr[end] = st[k],
           \A n \in 1..Len(p) : cr[n] = st[k] => n <= end
    PROVE  end >= stop <=> st[k] >= FirstOf(cr, e)
<1> DEFINE F == FirstOf(cr, e)
<1>1. /\ Len(p) \in Nat /\ Len(p) < Infinity /\ Infinity \in Nat
      /\ \A n \in 1..Len(p) : cr[n] \in Nat
      /\ st[k] \in 1..Len(p) /\ cr[st[k]] = st[k]
  BY ShapePositions
<1>2. ASSUME NEW n \in 1..Len(p), cr[n] # Infinity
      PROVE  /\ cr[n] \in 1..n
             /\ \A j \in cr[n]..n : cr[j] = cr[n]
  BY <1>2 DEF Shape
<1>3. F \in 1..e /\ cr[F] \in {F, Infinity} /\ \A n \in 1..Len(p) : n >= F => cr[n] >= F
  BY FirstBegins
<1>4. st[k] <= end
  BY <1>1
<1>5. ASSUME end >= stop
      PROVE  st[k] >= F
  BY <1>1, <1>3, <1>5
<1>6. ASSUME st[k] >= F
      PROVE  end >= stop
  <2>1. CASE stop = e /\ ~(cr[e] < e)
    <3>1. F = e
      <4>1. cr[e] = Infinity \/ cr[e] = e
        BY <1>1, <1>2, <2>1
      <4>2. QED
        BY <4>1 DEF FirstOf
    <3>2. QED
      BY <1>1, <1>4, <1>6, <2>1, <3>1
  <2>2. CASE cr[stop] < stop /\ cr[stop] = cr[e] /\ cr[e] <= e
    <3>1. cr[stop] # Infinity /\ F = cr[stop]
      BY <1>1, <2>2 DEF FirstOf
    <3>2. \A j \in F..stop : cr[j] = F
      BY <1>2, <3>1
    <3>3. st[k] <= stop => st[k] = F
      BY <1>1, <1>3, <1>6, <3>2
    <3>4. st[k] = F => stop <= end
      BY <3>1
    <3>5. QED
      BY <1>1, <1>4, <3>3, <3>4
  <2>3. QED
    BY <2>1, <2>2
<1>7. QED
  BY <1>5, <1>6

\* Positions in the stack of parents that belong to the cycle of a dependency on position e.
Reaching(cr, e) == {n \in e..Len(cr) : cr[n] < n /\ cr[n] <= e}

StopOf(cr, e) == IF Reaching(cr, e) = {} THEN e ELSE Max(Reaching(cr, e))

RunEndsFrom(cr, stop) ==
    {n \in stop..Len(cr) : cr[n] # Infinity /\ (n = Len(cr) \/ cr[n + 1] \in {Infinity, n + 1})}

\* Where the search for the beginning of a new cycle stops.
LEMMA StopFacts ==
    ASSUME NEW p, NEW cr, NEW cs, NEW st, Shape(p, cr, cs, st), NEW e \in 1..Len(p)
    PROVE  LET stop == StopOf(cr, e)
           IN  /\ stop \in e..Len(p)
               /\ \/ stop = e /\ ~(cr[e] < e)
                  \/ cr[stop] < stop /\ cr[stop] = cr[e] /\ cr[e] <= e
               /\ \A n \in e..Len(p) : cr[n] < n /\ cr[n] <= e => n <= stop
               /\ FirstOf(cr, e) = IF Reaching(cr, e) = {} THEN e ELSE cr[stop]
<1> DEFINE stop == StopOf(cr, e)
<1>1. /\ Len(p) \in Nat /\ Len(p) < Infinity /\ Infinity \in Nat /\ Len(cr) = Len(p)
      /\ \A n \in 1..Len(p) : cr[n] \in Nat
  BY ShapePositions
<1>2. ASSUME NEW n \in 1..Len(p), cr[n] # Infinity
      PROVE  /\ cr[n] \in 1..n
             /\ \A j \in cr[n]..n : cr[j] = cr[n]
  BY <1>2 DEF Shape
<1>3. CASE Reaching(cr, e) = {}
  <2>1. stop = e
    BY <1>3 DEF StopOf
  <2>2. \A n \in e..Len(p) : ~(cr[n] < n /\ cr[n] <= e)
    BY <1>1, <1>3 DEF Reaching
  <2>3. ~(cr[e] < e)
    BY <1>1, <2>2
  <2>4. cr[e] = Infinity \/ cr[e] = e
    BY <1>1, <1>2, <2>3
  <2>5. FirstOf(cr, e) = e
    BY <2>4 DEF FirstOf
  <2>6. QED
    BY <1>1, <1>3, <2>1, <2>2, <2>3, <2>5
<1>4. CASE Reaching(cr, e) # {}
  <2>1. Reaching(cr, e) \in SUBSET (0..Len(p))
    BY <1>1 DEF Reaching
  <2>2. stop \in Reaching(cr, e) /\ \A n \in Reaching(cr, e) : n <= stop
    BY <1>1, <1>4, <2>1, MaxOfPositions DEF StopOf
  <2>3. stop \in e..Len(p) /\ cr[stop] < stop /\ cr[stop] <= e
    BY <1>1, <2>2 DEF Reaching
  <2>4. cr[stop] # Infinity
    BY <1>1, <2>3
  <2>5. cr[e] = cr[stop]
    <3>1. e \in cr[stop]..stop
      BY <1>1, <2>3
    <3>2. QED
      BY <1>2, <2>3, <2>4, <3>1
  <2>6. \A n \in e..Len(p) : cr[n] < n /\ cr[n] <= e => n <= stop
    BY <1>1, <2>2 DEF Reaching
  <2>7. FirstOf(cr, e) = cr[stop]
    BY <2>4, <2>5 DEF FirstOf
  <2>8. QED
    BY <1>4, <2>3, <2>5, <2>6, <2>7
<1>5. QED
  BY <1>3, <1>4

\* The number of cycles that a new cycle takes in
LEMMA MergedCyclesCount ==
    ASSUME NEW p, NEW cr, NEW cs, NEW st, Shape(p, cr, cs, st), NEW e \in 1..Len(p),
           NEW kept \in 0..Len(cs), \A k \in 1..Len(cs) : st[k] < FirstOf(cr, e) <=> k <= kept
    PROVE  Cardinality(RunEndsFrom(cr, StopOf(cr, e))) = Len(cs) - kept
<1> DEFINE stop == StopOf(cr, e)
           D == RunEndsFrom(cr, stop)
           K == kept + 1..Len(cs)
<1>1. /\ Len(p) \in Nat /\ Len(p) < Infinity /\ Infinity \in Nat /\ Len(cr) = Len(p)
      /\ Len(cs) \in Nat
      /\ \A n \in 1..Len(p) : cr[n] \in Nat
      /\ \A k \in 1..Len(cs) : st[k] \in 1..Len(p)
      /\ \A j, k \in 1..Len(cs) : st[j] = st[k] => j = k
  BY ShapePositions
<1>2. ASSUME NEW n \in 1..Len(p), cr[n] # Infinity
      PROVE  /\ cr[n] \in 1..n
             /\ \E k \in 1..Len(cs) : st[k] = cr[n]
             /\ \A j \in cr[n]..n : cr[j] = cr[n]
  BY <1>2 DEF Shape
<1>3. FirstOf(cr, e) \in Nat
  BY FirstBegins
<1>4. PICK end \in [1..Len(cs) -> 1..Len(p)] :
        /\ \A k \in 1..Len(cs) : cr[end[k]] = st[k]
        /\ \A k \in 1..Len(cs), n \in 1..Len(p) : cr[n] = st[k] => n <= end[k]
  BY RunEnds
<1>5. stop \in 1..Len(p)
  BY <1>1, StopFacts
<1>6. ASSUME NEW k \in 1..Len(cs)
      PROVE  end[k] >= stop <=> k \in K
  <2>1. end[k] \in 1..Len(p) /\ cr[end[k]] = st[k] /\ \A n \in 1..Len(p) : cr[n] = st[k] => n <= end[k]
    BY <1>4
  <2>2. end[k] >= stop <=> st[k] >= FirstOf(cr, e)
    <3>0. /\ stop \in e..Len(p)
          /\ \/ stop = e /\ ~(cr[e] < e)
             \/ cr[stop] < stop /\ cr[stop] = cr[e] /\ cr[e] <= e
          /\ \A n \in e..Len(p) : cr[n] < n /\ cr[n] <= e => n <= stop
      BY StopFacts
    <3> DEFINE x == end[k]
    <3>1. x \in 1..Len(p) /\ cr[x] = st[k] /\ \A n \in 1..Len(p) : cr[n] = st[k] => n <= x
      BY <2>1
    <3> HIDE DEF x, stop
    <3>2. x >= stop <=> st[k] >= FirstOf(cr, e)
      BY <3>0, <3>1, RunsAfter
    <3>3. QED
      BY <3>2 DEF x
  <2>3. k <= kept <=> st[k] < FirstOf(cr, e)
    OBVIOUS
  <2>4. QED
    BY <1>1, <1>3, <2>2, <2>3
<1> HIDE DEF stop
<1>7. ASSUME NEW k \in K
      PROVE  end[k] \in D
  <2>1. k \in 1..Len(cs)
    BY <1>1
  <2>2. end[k] \in stop..Len(cr) /\ cr[end[k]] = st[k] /\ st[k] # Infinity
    BY <1>1, <1>4, <1>5, <1>6, <2>1
  <2>3. end[k] = Len(cr) \/ cr[end[k] + 1] \in {Infinity, end[k] + 1}
    <3> SUFFICES ASSUME end[k] # Len(cr), cr[end[k] + 1] # Infinity, cr[end[k] + 1] # end[k] + 1
                 PROVE  FALSE
      OBVIOUS
    <3>1. end[k] + 1 \in 1..Len(p) /\ end[k] \in 1..Len(p)
      BY <1>1, <1>4, <2>1
    <3>2. cr[end[k] + 1] \in 1..end[k] + 1 /\ \A j \in cr[end[k] + 1]..end[k] + 1 : cr[j] = cr[end[k] + 1]
      BY <1>2, <3>1
    <3>3. cr[end[k] + 1] = cr[end[k]]
      BY <3>1, <3>2
    <3>4. end[k] + 1 <= end[k]
      BY <1>4, <2>1, <2>2, <3>1, <3>3
    <3>5. QED
      BY <3>1, <3>4
  <2>4. QED
    BY <2>2, <2>3 DEF RunEndsFrom
<1>8. ASSUME NEW n \in D
      PROVE  \E k \in K : end[k] = n
  <2>1. n \in stop..Len(p) /\ cr[n] # Infinity /\ (n = Len(p) \/ cr[n + 1] \in {Infinity, n + 1})
    BY <1>1 DEF RunEndsFrom
  <2>2. n \in 1..Len(p)
    BY <1>1, <1>5, <2>1
  <2>3. PICK k \in 1..Len(cs) : st[k] = cr[n]
    BY <1>2, <2>1, <2>2
  <2>4. end[k] \in 1..Len(p) /\ cr[end[k]] = cr[n] /\ n <= end[k]
    BY <1>4, <2>2, <2>3
  <2>5. end[k] = n
    <3> SUFFICES ASSUME end[k] > n
                 PROVE  FALSE
      BY <2>2, <2>4
    <3>1. cr[end[k]] \in 1..n /\ \A j \in cr[n]..end[k] : cr[j] = cr[n]
      BY <1>2, <2>1, <2>2, <2>4
    <3>2. n + 1 \in cr[n]..end[k] /\ cr[n] < n + 1 /\ n < Len(p)
      BY <1>1, <1>2, <2>1, <2>2, <2>4
    <3>3. cr[n + 1] = cr[n]
      BY <3>1, <3>2
    <3>4. QED
      BY <1>1, <2>1, <2>2, <3>2, <3>3
  <2>6. k \in K
    BY <1>5, <1>6, <2>1, <2>5
  <2>7. QED
    BY <2>5, <2>6
<1> DEFINE g == [k \in K |-> end[k]]
<1>9. g \in Bijection(K, D)
  <2>1. g \in [K -> D]
    BY <1>7
  <2>2. \A j, k \in K : g[j] = g[k] => j = k
    <3> SUFFICES ASSUME NEW j \in K, NEW k \in K, end[j] = end[k]
                 PROVE  j = k
      OBVIOUS
    <3>1. j \in 1..Len(cs) /\ k \in 1..Len(cs)
      BY <1>1
    <3>2. QED
      BY <1>1, <1>4, <3>1
  <2>3. \A n \in D : \E k \in K : g[k] = n
    BY <1>8
  <2>4. QED
    BY <2>1, <2>2, <2>3 DEF Bijection, Injection, Surjection, IsInjective
<1>10. IsFiniteSet(K) /\ Cardinality(K) = Len(cs) - kept
  <2>1. kept + 1 \in Int /\ Len(cs) \in Int /\ kept \in Int /\ kept <= Len(cs)
    BY <1>1
  <2>2. IsFiniteSet(K) /\ Cardinality(K) = IF kept + 1 > Len(cs) THEN 0 ELSE Len(cs) - (kept + 1) + 1
    BY <2>1, FS_Interval
  <2>3. QED
    BY <2>1, <2>2
<1>11. ExistsBijection(K, D)
  BY <1>9 DEF ExistsBijection
<1> HIDE DEF K, D
<1>12. Cardinality(D) = Len(cs) - kept
  BY <1>10, <1>11, FS_Bijection
<1>13. QED
  BY <1>12 DEF D, stop

\* The cycle of self that closes at position F and takes in the cycles after the first kept ones
Merged(p, cs, kept, F, self) ==
    {self} \union {p[n] : n \in F..Len(p)} \union UNION {cs[j] : j \in kept + 1..Len(cs)}

MergedCycles(p, cs, kept, F, self) == Append(SubSeq(cs, 1, kept), Merged(p, cs, kept, F, self))

MergedRuns(cr, F) == [n \in 1..Len(cr) |-> IF n >= F THEN F ELSE cr[n]]

MergedStarts(st, kept, F) == [k \in 1..kept + 1 |-> IF k <= kept THEN st[k] ELSE F]

\* What setCircularDependency does.
LEMMA MergeEffect ==
    ASSUME NEW st, Shape(parents, circular, cycles, st), NEW self, NEW e \in 1..Len(parents),
           NEW kept \in 0..Len(cycles), \A k \in 1..Len(cycles) : st[k] < FirstOf(circular, e) <=> k <= kept
    PROVE  SetCircularDependency(self, e) =
             [first |-> FirstOf(circular, e),
              cycles |-> MergedCycles(parents, cycles, kept, FirstOf(circular, e), self),
              circular |-> MergedRuns(circular, FirstOf(circular, e))]
<1> DEFINE stop == StopOf(circular, e)
           F == FirstOf(circular, e)
           merged == Cardinality(RunEndsFrom(circular, stop))
           left == IF merged = 0 THEN Len(cycles) ELSE Len(cycles) - merged
           first == IF Reaching(circular, e) = {} THEN e ELSE circular[stop]
<1>1. Len(cycles) \in Nat /\ Len(circular) = Len(parents)
  BY ShapePositions
<1>2. merged = Len(cycles) - kept
  BY MergedCyclesCount
<1>3. left = kept
  BY <1>1, <1>2
<1>4. first = F
  BY StopFacts
<1>5. SetCircularDependency(self, e) =
        [first |-> first,
         cycles |-> Append(SubSeq(cycles, 1, left),
                      {self} \union {parents[n] : n \in first..Len(circular)}
                             \union UNION {cycles[j] : j \in left + 1..Len(cycles)}),
         circular |-> [n \in 1..Len(circular) |-> IF n >= first THEN first ELSE circular[n]]]
  BY DEF SetCircularDependency, StopOf, Reaching, RunEndsFrom
<1> HIDE DEF left, first, F, merged, stop
<1>6. SetCircularDependency(self, e) =
        [first |-> F, cycles |-> MergedCycles(parents, cycles, kept, F, self), circular |-> MergedRuns(circular, F)]
  BY <1>1, <1>3, <1>4, <1>5 DEF MergedCycles, Merged, MergedRuns
<1>7. QED
  BY <1>6 DEF F

\* The cycles after cycles have been merged.
LEMMA MergedFacts ==
    ASSUME NEW p, NEW cr, NEW cs, NEW st, Shape(p, cr, cs, st), NEW F \in 1..Len(p),
           NEW kept \in 0..Len(cs), NEW self \in Files
    PROVE  LET cs2 == MergedCycles(p, cs, kept, F, self)
           IN  /\ cs2 \in Seq(SUBSET Files) /\ Len(cs2) = kept + 1
               /\ \A k \in 1..kept : cs2[k] = cs[k]
               /\ cs2[kept + 1] = Merged(p, cs, kept, F, self)
               /\ \A k \in 1..Len(cs) : k > kept => cs[k] \subseteq Merged(p, cs, kept, F, self)
<1>1. cs \in Seq(SUBSET Files) /\ Len(cs) \in Nat /\ Len(p) \in Nat
      /\ (\A n \in 1..Len(p) : p[n] \in Files) /\ \A k \in 1..Len(cs) : cs[k] \in SUBSET Files
  BY ShapePositions DEF Shape
<1>2. Merged(p, cs, kept, F, self) \in SUBSET Files
  BY <1>1 DEF Merged
<1> DEFINE q == SubSeq(cs, 1, kept)
           M == Merged(p, cs, kept, F, self)
<1>3. q \in Seq(SUBSET Files) /\ Len(q) = kept /\ \A k \in 1..kept : q[k] = cs[k]
  BY <1>1, PrefixFacts
<1>4. \A k \in 1..Len(cs) : k > kept => cs[k] \subseteq M
  BY <1>1 DEF Merged
<1> HIDE DEF q, M
<1>5. /\ Append(q, M) \in Seq(SUBSET Files)
      /\ Len(Append(q, M)) = Len(q) + 1
      /\ \A n \in 1..Len(q) : Append(q, M)[n] = q[n]
      /\ Append(q, M)[Len(q) + 1] = M
  BY <1>2, <1>3, AppendFacts DEF M
<1>6. QED
  BY <1>3, <1>4, <1>5 DEF MergedCycles, q, M

\* Merged cycles have runs again.
LEMMA MergeShape ==
    ASSUME NEW p, NEW cr, NEW cs, NEW st, Shape(p, cr, cs, st), NEW e \in 1..Len(p),
           NEW F, F = FirstOf(cr, e),
           NEW kept \in 0..Len(cs), \A k \in 1..Len(cs) : st[k] < F <=> k <= kept,
           NEW self \in Files, \A n \in 1..Len(p) : p[n] # self,
           \A k \in 1..kept : self \notin cs[k]
    PROVE  Shape(p, MergedRuns(cr, F), MergedCycles(p, cs, kept, F, self), MergedStarts(st, kept, F))
<1> DEFINE cr2 == MergedRuns(cr, F)
           cs2 == MergedCycles(p, cs, kept, F, self)
           st2 == MergedStarts(st, kept, F)
           M == Merged(p, cs, kept, F, self)
<1>1. /\ Len(p) \in Nat /\ Len(cs) \in Nat /\ Len(cr) = Len(p)
      /\ Len(p) < Infinity /\ Infinity \in Nat
      /\ \A n \in 1..Len(p) : p[n] \in Files /\ cr[n] \in Nat
      /\ \A k \in 1..Len(cs) : cs[k] \in SUBSET Files /\ st[k] \in 1..Len(p) /\ cr[st[k]] = st[k]
  BY ShapePositions
<1>2. ASSUME NEW n \in 1..Len(p), cr[n] # Infinity
      PROVE  /\ cr[n] \in 1..n
             /\ \E k \in 1..Len(cs) : st[k] = cr[n]
             /\ \A j \in cr[n]..n : cr[j] = cr[n]
  BY <1>2 DEF Shape
<1>3. /\ p \in Seq(Files)
      /\ \A m, n \in 1..Len(p) : m < n => p[m] # p[n]
      /\ \A j, k \in 1..Len(cs) : j < k => st[j] < st[k] /\ cs[j] \cap cs[k] = {}
      /\ \A n \in 1..Len(p), k \in 1..Len(cs) : p[n] \in cs[k] <=> cr[n] = st[k]
  BY DEF Shape
<1>4. F \in 1..e /\ F \in 1..Len(p) /\ \A n \in 1..Len(p) : n >= F => cr[n] >= F
  BY <1>1, FirstBegins
<1>5. /\ cs2 \in Seq(SUBSET Files) /\ Len(cs2) = kept + 1
      /\ \A k \in 1..kept : cs2[k] = cs[k]
      /\ cs2[kept + 1] = M
  BY <1>4, MergedFacts
<1>6. /\ cr2 \in [1..Len(p) -> Nat] /\ Len(cr2) = Len(p) /\ cr2 \in Seq(Nat)
      /\ \A n \in 1..Len(p) : n >= F => cr2[n] = F
      /\ \A n \in 1..Len(p) : n < F => cr2[n] = cr[n]
  <2>1. cr2 = [n \in 1..Len(p) |-> IF n >= F THEN F ELSE cr[n]]
    BY <1>1 DEF MergedRuns
  <2>2. cr2 \in [1..Len(p) -> Nat]
    BY <1>1, <1>4, <2>1
  <2>3. cr2 \in Seq(Nat) /\ Len(cr2) = Len(p)
    BY <1>1, <2>2
  <2>4. \A n \in 1..Len(p) : ~(n >= F /\ n < F)
    BY <1>4
  <2>5. QED
    BY <2>1, <2>2, <2>3, <2>4
<1>7. /\ DOMAIN st2 = 1..kept + 1
      /\ \A k \in 1..kept : st2[k] = st[k] /\ st2[k] < F /\ k \in 1..Len(cs)
      /\ st2[kept + 1] = F
  BY <1>1 DEF MergedStarts
<1> HIDE DEF cr2, cs2, st2
<1>8. st2 \in [1..Len(cs2) -> 1..Len(p)]
  <2>1. \A k \in 1..kept + 1 : k \in 1..kept \/ k = kept + 1
    BY <1>1
  <2>2. \A k \in 1..kept + 1 : st2[k] \in 1..Len(p)
    BY <1>1, <1>4, <1>7, <2>1
  <2>3. st2 = [k \in 1..kept + 1 |-> st2[k]]
    BY <1>7 DEF st2, MergedStarts
  <2>4. QED
    BY <1>5, <2>2, <2>3
<1>9. ASSUME NEW j \in 1..kept
      PROVE  cs[j] \cap M = {}
  <2>1. j \in 1..Len(cs) /\ st[j] < F /\ st[j] \in Nat
    BY <1>1, <1>7
  <2>2. self \notin cs[j]
    OBVIOUS
  <2>3. ASSUME NEW n \in F..Len(p)
        PROVE  p[n] \notin cs[j]
    <3>1. n \in 1..Len(p) /\ cr[n] >= F /\ cr[n] \in Nat
      BY <1>1, <1>4
    <3>2. cr[n] # st[j]
      BY <1>4, <2>1, <3>1
    <3>3. QED
      BY <1>3, <2>1, <3>1, <3>2
  <2>4. \A k \in kept + 1..Len(cs) : cs[j] \cap cs[k] = {}
    <3>1. \A k \in kept + 1..Len(cs) : k \in 1..Len(cs) /\ j < k
      BY <1>1
    <3>2. QED
      BY <1>3, <2>1, <3>1
  <2>5. QED
    BY <2>2, <2>3, <2>4 DEF Merged
<1>10. ASSUME NEW j \in 1..Len(cs2), NEW k \in 1..Len(cs2), j < k
       PROVE  st2[j] < st2[k] /\ cs2[j] \cap cs2[k] = {}
  <2>1. j \in 1..kept
    BY <1>1, <1>5, <1>10
  <2>2. CASE k \in 1..kept
    BY <1>3, <1>5, <1>7, <1>10, <2>1, <2>2
  <2>3. CASE k = kept + 1
    BY <1>5, <1>7, <1>9, <2>1, <2>3
  <2>4. QED
    BY <1>1, <1>5, <2>2, <2>3
<1>11. ASSUME NEW k \in 1..Len(cs2)
       PROVE  cr2[st2[k]] = st2[k]
  <2>1. CASE k \in 1..kept
    BY <1>1, <1>6, <1>7, <2>1
  <2>2. CASE k = kept + 1
    <3>1. F >= F
      BY <1>4
    <3>2. QED
      BY <1>4, <1>6, <1>7, <2>2, <3>1
  <2>3. QED
    BY <1>1, <1>5, <2>1, <2>2
<1>12. ASSUME NEW n \in 1..Len(p)
       PROVE  \/ cr2[n] = Infinity
              \/ /\ cr2[n] \in 1..n
                 /\ \E k \in 1..Len(cs2) : st2[k] = cr2[n]
                 /\ \A j \in cr2[n]..n : cr2[j] = cr2[n]
  <2>1. CASE n >= F
    <3>1. cr2[n] = F /\ F \in 1..n
      BY <1>4, <1>6, <2>1
    <3>2. kept + 1 \in 1..Len(cs2)
      BY <1>1, <1>5
    <3>3. \A j \in F..n : j \in 1..Len(p) /\ j >= F
      BY <1>1, <1>4
    <3>4. QED
      BY <1>6, <1>7, <3>1, <3>2, <3>3
  <2>2. CASE n < F /\ cr[n] # Infinity
    <3>1. /\ cr2[n] = cr[n] /\ cr[n] \in 1..n
          /\ \A j \in cr[n]..n : cr[j] = cr[n]
      BY <1>2, <1>6, <2>2
    <3>2. PICK k \in 1..Len(cs) : st[k] = cr[n]
      BY <1>2, <2>2
    <3>3. k \in 1..kept /\ k \in 1..Len(cs2)
      BY <1>1, <1>4, <1>5, <2>2, <3>1, <3>2
    <3>4. \A j \in cr[n]..n : j \in 1..Len(p) /\ j < F
      BY <1>1, <1>4, <2>2, <3>1
    <3>5. \A j \in cr[n]..n : cr2[j] = cr[n]
      BY <1>6, <3>1, <3>4
    <3>6. QED
      BY <1>7, <3>1, <3>2, <3>3, <3>5
  <2>3. CASE n < F /\ cr[n] = Infinity
    BY <1>6, <2>3
  <2>4. QED
    BY <1>4, <2>1, <2>2, <2>3
<1>13. ASSUME NEW n \in 1..Len(p), NEW k \in 1..Len(cs2)
       PROVE  p[n] \in cs2[k] <=> cr2[n] = st2[k]
  <2>1. CASE k \in 1..kept
    <3>1. k \in 1..Len(cs) /\ cs2[k] = cs[k] /\ st2[k] = st[k] /\ st[k] < F /\ st[k] \in Nat
      BY <1>1, <1>5, <1>7, <2>1
    <3>2. CASE n < F
      BY <1>3, <1>6, <3>1, <3>2
    <3>3. CASE n >= F
      <4>1. cr2[n] = F /\ cr[n] >= F /\ cr[n] \in Nat
        BY <1>1, <1>4, <1>6, <3>3
      <4>2. cr2[n] # st2[k] /\ cr[n] # st[k]
        BY <1>4, <3>1, <4>1
      <4>3. QED
        BY <1>3, <3>1, <4>2
    <3>4. QED
      BY <1>4, <3>2, <3>3
  <2>2. CASE k = kept + 1
    <3>1. cs2[k] = M /\ st2[k] = F
      BY <1>5, <1>7, <2>2
    <3>2. CASE n >= F
      <4>1. n \in F..Len(p)
        BY <1>1, <1>4, <3>2
      <4>2. p[n] \in M
        BY <4>1 DEF Merged
      <4>3. QED
        BY <1>6, <3>1, <3>2, <4>2
    <3>3. CASE n < F
      <4>1. cr2[n] = cr[n] /\ cr[n] # F
        <5>1. cr2[n] = cr[n]
          BY <1>6, <3>3
        <5>2. cr[n] = Infinity => cr[n] # F
          BY <1>1, <1>4
        <5>3. cr[n] # Infinity => cr[n] \in 1..n
          BY <1>2
        <5>4. cr[n] # Infinity => cr[n] # F
          BY <1>4, <3>3, <5>3
        <5>5. QED
          BY <5>1, <5>2, <5>4
      <4>2. \A m \in F..Len(p) : p[m] # p[n]
        <5>1. \A m \in F..Len(p) : m \in 1..Len(p) /\ n < m
          BY <1>1, <1>4, <3>3
        <5>2. QED
          BY <1>3, <5>1
      <4>3. \A j \in kept + 1..Len(cs) : p[n] \notin cs[j]
        <5>1. \A j \in kept + 1..Len(cs) : j \in 1..Len(cs) /\ ~(st[j] < F)
          BY <1>1
        <5>2. ASSUME NEW j \in kept + 1..Len(cs), cr[n] = st[j]
              PROVE  FALSE
          <6>1. st[j] \in 1..Len(p) /\ ~(st[j] < F)
            BY <1>1, <5>1
          <6>2. cr[n] # Infinity
            BY <1>1, <5>2, <6>1
          <6>3. cr[n] \in 1..n
            BY <1>2, <6>2
          <6>4. QED
            BY <1>4, <3>3, <5>2, <6>1, <6>3
        <5>3. QED
          BY <1>3, <5>1, <5>2
      <4>4. p[n] \notin M
        BY <4>2, <4>3 DEF Merged
      <4>5. QED
        BY <3>1, <4>1, <4>4
    <3>4. QED
      BY <1>4, <3>2, <3>3
  <2>3. QED
    BY <1>1, <1>5, <2>1, <2>2
<1>14. Shape(p, cr2, cs2, st2)
  BY <1>3, <1>5, <1>6, <1>8, <1>10, <1>11, <1>12, <1>13 DEF Shape
<1>15. QED
  BY <1>14 DEF cr2, cs2, st2

\* A new parent belongs to the innermost cycle or to none.
LEMMA PushShape ==
    ASSUME NEW p, NEW cr, NEW cs, NEW st, Shape(p, cr, cs, st),
           NEW self \in Files, \A n \in 1..Len(p) : p[n] # self, NEW c,
           \/ c = Infinity /\ \A k \in 1..Len(cs) : self \notin cs[k]
           \/ /\ Len(cs) > 0 /\ c = st[Len(cs)]
              /\ \A n \in c..Len(p) : cr[n] = c
              /\ \A k \in 1..Len(cs) : self \in cs[k] <=> k = Len(cs)
    PROVE  Shape(Append(p, self), Append(cr, c), cs, st)
<1> DEFINE p2 == Append(p, self)
           cr2 == Append(cr, c)
<1>1. /\ Len(p) \in Nat /\ Len(cs) \in Nat /\ Len(cr) = Len(p)
      /\ Len(p) < Infinity /\ Infinity \in Nat
      /\ \A n \in 1..Len(p) : p[n] \in Files /\ cr[n] \in Nat
      /\ \A k \in 1..Len(cs) : cs[k] \in SUBSET Files /\ st[k] \in 1..Len(p) /\ cr[st[k]] = st[k]
      /\ \A j, k \in 1..Len(cs) : st[j] = st[k] => j = k
  BY ShapePositions
<1>2. /\ p \in Seq(Files) /\ cr \in Seq(Nat) /\ cs \in Seq(SUBSET Files)
      /\ st \in [1..Len(cs) -> 1..Len(p)]
      /\ \A m, n \in 1..Len(p) : m < n => p[m] # p[n]
      /\ \A j, k \in 1..Len(cs) : j < k => st[j] < st[k] /\ cs[j] \cap cs[k] = {}
      /\ \A n \in 1..Len(p), k \in 1..Len(cs) : p[n] \in cs[k] <=> cr[n] = st[k]
  BY DEF Shape
<1>3. ASSUME NEW n \in 1..Len(p), cr[n] # Infinity
      PROVE  /\ cr[n] \in 1..n
             /\ \E k \in 1..Len(cs) : st[k] = cr[n]
             /\ \A j \in cr[n]..n : cr[j] = cr[n]
  BY <1>3 DEF Shape
<1>4. c \in Nat
  BY <1>1
<1>5. /\ p2 \in Seq(Files) /\ Len(p2) = Len(p) + 1
      /\ (\A n \in 1..Len(p) : p2[n] = p[n]) /\ p2[Len(p) + 1] = self
  BY <1>2, AppendFacts
<1>6. /\ cr2 \in Seq(Nat) /\ Len(cr2) = Len(p) + 1
      /\ (\A n \in 1..Len(p) : cr2[n] = cr[n]) /\ cr2[Len(p) + 1] = c
  BY <1>1, <1>2, <1>4, AppendFacts
<1> HIDE DEF p2, cr2
<1>7. \A n \in 1..Len(p2) : n \in 1..Len(p) \/ n = Len(p) + 1
  BY <1>1, <1>5
<1>8. ASSUME NEW m \in 1..Len(p2), NEW n \in 1..Len(p2), m < n
      PROVE  p2[m] # p2[n]
  <2>1. m \in 1..Len(p)
    BY <1>1, <1>5, <1>8
  <2>2. CASE n \in 1..Len(p)
    BY <1>2, <1>5, <1>8, <2>1, <2>2
  <2>3. CASE n = Len(p) + 1
    BY <1>5, <2>1, <2>3
  <2>4. QED
    BY <1>7, <2>2, <2>3
<1>9. st \in [1..Len(cs) -> 1..Len(p2)]
  <2>1. 1..Len(p) \subseteq 1..Len(p2)
    BY <1>1, <1>5
  <2>2. QED
    BY <1>2, <2>1
<1>10. \A k \in 1..Len(cs) : cr2[st[k]] = st[k]
  BY <1>1, <1>6
<1>11. ASSUME NEW n \in 1..Len(p2)
       PROVE  \/ cr2[n] = Infinity
              \/ /\ cr2[n] \in 1..n
                 /\ \E k \in 1..Len(cs) : st[k] = cr2[n]
                 /\ \A j \in cr2[n]..n : cr2[j] = cr2[n]
  <2>1. CASE n \in 1..Len(p)
    <3> SUFFICES ASSUME cr[n] # Infinity
                 PROVE  /\ cr2[n] \in 1..n
                        /\ \E k \in 1..Len(cs) : st[k] = cr2[n]
                        /\ \A j \in cr2[n]..n : cr2[j] = cr2[n]
      BY <1>6, <2>1
    <3>1. cr2[n] = cr[n] /\ cr[n] \in 1..n
      BY <1>3, <1>6, <2>1
    <3>2. \A j \in cr[n]..n : j \in 1..Len(p)
      BY <1>1, <2>1, <3>1
    <3>3. QED
      BY <1>3, <1>6, <2>1, <3>1, <3>2
  <2>2. CASE n = Len(p) + 1 /\ c # Infinity
    <3>1. cr2[n] = c /\ Len(cs) \in 1..Len(cs) /\ c = st[Len(cs)]
      BY <1>1, <1>6, <2>2
    <3>2. c \in 1..n
      BY <1>1, <2>2, <3>1
    <3>3. \A j \in c..n : j \in c..Len(p) \/ j = Len(p) + 1
      BY <1>1, <1>4, <2>2
    <3>4. \A j \in c..Len(p) : j \in 1..Len(p) /\ cr[j] = c
      BY <1>1, <2>2, <3>2
    <3>5. \A j \in c..n : cr2[j] = c
      BY <1>6, <3>3, <3>4
    <3>6. QED
      BY <3>1, <3>2, <3>5
  <2>3. CASE n = Len(p) + 1 /\ c = Infinity
    BY <1>6, <2>3
  <2>4. QED
    BY <1>7, <2>1, <2>2, <2>3
<1>12. ASSUME NEW n \in 1..Len(p2), NEW k \in 1..Len(cs)
       PROVE  p2[n] \in cs[k] <=> cr2[n] = st[k]
  <2>1. CASE n \in 1..Len(p)
    BY <1>2, <1>5, <1>6, <2>1
  <2>2. CASE n = Len(p) + 1 /\ c = Infinity
    <3>1. cr2[n] = Infinity /\ p2[n] = self /\ st[k] # Infinity
      BY <1>1, <1>5, <1>6, <2>2
    <3>2. self \notin cs[k]
      <4>1. \A n2 \in 1..Len(cs) : st[n2] # Infinity
        BY <1>1
      <4>2. Len(cs) > 0 => Len(cs) \in 1..Len(cs)
        BY <1>1
      <4>3. QED
        BY <2>2, <4>1, <4>2
    <3>3. QED
      BY <3>1, <3>2
  <2>3. CASE n = Len(p) + 1 /\ c # Infinity
    <3>1. cr2[n] = st[Len(cs)] /\ p2[n] = self /\ Len(cs) \in 1..Len(cs)
      BY <1>1, <1>5, <1>6, <2>3
    <3>2. self \in cs[k] <=> k = Len(cs)
      BY <2>3
    <3>3. QED
      BY <1>1, <3>1, <3>2
  <2>4. QED
    BY <1>7, <2>1, <2>2, <2>3
<1>13. Shape(p2, cr2, cs, st)
  <2>1. Len(cr2) = Len(p2)
    BY <1>5, <1>6
  <2>2. QED
    BY <1>2, <1>5, <1>6, <1>8, <1>9, <1>10, <1>11, <1>12, <2>1 DEF Shape
<1>14. QED
  BY <1>13 DEF p2, cr2

\* The innermost parent is the last one of the innermost cycle or of none, or it is the first of it.
LEMMA TopOfShape ==
    ASSUME NEW p, NEW cr, NEW cs, NEW st, Shape(p, cr, cs, st), p # <<>>
    PROVE  LET n == Len(p)
           IN  /\ n \in 1..Len(p)
               /\ cr[n] = n => Len(cs) \in 1..Len(cs) /\ st[Len(cs)] = n
               /\ cr[n] # Infinity => cr[n] \in 1..n
               /\ cr[n] # n => \A k \in 1..Len(cs) : st[k] # n
<1>1. /\ Len(p) \in Nat /\ Len(cs) \in Nat /\ Len(p) < Infinity
      /\ \A k \in 1..Len(cs) : st[k] \in 1..Len(p) /\ cr[st[k]] = st[k]
  BY ShapePositions
<1>2. /\ p \in Seq(Files)
      /\ \A j, k \in 1..Len(cs) : j < k => st[j] < st[k]
      /\ \A n \in 1..Len(p) : cr[n] # Infinity => cr[n] \in 1..n /\ \E k \in 1..Len(cs) : st[k] = cr[n]
  BY DEF Shape
<1>3. Len(p) \in 1..Len(p)
  BY <1>1, <1>2
<1>4. ASSUME cr[Len(p)] = Len(p)
      PROVE  Len(cs) \in 1..Len(cs) /\ st[Len(cs)] = Len(p)
  <2>1. PICK k \in 1..Len(cs) : st[k] = Len(p)
    BY <1>1, <1>2, <1>3, <1>4
  <2>2. Len(cs) \in 1..Len(cs)
    BY <1>1
  <2>3. k < Len(cs) => Len(p) < st[Len(cs)]
    BY <1>2, <2>1, <2>2
  <2>4. k = Len(cs)
    BY <1>1, <2>1, <2>2, <2>3
  <2>5. QED
    BY <2>1, <2>2, <2>4
<1>5. QED
  BY <1>1, <1>2, <1>3, <1>4

\* Without the innermost parent, the cycle that began with it is gone.
LEMMA PopShape ==
    ASSUME NEW p, NEW cr, NEW cs, NEW st, Shape(p, cr, cs, st), p # <<>>,
           NEW cs2, NEW st2,
           IF cr[Len(p)] = Len(p)
           THEN cs2 = Front(cs) /\ st2 = [k \in 1..Len(cs) - 1 |-> st[k]]
           ELSE cs2 = cs /\ st2 = st
    PROVE  Shape(Front(p), Front(cr), cs2, st2)
<1> DEFINE p2 == Front(p)
           cr2 == Front(cr)
           N == Len(p)
<1>1. /\ Len(p) \in Nat /\ Len(cs) \in Nat /\ Len(cr) = Len(p)
      /\ Len(p) < Infinity /\ Infinity \in Nat
      /\ \A n \in 1..Len(p) : p[n] \in Files /\ cr[n] \in Nat
      /\ \A k \in 1..Len(cs) : cs[k] \in SUBSET Files /\ st[k] \in 1..Len(p) /\ cr[st[k]] = st[k]
      /\ \A j, k \in 1..Len(cs) : st[j] = st[k] => j = k
  BY ShapePositions
<1>2. /\ p \in Seq(Files) /\ cr \in Seq(Nat) /\ cs \in Seq(SUBSET Files)
      /\ st \in [1..Len(cs) -> 1..Len(p)]
      /\ \A m, n \in 1..Len(p) : m < n => p[m] # p[n]
      /\ \A j, k \in 1..Len(cs) : j < k => st[j] < st[k] /\ cs[j] \cap cs[k] = {}
      /\ \A n \in 1..Len(p), k \in 1..Len(cs) : p[n] \in cs[k] <=> cr[n] = st[k]
  BY DEF Shape
<1>3. ASSUME NEW n \in 1..Len(p), cr[n] # Infinity
      PROVE  /\ cr[n] \in 1..n
             /\ \E k \in 1..Len(cs) : st[k] = cr[n]
             /\ \A j \in cr[n]..n : cr[j] = cr[n]
  BY <1>3 DEF Shape
<1>4. /\ N \in 1..Len(p) /\ N > 0
      /\ cr[N] = N => Len(cs) \in 1..Len(cs) /\ st[Len(cs)] = N
      /\ cr[N] # N => \A k \in 1..Len(cs) : st[k] # N
  BY TopOfShape, <1>1
<1>5. p2 \in Seq(Files) /\ Len(p2) = N - 1 /\ \A n \in 1..N - 1 : p2[n] = p[n]
  BY <1>2, FrontFacts
<1>6. cr2 \in Seq(Nat) /\ Len(cr2) = N - 1 /\ \A n \in 1..N - 1 : cr2[n] = cr[n]
  <2>1. cr # <<>>
    BY <1>1, <1>4
  <2>2. /\ Front(cr) \in Seq(Nat) /\ Len(Front(cr)) = Len(cr) - 1
        /\ \A n \in 1..Len(cr) - 1 : Front(cr)[n] = cr[n]
    <3>1. cr \in Seq(Nat)
      BY <1>2
    <3>2. QED
      BY ONLY <2>1, <3>1, FrontFacts
  <2>3. QED
    BY <1>1, <2>2
<1>7. /\ cs2 \in Seq(SUBSET Files) /\ Len(cs2) \in 0..Len(cs)
      /\ \A k \in 1..Len(cs2) : cs2[k] = cs[k] /\ st2[k] = st[k] /\ k \in 1..Len(cs) /\ st[k] \in 1..N - 1
      /\ \A k \in 1..Len(cs) : st[k] < N => k \in 1..Len(cs2)
      /\ st2 = [k \in 1..Len(cs2) |-> st2[k]]
  <2>1. CASE cr[N] = N
    <3>1. cs # <<>> /\ Len(cs) \in 1..Len(cs)
      BY <1>4, <2>1
    <3>2. cs2 \in Seq(SUBSET Files) /\ Len(cs2) = Len(cs) - 1 /\ \A k \in 1..Len(cs) - 1 : cs2[k] = cs[k]
      <4>1. /\ Front(cs) \in Seq(SUBSET Files) /\ Len(Front(cs)) = Len(cs) - 1
            /\ \A k \in 1..Len(cs) - 1 : Front(cs)[k] = cs[k]
        <5>1. cs \in Seq(SUBSET Files)
          BY <1>2
        <5>2. QED
          BY ONLY <3>1, <5>1, FrontFacts
      <4>2. QED
        BY <2>1, <4>1
    <3>3. st2 = [k \in 1..Len(cs2) |-> st[k]]
      BY <2>1, <3>2
    <3>4. \A k \in 1..Len(cs2) : st2[k] = st[k] /\ k \in 1..Len(cs) /\ st[k] < st[Len(cs)]
      <4>1. \A k \in 1..Len(cs2) : k \in 1..Len(cs) /\ k < Len(cs)
        BY <1>1, <3>2
      <4>2. QED
        BY <1>2, <3>1, <3>3, <4>1
    <3>5. \A k \in 1..Len(cs2) : st[k] \in 1..N - 1
      BY <1>1, <1>4, <2>1, <3>4
    <3>6. \A k \in 1..Len(cs) : st[k] < N => k \in 1..Len(cs2)
      <4>1. \A k \in 1..Len(cs) : k = Len(cs) \/ k \in 1..Len(cs2)
        BY <1>1, <3>2
      <4>2. ~(st[Len(cs)] < N)
        BY <1>1, <1>4, <2>1
      <4>3. QED
        BY <4>1, <4>2
    <3>7. Len(cs2) \in 0..Len(cs)
      BY <1>1, <3>1, <3>2
    <3>8. st2 = [k \in 1..Len(cs2) |-> st2[k]]
      BY <3>3
    <3>9. QED
      BY <3>2, <3>4, <3>5, <3>6, <3>7, <3>8
  <2>2. CASE cr[N] # N
    <3>1. cs2 = cs /\ st2 = st
      BY <2>2
    <3>2. \A k \in 1..Len(cs) : st[k] \in 1..N - 1
      BY <1>1, <1>4, <2>2
    <3>3. QED
      BY <1>1, <1>2, <3>1, <3>2
  <2>3. QED
    BY <2>1, <2>2
<1> HIDE DEF p2, cr2
<1>8. \A n \in 1..Len(p2) : n \in 1..N - 1 /\ n \in 1..Len(p)
  BY <1>1, <1>5
<1>9. \A m, n \in 1..Len(p2) : m < n => p2[m] # p2[n]
  BY <1>2, <1>5, <1>8
<1>10. st2 \in [1..Len(cs2) -> 1..Len(p2)]
  BY <1>5, <1>7
<1>11. \A j, k \in 1..Len(cs2) : j < k => st2[j] < st2[k] /\ cs2[j] \cap cs2[k] = {}
  BY <1>2, <1>7
<1>12. ASSUME NEW k \in 1..Len(cs2)
       PROVE  cr2[st2[k]] = st2[k]
  <2>1. st2[k] = st[k] /\ k \in 1..Len(cs) /\ st[k] \in 1..N - 1
    BY <1>7
  <2>2. cr2[st[k]] = cr[st[k]] /\ cr[st[k]] = st[k]
    BY <1>1, <1>6, <2>1
  <2>3. QED
    BY <2>1, <2>2
<1>13. ASSUME NEW n \in 1..Len(p2)
       PROVE  \/ cr2[n] = Infinity
              \/ /\ cr2[n] \in 1..n
                 /\ \E k \in 1..Len(cs2) : st2[k] = cr2[n]
                 /\ \A j \in cr2[n]..n : cr2[j] = cr2[n]
  <2> SUFFICES ASSUME cr[n] # Infinity
               PROVE  /\ cr2[n] \in 1..n
                      /\ \E k \in 1..Len(cs2) : st2[k] = cr2[n]
                      /\ \A j \in cr2[n]..n : cr2[j] = cr2[n]
    BY <1>6, <1>8
  <2>1. n \in 1..N - 1 /\ n \in 1..Len(p)
    BY <1>8
  <2>2. cr2[n] = cr[n] /\ cr[n] \in 1..n /\ \A j \in cr[n]..n : cr[j] = cr[n]
    BY <1>3, <1>6, <2>1
  <2>3. PICK k \in 1..Len(cs) : st[k] = cr[n]
    BY <1>3, <2>1
  <2>4. st[k] < N
    BY <1>1, <2>1, <2>2, <2>3
  <2>5. k \in 1..Len(cs2) /\ st2[k] = cr[n]
    BY <1>7, <2>3, <2>4
  <2>6. \A j \in cr[n]..n : j \in 1..N - 1
    BY <1>1, <2>1, <2>2
  <2>7. QED
    BY <1>6, <2>2, <2>5, <2>6
<1>14. ASSUME NEW n \in 1..Len(p2), NEW k \in 1..Len(cs2)
       PROVE  p2[n] \in cs2[k] <=> cr2[n] = st2[k]
  <2>1. n \in 1..Len(p) /\ p2[n] = p[n] /\ cr2[n] = cr[n]
    BY <1>5, <1>6, <1>8
  <2>2. k \in 1..Len(cs) /\ cs2[k] = cs[k] /\ st2[k] = st[k]
    BY <1>7
  <2>3. QED
    BY <1>2, <2>1, <2>2
<1>15. Shape(p2, cr2, cs2, st2)
  <2>1. Len(cr2) = Len(p2)
    BY <1>5, <1>6
  <2>2. QED
    BY <1>5, <1>6, <1>7, <1>9, <1>10, <1>11, <1>12, <1>13, <1>14, <2>1 DEF Shape
<1>16. QED
  BY <1>15 DEF p2, cr2

-----------------------------------------------------------------------------
(***************************************************************************)
(* What holds while a walk is under way. G are the edges it follows, C the *)
(* files on its way whose dependencies did not change, Q what it may put   *)
(* into its queue. It has looked at the files in C whose status is not     *)
(* known yet.                                                              *)
(***************************************************************************)

\* Every parent depends on those before it in the stack.
OnPath(G, C, p, stat) ==
    /\ \A n \in 1..Len(p) : p[n] \in C /\ stat[p[n]] = "Unknown"
    /\ \A m, n \in 1..Len(p) : m < n => p[n] \in Reach(G, p[m])

\* The members of a cycle depend on its first parent. Those that are not among
\* the files in A have no dependencies but each other and files that are Ok.
InCycles(G, C, A, p, cs, st, stat) ==
    \A k \in 1..Len(cs), v \in Files : v \in cs[k] =>
        /\ v \in C /\ stat[v] = "Unknown"
        /\ p[st[k]] \in Reach(G, v)
        /\ v \in A \/ \A g \in G[v] : stat[g] = "Ok" \/ g \in cs[k]

\* The children of parent n that are in the queue, the one that is processed included
Pending(p, base, extra, n) == base[n] + 1..base[n + 1] + IF n = Len(p) THEN extra ELSE 0

\* The queue lists the children of all parents, base[n] is the number of those of parents before n.
Queued(G, Q, rt, p, cc, q, base, extra) ==
    /\ q \in Seq(Q)
    /\ cc \in Seq(1..Cardinality(Files) * Cardinality(Specs)) /\ Len(cc) = Len(p)
    /\ base \in [1..Len(p) + 1 -> Nat] /\ base[1] = 0
    /\ \A n \in 1..Len(p) : base[n + 1] = base[n] + cc[n] - 1
    /\ \A m, n \in 1..Len(p) + 1 : m <= n => base[m] <= base[n]
    /\ Len(q) = base[Len(p) + 1] + extra
    /\ \A n \in 1..Len(p), x \in 1..Len(q) : x \in Pending(p, base, extra, n) =>
          q[x].index \in G[p[n]] /\ \A m \in 1..n : q[x].index # p[m]
    /\ p = <<>> /\ extra = 1 => q[1].index = rt

\* What a parent depends on is Ok, in the same cycle, the next parent, still in the queue or the file itself.
EdgesSeen(G, p, cr, cs, st, q, base, extra, stat) ==
    \A n \in 1..Len(p), g \in Files : g \in G[p[n]] =>
       \/ g = p[n] \/ stat[g] = "Ok"
       \/ \E k \in 1..Len(cs) : cr[n] = st[k] /\ g \in cs[k]
       \/ n < Len(p) /\ g = p[n + 1]
       \/ \E x \in Pending(p, base, extra, n) : q[x].index = g

\* Merging cycles keeps what is known of their members.
LEMMA MergeMembers ==
    ASSUME NEW G \in [Files -> SUBSET Files], NEW C \in SUBSET Files, NEW stat,
           NEW p, NEW cr, NEW cs, NEW st, Shape(p, cr, cs, st), NEW e \in 1..Len(p),
           NEW F, F = FirstOf(cr, e),
           NEW kept \in 0..Len(cs), \A k \in 1..Len(cs) : st[k] < F <=> k <= kept,
           NEW A, NEW A2, A \subseteq A2,
           OnPath(G, C, p, stat), InCycles(G, C, A, p, cs, st, stat),
           \A n \in 1..Len(p) : p[n] \in A2,
           NEW self \in C, stat[self] = "Unknown", self \in G[p[Len(p)]], p[e] \in Reach(G, self),
           self \in A2 \/ \A g \in G[self] : stat[g] = "Ok" \/ g \in Merged(p, cs, kept, F, self)
    PROVE  InCycles(G, C, A2, p, MergedCycles(p, cs, kept, F, self), MergedStarts(st, kept, F), stat)
<1> DEFINE cs2 == MergedCycles(p, cs, kept, F, self)
           st2 == MergedStarts(st, kept, F)
           M == Merged(p, cs, kept, F, self)
<1>1. /\ Len(p) \in Nat /\ Len(cs) \in Nat
      /\ \A n \in 1..Len(p) : p[n] \in Files
      /\ \A k \in 1..Len(cs) : cs[k] \in SUBSET Files /\ st[k] \in 1..Len(p)
  BY ShapePositions
<1>2. F \in 1..e /\ F \in 1..Len(p) /\ (F # e => \E k \in 1..Len(cs) : st[k] = F /\ p[e] \in cs[k])
  BY <1>1, FirstBegins
<1>3. /\ Len(cs2) = kept + 1
      /\ \A k \in 1..kept : cs2[k] = cs[k]
      /\ cs2[kept + 1] = M
      /\ \A k \in 1..Len(cs) : k > kept => cs[k] \subseteq M
  BY <1>2, MergedFacts
<1>4. /\ \A k \in 1..kept : st2[k] = st[k] /\ k \in 1..Len(cs)
      /\ st2[kept + 1] = F
  BY <1>1 DEF MergedStarts
<1> HIDE DEF cs2, st2
<1>5. \A k \in 1..Len(cs), v \in Files : v \in cs[k] =>
        /\ v \in C /\ stat[v] = "Unknown"
        /\ p[st[k]] \in Reach(G, v)
        /\ v \in A \/ \A g \in G[v] : stat[g] = "Ok" \/ g \in cs[k]
  BY DEF InCycles
<1>6. /\ \A n \in 1..Len(p) : p[n] \in C /\ stat[p[n]] = "Unknown"
      /\ \A m, n \in 1..Len(p) : m < n => p[n] \in Reach(G, p[m])
  BY DEF OnPath
<1>7. p[F] \in Reach(G, p[e])
  <2>1. CASE F = e
    BY <1>1, <2>1, ReachRefl
  <2>2. CASE F # e
    BY <1>1, <1>2, <1>5, <2>2
  <2>3. QED
    BY <2>1, <2>2
<1>8. p[F] \in Reach(G, self)
  BY <1>7, ReachTrans
<1>9. ASSUME NEW n \in F..Len(p)
      PROVE  p[F] \in Reach(G, p[n])
  <2>1. n \in 1..Len(p) /\ Len(p) \in 1..Len(p)
    BY <1>1, <1>2
  <2>2. p[Len(p)] \in Reach(G, p[n])
    <3>1. CASE n = Len(p)
      BY <1>1, <2>1, <3>1, ReachRefl
    <3>2. CASE n < Len(p)
      BY <1>6, <2>1, <3>2
    <3>3. QED
      BY <1>1, <2>1, <3>1, <3>2
  <2>3. self \in Reach(G, p[n])
    <3>1. Closed(G, Reach(G, p[n]))
      BY ReachClosed
    <3>2. QED
      BY <2>2, <3>1 DEF Closed
  <2>4. Reach(G, self) \subseteq Reach(G, p[n])
    BY <2>3, ReachTrans
  <2>5. QED
    BY <1>8, <2>4
<1>10. ASSUME NEW v \in Files, v \in M
       PROVE  /\ v \in C /\ stat[v] = "Unknown"
              /\ p[F] \in Reach(G, v)
              /\ v \in A2 \/ \A g \in G[v] : stat[g] = "Ok" \/ g \in M
  <2>1. CASE v = self
    BY <1>8, <2>1
  <2>2. CASE \E n \in F..Len(p) : v = p[n]
    <3>1. PICK n \in F..Len(p) : v = p[n]
      BY <2>2
    <3>2. n \in 1..Len(p)
      BY <1>1, <1>2
    <3>3. QED
      BY <1>6, <1>9, <3>1, <3>2
  <2>3. CASE \E k \in kept + 1..Len(cs) : v \in cs[k]
    <3>1. PICK k \in kept + 1..Len(cs) : v \in cs[k]
      BY <2>3
    <3>2. k \in 1..Len(cs) /\ k > kept /\ ~(st[k] < F) /\ st[k] \in F..Len(p)
      <4>1. k \in 1..Len(cs) /\ k > kept
        BY <1>1
      <4>2. ~(st[k] < F)
        BY <4>1
      <4>3. QED
        BY <1>1, <1>2, <4>1, <4>2
    <3>3. /\ v \in C /\ stat[v] = "Unknown"
          /\ p[st[k]] \in Reach(G, v)
          /\ v \in A \/ \A g \in G[v] : stat[g] = "Ok" \/ g \in cs[k]
      BY <1>5, <3>1, <3>2
    <3>4. p[F] \in Reach(G, v)
      <4>1. p[F] \in Reach(G, p[st[k]])
        BY <1>9, <3>2
      <4>2. Reach(G, p[st[k]]) \subseteq Reach(G, v)
        BY <3>3, ReachTrans
      <4>3. QED
        BY <4>1, <4>2
    <3>5. cs[k] \subseteq M
      BY <1>3, <3>2
    <3>6. QED
      BY <3>3, <3>4, <3>5
  <2>4. QED
    BY <1>10, <2>1, <2>2, <2>3 DEF Merged
<1>11. ASSUME NEW k \in 1..Len(cs2), NEW v \in Files, v \in cs2[k]
       PROVE  /\ v \in C /\ stat[v] = "Unknown"
              /\ p[st2[k]] \in Reach(G, v)
              /\ v \in A2 \/ \A g \in G[v] : stat[g] = "Ok" \/ g \in cs2[k]
  <2> HIDE DEF M
  <2>1. CASE k \in 1..kept
    BY <1>3, <1>4, <1>5, <1>11, <2>1
  <2>2. CASE k = kept + 1
    BY <1>3, <1>4, <1>10, <1>11, <2>2
  <2>3. QED
    BY <1>1, <1>3, <2>1, <2>2
<1>12. InCycles(G, C, A2, p, cs2, st2, stat)
  BY <1>11 DEF InCycles
<1>13. QED
  BY <1>12 DEF cs2, st2

\* Merging cycles loses no dependency of a parent.
LEMMA MergeEdges ==
    ASSUME NEW G \in [Files -> SUBSET Files], NEW stat,
           NEW p, NEW cr, NEW cs, NEW st, Shape(p, cr, cs, st), NEW e \in 1..Len(p),
           NEW F, F = FirstOf(cr, e),
           NEW kept \in 0..Len(cs), \A k \in 1..Len(cs) : st[k] < F <=> k <= kept,
           NEW self \in Files, NEW q, NEW base, NEW extra,
           EdgesSeen(G, p, cr, cs, st, q, base, extra, stat)
    PROVE  EdgesSeen(G, p, MergedRuns(cr, F), MergedCycles(p, cs, kept, F, self), MergedStarts(st, kept, F),
                     q, base, extra, stat)
<1> DEFINE cs2 == MergedCycles(p, cs, kept, F, self)
           st2 == MergedStarts(st, kept, F)
           cr2 == MergedRuns(cr, F)
           M == Merged(p, cs, kept, F, self)
<1>1. /\ Len(p) \in Nat /\ Len(cs) \in Nat /\ Len(cr) = Len(p)
      /\ Len(p) < Infinity /\ Infinity \in Nat
      /\ \A k \in 1..Len(cs) : cs[k] \in SUBSET Files /\ st[k] \in 1..Len(p)
  BY ShapePositions
<1>2. F \in 1..e /\ F \in 1..Len(p) /\ (\A n \in 1..Len(p) : n >= F => cr[n] >= F)
  BY <1>1, FirstBegins
<1>3. /\ Len(cs2) = kept + 1
      /\ \A k \in 1..kept : cs2[k] = cs[k]
      /\ cs2[kept + 1] = M
      /\ \A k \in 1..Len(cs) : k > kept => cs[k] \subseteq M
  BY <1>2, MergedFacts
<1>4. /\ \A k \in 1..kept : st2[k] = st[k] /\ k \in 1..Len(cs)
      /\ st2[kept + 1] = F
  BY <1>1 DEF MergedStarts
<1>5. \A n \in 1..Len(p) : cr2[n] = IF n >= F THEN F ELSE cr[n]
  BY <1>1 DEF MergedRuns
<1>6. \A n \in 1..Len(p) : cr[n] # Infinity => cr[n] \in 1..n
  BY DEF Shape
<1> HIDE DEF cs2, st2, cr2, M
<1>7. ASSUME NEW n \in 1..Len(p), NEW g \in Files, NEW k \in 1..Len(cs), cr[n] = st[k], g \in cs[k]
      PROVE  \E j \in 1..Len(cs2) : cr2[n] = st2[j] /\ g \in cs2[j]
  <2>1. st[k] \in 1..Len(p) /\ st[k] # Infinity
    BY <1>1
  <2>2. cr[n] \in 1..n
    BY <1>6, <1>7, <2>1
  <2>3. CASE k \in 1..kept
    <3>1. st[k] < F
      <4>1. k <= kept
        BY <2>3
      <4>2. QED
        BY <4>1
    <3>2. ~(n >= F)
      BY <1>2, <1>7, <2>1, <3>1
    <3>3. cr2[n] = st2[k] /\ g \in cs2[k] /\ k \in 1..Len(cs2)
      BY <1>1, <1>3, <1>4, <1>5, <1>7, <2>3, <3>2
    <3>4. QED
      BY <3>3
  <2>4. CASE k > kept
    <3>1. ~(st[k] < F)
      BY <1>1, <2>4
    <3>2. n >= F
      BY <1>2, <1>7, <2>1, <2>2, <3>1
    <3>3. cr2[n] = st2[kept + 1] /\ g \in cs2[kept + 1] /\ kept + 1 \in 1..Len(cs2)
      BY <1>1, <1>3, <1>4, <1>5, <1>7, <2>4, <3>2
    <3>4. QED
      BY <3>3
  <2>5. QED
    BY <1>1, <2>3, <2>4
<1>8. EdgesSeen(G, p, cr2, cs2, st2, q, base, extra, stat)
  <2> SUFFICES ASSUME NEW n \in 1..Len(p), NEW g \in Files, g \in G[p[n]]
               PROVE  \/ g = p[n] \/ stat[g] = "Ok"
                      \/ \E k \in 1..Len(cs2) : cr2[n] = st2[k] /\ g \in cs2[k]
                      \/ n < Len(p) /\ g = p[n + 1]
                      \/ \E x \in Pending(p, base, extra, n) : q[x].index = g
    BY DEF EdgesSeen
  <2>1. \/ g = p[n] \/ stat[g] = "Ok"
        \/ \E k \in 1..Len(cs) : cr[n] = st[k] /\ g \in cs[k]
        \/ n < Len(p) /\ g = p[n + 1]
        \/ \E x \in Pending(p, base, extra, n) : q[x].index = g
    BY DEF EdgesSeen
  <2>2. QED
    BY <1>7, <2>1
<1>9. QED
  BY <1>8 DEF cs2, st2, cr2

\* The file that is processed is a child of the innermost parent, or the one the walk started from.
LEMMA TopOfQueue ==
    ASSUME NEW G, NEW Q, NEW rt, NEW p \in Seq(Files), NEW cc, NEW q, NEW base, Queued(G, Q, rt, p, cc, q, base, 1)
    PROVE  /\ q # <<>> /\ q \in Seq(Q) /\ Len(q) \in 1..Len(q) /\ Last(q) = q[Len(q)] /\ Last(q) \in Q
           /\ p = <<>> => Last(q).index = rt /\ Len(q) = 1
           /\ p # <<>> => /\ Last(q).index \in G[p[Len(p)]]
                          /\ \A m \in 1..Len(p) : Last(q).index # p[m]
<1>1. /\ q \in Seq(Q)
      /\ base \in [1..Len(p) + 1 -> Nat] /\ base[1] = 0
      /\ \A m, n \in 1..Len(p) + 1 : m <= n => base[m] <= base[n]
      /\ Len(q) = base[Len(p) + 1] + 1
      /\ \A n \in 1..Len(p), x \in 1..Len(q) : x \in Pending(p, base, 1, n) =>
            q[x].index \in G[p[n]] /\ \A m \in 1..n : q[x].index # p[m]
      /\ p = <<>> => q[1].index = rt
  BY DEF Queued
<1>2. Len(p) \in Nat /\ base[Len(p) + 1] \in Nat
  BY <1>1
<1>3. q # <<>> /\ Len(q) \in 1..Len(q) /\ Last(q) = q[Len(q)] /\ Last(q) \in Q
  <2>1. q # <<>>
    BY <1>1, <1>2
  <2>2. QED
    BY <1>1, <1>2, <2>1, FrontFacts
<1>4. ASSUME p = <<>>
      PROVE  Last(q).index = rt /\ Len(q) = 1
  <2>1. Len(q) = 1
    BY <1>1, <1>4
  <2>2. QED
    BY <1>1, <1>3, <1>4, <2>1
<1>5. ASSUME p # <<>>
      PROVE  Last(q).index \in G[p[Len(p)]] /\ \A m \in 1..Len(p) : Last(q).index # p[m]
  <2>1. Len(p) \in 1..Len(p)
    BY <1>2, <1>5
  <2>2. base[Len(p)] <= base[Len(p) + 1] /\ base[Len(p)] \in Nat
    BY <1>1, <1>2, <2>1
  <2>3. Len(q) \in Pending(p, base, 1, Len(p))
    BY <1>1, <1>2, <2>2 DEF Pending
  <2>4. QED
    BY <1>1, <1>3, <2>1, <2>3
<1>6. QED
  BY <1>1, <1>3, <1>4, <1>5

\* The file that was processed leaves the queue.
LEMMA PopQueue ==
    ASSUME NEW G, NEW Q, NEW rt, NEW p \in Seq(Files), NEW cr, NEW cs, NEW st, NEW cc, NEW q, NEW base, NEW stat,
           NEW stat2, Queued(G, Q, rt, p, cc, q, base, 1), EdgesSeen(G, p, cr, cs, st, q, base, 1, stat),
           \A g \in Files : stat[g] = "Ok" => stat2[g] = "Ok",
           p # <<>> => \/ stat2[Last(q).index] = "Ok"
                       \/ \E k \in 1..Len(cs) : cr[Len(p)] = st[k] /\ Last(q).index \in cs[k]
    PROVE  Queued(G, Q, rt, p, cc, Front(q), base, 0) /\ EdgesSeen(G, p, cr, cs, st, Front(q), base, 0, stat2)
<1> DEFINE q2 == Front(q)
<1>1. /\ q \in Seq(Q)
      /\ cc \in Seq(1..Cardinality(Files) * Cardinality(Specs)) /\ Len(cc) = Len(p)
      /\ base \in [1..Len(p) + 1 -> Nat] /\ base[1] = 0
      /\ \A n \in 1..Len(p) : base[n + 1] = base[n] + cc[n] - 1
      /\ \A m, n \in 1..Len(p) + 1 : m <= n => base[m] <= base[n]
      /\ Len(q) = base[Len(p) + 1] + 1
      /\ \A n \in 1..Len(p), x \in 1..Len(q) : x \in Pending(p, base, 1, n) =>
            q[x].index \in G[p[n]] /\ \A m \in 1..n : q[x].index # p[m]
  BY DEF Queued
<1>2. /\ Len(p) \in Nat /\ base[Len(p) + 1] \in Nat /\ Len(p) + 1 \in 1..Len(p) + 1
      /\ \A n \in 1..Len(p) : n \in 1..Len(p) + 1 /\ n + 1 \in 1..Len(p) + 1 /\ n <= n + 1 /\ n + 1 <= Len(p) + 1
  BY <1>1
<1>3. q # <<>> /\ Last(q) = q[Len(q)]
  BY TopOfQueue
<1>4. q2 \in Seq(Q) /\ Len(q2) = base[Len(p) + 1] /\ \A x \in 1..Len(q2) : q2[x] = q[x] /\ x \in 1..Len(q)
  <2>1. /\ Front(q) \in Seq(Q) /\ Len(Front(q)) = Len(q) - 1
        /\ \A x \in 1..Len(q) - 1 : Front(q)[x] = q[x]
    BY <1>1, <1>3, FrontFacts
  <2>2. QED
    BY <1>1, <1>2, <2>1
<1> HIDE DEF q2
<1>5. ASSUME NEW n \in 1..Len(p)
      PROVE  /\ base[n] \in Nat /\ base[n + 1] \in Nat /\ base[n + 1] <= base[Len(p) + 1]
             /\ n < Len(p) => Pending(p, base, 0, n) = Pending(p, base, 1, n)
             /\ n = Len(p) => Pending(p, base, 1, n) = Pending(p, base, 0, n) \union {Len(q)}
             /\ Pending(p, base, 0, n) \subseteq 1..Len(q2)
  <2>1. base[n] \in Nat /\ base[n + 1] \in Nat /\ base[n + 1] <= base[Len(p) + 1] /\ base[n] <= base[n + 1]
    BY <1>1, <1>2
  <2>2. n < Len(p) => Pending(p, base, 0, n) = Pending(p, base, 1, n)
    BY <1>2 DEF Pending
  <2>3. Pending(p, base, 0, n) = base[n] + 1..base[n + 1]
    BY <2>1 DEF Pending
  <2>4. n = Len(p) => Pending(p, base, 1, n) = base[n] + 1..base[n + 1] + 1
    BY <2>1 DEF Pending
  <2>5. n = Len(p) => Pending(p, base, 1, n) = Pending(p, base, 0, n) \union {Len(q)}
    BY <1>1, <2>1, <2>3, <2>4
  <2>6. Pending(p, base, 0, n) \subseteq 1..Len(q2)
    BY <1>2, <1>4, <2>1, <2>3
  <2>7. QED
    BY <2>1, <2>2, <2>5, <2>6
<1>6. Queued(G, Q, rt, p, cc, q2, base, 0)
  <2>1. ASSUME NEW n \in 1..Len(p), NEW x \in 1..Len(q2), x \in Pending(p, base, 0, n)
        PROVE  q2[x].index \in G[p[n]] /\ \A m \in 1..n : q2[x].index # p[m]
    <3>1. x \in Pending(p, base, 1, n)
      BY <1>2, <1>5, <2>1
    <3>2. QED
      BY <1>1, <1>4, <3>1
  <2>2. Len(q2) = base[Len(p) + 1] + 0
    BY <1>2, <1>4
  <2>3. 0 # 1
    OBVIOUS
  <2>4. QED
    BY <1>1, <1>4, <2>1, <2>2, <2>3 DEF Queued
<1>7. EdgesSeen(G, p, cr, cs, st, q2, base, 0, stat2)
  <2> SUFFICES ASSUME NEW n \in 1..Len(p), NEW g \in Files, g \in G[p[n]]
               PROVE  \/ g = p[n] \/ stat2[g] = "Ok"
                      \/ \E k \in 1..Len(cs) : cr[n] = st[k] /\ g \in cs[k]
                      \/ n < Len(p) /\ g = p[n + 1]
                      \/ \E x \in Pending(p, base, 0, n) : q2[x].index = g
    BY DEF EdgesSeen
  <2>1. \/ g = p[n] \/ stat[g] = "Ok"
        \/ \E k \in 1..Len(cs) : cr[n] = st[k] /\ g \in cs[k]
        \/ n < Len(p) /\ g = p[n + 1]
        \/ \E x \in Pending(p, base, 1, n) : q[x].index = g
    BY DEF EdgesSeen
  <2>2. ASSUME NEW x \in Pending(p, base, 1, n), q[x].index = g
        PROVE  \/ stat2[g] = "Ok"
               \/ \E k \in 1..Len(cs) : cr[n] = st[k] /\ g \in cs[k]
               \/ \E y \in Pending(p, base, 0, n) : q2[y].index = g
    <3>1. CASE x \in Pending(p, base, 0, n)
      <4>1. q2[x] = q[x]
        BY <1>4, <1>5, <3>1
      <4>2. QED
        BY <2>2, <3>1, <4>1
    <3>2. CASE x \notin Pending(p, base, 0, n)
      <4>1. /\ n < Len(p) => Pending(p, base, 0, n) = Pending(p, base, 1, n)
            /\ n = Len(p) => Pending(p, base, 1, n) = Pending(p, base, 0, n) \union {Len(q)}
        BY <1>5
      <4>2. n < Len(p) \/ n = Len(p)
        BY <1>2
      <4>3. n = Len(p) /\ x = Len(q)
        BY <3>2, <4>1, <4>2
      <4>4. g = Last(q).index /\ p # <<>>
        BY <1>2, <1>3, <2>2, <4>3
      <4>5. QED
        BY <4>3, <4>4
    <3>3. QED
      BY <3>1, <3>2
  <2>3. QED
    BY <2>1, <2>2
<1>8. QED
  BY <1>6, <1>7 DEF q2

\* The next child of the innermost parent is processed.
LEMMA NextQueue ==
    ASSUME NEW G, NEW Q, NEW rt, NEW p \in Seq(Files), p # <<>>, NEW cr, NEW cs, NEW st, NEW cc, NEW q, NEW base,
           NEW stat, Queued(G, Q, rt, p, cc, q, base, 0), EdgesSeen(G, p, cr, cs, st, q, base, 0, stat),
           cc[Len(p)] > 1, NEW cc2, cc2 = [cc EXCEPT ![Len(p)] = @ - 1]
    PROVE  \E base2 : Queued(G, Q, rt, p, cc2, q, base2, 1) /\ EdgesSeen(G, p, cr, cs, st, q, base2, 1, stat)
<1> DEFINE N == Len(p)
           base2 == [n \in 1..N + 1 |-> IF n = N + 1 THEN base[N + 1] - 1 ELSE base[n]]
           Most == Cardinality(Files) * Cardinality(Specs)
<1>1. /\ q \in Seq(Q)
      /\ cc \in Seq(1..Most) /\ Len(cc) = N
      /\ base \in [1..N + 1 -> Nat] /\ base[1] = 0
      /\ \A n \in 1..N : base[n + 1] = base[n] + cc[n] - 1
      /\ \A m, n \in 1..N + 1 : m <= n => base[m] <= base[n]
      /\ Len(q) = base[N + 1] + 0
      /\ \A n \in 1..N, x \in 1..Len(q) : x \in Pending(p, base, 0, n) =>
            q[x].index \in G[p[n]] /\ \A m \in 1..n : q[x].index # p[m]
  BY DEF Queued
<1>2. /\ N \in Nat /\ N \in 1..N /\ N + 1 \in 1..N + 1 /\ N \in 1..N + 1 /\ N <= N + 1
      /\ \A n \in 1..N : n \in 1..N + 1 /\ n + 1 \in 1..N + 1 /\ n <= N
  OBVIOUS
<1>2a. Most \in Nat
  BY ManyChildren
<1> HIDE DEF Most, N
<1>3. /\ DOMAIN cc = 1..N /\ \A n \in 1..N : cc[n] \in 1..Most
      /\ cc[N] \in Nat /\ base[N] \in Nat /\ base[N + 1] \in Nat
      /\ base[N + 1] = base[N] + cc[N] - 1
  <2> DEFINE T == 1..Most
  <2>1. cc \in Seq(T) /\ Len(cc) = N
    BY <1>1
  <2> HIDE DEF T
  <2>2. DOMAIN cc = 1..N /\ \A n \in 1..N : cc[n] \in T
    BY <2>1
  <2>3. \A x \in T : x \in Nat
    BY <1>2a DEF T
  <2>4. QED
    BY <1>1, <1>2, <2>2, <2>3 DEF T
<1>4. cc2 \in Seq(1..Most) /\ Len(cc2) = N /\ cc2[N] = cc[N] - 1 /\ \A n \in 1..N : n # N => cc2[n] = cc[n]
  <2>1. cc2 = [n \in 1..N |-> IF n = N THEN cc[N] - 1 ELSE cc[n]]
    BY <1>3 DEF N
  <2>2. \A n \in 1..N : cc2[n] \in 1..Most
    <3>1. cc[N] \in 1..Most /\ cc[N] > 1
      BY <1>2, <1>3 DEF N
    <3>2. cc[N] - 1 \in 1..Most
      BY <1>2a, <3>1
    <3>3. QED
      BY <1>3, <2>1, <3>2
  <2>3. cc2 \in [1..N -> 1..Most]
    BY <2>1, <2>2
  <2>4. cc2 \in Seq(1..Most) /\ Len(cc2) = N
    <3> DEFINE T == 1..Most
    <3>1. cc2 \in [1..N -> T]
      BY <2>3
    <3> HIDE DEF T
    <3>2. cc2 \in Seq(T) /\ Len(cc2) = N
      BY <1>2, <3>1, FunctionIsSeq
    <3>3. QED
      BY <3>2 DEF T
  <2>5. QED
    BY <1>2, <2>1, <2>4
<1>5. /\ base2 \in [1..N + 1 -> Nat]
      /\ \A n \in 1..N : base2[n] = base[n]
      /\ base2[N + 1] = base[N + 1] - 1
      /\ base[N] <= base2[N + 1]
  <2>1. cc[N] > 1
    BY DEF N
  <2>2. base[N + 1] - 1 \in Nat /\ base[N] <= base[N + 1] - 1
    BY <1>3, <2>1
  <2>3. \A n \in 1..N : n # N + 1 /\ n \in 1..N + 1
    BY <1>2
  <2>4. QED
    BY <1>1, <1>2, <2>2, <2>3
<1> HIDE DEF base2
<1>6. ASSUME NEW n \in 1..N
      PROVE  Pending(p, base2, 1, n) = Pending(p, base, 0, n)
  <2>1. CASE n = N
    <3>1. base2[N + 1] + 1 = base[N + 1] + 0 /\ base2[N] = base[N]
      BY <1>2, <1>3, <1>5
    <3>2. QED
      BY <2>1, <3>1 DEF Pending, N
  <2>2. CASE n # N
    <3>1. n + 1 \in 1..N
      BY <1>2, <2>2
    <3>2. QED
      BY <1>5, <2>2, <3>1 DEF Pending, N
  <2>3. QED
    BY <2>1, <2>2
<1>7. \A n \in 1..N : base2[n + 1] = base2[n] + cc2[n] - 1
  <2>1. base2[N + 1] = base2[N] + cc2[N] - 1
    <3>1. base2[N] = base[N] /\ base2[N + 1] = base[N + 1] - 1 /\ cc2[N] = cc[N] - 1
      BY <1>2, <1>4, <1>5
    <3>2. QED
      BY <1>3, <3>1
  <2>2. ASSUME NEW n \in 1..N, n # N
        PROVE  base2[n + 1] = base2[n] + cc2[n] - 1
    <3>1. n + 1 \in 1..N
      BY <1>2, <2>2
    <3>2. QED
      BY <1>1, <1>4, <1>5, <2>2, <3>1
  <2>3. QED
    BY <2>1, <2>2
<1>8. ASSUME NEW m \in 1..N + 1, NEW n \in 1..N + 1, m <= n
      PROVE  base2[m] <= base2[n]
  <2>1. CASE n \in 1..N
    <3>1. m \in 1..N
      BY <1>2, <1>8, <2>1
    <3>2. QED
      BY <1>1, <1>5, <1>8, <2>1, <3>1
  <2>2. CASE n = N + 1 /\ m = N + 1
    BY <1>2, <1>5, <2>2
  <2>3. CASE n = N + 1 /\ m \in 1..N
    <3>0. m \in 1..N + 1 /\ m <= N
      BY <1>2, <2>3
    <3>1. base[m] <= base[N] /\ base[m] \in Nat /\ base[N] \in Nat /\ base2[m] = base[m]
      BY <1>1, <1>2, <1>5, <2>3, <3>0
    <3>2. base2[N + 1] \in Nat
      BY <1>2, <1>5
    <3>3. QED
      BY <1>5, <2>3, <3>1, <3>2
  <2>4. QED
    BY <1>2, <2>1, <2>2, <2>3
<1>9. base2[1] = 0 /\ Len(q) = base2[N + 1] + 1
  BY <1>1, <1>2, <1>5
<1>10. Queued(G, Q, rt, p, cc2, q, base2, 1)
  <2>1. \A n \in 1..N, x \in 1..Len(q) : x \in Pending(p, base2, 1, n) =>
            q[x].index \in G[p[n]] /\ \A m \in 1..n : q[x].index # p[m]
    BY <1>1, <1>6
  <2>2. QED
    BY <1>1, <1>4, <1>5, <1>7, <1>8, <1>9, <2>1 DEF Queued, Most, N
<1>11. EdgesSeen(G, p, cr, cs, st, q, base2, 1, stat)
  BY <1>6 DEF EdgesSeen, N
<1>12. QED
  BY <1>10, <1>11

\* The innermost parent has no more children.
LEMMA CloseQueue ==
    ASSUME NEW G, NEW Q, NEW rt, NEW p \in Seq(Files), p # <<>>, NEW cc, NEW q, NEW base,
           Queued(G, Q, rt, p, cc, q, base, 0), cc[Len(p)] = 1
    PROVE  /\ \E base2 :
                /\ Queued(G, Q, rt, Front(p), Front(cc), q, base2, 0)
                /\ \A n \in 1..Len(p) - 1 : Pending(Front(p), base2, 0, n) = Pending(p, base, 0, n)
           /\ Pending(p, base, 0, Len(p)) = {}
<1> DEFINE N == Len(p)
           p2 == Front(p)
           cc2 == Front(cc)
           base2 == [n \in 1..N |-> base[n]]
           T == 1..Cardinality(Files) * Cardinality(Specs)
<1>1. /\ q \in Seq(Q)
      /\ cc \in Seq(T) /\ Len(cc) = N
      /\ base \in [1..N + 1 -> Nat] /\ base[1] = 0
      /\ \A n \in 1..N : base[n + 1] = base[n] + cc[n] - 1
      /\ \A m, n \in 1..N + 1 : m <= n => base[m] <= base[n]
      /\ Len(q) = base[N + 1] + 0
      /\ \A n \in 1..N, x \in 1..Len(q) : x \in Pending(p, base, 0, n) =>
            q[x].index \in G[p[n]] /\ \A m \in 1..n : q[x].index # p[m]
  BY DEF Queued
<1> HIDE DEF T
<1>2. /\ N \in Nat /\ N \in 1..N /\ N + 1 \in 1..N + 1 /\ N \in 1..N + 1
      /\ \A n \in 1..N : n \in 1..N + 1 /\ n \in Nat /\ n <= N
  OBVIOUS
<1>3. p2 \in Seq(Files) /\ Len(p2) = N - 1 /\ \A n \in 1..N - 1 : p2[n] = p[n]
  BY FrontFacts
<1>4. cc2 \in Seq(T) /\ Len(cc2) = N - 1 /\ \A n \in 1..N - 1 : cc2[n] = cc[n]
  <2>1. cc # <<>> /\ cc \in Seq(T)
    BY <1>1, <1>2
  <2>2. /\ Front(cc) \in Seq(T) /\ Len(Front(cc)) = Len(cc) - 1
        /\ \A n \in 1..Len(cc) - 1 : Front(cc)[n] = cc[n]
    BY ONLY <2>1, FrontFacts
  <2>3. QED
    BY <1>1, <2>2
<1>5. base2 \in [1..Len(p2) + 1 -> Nat] /\ \A n \in 1..N : base2[n] = base[n]
  <2>1. Len(p2) + 1 = N
    BY <1>2, <1>3
  <2>2. QED
    BY <1>1, <1>2, <2>1
<1>6. base[N + 1] = base[N] /\ base[N] \in Nat /\ base[N + 1] \in Nat
  BY <1>1, <1>2
<1> HIDE DEF p2, cc2, base2
<1>7. Pending(p, base, 0, N) = {}
  BY <1>6 DEF Pending
<1>8. ASSUME NEW n \in 1..N - 1
      PROVE  Pending(p2, base2, 0, n) = Pending(p, base, 0, n)
  <2>1. n \in 1..N /\ n + 1 \in 1..N
    BY <1>2
  <2>2. QED
    BY <1>5, <2>1 DEF Pending
<1>9. Queued(G, Q, rt, p2, cc2, q, base2, 0)
  <2>0. Len(p2) + 1 = N /\ Len(p2) = N - 1 /\ Len(cc2) = Len(p2)
    BY <1>2, <1>3, <1>4
  <2>1. \A n \in 1..Len(p2) : base2[n + 1] = base2[n] + cc2[n] - 1
    <3>1. \A n \in 1..Len(p2) : n \in 1..N - 1 /\ n \in 1..N /\ n + 1 \in 1..N
      BY <1>2, <2>0
    <3>2. QED
      BY <1>1, <1>4, <1>5, <3>1
  <2>2. \A m, n \in 1..Len(p2) + 1 : m <= n => base2[m] <= base2[n]
    BY <1>1, <1>2, <1>5, <2>0
  <2>3. Len(q) = base2[Len(p2) + 1] + 0
    BY <1>1, <1>2, <1>5, <1>6, <2>0
  <2>4. ASSUME NEW n \in 1..Len(p2), NEW x \in 1..Len(q), x \in Pending(p2, base2, 0, n)
        PROVE  q[x].index \in G[p2[n]] /\ \A m \in 1..n : q[x].index # p2[m]
    <3>1. n \in 1..N - 1 /\ n \in 1..N /\ \A m \in 1..n : m \in 1..N - 1
      BY <1>2, <2>0
    <3>2. QED
      BY <1>1, <1>3, <1>8, <2>4, <3>1
  <2>5. base2[1] = 0
    BY <1>1, <1>2, <1>5
  <2>6. 0 # 1
    OBVIOUS
  <2>7. QED
    BY <1>1, <1>4, <1>5, <2>0, <2>1, <2>2, <2>3, <2>4, <2>5, <2>6 DEF Queued, T
<1>10. QED
  BY <1>7, <1>8, <1>9 DEF p2, cc2

\* What may be pushed on the queue: dependencies of self that are no parents.
Children(G, p, self, o) ==
    \A x \in 1..Len(o) : /\ o[x].index \in G[self] /\ o[x].index # self
                         /\ \A m \in 1..Len(p) : o[x].index # p[m]

\* All dependencies of self are Ok, in the cycle that starts at position c, among the children or self.
ChildrenSeen(G, cs, st, stat, self, c, o) ==
    \A g \in Files : g \in G[self] =>
       \/ g = self \/ stat[g] = "Ok"
       \/ \E k \in 1..Len(cs) : c = st[k] /\ g \in cs[k]
       \/ \E x \in 1..Len(o) : o[x].index = g

\* The children of a new parent are put into the queue.
LEMMA PushQueue ==
    ASSUME NEW G, NEW Q, NEW rt, NEW p \in Seq(Files), NEW cr \in Seq(Nat), Len(cr) = Len(p), NEW cs, NEW st, NEW cc,
           NEW q, NEW base, NEW stat,
           Queued(G, Q, rt, p, cc, q, base, 1), EdgesSeen(G, p, cr, cs, st, q, base, 1, stat),
           NEW self \in Files, self = Last(q).index, NEW c \in Nat,
           NEW o \in Seq(Q), Len(o) \in 1..Cardinality(Files) * Cardinality(Specs),
           Children(G, p, self, o), ChildrenSeen(G, cs, st, stat, self, c, o)
    PROVE  \E base2 :
              /\ Queued(G, Q, rt, Append(p, self), Append(cc, Len(o)), Front(q) \o o, base2, 1)
              /\ EdgesSeen(G, Append(p, self), Append(cr, c), cs, st, Front(q) \o o, base2, 1, stat)
<1> DEFINE N == Len(p)
           K == Len(o)
           p2 == Append(p, self)
           cc2 == Append(cc, K)
           cr2 == Append(cr, c)
           q2 == Front(q) \o o
           base2 == [n \in 1..N + 2 |-> IF n = N + 2 THEN base[N + 1] + K - 1 ELSE base[n]]
           T == 1..Cardinality(Files) * Cardinality(Specs)
<1>1. /\ q \in Seq(Q)
      /\ cc \in Seq(T) /\ Len(cc) = N
      /\ base \in [1..N + 1 -> Nat] /\ base[1] = 0
      /\ \A n \in 1..N : base[n + 1] = base[n] + cc[n] - 1
      /\ \A m, n \in 1..N + 1 : m <= n => base[m] <= base[n]
      /\ Len(q) = base[N + 1] + 1
      /\ \A n \in 1..N, x \in 1..Len(q) : x \in Pending(p, base, 1, n) =>
            q[x].index \in G[p[n]] /\ \A m \in 1..n : q[x].index # p[m]
  BY DEF Queued
<1>2. q # <<>> /\ Last(q) = q[Len(q)] /\ K \in T /\ K \in Nat /\ K > 0
  BY TopOfQueue
<1> HIDE DEF T
<1>3. /\ N \in Nat /\ N + 1 \in 1..N + 1 /\ base[N + 1] \in Nat
      /\ \A n \in 1..N : n \in 1..N + 1 /\ n + 1 \in 1..N + 1 /\ n <= N /\ base[n] \in Nat /\ base[n + 1] \in Nat
      /\ \A n \in 1..N : base[n] <= base[n + 1] /\ base[n + 1] <= base[N + 1]
  <2>1. /\ N \in Nat /\ N + 1 \in 1..N + 1
        /\ \A n \in 1..N : n \in 1..N + 1 /\ n + 1 \in 1..N + 1 /\ n <= N /\ n <= n + 1 /\ n + 1 <= N + 1
    OBVIOUS
  <2>2. QED
    BY <1>1, <2>1
<1>4. /\ p2 \in Seq(Files) /\ Len(p2) = N + 1
      /\ (\A n \in 1..N : p2[n] = p[n]) /\ p2[N + 1] = self
  BY AppendFacts
<1>5. /\ cc2 \in Seq(T) /\ Len(cc2) = N + 1
      /\ (\A n \in 1..N : cc2[n] = cc[n]) /\ cc2[N + 1] = K
  <2> HIDE DEF K
  <2>1. cc \in Seq(T) /\ K \in T
    BY <1>1, <1>2
  <2>2. /\ Append(cc, K) \in Seq(T) /\ Len(Append(cc, K)) = Len(cc) + 1
        /\ \A n \in 1..Len(cc) : Append(cc, K)[n] = cc[n]
        /\ Append(cc, K)[Len(cc) + 1] = K
    BY ONLY <2>1, AppendFacts
  <2>3. QED
    BY <1>1, <2>2
<1>6. \A n \in 1..N : cr2[n] = cr[n]
  BY AppendFacts
<1>6a. cr2[N + 1] = c
  BY AppendFacts
<1>7. /\ q2 \in Seq(Q) /\ Len(q2) = base[N + 1] + K
      /\ \A x \in 1..base[N + 1] : q2[x] = q[x] /\ x \in 1..Len(q)
      /\ \A x \in 1..K : q2[base[N + 1] + x] = o[x]
  <2> DEFINE f == Front(q)
  <2>1. f \in Seq(Q) /\ Len(f) = Len(q) - 1 /\ \A x \in 1..Len(q) - 1 : f[x] = q[x]
    BY <1>1, <1>2, FrontFacts
  <2>2. Len(f) = base[N + 1]
    BY <1>1, <1>3, <2>1
  <2> HIDE DEF f, K
  <2>3. /\ f \o o \in Seq(Q) /\ Len(f \o o) = Len(f) + Len(o)
        /\ \A x \in 1..Len(f) : (f \o o)[x] = f[x]
        /\ \A x \in 1..Len(o) : (f \o o)[Len(f) + x] = o[x]
    <3>1. f \in Seq(Q) /\ o \in Seq(Q)
      BY <2>1
    <3>2. QED
      BY ONLY <3>1, ConcatFacts
  <2>4. \A x \in 1..base[N + 1] : x \in 1..Len(q) - 1 /\ x \in 1..Len(q)
    BY <1>1, <1>3
  <2>5. QED
    BY <2>1, <2>2, <2>3, <2>4 DEF f, K
<1>8. /\ base2 \in [1..N + 2 -> Nat]
      /\ \A n \in 1..N + 1 : base2[n] = base[n]
      /\ base2[N + 2] = base[N + 1] + K - 1
      /\ base[N + 1] <= base2[N + 2]
  <2>1. base[N + 1] + K - 1 \in Nat /\ base[N + 1] <= base[N + 1] + K - 1
    BY <1>2, <1>3
  <2>2. \A n \in 1..N + 1 : n # N + 2 /\ n \in 1..N + 2
    BY <1>3
  <2>3. \A n \in 1..N + 2 : n # N + 2 => n \in 1..N + 1
    BY <1>3
  <2>4. N + 2 \in 1..N + 2
    BY <1>3
  <2>5. QED
    BY <1>1, <2>1, <2>2, <2>3, <2>4
<1> HIDE DEF p2, cc2, cr2, q2, base2, K, N
<1>9. ASSUME NEW n \in 1..N, n < N
      PROVE  Pending(p2, base2, 1, n) = Pending(p, base, 1, n) /\ Pending(p2, base2, 1, n) \subseteq 1..base[N + 1]
  <2>1. base2[n] = base[n] /\ base2[n + 1] = base[n + 1] /\ n # N + 1
    BY <1>3, <1>8
  <2>2. Pending(p2, base2, 1, n) = base[n] + 1..base[n + 1] + 0
    BY <1>4, <2>1 DEF Pending
  <2>3. Pending(p, base, 1, n) = base[n] + 1..base[n + 1] + 0
    BY <1>3, <1>9 DEF Pending, N
  <2>4. QED
    BY <1>3, <2>2, <2>3
<1>10. ASSUME N \in 1..N
       PROVE  /\ Pending(p, base, 1, N) = Pending(p2, base2, 1, N) \union {Len(q)}
              /\ Pending(p2, base2, 1, N) \subseteq 1..base[N + 1]
  <2>1. base2[N] = base[N] /\ base2[N + 1] = base[N + 1] /\ N # N + 1
    BY <1>3, <1>8, <1>10
  <2>2. Pending(p2, base2, 1, N) = base[N] + 1..base[N + 1] + 0
    BY <1>4, <2>1 DEF Pending
  <2>3. Pending(p, base, 1, N) = base[N] + 1..base[N + 1] + 1
    BY DEF Pending, N
  <2>4. base[N] \in Nat /\ base[N] <= base[N + 1] /\ base[N + 1] \in Nat /\ Len(q) = base[N + 1] + 1
    BY <1>1, <1>3, <1>10
  <2>5. base[N] + 1..base[N + 1] + 1 = (base[N] + 1..base[N + 1] + 0) \union {base[N + 1] + 1}
    BY <2>4
  <2>6. base[N] + 1..base[N + 1] + 0 \subseteq 1..base[N + 1]
    BY <2>4
  <2>7. QED
    BY <2>2, <2>3, <2>4, <2>5, <2>6
<1>11. Pending(p2, base2, 1, N + 1) = base[N + 1] + 1..base[N + 1] + K
  <2>1. base2[N + 1] = base[N + 1] /\ base2[N + 1 + 1] = base[N + 1] + K - 1
    <3>1. N + 1 + 1 = N + 2
      BY <1>3
    <3>2. QED
      BY <1>3, <1>8, <3>1
  <2>2. base[N + 1] + K - 1 + 1 = base[N + 1] + K
    BY <1>2, <1>3
  <2>3. QED
    BY <1>4, <2>1, <2>2 DEF Pending
<1>12. \A n \in 1..N + 1 : n \in 1..N \/ n = N + 1
  BY <1>3
<1>13. \A n \in 1..N + 1 : base2[n + 1] = base2[n] + cc2[n] - 1
  <2>1. ASSUME NEW n \in 1..N
        PROVE  base2[n + 1] = base2[n] + cc2[n] - 1
    BY <1>1, <1>3, <1>5, <1>8
  <2>2. base2[N + 1 + 1] = base2[N + 1] + cc2[N + 1] - 1
    <3>1. N + 1 + 1 = N + 2
      BY <1>3
    <3>2. QED
      BY <1>3, <1>5, <1>8, <3>1
  <2>3. QED
    BY <1>12, <2>1, <2>2
<1>14. ASSUME NEW m \in 1..N + 2, NEW n \in 1..N + 2, m <= n
       PROVE  base2[m] <= base2[n]
  <2>1. CASE n \in 1..N + 1
    <3>1. m \in 1..N + 1
      BY <1>3, <1>14, <2>1
    <3>2. QED
      BY <1>1, <1>8, <1>14, <2>1, <3>1
  <2>2. CASE n = N + 2 /\ m = N + 2
    BY <1>3, <1>8, <2>2
  <2>3. CASE n = N + 2 /\ m \in 1..N + 1
    <3>1. base[m] <= base[N + 1] /\ base[m] \in Nat /\ base2[m] = base[m]
      <4>1. m <= N + 1
        BY <1>3, <2>3
      <4>2. QED
        BY <1>1, <1>3, <1>8, <2>3, <4>1
    <3>2. base2[N + 2] \in Nat
      BY <1>2, <1>3, <1>8
    <3>3. QED
      BY <1>3, <1>8, <2>3, <3>1, <3>2
  <2>4. QED
    BY <1>3, <2>1, <2>2, <2>3
<1>15. ASSUME NEW n \in 1..N + 1, NEW x \in 1..Len(q2), x \in Pending(p2, base2, 1, n)
       PROVE  q2[x].index \in G[p2[n]] /\ \A m \in 1..n : q2[x].index # p2[m]
  <2>1. CASE n \in 1..N
    <3>1. x \in Pending(p, base, 1, n) /\ x \in 1..base[N + 1]
      <4>1. CASE n < N
        BY <1>9, <1>15, <2>1, <4>1
      <4>2. CASE n = N
        BY <1>10, <1>15, <2>1, <4>2
      <4>3. n < N \/ n = N
        BY <1>3, <2>1
      <4>4. QED
        BY <4>1, <4>2, <4>3
    <3>2. q2[x] = q[x] /\ x \in 1..Len(q)
      BY <1>7, <3>1
    <3>3. \A m \in 1..n : m \in 1..N
      BY <1>3, <2>1
    <3>4. q[x].index \in G[p[n]] /\ \A m \in 1..n : q[x].index # p[m]
      BY <1>1, <2>1, <3>1, <3>2
    <3>5. p2[n] = p[n] /\ \A m \in 1..n : p2[m] = p[m]
      BY <1>4, <2>1, <3>3
    <3>6. QED
      BY <3>2, <3>4, <3>5
  <2>2. CASE n = N + 1
    <3>1. x \in base[N + 1] + 1..base[N + 1] + K
      BY <1>11, <1>15, <2>2
    <3>2. x - base[N + 1] \in 1..K /\ base[N + 1] + (x - base[N + 1]) = x
      BY <1>2, <1>3, <3>1
    <3>3. q2[x] = o[x - base[N + 1]]
      BY <1>7, <3>2
    <3>4. /\ q2[x].index \in G[self] /\ q2[x].index # self
          /\ \A m \in 1..N : q2[x].index # p[m]
      BY <3>2, <3>3 DEF Children, K, N
    <3>5. \A m \in 1..N + 1 : q2[x].index # p2[m]
      BY <1>4, <1>12, <3>4
    <3>6. QED
      BY <1>4, <2>2, <3>4, <3>5
  <2>3. QED
    BY <1>12, <2>1, <2>2
<1>16. Queued(G, Q, rt, p2, cc2, q2, base2, 1)
  <2>1. Len(p2) = N + 1 /\ Len(p2) + 1 = N + 2 /\ p2 # <<>>
    BY <1>3, <1>4
  <2>2. Len(q2) = base2[N + 2] + 1
    BY <1>2, <1>3, <1>7, <1>8
  <2>3. base2[1] = 0
    BY <1>1, <1>3, <1>8
  <2>4. QED
    BY <1>4, <1>5, <1>7, <1>8, <1>13, <1>14, <1>15, <2>1, <2>2, <2>3 DEF Queued, T
<1>17. ASSUME NEW n \in 1..N + 1, NEW g \in Files, g \in G[p2[n]]
       PROVE  \/ g = p2[n] \/ stat[g] = "Ok"
              \/ \E k \in 1..Len(cs) : cr2[n] = st[k] /\ g \in cs[k]
              \/ n < N + 1 /\ g = p2[n + 1]
              \/ \E x \in Pending(p2, base2, 1, n) : q2[x].index = g
  <2>1. CASE n \in 1..N
    <3>1. \/ g = p[n] \/ stat[g] = "Ok"
          \/ \E k \in 1..Len(cs) : cr[n] = st[k] /\ g \in cs[k]
          \/ n < N /\ g = p[n + 1]
          \/ \E x \in Pending(p, base, 1, n) : q[x].index = g
      BY <1>4, <1>17, <2>1 DEF EdgesSeen, N
    <3>2. n < N + 1 /\ (n < N => n + 1 \in 1..N)
      BY <1>3, <2>1
    <3>3. ASSUME NEW x \in Pending(p, base, 1, n), q[x].index = g
          PROVE  \/ g = p2[n + 1]
                 \/ \E y \in Pending(p2, base2, 1, n) : q2[y].index = g
      <4>1. CASE n < N
        <5>1. x \in Pending(p2, base2, 1, n) /\ x \in 1..base[N + 1]
          BY <1>9, <2>1, <4>1
        <5>2. QED
          BY <1>7, <3>3, <5>1
      <4>2. CASE n = N /\ x = Len(q)
        BY <1>2, <1>4, <3>3, <4>2
      <4>3. CASE n = N /\ x # Len(q)
        <5>1. x \in Pending(p2, base2, 1, n) /\ x \in 1..base[N + 1]
          BY <1>10, <2>1, <4>3
        <5>2. QED
          BY <1>7, <3>3, <5>1
      <4>4. QED
        BY <1>3, <2>1, <4>1, <4>2, <4>3
    <3>4. QED
      BY <1>4, <1>6, <2>1, <3>1, <3>2, <3>3
  <2>2. CASE n = N + 1
    <3>1. p2[n] = self /\ cr2[n] = c
      BY <1>4, <1>6a, <2>2
    <3>2. ASSUME NEW x \in 1..K, o[x].index = g
          PROVE  \E y \in Pending(p2, base2, 1, n) : q2[y].index = g
      <4>1. base[N + 1] + x \in Pending(p2, base2, 1, n)
        BY <1>2, <1>3, <1>11, <2>2
      <4>2. q2[base[N + 1] + x] = o[x]
        BY <1>7
      <4>3. QED
        BY <3>2, <4>1, <4>2
    <3>3. \/ g = self \/ stat[g] = "Ok"
          \/ \E k \in 1..Len(cs) : c = st[k] /\ g \in cs[k]
          \/ \E x \in 1..Len(o) : o[x].index = g
      BY <1>17, <3>1 DEF ChildrenSeen
    <3>4. QED
      BY <3>1, <3>2, <3>3 DEF K
  <2>3. QED
    BY <1>12, <2>1, <2>2
<1>18. EdgesSeen(G, p2, cr2, cs, st, q2, base2, 1, stat)
  <2>1. Len(p2) = N + 1
    BY <1>4
  <2>2. QED
    BY ONLY <1>17, <2>1 DEF EdgesSeen
<1>19. QED
  BY <1>16, <1>18 DEF p2, cc2, cr2, q2, K

\* A status that does not concern parents and members of cycles leaves them as they are.
LEMMA OtherStatus ==
    ASSUME NEW G \in [Files -> SUBSET Files], NEW C, NEW A, NEW p, NEW cr, NEW cs, NEW st, Shape(p, cr, cs, st),
           NEW stat, NEW stat2, OnPath(G, C, p, stat), InCycles(G, C, A, p, cs, st, stat),
           \A n \in 1..Len(p) : stat2[p[n]] = stat[p[n]],
           \A k \in 1..Len(cs), v \in Files : v \in cs[k] => stat2[v] = stat[v],
           \A g \in Files : stat[g] = "Ok" => stat2[g] = "Ok"
    PROVE  OnPath(G, C, p, stat2) /\ InCycles(G, C, A, p, cs, st, stat2)
<1>1. OnPath(G, C, p, stat2)
  BY DEF OnPath
<1>2. ASSUME NEW k \in 1..Len(cs), NEW v \in Files, v \in cs[k]
      PROVE  /\ v \in C /\ stat2[v] = "Unknown"
             /\ p[st[k]] \in Reach(G, v)
             /\ v \in A \/ \A g \in G[v] : stat2[g] = "Ok" \/ g \in cs[k]
  <2>1. /\ v \in C /\ stat[v] = "Unknown"
        /\ p[st[k]] \in Reach(G, v)
        /\ v \in A \/ \A g \in G[v] : stat[g] = "Ok" \/ g \in cs[k]
    BY <1>2 DEF InCycles
  <2>2. \A g \in G[v] : g \in Files
    OBVIOUS
  <2>3. QED
    BY <1>2, <2>1, <2>2
<1>3. QED
  BY <1>1, <1>2 DEF InCycles

\* The files that become Ok when the innermost parent has no more children
Done(p, cr, cs) ==
    IF cr[Len(p)] = Infinity THEN {p[Len(p)]}
    ELSE IF cr[Len(p)] = Len(p) THEN {p[Len(p)]} \union cs[Len(cs)]
    ELSE {}

\* Files that depend on each other and on files that are Ok, and are part of no open cycle
Settled(G, C, D, p, cs, st, stat) ==
    /\ D \subseteq C
    /\ \A f \in D : stat[f] = "Unknown" /\ \A g \in G[f] : stat[g] = "Ok" \/ g \in D
    /\ \A n \in 1..Len(p) : n < Len(p) => p[n] \notin D
    /\ \A k \in 1..Len(cs) : st[k] < Len(p) => cs[k] \cap D = {}

\* They depend on each other and on files that are Ok.
LEMMA DoneClosed ==
    ASSUME NEW G \in [Files -> SUBSET Files], NEW C \in SUBSET Files, NEW p, NEW cr, NEW cs, NEW st,
           Shape(p, cr, cs, st), p # <<>>, NEW q, NEW base, NEW stat,
           OnPath(G, C, p, stat), InCycles(G, C, ToSet(p), p, cs, st, stat),
           EdgesSeen(G, p, cr, cs, st, q, base, 0, stat), Pending(p, base, 0, Len(p)) = {}
    PROVE  Settled(G, C, Done(p, cr, cs), p, cs, st, stat)
<1> DEFINE N == Len(p)
           D == Done(p, cr, cs)
<1>1. /\ Len(p) \in Nat /\ Len(cs) \in Nat /\ Len(p) < Infinity /\ Infinity \in Nat
      /\ \A n \in 1..Len(p) : p[n] \in Files /\ cr[n] \in Nat
      /\ \A k \in 1..Len(cs) : cs[k] \in SUBSET Files /\ st[k] \in 1..Len(p) /\ cr[st[k]] = st[k]
      /\ \A j, k \in 1..Len(cs) : st[j] = st[k] => j = k
  BY ShapePositions
<1>2. /\ \A m, n \in 1..Len(p) : m < n => p[m] # p[n]
      /\ \A j, k \in 1..Len(cs) : j < k => cs[j] \cap cs[k] = {}
      /\ \A n \in 1..Len(p), k \in 1..Len(cs) : p[n] \in cs[k] <=> cr[n] = st[k]
  BY DEF Shape
<1>3. /\ N \in 1..Len(p)
      /\ cr[N] = N => Len(cs) \in 1..Len(cs) /\ st[Len(cs)] = N
      /\ \A n \in 1..Len(p) : cr[n] # Infinity => cr[n] \in 1..n
  <2>1. N \in 1..Len(p) /\ (cr[N] = N => Len(cs) \in 1..Len(cs) /\ st[Len(cs)] = N)
    BY TopOfShape
  <2>2. \A n \in 1..Len(p) : cr[n] # Infinity => cr[n] \in 1..n
    BY DEF Shape
  <2>3. QED
    BY <2>1, <2>2
<1>4. \A n \in 1..Len(p) : p[n] \in C /\ stat[p[n]] = "Unknown"
  BY DEF OnPath
<1>5. \A k \in 1..Len(cs), v \in Files : v \in cs[k] =>
        /\ v \in C /\ stat[v] = "Unknown"
        /\ (\E n \in 1..Len(p) : v = p[n]) \/ \A g \in G[v] : stat[g] = "Ok" \/ g \in cs[k]
  <2>1. \A v : v \in ToSet(p) <=> \E n \in 1..Len(p) : v = p[n]
    BY ElementsOf DEF Shape
  <2>2. QED
    BY <2>1 DEF InCycles
<1>6. \A g \in G[p[N]] :
        g = p[N] \/ stat[g] = "Ok" \/ \E k \in 1..Len(cs) : cr[N] = st[k] /\ g \in cs[k]
  <2>1. \A g \in G[p[N]] : g \in Files
    BY <1>1, <1>3
  <2>2. ~(N < Len(p))
    BY <1>1
  <2>3. QED
    BY <1>3, <2>1, <2>2 DEF EdgesSeen
<1>7. ASSUME NEW f \in D
      PROVE  f \in C /\ stat[f] = "Unknown"
  BY <1>1, <1>3, <1>4, <1>5, <1>7 DEF Done
<1>8. CASE cr[N] = Infinity
  <2>1. D = {p[N]}
    BY <1>8 DEF Done
  <2>2. \A g \in G[p[N]] : stat[g] = "Ok" \/ g \in D
    BY <1>1, <1>6, <1>8, <2>1
  <2>3. \A n \in 1..Len(p) : n < N => p[n] \notin D
    BY <1>2, <1>3, <2>1
  <2>4. \A k \in 1..Len(cs) : cs[k] \cap D = {}
    <3>1. \A k \in 1..Len(cs) : cr[N] # st[k]
      BY <1>1, <1>8
    <3>2. QED
      BY <1>2, <1>3, <2>1, <3>1
  <2>5. QED
    BY <1>7, <2>1, <2>2, <2>3, <2>4 DEF Settled
<1>9. CASE cr[N] = N
  <2>1. N # Infinity /\ Len(cs) \in 1..Len(cs) /\ st[Len(cs)] = N
    BY <1>1, <1>3, <1>9
  <2>2. D = {p[N]} \union cs[Len(cs)]
    BY <1>9, <2>1 DEF Done
  <2>3. p[N] \in cs[Len(cs)]
    BY <1>2, <1>3, <1>9, <2>1
  <2>4. \A n \in 1..Len(p) : n < N => p[n] \notin D
    <3>1. \A n \in 1..Len(p) : n < N => cr[n] # N
      BY <1>1, <1>3
    <3>2. QED
      BY <1>2, <2>1, <2>2, <2>3, <3>1
  <2>5. ASSUME NEW f \in D, NEW g \in G[f]
        PROVE  stat[g] = "Ok" \/ g \in D
    <3>1. CASE f = p[N]
      <4>1. \A k \in 1..Len(cs) : cr[N] = st[k] => k = Len(cs)
        BY <1>1, <1>9, <2>1
      <4>2. QED
        BY <1>6, <2>2, <2>5, <3>1, <4>1
    <3>2. CASE f # p[N]
      <4>1. f \in cs[Len(cs)] /\ f \in Files
        BY <1>7, <2>2, <3>2
      <4>2. ~\E n \in 1..Len(p) : f = p[n]
        <5>1. \A n \in 1..Len(p) : n = N \/ n < N
          BY <1>1
        <5>2. QED
          BY <2>4, <3>2, <5>1
      <4>3. stat[g] = "Ok" \/ g \in cs[Len(cs)]
        BY <1>5, <2>1, <2>5, <4>1, <4>2
      <4>4. QED
        BY <2>2, <4>3
    <3>3. QED
      BY <3>1, <3>2
  <2>6. ASSUME NEW k \in 1..Len(cs), st[k] < N
        PROVE  cs[k] \cap D = {}
    <3>1. k # Len(cs) /\ k < Len(cs)
      BY <1>1, <2>1, <2>6
    <3>2. QED
      BY <1>2, <2>1, <2>2, <2>3, <3>1
  <2>7. QED
    BY <1>7, <2>4, <2>5, <2>6 DEF Settled
<1>10. CASE cr[N] # Infinity /\ cr[N] # N
  <2>1. D = {}
    BY <1>10 DEF Done
  <2>2. QED
    BY <2>1 DEF Settled
<1>11. QED
  BY <1>8, <1>9, <1>10

\* The files in D become Ok.
MarkedOk(stat, D) == [f \in Files |-> IF f \in D THEN "Ok" ELSE stat[f]]

\* The same entries of the queue are children of the parents below the innermost one.
SamePending(p, base, base2) ==
    \A n \in 1..Len(p) - 1 : Pending(Front(p), base2, 0, n) = Pending(p, base, 0, n)

\* Without the innermost parent, the others and the cycles they belong to are as before.
LEMMA ClosePath ==
    ASSUME NEW G \in [Files -> SUBSET Files], NEW C \in SUBSET Files, NEW p, NEW cr, NEW cs, NEW st,
           Shape(p, cr, cs, st), p # <<>>, NEW q, NEW base, NEW base2, NEW stat, NEW stat2,
           OnPath(G, C, p, stat), InCycles(G, C, ToSet(p), p, cs, st, stat),
           EdgesSeen(G, p, cr, cs, st, q, base, 0, stat), Pending(p, base, 0, Len(p)) = {},
           SamePending(p, base, base2), stat2 = MarkedOk(stat, Done(p, cr, cs)),
           NEW cs2, NEW st2,
           IF cr[Len(p)] = Len(p)
           THEN cs2 = Front(cs) /\ st2 = [k \in 1..Len(cs) - 1 |-> st[k]]
           ELSE cs2 = cs /\ st2 = st
    PROVE  /\ OnPath(G, C, Front(p), stat2)
           /\ InCycles(G, C, ToSet(Front(p)), Front(p), cs2, st2, stat2)
           /\ EdgesSeen(G, Front(p), Front(cr), cs2, st2, q, base2, 0, stat2)
<1> DEFINE N == Len(p)
           D == Done(p, cr, cs)
           p2 == Front(p)
           cr2 == Front(cr)
<1>1. /\ Len(p) \in Nat /\ Len(cs) \in Nat /\ Len(cr) = Len(p)
      /\ Len(p) < Infinity /\ Infinity \in Nat
      /\ \A n \in 1..Len(p) : p[n] \in Files /\ cr[n] \in Nat
      /\ \A k \in 1..Len(cs) : cs[k] \in SUBSET Files /\ st[k] \in 1..Len(p) /\ cr[st[k]] = st[k]
  BY ShapePositions
<1>2. /\ p \in Seq(Files) /\ cr \in Seq(Nat) /\ cs \in Seq(SUBSET Files)
      /\ \A m, n \in 1..Len(p) : m < n => p[m] # p[n]
      /\ \A j, k \in 1..Len(cs) : j < k => st[j] < st[k]
      /\ \A n \in 1..Len(p), k \in 1..Len(cs) : p[n] \in cs[k] <=> cr[n] = st[k]
      /\ \A n \in 1..Len(p) : cr[n] # Infinity =>
            /\ cr[n] \in 1..n
            /\ \E k \in 1..Len(cs) : st[k] = cr[n]
            /\ \A j \in cr[n]..n : cr[j] = cr[n]
  BY DEF Shape
<1>3. /\ N \in 1..Len(p) /\ N > 0
      /\ cr[N] = N => Len(cs) \in 1..Len(cs) /\ st[Len(cs)] = N
      /\ cr[N] # N => \A k \in 1..Len(cs) : st[k] # N
  BY <1>1, TopOfShape
<1>4. /\ D \subseteq C
      /\ \A f \in D : stat[f] = "Unknown" /\ \A g \in G[f] : stat[g] = "Ok" \/ g \in D
      /\ \A n \in 1..Len(p) : n < Len(p) => p[n] \notin D
      /\ \A k \in 1..Len(cs) : st[k] < Len(p) => cs[k] \cap D = {}
  <2>1. Settled(G, C, Done(p, cr, cs), p, cs, st, stat)
    BY DoneClosed
  <2>2. QED
    BY <2>1 DEF Settled
<1>5. p2 \in Seq(Files) /\ Len(p2) = N - 1 /\ \A n \in 1..N - 1 : p2[n] = p[n]
  BY <1>2, FrontFacts
<1>6. Len(cr2) = N - 1 /\ \A n \in 1..N - 1 : cr2[n] = cr[n]
  <2>1. cr # <<>> /\ cr \in Seq(Nat)
    BY <1>1, <1>2, <1>3
  <2>2. /\ Front(cr) \in Seq(Nat) /\ Len(Front(cr)) = Len(cr) - 1
        /\ \A n \in 1..Len(cr) - 1 : Front(cr)[n] = cr[n]
    BY ONLY <2>1, FrontFacts
  <2>3. QED
    BY <1>1, <2>2
<1>7. Shape(p2, cr2, cs2, st2)
  BY PopShape
<1>8. /\ \A k \in 1..Len(cs2) : cs2[k] = cs[k] /\ st2[k] = st[k] /\ k \in 1..Len(cs) /\ st[k] < N
      /\ \A k \in 1..Len(cs) : st[k] < N => k \in 1..Len(cs2)
  <2>1. CASE cr[N] = N
    <3>1. cs # <<>> /\ Len(cs) \in 1..Len(cs) /\ st[Len(cs)] = N /\ cs \in Seq(SUBSET Files)
      BY <1>2, <1>3, <2>1
    <3>2. Len(Front(cs)) = Len(cs) - 1 /\ \A k \in 1..Len(cs) - 1 : Front(cs)[k] = cs[k]
      BY ONLY <3>1, FrontFacts
    <3>3. cs2 = Front(cs) /\ st2 = [k \in 1..Len(cs) - 1 |-> st[k]]
      BY <2>1
    <3>4. \A k \in 1..Len(cs) - 1 : k \in 1..Len(cs) /\ k < Len(cs)
      BY <1>1
    <3>5. \A k \in 1..Len(cs) - 1 : st[k] < N
      <4>1. \A k \in 1..Len(cs) - 1 : st[k] < st[Len(cs)]
        BY <1>2, <3>1, <3>4
      <4>2. QED
        BY <3>1, <4>1
    <3>6. \A k \in 1..Len(cs) : st[k] < N => k \in 1..Len(cs) - 1
      <4>1. \A k \in 1..Len(cs) : k = Len(cs) \/ k \in 1..Len(cs) - 1
        BY <1>1
      <4>2. ~(N < N)
        BY <1>1
      <4>3. QED
        BY <3>1, <4>1, <4>2
    <3>7. QED
      BY <3>2, <3>3, <3>4, <3>5, <3>6
  <2>2. CASE cr[N] # N
    <3>1. cs2 = cs /\ st2 = st
      BY <2>2
    <3>2. \A k \in 1..Len(cs) : st[k] < N
      BY <1>1, <1>3, <2>2
    <3>3. QED
      BY <3>1, <3>2
  <2>3. QED
    BY <2>1, <2>2
<1> HIDE DEF p2, cr2, N, D
<1>9. /\ \A f \in Files : stat2[f] = IF f \in D THEN "Ok" ELSE stat[f]
      /\ \A f \in Files : stat[f] = "Ok" => stat2[f] = "Ok"
  BY DEF D, MarkedOk
<1>10. \A n \in 1..N - 1 : n \in 1..Len(p) /\ n < N /\ p2[n] = p[n] /\ cr2[n] = cr[n] /\ p[n] \notin D
  BY <1>1, <1>4, <1>5, <1>6 DEF N
<1>11. OnPath(G, C, p2, stat2)
  <2>1. \A n \in 1..N - 1 : p2[n] \in C /\ stat2[p2[n]] = "Unknown"
    BY <1>1, <1>9, <1>10 DEF OnPath
  <2>2. \A m, n \in 1..N - 1 : m < n => p2[n] \in Reach(G, p2[m])
    BY <1>10 DEF OnPath
  <2>3. QED
    BY <1>5, <2>1, <2>2 DEF OnPath
<1>12. ASSUME NEW k \in 1..Len(cs2), NEW v \in Files, v \in cs2[k]
       PROVE  /\ v \in C /\ stat2[v] = "Unknown"
              /\ p2[st2[k]] \in Reach(G, v)
              /\ (\E n \in 1..N - 1 : v = p2[n]) \/ \A g \in G[v] : stat2[g] = "Ok" \/ g \in cs2[k]
  <2>1. cs2[k] = cs[k] /\ st2[k] = st[k] /\ k \in 1..Len(cs) /\ st[k] < N /\ v \in cs[k]
    BY <1>8, <1>12
  <2>2. /\ v \in C /\ stat[v] = "Unknown"
        /\ p[st[k]] \in Reach(G, v)
        /\ (\E n \in 1..Len(p) : v = p[n]) \/ \A g \in G[v] : stat[g] = "Ok" \/ g \in cs[k]
    <3>1. \A x : x \in ToSet(p) <=> \E n \in 1..Len(p) : x = p[n]
      BY <1>2, ElementsOf
    <3>2. QED
      BY <2>1, <3>1 DEF InCycles
  <2>3. v \notin D
    BY <1>4, <2>1 DEF N
  <2>4. st[k] \in 1..N - 1
    BY <1>1, <2>1 DEF N
  <2>5. \A g \in G[v] : g \in Files
    OBVIOUS
  <2>6. CASE v = p[N]
    <3>1. cr[N] = st[k]
      BY <1>2, <1>3, <2>1, <2>6
    <3>2. cr[N] # N /\ cr[N] # Infinity
      BY <1>1, <2>1, <2>4, <3>1 DEF N
    <3>3. ASSUME NEW g \in G[v]
          PROVE  stat2[g] = "Ok" \/ g \in cs[k]
      <4>1. ~(N < Len(p)) /\ N = Len(p)
        BY <1>1 DEF N
      <4>2. \/ g = p[N] \/ stat[g] = "Ok"
            \/ \E j \in 1..Len(cs) : cr[N] = st[j] /\ g \in cs[j]
        BY <1>3, <2>5, <2>6, <3>3, <4>1 DEF EdgesSeen
      <4>3. ASSUME NEW j \in 1..Len(cs), cr[N] = st[j], g \in cs[j]
            PROVE  g \in cs[k]
        <5>1. \A l \in 1..Len(cs) : st[l] = st[k] => l = k
          BY <2>1, ShapePositions
        <5>2. QED
          BY <3>1, <4>3, <5>1
      <4>4. QED
        BY <1>9, <2>1, <2>5, <2>6, <4>2, <4>3
    <3>4. QED
      BY <1>9, <1>10, <2>1, <2>2, <2>3, <2>4, <3>3
  <2>7. CASE v # p[N]
    <3>1. (\E n \in 1..N - 1 : v = p2[n]) \/ \A g \in G[v] : stat[g] = "Ok" \/ g \in cs[k]
      <4>1. \A n \in 1..Len(p) : n = N \/ n \in 1..N - 1
        BY <1>1 DEF N
      <4>2. QED
        BY <1>10, <2>2, <2>7, <4>1
    <3>2. QED
      BY <1>9, <1>10, <2>1, <2>2, <2>3, <2>4, <2>5, <3>1
  <2>8. QED
    BY <2>6, <2>7
<1>13. InCycles(G, C, ToSet(p2), p2, cs2, st2, stat2)
  <2>1. \A x : x \in ToSet(p2) <=> \E n \in 1..N - 1 : x = p2[n]
    BY <1>5, ElementsOf
  <2>2. QED
    BY ONLY <1>12, <2>1 DEF InCycles
<1>14. ASSUME NEW n \in 1..N - 1, NEW g \in Files, g \in G[p2[n]]
       PROVE  \/ g = p2[n] \/ stat2[g] = "Ok"
              \/ \E k \in 1..Len(cs2) : cr2[n] = st2[k] /\ g \in cs2[k]
              \/ n < N - 1 /\ g = p2[n + 1]
              \/ \E x \in Pending(p2, base2, 0, n) : q[x].index = g
  <2>1. n \in 1..Len(p) /\ n < N /\ p2[n] = p[n] /\ cr2[n] = cr[n]
    BY <1>10
  <2>2. \/ g = p[n] \/ stat[g] = "Ok"
        \/ \E k \in 1..Len(cs) : cr[n] = st[k] /\ g \in cs[k]
        \/ g = p[n + 1]
        \/ \E x \in Pending(p, base, 0, n) : q[x].index = g
    BY <1>14, <2>1 DEF EdgesSeen
  <2>3. ASSUME NEW k \in 1..Len(cs), cr[n] = st[k], g \in cs[k]
        PROVE  cr2[n] = st2[k] /\ g \in cs2[k] /\ k \in 1..Len(cs2)
    <3>1. cr[n] # Infinity
      BY <1>1, <2>3
    <3>2. st[k] < N
      BY <1>1, <1>2, <2>1, <2>3, <3>1 DEF N
    <3>3. QED
      BY <1>8, <2>1, <2>3, <3>2
  <2>4. CASE n < N - 1
    <3>1. n + 1 \in 1..N - 1
      BY <1>1, <2>4 DEF N
    <3>2. p2[n + 1] = p[n + 1]
      BY <1>10, <3>1
    <3>3. Pending(p2, base2, 0, n) = Pending(p, base, 0, n)
      BY DEF N, p2, SamePending
    <3>4. QED
      BY <1>9, <2>1, <2>2, <2>3, <2>4, <3>2, <3>3
  <2>5. ASSUME n = N - 1, g = p[N]
        PROVE  stat2[g] = "Ok" \/ \E k \in 1..Len(cs2) : cr2[n] = st2[k] /\ g \in cs2[k]
    <3>1. CASE cr[N] = Infinity \/ cr[N] = N
      <4>1. g \in D
        BY <2>5, <3>1 DEF D, Done, N
      <4>2. QED
        BY <1>9, <4>1
    <3>2. CASE cr[N] # Infinity /\ cr[N] # N
      <4>1. cr[N] \in 1..N /\ \A j \in cr[N]..N : cr[j] = cr[N]
        BY <1>2, <1>3, <3>2
      <4>2. n \in cr[N]..N
        BY <1>1, <2>5, <3>2, <4>1 DEF N
      <4>3. cr[n] = cr[N]
        BY <4>1, <4>2
      <4>4. PICK k \in 1..Len(cs) : st[k] = cr[N]
        BY <1>2, <1>3, <3>2
      <4>5. g \in cs[k]
        BY <1>2, <1>3, <2>5, <4>4
      <4>6. QED
        BY <2>3, <4>3, <4>4, <4>5
    <3>3. QED
      BY <3>1, <3>2
  <2>6. CASE n = N - 1
    <3>1. n + 1 = N
      BY <1>1, <2>6 DEF N
    <3>2. Pending(p2, base2, 0, n) = Pending(p, base, 0, n)
      BY DEF N, p2, SamePending
    <3>3. QED
      BY <1>9, <2>1, <2>2, <2>3, <2>5, <2>6, <3>1, <3>2
  <2>7. QED
    BY <1>1, <2>4, <2>6 DEF N
<1>15. EdgesSeen(G, p2, cr2, cs2, st2, q, base2, 0, stat2)
  BY ONLY <1>5, <1>14 DEF EdgesSeen
<1>16. QED
  BY <1>11, <1>13, <1>15 DEF p2, cr2, N
-----------------------------------------------------------------------------
(* The stacks while a walk is under way: extra is 1 while the last entry   *)
(* of the queue is to be processed and 0 once it has been.                 *)

Walking(G, C, Q, rt, p, cr, cs, cc, q, extra, stat) ==
    \E st, base :
        /\ Shape(p, cr, cs, st)
        /\ p # <<>> => p[1] = rt
        /\ OnPath(G, C, p, stat)
        /\ InCycles(G, C, ToSet(p), p, cs, st, stat)
        /\ Queued(G, Q, rt, p, cc, q, base, extra)
        /\ EdgesSeen(G, p, cr, cs, st, q, base, extra, stat)
        /\ extra = 0 /\ p = <<>> => stat[rt] = "Ok"

\* What is processed.
LEMMA WalkingTop ==
    ASSUME NEW G, NEW C, NEW Q, NEW rt, NEW p, NEW cr, NEW cs, NEW cc, NEW q, NEW stat,
           Walking(G, C, Q, rt, p, cr, cs, cc, q, 1, stat)
    PROVE  /\ q # <<>> /\ q \in Seq(Q) /\ Last(q) \in Q
           /\ p \in Seq(Files)
           /\ p = <<>> => Last(q).index = rt
           /\ p # <<>> => /\ Last(q).index \in G[p[Len(p)]]
                          /\ \A m \in 1..Len(p) : Last(q).index # p[m]
<1>1. PICK st, base : Shape(p, cr, cs, st) /\ Queued(G, Q, rt, p, cc, q, base, 1)
  BY DEF Walking
<1>2. p \in Seq(Files)
  BY <1>1 DEF Shape
<1>3. QED
  BY <1>1, <1>2, TopOfQueue

\* A file that is Ok is left behind.
LEMMA WalkingKnown ==
    ASSUME NEW G, NEW C, NEW Q, NEW rt, NEW p, NEW cr, NEW cs, NEW cc, NEW q, NEW stat,
           Walking(G, C, Q, rt, p, cr, cs, cc, q, 1, stat), stat[Last(q).index] = "Ok"
    PROVE  Walking(G, C, Q, rt, p, cr, cs, cc, Front(q), 0, stat)
<1>1. PICK st, base :
        /\ Shape(p, cr, cs, st)
        /\ p # <<>> => p[1] = rt
        /\ OnPath(G, C, p, stat)
        /\ InCycles(G, C, ToSet(p), p, cs, st, stat)
        /\ Queued(G, Q, rt, p, cc, q, base, 1)
        /\ EdgesSeen(G, p, cr, cs, st, q, base, 1, stat)
  BY DEF Walking
<1>2. p \in Seq(Files)
  BY <1>1 DEF Shape
<1>3. Queued(G, Q, rt, p, cc, Front(q), base, 0) /\ EdgesSeen(G, p, cr, cs, st, Front(q), base, 0, stat)
  BY <1>1, <1>2, PopQueue
<1>4. p = <<>> => stat[rt] = "Ok"
  BY WalkingTop
<1>5. QED
  BY <1>1, <1>3, <1>4 DEF Walking

\* A file without dependencies is Ok.
LEMMA WalkingLeaf ==
    ASSUME NEW G \in [Files -> SUBSET Files], NEW C, NEW Q, NEW rt, NEW p, NEW cr, NEW cs, NEW cc, NEW q,
           NEW stat \in [Files -> DependencyState],
           Walking(G, C, Q, rt, p, cr, cs, cc, q, 1, stat), NEW self \in Files, self = Last(q).index,
           \A k \in 1..Len(cs) : self \notin cs[k]
    PROVE  Walking(G, C, Q, rt, p, cr, cs, cc, Front(q), 0, [stat EXCEPT ![self] = "Ok"])
<1> DEFINE stat2 == [stat EXCEPT ![self] = "Ok"]
<1>1. PICK st, base :
        /\ Shape(p, cr, cs, st)
        /\ p # <<>> => p[1] = rt
        /\ OnPath(G, C, p, stat)
        /\ InCycles(G, C, ToSet(p), p, cs, st, stat)
        /\ Queued(G, Q, rt, p, cc, q, base, 1)
        /\ EdgesSeen(G, p, cr, cs, st, q, base, 1, stat)
  BY DEF Walking
<1>2. p \in Seq(Files)
  BY <1>1 DEF Shape
<1>3. /\ \A f \in Files : f # self => stat2[f] = stat[f]
      /\ \A g \in Files : stat[g] = "Ok" => stat2[g] = "Ok"
      /\ stat2[self] = "Ok" /\ stat2[Last(q).index] = "Ok"
  OBVIOUS
<1> HIDE DEF stat2
<1>4. Queued(G, Q, rt, p, cc, Front(q), base, 0) /\ EdgesSeen(G, p, cr, cs, st, Front(q), base, 0, stat2)
  <2>1. Queued(G, Q, rt, p, cc, q, base, 1) /\ EdgesSeen(G, p, cr, cs, st, q, base, 1, stat)
    BY <1>1
  <2>2. \A g \in Files : stat[g] = "Ok" => stat2[g] = "Ok"
    BY <1>3
  <2>3. stat2[Last(q).index] = "Ok"
    BY <1>3
  <2>4. QED
    BY ONLY <1>2, <2>1, <2>2, <2>3, PopQueue
<1>5. p = <<>> => stat2[rt] = "Ok"
  BY <1>3, WalkingTop
<1>6. \A n \in 1..Len(p) : p[n] \in Files /\ p[n] # self
  BY <1>2, WalkingTop
<1>7. \A n \in 1..Len(p) : stat2[p[n]] = stat[p[n]]
  BY <1>3, <1>6
<1>8. \A k \in 1..Len(cs), v \in Files : v \in cs[k] => stat2[v] = stat[v]
  BY <1>3
<1>9. OnPath(G, C, p, stat2) /\ InCycles(G, C, ToSet(p), p, cs, st, stat2)
  <2>1. G \in [Files -> SUBSET Files]
    OBVIOUS
  <2>2. QED
    BY ONLY <1>1, <1>3, <1>7, <1>8, <2>1, OtherStatus
<1>10. QED
  BY <1>1, <1>4, <1>5, <1>9 DEF Walking, stat2

\* The next child of the innermost parent is processed.
LEMMA WalkingNext ==
    ASSUME NEW G, NEW C, NEW Q, NEW rt, NEW p, p # <<>>, NEW cr, NEW cs, NEW cc, NEW q, NEW stat,
           Walking(G, C, Q, rt, p, cr, cs, cc, q, 0, stat), cc[Len(p)] > 1,
           NEW cc2, cc2 = [cc EXCEPT ![Len(p)] = @ - 1]
    PROVE  Walking(G, C, Q, rt, p, cr, cs, cc2, q, 1, stat)
<1>1. PICK st, base :
        /\ Shape(p, cr, cs, st)
        /\ p # <<>> => p[1] = rt
        /\ OnPath(G, C, p, stat)
        /\ InCycles(G, C, ToSet(p), p, cs, st, stat)
        /\ Queued(G, Q, rt, p, cc, q, base, 0)
        /\ EdgesSeen(G, p, cr, cs, st, q, base, 0, stat)
  BY DEF Walking
<1>2. p \in Seq(Files)
  BY <1>1 DEF Shape
<1>3. PICK base2 : Queued(G, Q, rt, p, cc2, q, base2, 1) /\ EdgesSeen(G, p, cr, cs, st, q, base2, 1, stat)
  <2>1. Queued(G, Q, rt, p, cc, q, base, 0) /\ EdgesSeen(G, p, cr, cs, st, q, base, 0, stat)
    BY <1>1
  <2>2. p # <<>> /\ cc[Len(p)] > 1 /\ cc2 = [cc EXCEPT ![Len(p)] = @ - 1]
    OBVIOUS
  <2>3. QED
    BY ONLY <1>2, <2>1, <2>2, NextQueue
<1>4. QED
  BY <1>1, <1>3 DEF Walking

\* The innermost parent is done.
LEMMA WalkingClose ==
    ASSUME NEW G \in [Files -> SUBSET Files], NEW C \in SUBSET Files, NEW Q, NEW rt \in Files, NEW p, p # <<>>,
           NEW cr, NEW cs, NEW cc, NEW q, NEW stat \in [Files -> DependencyState],
           Walking(G, C, Q, rt, p, cr, cs, cc, q, 0, stat), cc[Len(p)] = 1,
           NEW cs2, cs2 = IF cr[Len(p)] = Len(p) THEN Front(cs) ELSE cs,
           NEW stat2, stat2 = MarkedOk(stat, Done(p, cr, cs))
    PROVE  /\ Walking(G, C, Q, rt, Front(p), Front(cr), cs2, Front(cc), q, 0, stat2)
           /\ Done(p, cr, cs) \subseteq C
           /\ \A f \in Done(p, cr, cs) :
                stat[f] = "Unknown" /\ \A g \in G[f] : stat[g] = "Ok" \/ g \in Done(p, cr, cs)
<1>1. PICK st, base :
        /\ Shape(p, cr, cs, st)
        /\ p # <<>> => p[1] = rt
        /\ OnPath(G, C, p, stat)
        /\ InCycles(G, C, ToSet(p), p, cs, st, stat)
        /\ Queued(G, Q, rt, p, cc, q, base, 0)
        /\ EdgesSeen(G, p, cr, cs, st, q, base, 0, stat)
  BY DEF Walking
<1>2. p \in Seq(Files)
  BY <1>1 DEF Shape
<1> DEFINE st2 == IF cr[Len(p)] = Len(p) THEN [k \in 1..Len(cs) - 1 |-> st[k]] ELSE st
<1>3. IF cr[Len(p)] = Len(p)
      THEN cs2 = Front(cs) /\ st2 = [k \in 1..Len(cs) - 1 |-> st[k]]
      ELSE cs2 = cs /\ st2 = st
  OBVIOUS
<1> HIDE DEF st2
<1>4. /\ \E base2 :
           /\ Queued(G, Q, rt, Front(p), Front(cc), q, base2, 0)
           /\ \A n \in 1..Len(p) - 1 : Pending(Front(p), base2, 0, n) = Pending(p, base, 0, n)
      /\ Pending(p, base, 0, Len(p)) = {}
  <2>1. Queued(G, Q, rt, p, cc, q, base, 0) /\ p # <<>> /\ cc[Len(p)] = 1
    BY <1>1
  <2>2. QED
    BY ONLY <1>2, <2>1, CloseQueue
<1>5. PICK base2 :
        /\ Queued(G, Q, rt, Front(p), Front(cc), q, base2, 0)
        /\ \A n \in 1..Len(p) - 1 : Pending(Front(p), base2, 0, n) = Pending(p, base, 0, n)
  BY <1>4
<1>6. Shape(Front(p), Front(cr), cs2, st2)
  <2>1. Shape(p, cr, cs, st) /\ p # <<>>
    BY <1>1
  <2>2. QED
    BY ONLY <1>3, <2>1, PopShape
<1>7. /\ OnPath(G, C, Front(p), stat2)
      /\ InCycles(G, C, ToSet(Front(p)), Front(p), cs2, st2, stat2)
      /\ EdgesSeen(G, Front(p), Front(cr), cs2, st2, q, base2, 0, stat2)
  <2>1. /\ G \in [Files -> SUBSET Files] /\ C \in SUBSET Files
        /\ Shape(p, cr, cs, st) /\ p # <<>>
        /\ OnPath(G, C, p, stat)
        /\ InCycles(G, C, ToSet(p), p, cs, st, stat)
        /\ EdgesSeen(G, p, cr, cs, st, q, base, 0, stat)
    BY <1>1
  <2>2. stat2 = MarkedOk(stat, Done(p, cr, cs))
    OBVIOUS
  <2>3. SamePending(p, base, base2) /\ Pending(p, base, 0, Len(p)) = {}
    BY <1>4, <1>5 DEF SamePending
  <2>4. QED
    BY ONLY <1>3, <2>1, <2>2, <2>3, ClosePath
<1>8. Settled(G, C, Done(p, cr, cs), p, cs, st, stat)
  <2>1. /\ G \in [Files -> SUBSET Files] /\ C \in SUBSET Files
        /\ Shape(p, cr, cs, st) /\ p # <<>>
        /\ OnPath(G, C, p, stat)
        /\ InCycles(G, C, ToSet(p), p, cs, st, stat)
        /\ EdgesSeen(G, p, cr, cs, st, q, base, 0, stat)
    BY <1>1
  <2>2. QED
    BY ONLY <1>4, <2>1, DoneClosed
<1>9. Len(Front(p)) = Len(p) - 1 /\ Front(p) \in Seq(Files) /\ \A n \in 1..Len(p) - 1 : Front(p)[n] = p[n]
  BY <1>2, FrontFacts
<1>10. Front(p) # <<>> => Front(p)[1] = rt
  BY <1>1, <1>9
<1>11. Front(p) = <<>> => stat2[rt] = "Ok"
  <2> SUFFICES ASSUME Front(p) = <<>>
               PROVE  stat2[rt] = "Ok"
    OBVIOUS
  <2>1. Len(p) = 1
    BY <1>2, <1>9
  <2>2. cr[1] = 1 \/ cr[1] = Infinity
    <3>1. cr[1] # Infinity => cr[1] \in 1..1
      BY <1>1, <2>1, TopOfShape
    <3>2. QED
      BY <3>1
  <2>3. p[1] \in Done(p, cr, cs) /\ p[1] = rt
    BY <1>1, <2>1, <2>2 DEF Done
  <2>4. QED
    BY <2>3 DEF MarkedOk
<1>12. Walking(G, C, Q, rt, Front(p), Front(cr), cs2, Front(cc), q, 0, stat2)
  BY <1>5, <1>6, <1>7, <1>10, <1>11 DEF Walking
<1>13. QED
  BY <1>8, <1>12 DEF Settled

\* A dependency of the innermost parent becomes a parent.
LEMMA PushPath ==
    ASSUME NEW G \in [Files -> SUBSET Files], NEW C \in SUBSET Files, NEW p \in Seq(Files), NEW stat, NEW self \in C,
           OnPath(G, C, p, stat), stat[self] = "Unknown",
           p # <<>> => self \in G[p[Len(p)]]
    PROVE  OnPath(G, C, Append(p, self), stat)
<1> DEFINE N == Len(p)
           p2 == Append(p, self)
<1>1. Len(p2) = N + 1 /\ N \in Nat /\ p2[N + 1] = self /\ \A n \in 1..N : p2[n] = p[n]
  BY AppendFacts
<1> HIDE DEF p2
<1>2. \A n \in 1..N + 1 : n = N + 1 \/ n \in 1..N
  BY <1>1
<1>3. /\ \A n \in 1..N : p[n] \in C /\ stat[p[n]] = "Unknown"
      /\ \A m, n \in 1..N : m < n => p[n] \in Reach(G, p[m])
  BY DEF OnPath
<1>4. \A n \in 1..N + 1 : p2[n] \in C /\ stat[p2[n]] = "Unknown"
  BY <1>1, <1>2, <1>3
<1>5. ASSUME NEW m \in 1..N
      PROVE  self \in Reach(G, p[m])
  <2>1. N \in 1..N /\ p # <<>>
    BY <1>1
  <2>2. p[N] \in Reach(G, p[m])
    <3>1. CASE m = N
      <4>1. p[N] \in Files
        BY <2>1
      <4>2. QED
        BY <3>1, <4>1, ReachRefl
    <3>2. CASE m # N
      BY <1>1, <1>3, <2>1, <3>2
    <3>3. QED
      BY <3>1, <3>2
  <2>3. Closed(G, Reach(G, p[m]))
    BY ReachClosed
  <2>4. QED
    BY <2>1, <2>2, <2>3 DEF Closed
<1>6. ASSUME NEW m \in 1..N + 1, NEW n \in 1..N + 1, m < n
      PROVE  p2[n] \in Reach(G, p2[m])
  <2>1. m \in 1..N
    BY <1>1, <1>6
  <2>2. QED
    BY <1>1, <1>2, <1>3, <1>5, <1>6, <2>1
<1>7. QED
  BY <1>1, <1>4, <1>6 DEF OnPath, p2

\* The first parents of cycles stay where they are.
LEMMA PushMembers ==
    ASSUME NEW G, NEW C, NEW A, NEW A2, A \subseteq A2, NEW p, NEW cr, NEW cs, NEW st, NEW stat, NEW self \in Files,
           Shape(p, cr, cs, st), InCycles(G, C, A, p, cs, st, stat)
    PROVE  InCycles(G, C, A2, Append(p, self), cs, st, stat)
<1>1. p \in Seq(Files) /\ \A k \in 1..Len(cs) : st[k] \in 1..Len(p)
  BY ShapePositions DEF Shape
<1>2. \A n \in 1..Len(p) : Append(p, self)[n] = p[n]
  BY <1>1, AppendFacts
<1>3. \A k \in 1..Len(cs), v \in Files : v \in cs[k] =>
        /\ v \in C /\ stat[v] = "Unknown"
        /\ p[st[k]] \in Reach(G, v)
        /\ v \in A \/ \A g \in G[v] : stat[g] = "Ok" \/ g \in cs[k]
  BY DEF InCycles
<1>4. \A k \in 1..Len(cs) : Append(p, self)[st[k]] = p[st[k]]
  BY <1>1, <1>2
<1>5. \A k \in 1..Len(cs), v \in Files : v \in cs[k] =>
        /\ v \in C /\ stat[v] = "Unknown"
        /\ Append(p, self)[st[k]] \in Reach(G, v)
        /\ v \in A2 \/ \A g \in G[v] : stat[g] = "Ok" \/ g \in cs[k]
  BY <1>3, <1>4
<1>6. QED
  BY ONLY <1>5 DEF InCycles

\* A file with dependencies that are no parents becomes a parent.
LEMMA WalkingPush ==
    ASSUME NEW G \in [Files -> SUBSET Files], NEW C \in SUBSET Files, NEW Q, NEW rt, NEW p, NEW cr, NEW cs, NEW cc, NEW q,
           NEW stat, Walking(G, C, Q, rt, p, cr, cs, cc, q, 1, stat),
           NEW self \in C, self = Last(q).index, stat[self] = "Unknown",
           \A k \in 1..Len(cs) : self \notin cs[k],
           NEW o \in Seq(Q), Len(o) \in 1..Cardinality(Files) * Cardinality(Specs), Children(G, p, self, o),
           \A g \in Files : g \in G[self] => g = self \/ \E x \in 1..Len(o) : o[x].index = g
    PROVE  Walking(G, C, Q, rt, Append(p, self), Append(cr, Infinity), cs, Append(cc, Len(o)), Front(q) \o o, 1, stat)
<1>1. PICK st, base :
        /\ Shape(p, cr, cs, st)
        /\ p # <<>> => p[1] = rt
        /\ OnPath(G, C, p, stat)
        /\ InCycles(G, C, ToSet(p), p, cs, st, stat)
        /\ Queued(G, Q, rt, p, cc, q, base, 1)
        /\ EdgesSeen(G, p, cr, cs, st, q, base, 1, stat)
  BY DEF Walking
<1>2. /\ p \in Seq(Files) /\ cr \in Seq(Nat) /\ Len(cr) = Len(p) /\ self \in Files /\ Infinity \in Nat
  BY <1>1, InfinityFar DEF Shape
<1>3. /\ p = <<>> => Last(q).index = rt
      /\ p # <<>> => /\ Last(q).index \in G[p[Len(p)]]
                     /\ \A m \in 1..Len(p) : Last(q).index # p[m]
  BY WalkingTop
<1>4. \A m \in 1..Len(p) : p[m] # self
  BY <1>2, <1>3
<1>5. Shape(Append(p, self), Append(cr, Infinity), cs, st)
  <2>1. \A k \in 1..Len(cs) : self \notin cs[k]
    OBVIOUS
  <2>2. QED
    BY ONLY <1>1, <1>2, <1>4, <2>1, PushShape
<1>6. Append(p, self) # <<>> /\ Append(p, self)[1] = rt
  <2>1. Len(p) \in Nat /\ (p # <<>> => 1 \in 1..Len(p))
    BY <1>2
  <2>2. Len(Append(p, self)) = Len(p) + 1 /\ (\A n \in 1..Len(p) : Append(p, self)[n] = p[n])
        /\ Append(p, self)[Len(p) + 1] = self
    BY <1>2, AppendFacts
  <2>3. Append(p, self) # <<>>
    BY <2>1, <2>2
  <2>4. CASE p = <<>>
    BY <1>2, <1>3, <2>2, <2>4
  <2>5. CASE p # <<>>
    BY <1>1, <2>1, <2>2, <2>5
  <2>6. QED
    BY <2>3, <2>4, <2>5
<1>7. OnPath(G, C, Append(p, self), stat)
  BY <1>1, <1>2, <1>3, PushPath
<1>8. InCycles(G, C, ToSet(Append(p, self)), Append(p, self), cs, st, stat)
  <2>1. ToSet(p) \subseteq ToSet(Append(p, self))
    <3>1. Append(p, self) \in Seq(Files) /\ Len(Append(p, self)) = Len(p) + 1 /\ Len(p) \in Nat
          /\ \A n \in 1..Len(p) : Append(p, self)[n] = p[n] /\ n \in 1..Len(p) + 1
      BY <1>2, AppendFacts
    <3> DEFINE p2 == Append(p, self)
    <3>2. \A v : v \in ToSet(p) <=> \E n \in 1..Len(p) : v = p[n]
      BY <1>2, ElementsOf
    <3>3. \A v : v \in ToSet(p2) <=> \E n \in 1..Len(p2) : v = p2[n]
      BY <3>1, ElementsOf
    <3> HIDE DEF p2
    <3>4. \A v : v \in ToSet(p) => v \in ToSet(p2)
      BY <3>1, <3>2, <3>3 DEF p2
    <3>5. QED
      BY <3>4 DEF p2
  <2>2. QED
    BY <1>1, <1>2, <2>1, PushMembers
<1>9. PICK base2 :
        /\ Queued(G, Q, rt, Append(p, self), Append(cc, Len(o)), Front(q) \o o, base2, 1)
        /\ EdgesSeen(G, Append(p, self), Append(cr, Infinity), cs, st, Front(q) \o o, base2, 1, stat)
  <2>1. ChildrenSeen(G, cs, st, stat, self, Infinity, o)
    BY DEF ChildrenSeen
  <2>2. Children(G, p, self, o)
    OBVIOUS
  <2>3. self = Last(q).index /\ o \in Seq(Q) /\ Len(o) \in 1..Cardinality(Files) * Cardinality(Specs)
    OBVIOUS
  <2>4. Queued(G, Q, rt, p, cc, q, base, 1) /\ EdgesSeen(G, p, cr, cs, st, q, base, 1, stat)
    BY <1>1
  <2>5. QED
    BY ONLY <1>2, <2>1, <2>2, <2>3, <2>4, PushQueue
<1>10. QED
  BY <1>5, <1>6, <1>7, <1>8, <1>9 DEF Walking

\* What is known while self is processed
Under(G, C, Q, rt, p, cr, cs, cc, q, stat, st, base) ==
    /\ Shape(p, cr, cs, st)
    /\ p # <<>> => p[1] = rt
    /\ OnPath(G, C, p, stat)
    /\ InCycles(G, C, ToSet(p), p, cs, st, stat)
    /\ Queued(G, Q, rt, p, cc, q, base, 1)
    /\ EdgesSeen(G, p, cr, cs, st, q, base, 1, stat)

\* self depends on parent e, the first kept cycles begin before the one that is closed.
Closes(G, C, p, cr, cs, st, stat, e, kept, self) ==
    /\ e \in 1..Len(p) /\ kept \in 0..Len(cs)
    /\ \A k \in 1..Len(cs) : st[k] < FirstOf(cr, e) <=> k <= kept
    /\ self \in C /\ stat[self] = "Unknown" /\ p[e] \in Reach(G, self)
    /\ \A k \in 1..kept : self \notin cs[k]

\* self is among the files in A, or depends only on members of the cycle and files that are Ok.
Joins(G, A, p, cs, stat, kept, F, self) ==
    /\ ToSet(p) \subseteq A
    /\ self \in A \/ \A g \in G[self] : stat[g] = "Ok" \/ g \in Merged(p, cs, kept, F, self)

\* The stacks after a cycle has been closed.
LEMMA MergedStacks ==
    ASSUME NEW G \in [Files -> SUBSET Files], NEW C \in SUBSET Files, NEW Q, NEW rt, NEW p, NEW cr, NEW cs, NEW cc, NEW q,
           NEW stat, NEW st, NEW base, Under(G, C, Q, rt, p, cr, cs, cc, q, stat, st, base),
           NEW e, NEW kept, NEW self, self = Last(q).index, Closes(G, C, p, cr, cs, st, stat, e, kept, self),
           NEW F, F = FirstOf(cr, e), NEW A2, Joins(G, A2, p, cs, stat, kept, F, self)
    PROVE  /\ Shape(p, MergedRuns(cr, F), MergedCycles(p, cs, kept, F, self), MergedStarts(st, kept, F))
           /\ InCycles(G, C, A2, p, MergedCycles(p, cs, kept, F, self), MergedStarts(st, kept, F), stat)
           /\ EdgesSeen(G, p, MergedRuns(cr, F), MergedCycles(p, cs, kept, F, self), MergedStarts(st, kept, F),
                        q, base, 1, stat)
           /\ F \in 1..e /\ F \in 1..Len(p) /\ p # <<>>
           /\ \A n \in 1..Len(p) : p[n] # self
<1>1. /\ Shape(p, cr, cs, st)
      /\ OnPath(G, C, p, stat)
      /\ InCycles(G, C, ToSet(p), p, cs, st, stat)
      /\ Queued(G, Q, rt, p, cc, q, base, 1)
      /\ EdgesSeen(G, p, cr, cs, st, q, base, 1, stat)
  BY DEF Under
<1>2. /\ e \in 1..Len(p) /\ kept \in 0..Len(cs)
      /\ \A k \in 1..Len(cs) : st[k] < F <=> k <= kept
      /\ self \in C /\ stat[self] = "Unknown" /\ p[e] \in Reach(G, self)
      /\ \A k \in 1..kept : self \notin cs[k]
  BY DEF Closes
<1>3. p \in Seq(Files) /\ self \in Files /\ Len(p) \in Nat
  BY <1>1, <1>2 DEF Shape
<1>4. p # <<>>
  BY <1>2, <1>3
<1>5. self \in G[p[Len(p)]] /\ \A n \in 1..Len(p) : p[n] # self
  BY <1>1, <1>3, <1>4, TopOfQueue
<1>6. F = FirstOf(cr, e)
  OBVIOUS
<1>7. F \in 1..e /\ F \in 1..Len(p)
  <2>1. F \in 1..e
    BY <1>1, <1>2, <1>6, FirstBegins
  <2>2. QED
    BY <1>2, <1>3, <2>1
<1>8. Shape(p, MergedRuns(cr, F), MergedCycles(p, cs, kept, F, self), MergedStarts(st, kept, F))
  BY ONLY <1>1, <1>2, <1>3, <1>5, <1>6, MergeShape
<1>9. InCycles(G, C, A2, p, MergedCycles(p, cs, kept, F, self), MergedStarts(st, kept, F), stat)
  <2>1. ToSet(p) \subseteq A2 /\ \A n \in 1..Len(p) : p[n] \in A2
    BY <1>3, ElementsOf DEF Joins
  <2>2. self \in A2 \/ \A g \in G[self] : stat[g] = "Ok" \/ g \in Merged(p, cs, kept, F, self)
    BY DEF Joins
  <2>3. G \in [Files -> SUBSET Files] /\ C \in SUBSET Files
    OBVIOUS
  <2>4. QED
    BY ONLY <1>1, <1>2, <1>3, <1>5, <1>6, <2>1, <2>2, <2>3, MergeMembers
<1>10. EdgesSeen(G, p, MergedRuns(cr, F), MergedCycles(p, cs, kept, F, self), MergedStarts(st, kept, F),
                 q, base, 1, stat)
  <2>1. G \in [Files -> SUBSET Files]
    OBVIOUS
  <2>2. QED
    BY ONLY <1>1, <1>2, <1>3, <1>6, <2>1, MergeEdges
<1>11. QED
  BY <1>4, <1>5, <1>7, <1>8, <1>9, <1>10

\* The new cycle is the innermost one, all parents after its first one belong to it and so does self.
LEMMA MergedInnermost ==
    ASSUME NEW p, NEW cr, NEW cs, NEW st, Shape(p, cr, cs, st), NEW F \in 1..Len(p), NEW kept \in 0..Len(cs),
           NEW self \in Files, \A k \in 1..kept : self \notin cs[k]
    PROVE  LET cr2 == MergedRuns(cr, F)
               cs2 == MergedCycles(p, cs, kept, F, self)
               st2 == MergedStarts(st, kept, F)
           IN  /\ Len(cs2) = kept + 1 /\ kept + 1 \in 1..Len(cs2) /\ st2[Len(cs2)] = F
               /\ \A n \in F..Len(p) : cr2[n] = F
               /\ \A k \in 1..Len(cs2) : self \in cs2[k] <=> k = Len(cs2)
               /\ \A n \in F..Len(p) : p[n] \in cs2[kept + 1]
<1> DEFINE cr2 == MergedRuns(cr, F)
           cs2 == MergedCycles(p, cs, kept, F, self)
           st2 == MergedStarts(st, kept, F)
<1>1. /\ Len(p) \in Nat /\ Len(cs) \in Nat /\ Len(cr) = Len(p)
  BY ShapePositions
<1>2. /\ Len(cs2) = kept + 1
      /\ \A k \in 1..kept : cs2[k] = cs[k]
      /\ cs2[kept + 1] = Merged(p, cs, kept, F, self)
  BY MergedFacts
<1>3. kept \in Nat /\ kept + 1 \in 1..Len(cs2)
  BY <1>1, <1>2
<1>4. st2[kept + 1] = F
  BY <1>1, <1>3 DEF MergedStarts
<1>5. \A n \in F..Len(p) : cr2[n] = F
  <2>1. \A n \in F..Len(p) : n \in 1..Len(cr) /\ n >= F
    BY <1>1
  <2>2. QED
    BY <2>1 DEF MergedRuns
<1> HIDE DEF cr2, cs2, st2
<1>6. self \in cs2[kept + 1] /\ \A n \in F..Len(p) : p[n] \in cs2[kept + 1]
  BY <1>2 DEF Merged
<1>7. \A k \in 1..Len(cs2) : self \in cs2[k] <=> k = Len(cs2)
  <2>1. \A k \in 1..kept + 1 : k = kept + 1 \/ k \in 1..kept
    BY <1>1
  <2>2. \A k \in 1..kept : k # kept + 1
    BY <1>3
  <2>3. QED
    BY <1>2, <1>6, <2>1, <2>2
<1>8. QED
  BY <1>2, <1>3, <1>4, <1>5, <1>6, <1>7 DEF cr2, cs2, st2

\* A member of a cycle without dependencies outside of it is left behind.
LEMMA MergedPop ==
    ASSUME NEW G \in [Files -> SUBSET Files], NEW C \in SUBSET Files, NEW Q, NEW rt, NEW p, NEW cr, NEW cs, NEW cc, NEW q,
           NEW stat, NEW st, NEW base, Under(G, C, Q, rt, p, cr, cs, cc, q, stat, st, base),
           NEW e, NEW kept, NEW self, self = Last(q).index, Closes(G, C, p, cr, cs, st, stat, e, kept, self),
           NEW F, F = FirstOf(cr, e),
           \A g \in G[self] : stat[g] = "Ok" \/ g \in Merged(p, cs, kept, F, self)
    PROVE  Walking(G, C, Q, rt, p, MergedRuns(cr, F), MergedCycles(p, cs, kept, F, self), cc, Front(q), 0, stat)
<1> DEFINE cr2 == MergedRuns(cr, F)
           cs2 == MergedCycles(p, cs, kept, F, self)
           st2 == MergedStarts(st, kept, F)
<1>1. /\ Shape(p, cr, cs, st)
      /\ p # <<>> => p[1] = rt
      /\ OnPath(G, C, p, stat)
      /\ Queued(G, Q, rt, p, cc, q, base, 1)
  BY DEF Under
<1>2. /\ kept \in 0..Len(cs) /\ self \in Files /\ \A k \in 1..kept : self \notin cs[k]
  BY DEF Closes
<1>3. /\ Shape(p, cr2, cs2, st2)
      /\ InCycles(G, C, ToSet(p), p, cs2, st2, stat)
      /\ EdgesSeen(G, p, cr2, cs2, st2, q, base, 1, stat)
      /\ F \in 1..e /\ F \in 1..Len(p) /\ p # <<>>
  <2>1. /\ G \in [Files -> SUBSET Files] /\ C \in SUBSET Files
        /\ Under(G, C, Q, rt, p, cr, cs, cc, q, stat, st, base)
        /\ self = Last(q).index /\ Closes(G, C, p, cr, cs, st, stat, e, kept, self)
        /\ F = FirstOf(cr, e)
    OBVIOUS
  <2>2. Joins(G, ToSet(p), p, cs, stat, kept, F, self)
    BY DEF Joins
  <2>3. QED
    BY ONLY <2>1, <2>2, MergedStacks
<1>4. /\ Len(cs2) \in 1..Len(cs2) /\ st2[Len(cs2)] = F
      /\ cr2[Len(p)] = F
      /\ self \in cs2[Len(cs2)]
  <2>1. /\ Len(cs2) = kept + 1 /\ kept + 1 \in 1..Len(cs2) /\ st2[Len(cs2)] = F
        /\ \A n \in F..Len(p) : cr2[n] = F
        /\ \A k \in 1..Len(cs2) : self \in cs2[k] <=> k = Len(cs2)
    BY ONLY <1>1, <1>2, <1>3, MergedInnermost
  <2>2. Len(p) \in F..Len(p)
    BY <1>1, <1>3, ShapePositions
  <2>3. QED
    BY <2>1, <2>2
<1> HIDE DEF cr2, cs2, st2
<1>5. p \in Seq(Files)
  BY <1>1 DEF Shape
<1>6. Queued(G, Q, rt, p, cc, Front(q), base, 0) /\ EdgesSeen(G, p, cr2, cs2, st2, Front(q), base, 0, stat)
  <2>1. \E k \in 1..Len(cs2) : cr2[Len(p)] = st2[k] /\ Last(q).index \in cs2[k]
    BY <1>4
  <2>2. \A g \in Files : stat[g] = "Ok" => stat[g] = "Ok"
    OBVIOUS
  <2>3. Queued(G, Q, rt, p, cc, q, base, 1) /\ EdgesSeen(G, p, cr2, cs2, st2, q, base, 1, stat)
    BY <1>1, <1>3
  <2>4. QED
    BY ONLY <1>5, <2>1, <2>2, <2>3, PopQueue
<1>7. QED
  BY <1>1, <1>3, <1>6 DEF Walking, cr2, cs2, st2

\* self depends on nothing but parents from position e on, its children and itself.
ClosesWith(G, p, self, e, o) ==
    \A g \in Files : g \in G[self] =>
       g = self \/ (\E n \in e..Len(p) : g = p[n]) \/ \E x \in 1..Len(o) : o[x].index = g

\* A file that depends on a parent and on other files becomes a parent that belongs to the cycle.
LEMMA MergedPush ==
    ASSUME NEW G \in [Files -> SUBSET Files], NEW C \in SUBSET Files, NEW Q, NEW rt, NEW p, NEW cr, NEW cs, NEW cc, NEW q,
           NEW stat, NEW st, NEW base, Under(G, C, Q, rt, p, cr, cs, cc, q, stat, st, base),
           NEW e, NEW kept, NEW self, self = Last(q).index, Closes(G, C, p, cr, cs, st, stat, e, kept, self),
           NEW F, F = FirstOf(cr, e),
           NEW o \in Seq(Q), Len(o) \in 1..Cardinality(Files) * Cardinality(Specs), Children(G, p, self, o),
           ClosesWith(G, p, self, e, o)
    PROVE  Walking(G, C, Q, rt, Append(p, self), Append(MergedRuns(cr, F), F), MergedCycles(p, cs, kept, F, self),
                   Append(cc, Len(o)), Front(q) \o o, 1, stat)
<1> DEFINE cr2 == MergedRuns(cr, F)
           cs2 == MergedCycles(p, cs, kept, F, self)
           st2 == MergedStarts(st, kept, F)
           p2 == Append(p, self)
<1>1. /\ Shape(p, cr, cs, st)
      /\ p # <<>> => p[1] = rt
      /\ OnPath(G, C, p, stat)
      /\ Queued(G, Q, rt, p, cc, q, base, 1)
  BY DEF Under
<1>2. /\ kept \in 0..Len(cs) /\ self \in C /\ self \in Files /\ \A k \in 1..kept : self \notin cs[k]
      /\ stat[self] = "Unknown"
  BY DEF Closes
<1>3. p \in Seq(Files) /\ Len(p) \in Nat
  BY <1>1 DEF Shape
<1>4. /\ Len(p2) = Len(p) + 1 /\ p2 \in Seq(Files)
      /\ \A n \in 1..Len(p) : p2[n] = p[n] /\ n \in 1..Len(p) + 1
      /\ p2[Len(p) + 1] = self /\ Len(p) + 1 \in 1..Len(p) + 1
  BY <1>2, <1>3, AppendFacts
<1>5. ToSet(p) \subseteq ToSet(p2) /\ self \in ToSet(p2)
  <2>1. \A v : v \in ToSet(p) <=> \E n \in 1..Len(p) : v = p[n]
    BY <1>3, ElementsOf
  <2>2. \A v : v \in ToSet(p2) <=> \E n \in 1..Len(p2) : v = p2[n]
    BY <1>4, ElementsOf
  <2> HIDE DEF p2
  <2>3. \A v : v \in ToSet(p) => v \in ToSet(p2)
    BY <1>4, <2>1, <2>2
  <2>4. QED
    BY <1>4, <2>2, <2>3
<1> HIDE DEF p2
<1>6. /\ Shape(p, cr2, cs2, st2)
      /\ InCycles(G, C, ToSet(p2), p, cs2, st2, stat)
      /\ EdgesSeen(G, p, cr2, cs2, st2, q, base, 1, stat)
      /\ F \in 1..e /\ F \in 1..Len(p) /\ p # <<>>
      /\ \A n \in 1..Len(p) : p[n] # self
  <2>1. /\ G \in [Files -> SUBSET Files] /\ C \in SUBSET Files
        /\ Under(G, C, Q, rt, p, cr, cs, cc, q, stat, st, base)
        /\ self = Last(q).index /\ Closes(G, C, p, cr, cs, st, stat, e, kept, self)
        /\ F = FirstOf(cr, e)
    OBVIOUS
  <2>2. Joins(G, ToSet(p2), p, cs, stat, kept, F, self)
    BY <1>5 DEF Joins
  <2>3. QED
    BY ONLY <2>1, <2>2, MergedStacks
<1>7. /\ Len(cs2) = kept + 1 /\ kept + 1 \in 1..Len(cs2) /\ st2[Len(cs2)] = F
      /\ \A n \in F..Len(p) : cr2[n] = F
      /\ \A k \in 1..Len(cs2) : self \in cs2[k] <=> k = Len(cs2)
      /\ \A n \in F..Len(p) : p[n] \in cs2[kept + 1]
  BY ONLY <1>1, <1>2, <1>6, MergedInnermost
<1> HIDE DEF cr2, cs2, st2
<1>8. Len(cs2) > 0 /\ F \in Nat
  BY <1>2, <1>6, <1>7
<1>9. Shape(p2, Append(cr2, F), cs2, st2)
  <2>1. self \in Files
    BY <1>2
  <2>2. QED
    BY ONLY <1>6, <1>7, <1>8, <2>1, PushShape DEF p2
<1>10. self \in G[p[Len(p)]] /\ Last(q).index = self
  BY <1>1, <1>3, <1>6, TopOfQueue
<1>11. OnPath(G, C, p2, stat)
  BY <1>1, <1>2, <1>3, <1>10, PushPath DEF p2
<1>12. InCycles(G, C, ToSet(p2), p2, cs2, st2, stat)
  BY <1>2, <1>6, PushMembers DEF p2
<1>13. ChildrenSeen(G, cs2, st2, stat, self, F, o)
  <2> SUFFICES ASSUME NEW g \in Files, g \in G[self]
               PROVE  \/ g = self
                      \/ \E k \in 1..Len(cs2) : F = st2[k] /\ g \in cs2[k]
                      \/ \E x \in 1..Len(o) : o[x].index = g
    BY DEF ChildrenSeen
  <2>1. CASE \E n \in e..Len(p) : g = p[n]
    <3>1. PICK n \in e..Len(p) : g = p[n]
      BY <2>1
    <3>2. e \in 1..Len(p)
      BY DEF Closes
    <3>3. n \in F..Len(p)
      BY <1>3, <1>6, <3>2
    <3>4. g \in cs2[Len(cs2)] /\ Len(cs2) \in 1..Len(cs2)
      BY <1>7, <3>1, <3>3
    <3>5. QED
      BY <1>7, <3>4
  <2>2. QED
    BY <2>1 DEF ClosesWith
<1>14. PICK base2 :
         /\ Queued(G, Q, rt, p2, Append(cc, Len(o)), Front(q) \o o, base2, 1)
         /\ EdgesSeen(G, p2, Append(cr2, F), cs2, st2, Front(q) \o o, base2, 1, stat)
  <2>1. Queued(G, Q, rt, p, cc, q, base, 1) /\ EdgesSeen(G, p, cr2, cs2, st2, q, base, 1, stat)
    BY <1>1, <1>6
  <2>2. cr2 \in Seq(Nat) /\ Len(cr2) = Len(p)
    BY <1>6 DEF Shape
  <2>3. /\ self \in Files /\ self = Last(q).index /\ o \in Seq(Q)
        /\ Len(o) \in 1..Cardinality(Files) * Cardinality(Specs) /\ Children(G, p, self, o)
    BY <1>2
  <2>4. QED
    BY ONLY <1>3, <1>8, <1>13, <2>1, <2>2, <2>3, PushQueue DEF p2
<1>15. p2 # <<>> /\ p2[1] = rt
  <2>1. 1 \in 1..Len(p)
    BY <1>3, <1>6
  <2>2. p2 # <<>>
    BY <1>3, <1>4
  <2>3. QED
    BY <1>1, <1>4, <1>6, <2>1, <2>2
<1>16. QED
  BY <1>9, <1>11, <1>12, <1>14, <1>15 DEF Walking, p2, cr2, cs2
-----------------------------------------------------------------------------
(* Dependencies                                                            *)

\* Two programs of a project whose files can be told apart by their content
Related ==
    /\ old \in Programs /\ new \in Programs /\ SameEnvironment(old, new)
    /\ \A f \in old.files, g \in new.files : old.ver[f] = new.ver[g] => f = g

\* A file of the old program is compared with itself, others have no dependencies.
LEMMA PairedFiles ==
    ASSUME Related, NEW name \in Files, NEW index \in Files, Id(old, index) = Id(new, name)
    PROVE  /\ index \in old.files => name = index /\ name \in new.files
           /\ name \in new.files => index \in old.files
           /\ index \notin old.files => Edges(old)[index] = {} /\ DepIds(old, index) = DepIds(new, name)
<1>1. /\ old \in Programs /\ new \in Programs
      /\ \A f \in old.files, g \in new.files : old.ver[f] = new.ver[g] => f = g
  BY DEF Related
<1>2. old.ver \in [Files -> Versions] /\ new.ver \in [Files -> Versions]
  BY <1>1, ProgramFields
<1>3. old.ver[index] \in Versions /\ new.ver[name] \in Versions
  BY <1>2
<1>4. index \in old.files <=> name \in new.files
  BY <1>1, <1>3, ProgramIds, IdAssumption
<1>5. index \in old.files => name = index
  BY <1>1, <1>4, ProgramIds
<1>6. ASSUME index \notin old.files
      PROVE  Edges(old)[index] = {} /\ DepIds(old, index) = DepIds(new, name)
  <2>1. index \in Files \ old.files /\ name \in Files \ new.files
    BY <1>4, <1>6
  <2>2. Targets(old, index) = {}
    BY <1>1, <2>1, ProgramFields
  <2>3. Edges(old)[index] = {}
    BY <2>2 DEF Edges
  <2>4. \A k \in Specs : old.deps[index][k] = {} /\ new.deps[name][k] = {}
    BY <1>1, <2>1, ProgramsAssumption
  <2>5. \A k \in Specs : Resolved(old, index, k) = {} /\ Resolved(new, name, k) = {}
    BY <2>4 DEF Resolved
  <2>6. IdList(old, {}) = IdList(new, {})
    <3>1. {Id(old, g) : g \in {}} = {} /\ {Id(new, g) : g \in {}} = {}
      OBVIOUS
    <3>2. QED
      BY <3>1 DEF IdList
  <2>7. \A k \in Specs : <<old.deps[index][k] = Null, IdList(old, Resolved(old, index, k))>>
                           = <<new.deps[name][k] = Null, IdList(new, Resolved(new, name, k))>>
    BY <2>4, <2>5, <2>6
  <2>8. DepIds(old, index) = DepIds(new, name)
    BY <2>7 DEF DepIds
  <2>9. QED
    BY <2>3, <2>8
<1>7. QED
  BY <1>4, <1>5, <1>6

\* What is unchanged
LEMMA UnchangedFiles ==
    ASSUME Related, NEW r \in [name : Files, index : Files], Id(old, r.index) = Id(new, r.name)
    PROVE  /\ r.index \in old.files => (Unchanged(r) <=> SameDeps(old, new, r.index))
           /\ r.index \notin old.files => Unchanged(r) /\ Edges(old)[r.index] = {}
<1>1. r.name \in Files /\ r.index \in Files
  OBVIOUS
<1>2. QED
  BY <1>1, PairedFiles DEF Unchanged, SameDeps

\* The pairs for one specifier
LEMMA PairingFacts ==
    ASSUME NEW r, NEW k \in Specs, NEW c \in Pairings(r, k)
    PROVE  /\ \A d \in c : /\ d.key = k /\ d.index \in Resolved(old, r.index, k)
                           /\ d.name \in Resolved(new, r.name, k) /\ Id(old, d.index) = Id(new, d.name)
                           /\ d = [name |-> d.name, index |-> d.index, key |-> d.key]
           /\ \A i \in Resolved(old, r.index, k) : \E d \in c : d.index = i
           /\ \A d, e \in c : d.index = e.index => d = e
<1> DEFINE before == Resolved(old, r.index, k)
           after == Resolved(new, r.name, k)
<1>1. PICK m \in {m \in [before -> after] : /\ IsInjective(m) /\ \A i \in before : Id(old, i) = Id(new, m[i])} :
        c = {[name |-> m[i], index |-> i, key |-> k] : i \in before}
  BY DEF Pairings
<1>2. m \in [before -> after] /\ \A i \in before : Id(old, i) = Id(new, m[i])
  BY <1>1
<1> HIDE DEF before, after
<1>3. \A d \in c : \E i \in before : d = [name |-> m[i], index |-> i, key |-> k]
  BY <1>1
<1>4. \A i \in before : [name |-> m[i], index |-> i, key |-> k] \in c
  BY <1>1
<1>5. \A d \in c : /\ d.key = k /\ d.index \in before /\ d.name = m[d.index]
                   /\ d = [name |-> m[d.index], index |-> d.index, key |-> k]
  BY <1>3
<1>6. \A i \in before : \E d \in c : d.index = i
  BY <1>4
<1>7. \A d, e \in c : d.index = e.index => d = e
  BY <1>5
<1>8. QED
  BY <1>2, <1>5, <1>6, <1>7 DEF before, after

\* The files Resolved lists are files.
LEMMA ResolvedFiles ==
    ASSUME NEW P \in Programs, NEW f \in Files, NEW k \in Specs
    PROVE  Resolved(P, f, k) \in SUBSET Files /\ Resolved(P, f, k) \subseteq Targets(P, f)
<1>1. P.deps[f][k] \in {Null} \union SUBSET Files
  <2>1. P.deps \in [Files -> [Specs -> {Null} \union SUBSET Files]]
    BY ProgramsAssumption
  <2>2. QED
    BY <2>1
<1>2. QED
  BY <1>1 DEF Resolved, Targets

\* The dependencies that are compared are those the old program had, but for the file itself.
LEMMA DependencyFacts ==
    ASSUME Related, NEW r \in [name : Files, index : Files], Id(old, r.index) = Id(new, r.name),
           NEW deps \in Dependencies(r)
    PROVE  /\ \A d \in deps :
                /\ d.name \in Files /\ d.index \in Files /\ d.key \in Specs
                /\ Id(old, d.index) = Id(new, d.name)
                /\ d.index \in Edges(old)[r.index] /\ d.index # r.index
           /\ \A g \in Edges(old)[r.index] : g = r.index \/ \E d \in deps : d.index = g
           /\ \A d, e \in deps : d.index = e.index /\ d.key = e.key => d = e
<1>1. /\ old \in Programs /\ new \in Programs /\ r.name \in Files /\ r.index \in Files
      /\ Direct(old) <=> Direct(new)
  <2>1. old \in Programs /\ new \in Programs /\ SameEnvironment(old, new)
    BY DEF Related
  <2>2. Direct(old) <=> Direct(new)
    BY ONLY <2>1, SameEffect
  <2>3. QED
    BY <2>1, <2>2
<1>2. CASE Direct(new)
  <2>1. deps = {} /\ Edges(old)[r.index] = {}
    BY <1>1, <1>2 DEF Dependencies, Edges
  <2>2. QED
    BY <2>1
<1>3. CASE ~Direct(new)
  <2>1. PICK c \in [Specs -> UNION {Pairings(r, k) : k \in Specs}] :
          /\ \A k \in Specs : c[k] \in Pairings(r, k)
          /\ deps = {d \in UNION {c[k] : k \in Specs} : d.name # r.name}
    BY <1>3 DEF Dependencies
  <2>2. \A d : d \in deps <=> d.name # r.name /\ \E k \in Specs : d \in c[k]
    BY <2>1
  <2>3. \A k \in Specs : c[k] \in Pairings(r, k)
    BY <2>1
  <2>4. ASSUME NEW k \in Specs
        PROVE  /\ \A d \in c[k] : /\ d.key = k /\ d.index \in Resolved(old, r.index, k)
                                  /\ d.name \in Resolved(new, r.name, k) /\ Id(old, d.index) = Id(new, d.name)
               /\ \A i \in Resolved(old, r.index, k) : \E d \in c[k] : d.index = i
               /\ \A d, e \in c[k] : d.index = e.index => d = e
    <3>1. k \in Specs /\ c[k] \in Pairings(r, k)
      BY <2>3
    <3>2. QED
      BY ONLY <3>1, PairingFacts
  <2>5. ASSUME NEW k \in Specs
        PROVE  /\ Resolved(old, r.index, k) \in SUBSET Files /\ Resolved(new, r.name, k) \in SUBSET Files
               /\ Resolved(old, r.index, k) \subseteq Targets(old, r.index)
    BY <1>1, ResolvedFiles
  <2>6. Edges(old)[r.index] = Targets(old, r.index)
    BY <1>1, <1>3 DEF Edges
  <2>7. ASSUME NEW g \in Edges(old)[r.index]
        PROVE  r.index \in old.files /\ r.name = r.index /\ \E k \in Specs : g \in Resolved(old, r.index, k)
    <3>1. r.index \in old.files
      BY <1>1, PairedFiles
    <3>2. r.name = r.index
      BY <1>1, <3>1, PairedFiles
    <3>3. \E k \in Specs : g \in Resolved(old, r.index, k)
      BY <2>6 DEF Targets
    <3>4. QED
      BY <3>1, <3>2, <3>3
  <2>8. ASSUME NEW name \in Files, NEW index \in Files, Id(old, index) = Id(new, name), r.index \in old.files,
               r.name = r.index
        PROVE  name = r.name <=> index = r.index
    <3>1. /\ index \in old.files => name = index /\ name \in new.files
          /\ name \in new.files => index \in old.files
      BY <2>8, PairedFiles
    <3>2. r.name \in new.files
      BY <1>1, <2>8, PairedFiles
    <3>3. QED
      BY <2>8, <3>1, <3>2
  <2>9. ASSUME NEW d \in deps
        PROVE  /\ d.name \in Files /\ d.index \in Files /\ d.key \in Specs
               /\ Id(old, d.index) = Id(new, d.name)
               /\ d.index \in Edges(old)[r.index] /\ d.index # r.index
    <3>1. PICK k \in Specs : d \in c[k]
      BY <2>2
    <3>2. /\ d.key = k /\ d.index \in Resolved(old, r.index, k)
          /\ d.name \in Resolved(new, r.name, k) /\ Id(old, d.index) = Id(new, d.name)
      BY <2>4, <3>1
    <3>3. /\ d.name \in Files /\ d.index \in Files /\ d.key \in Specs /\ d.index \in Edges(old)[r.index]
      BY <2>5, <2>6, <3>2
    <3>4. d.name # r.name
      BY <2>2
    <3>5. d.index # r.index
      BY <2>7, <2>8, <3>2, <3>3, <3>4
    <3>6. QED
      BY <3>2, <3>3, <3>5
  <2>10. ASSUME NEW g \in Edges(old)[r.index], g # r.index
         PROVE  \E d \in deps : d.index = g
    <3>1. r.index \in old.files /\ r.name = r.index
      BY <2>7
    <3>2. PICK k \in Specs : g \in Resolved(old, r.index, k)
      BY <2>7
    <3>3. PICK d \in c[k] : d.index = g
      BY <2>4, <3>2
    <3>4. d.name \in Files /\ d.index \in Files /\ Id(old, d.index) = Id(new, d.name)
      BY <2>4, <2>5, <3>3
    <3>5. d.name # r.name
      BY <2>8, <2>10, <3>1, <3>3, <3>4
    <3>6. QED
      BY <2>2, <3>3, <3>5
  <2>11. ASSUME NEW d \in deps, NEW e \in deps, d.index = e.index, d.key = e.key
         PROVE  d = e
    <3>1. PICK k \in Specs : d \in c[k]
      BY <2>2
    <3>2. PICK l \in Specs : e \in c[l]
      BY <2>2
    <3>3. k = l
      BY <2>4, <2>11, <3>1, <3>2
    <3>4. QED
      BY <2>4, <2>11, <3>1, <3>2, <3>3
  <2>12. QED
    BY <2>9, <2>10, <2>11
<1>4. QED
  BY <1>2, <1>3

\* The children of a file are put into the queue in any order.
LEMMA OrderFacts ==
    ASSUME NEW children, children # {}, IsFiniteSet(children), NEW order \in SetToSeqs(children)
    PROVE  /\ DOMAIN order = 1..Cardinality(children) /\ Cardinality(children) \in Nat \ {0}
           /\ \A n \in 1..Cardinality(children) : order[n] \in children
           /\ \A d \in children : \E n \in 1..Cardinality(children) : order[n] = d
<1> DEFINE N == Cardinality(children)
           D == 1..N
<1>1. N \in Nat /\ N # 0
  BY FS_CardinalityType, FS_EmptySet
<1>2. order \in [D -> children] /\ \A i, j \in D : i # j => order[i] # order[j]
  BY DEF SetToSeqs
<1>3. Cardinality(D) = N /\ IsFiniteSet(D)
  BY <1>1, FS_Interval
<1> HIDE DEF D, N
<1>4. order \in Injection(D, children)
  BY <1>2 DEF Injection, IsInjective
<1>5. order \in Surjection(D, children)
  BY <1>3, <1>4, FS_Injection DEF N
<1>6. \A d \in children : \E n \in D : order[n] = d
  BY <1>5 DEF Surjection
<1>7. QED
  BY <1>1, <1>2, <1>6 DEF D, N

\* A file has at most as many dependencies as there are pairs of files and specifiers.
LEMMA FewDependencies ==
    ASSUME NEW deps, \A d \in deps : d.index \in Files /\ d.key \in Specs,
           \A d, e \in deps : d.index = e.index /\ d.key = e.key => d = e
    PROVE  IsFiniteSet(deps) /\ Cardinality(deps) <= Cardinality(Files) * Cardinality(Specs)
<1> DEFINE pair == [d \in deps |-> <<d.index, d.key>>]
<1>1. pair \in [deps -> Files \X Specs]
  OBVIOUS
<1>2. \A d, e \in deps : pair[d] = pair[e] => d = e
  OBVIOUS
<1>3. pair \in Injection(deps, Files \X Specs)
  BY <1>1, <1>2 DEF Injection, IsInjective
<1>4. IsFiniteSet(Files \X Specs) /\ Cardinality(Files \X Specs) = Cardinality(Files) * Cardinality(Specs)
  BY FilesAssumption, FS_Product
<1>5. QED
  BY <1>3, <1>4, FS_Injection
-----------------------------------------------------------------------------
(* The inductive invariant                                                 *)

\* What the walk may visit
Way == Reach(OpenEdges(old, new, known), root)

\* What it may descend into
Open == {f \in old.files \cap Way : SameDeps(old, new, f)}

\* What it may put into the queue
Entries == {r \in [name : Files, index : Files] : Id(old, r.index) = Id(new, r.name) /\ r.index \in Way}

\* A file that is Ok has the dependencies it had and they are Ok. An outdated one was
\* part of the old program and reaches a file that has other dependencies than before.
Truthful(stat) ==
    \A f \in Files :
        /\ stat[f] = "Ok" => /\ f \in old.files => SameDeps(old, new, f)
                             /\ \A g \in Edges(old)[f] : stat[g] = "Ok"
        /\ stat[f] = "Outdated" => f \in old.files /\ ~UpToDate(old, new, f)

\* What is known stays known
Keeps(stat) == \A f \in Files : known[f] # "Unknown" => stat[f] = known[f]

\* What is decided lies on the way.
Stays(stat) == \A f \in Files : stat[f] # known[f] => f \in Way

Extra == IF pc = "process" THEN 1 ELSE 0

Idle ==
    /\ known = status
    /\ queue = <<>> /\ parents = <<>> /\ childCounts = <<>>
    /\ circular = <<>> /\ cycles = <<>>

Running ==
    /\ root \in new.files /\ Id(old, root) = Id(new, root)
    /\ Stays(status)
    /\ Walking(Edges(old), Open, Entries, root, parents, circular, cycles, childCounts, queue, Extra, status)

Inv ==
    /\ <<old, new>> \in Instances
    /\ status \in [Files -> DependencyState] /\ known \in [Files -> DependencyState]
    /\ root \in {None} \union Files
    /\ answer \in {None} \union [file : Files, result : BOOLEAN]
    /\ pc \in {"idle", "process", "unwind"}
    /\ Truthful(status) /\ Keeps(status)
    /\ pc = "idle" => Idle
    /\ pc # "idle" => Running

\* The programs of an instance
LEMMA InstanceRelated ==
    ASSUME ContentsDiffer, Inv
    PROVE  Related
<1>1. <<old, new>> \in Instances
  BY DEF Inv
<1>2. <<old, new>>[1] = old /\ <<old, new>>[2] = new
  OBVIOUS
<1>3. QED
  BY <1>1, <1>2, InstancesAssumption DEF ContentsDiffer, Related

\* The way of a walk
LEMMA Ways ==
    ASSUME ContentsDiffer, Inv, pc # "idle"
    PROVE  /\ Edges(old) \in [Files -> SUBSET Files]
           /\ root \in Files /\ root \in Way /\ Way \in SUBSET Files
           /\ Open \in SUBSET Files /\ Open \subseteq old.files /\ Open \subseteq Way
           /\ \A f \in Open : /\ SameDeps(old, new, f)
                              /\ known[f] = "Unknown" => Edges(old)[f] \subseteq Way
           /\ \A r \in Entries : /\ r \in [name : Files, index : Files]
                                 /\ Id(old, r.index) = Id(new, r.name) /\ r.index \in Way
<1>1. old \in Programs /\ new \in Programs
  BY InstanceRelated DEF Related
<1>2. Edges(old) \in [Files -> SUBSET Files] /\ new.files \in SUBSET Files
  BY <1>1, ProgramFields
<1>3. root \in Files
  BY <1>2 DEF Inv, Running
<1>4. OpenEdges(old, new, known) \in [Files -> SUBSET Files]
  BY <1>1, OpenEdgesType
<1>5. root \in Way
  BY <1>3, ReachRefl DEF Way
<1>6. Closed(OpenEdges(old, new, known), Way) /\ Way \in SUBSET Files
  BY <1>4, ReachClosed DEF Way
<1>7. Open \in SUBSET Files /\ Open \subseteq old.files /\ Open \subseteq Way
      /\ \A f \in Open : SameDeps(old, new, f)
  BY <1>6 DEF Open
<1>8. ASSUME NEW f \in Open, known[f] = "Unknown"
      PROVE  Edges(old)[f] \subseteq Way
  <2>1. f \in Files /\ f \in Way /\ SameDeps(old, new, f)
    BY <1>7
  <2>2. OpenEdges(old, new, known)[f] = Edges(old)[f]
    BY <1>8, <2>1 DEF OpenEdges
  <2>3. QED
    BY <1>6, <2>1, <2>2 DEF Closed
<1>9. \A r \in Entries : /\ r \in [name : Files, index : Files]
                         /\ Id(old, r.index) = Id(new, r.name) /\ r.index \in Way
  BY DEF Entries
<1>10. QED
  BY <1>2, <1>3, <1>5, <1>6, <1>7, <1>8, <1>9

\* What every step of the loop but the last one has in common.
LEMMA StepInv ==
    ASSUME Inv, pc # "idle", UNCHANGED <<old, new, known, root, answer>>, pc' \in {"process", "unwind"},
           status' \in [Files -> DependencyState], Truthful(status'), Keeps(status'), Stays(status'),
           Walking(Edges(old), Open, Entries, root, parents', circular', cycles', childCounts', queue',
                   IF pc' = "process" THEN 1 ELSE 0, status')
    PROVE  Inv'
<1>1. Way' = Way
  BY DEF Way
<1>2. Open' = Open /\ Entries' = Entries
  BY <1>1 DEF Open, Entries
<1>3. Truthful(status)' /\ Keeps(status)' /\ Stays(status)'
  BY <1>1 DEF Truthful, Keeps, Stays
<1>4. root \in new.files /\ Id(old, root) = Id(new, root)
  BY DEF Inv, Running
<1>5. Running'
  BY <1>2, <1>3, <1>4 DEF Running, Extra
<1>6. QED
  BY <1>3, <1>5 DEF Inv

\* A walk that returns leaves nothing behind.
LEMMA ReturnInv ==
    ASSUME ContentsDiffer, Inv, pc # "idle", NEW result \in BOOLEAN, Return(result),
           status' \in [Files -> DependencyState], Truthful(status')
    PROVE  Inv'
<1>1. root \in Files
  BY Ways
<1>2. /\ UNCHANGED <<old, new>> /\ pc' = "idle" /\ root' = None /\ known' = status'
      /\ answer' = [file |-> root, result |-> result]
  BY DEF Return
<1>3. answer' \in [file : Files, result : BOOLEAN]
  BY <1>1, <1>2
<1>4. Truthful(status)' /\ Keeps(status)'
  BY <1>2 DEF Truthful, Keeps
<1>5. Idle'
  BY DEF Return, Idle
<1>6. QED
  BY <1>2, <1>3, <1>4, <1>5 DEF Inv
-----------------------------------------------------------------------------
(* The steps of the loop                                                   *)

\* All parents and members of cycles depend on what is processed.
LEMMA WaitingFiles ==
    ASSUME NEW G \in [Files -> SUBSET Files], NEW C \in SUBSET Files, NEW Q, NEW rt, NEW p, NEW cr, NEW cs, NEW cc, NEW q,
           NEW stat, Walking(G, C, Q, rt, p, cr, cs, cc, q, 1, stat)
    PROVE  \A f \in Files : f \in ToSet(p) \/ (\E c \in ToSet(cs) : f \in c) =>
              f \in C /\ stat[f] = "Unknown" /\ Last(q).index \in Reach(G, f)
<1>1. PICK st, base :
        /\ Shape(p, cr, cs, st)
        /\ OnPath(G, C, p, stat)
        /\ InCycles(G, C, ToSet(p), p, cs, st, stat)
        /\ Queued(G, Q, rt, p, cc, q, base, 1)
  BY DEF Walking
<1>2. /\ p \in Seq(Files) /\ Len(p) \in Nat /\ cs \in Seq(SUBSET Files)
      /\ \A k \in 1..Len(cs) : st[k] \in 1..Len(p)
  BY <1>1, ShapePositions DEF Shape
<1>3. /\ \A n \in 1..Len(p) : p[n] \in C /\ stat[p[n]] = "Unknown"
      /\ \A m, n \in 1..Len(p) : m < n => p[n] \in Reach(G, p[m])
  BY <1>1 DEF OnPath
<1>4. ASSUME NEW m \in 1..Len(p)
      PROVE  Last(q).index \in Reach(G, p[m])
  <2>1. Len(p) \in 1..Len(p) /\ p # <<>> /\ p[m] \in Files
    BY <1>2
  <2>2. p[Len(p)] \in Reach(G, p[m])
    <3>1. CASE m = Len(p)
      BY <2>1, <3>1, ReachRefl
    <3>2. CASE m # Len(p)
      BY <1>2, <1>3, <2>1, <3>2
    <3>3. QED
      BY <3>1, <3>2
  <2>3. Last(q).index \in G[p[Len(p)]]
    BY <1>1, <1>2, <2>1, TopOfQueue
  <2>4. Closed(G, Reach(G, p[m]))
    BY ReachClosed
  <2>5. QED
    BY <2>2, <2>3, <2>4 DEF Closed
<1>5. ASSUME NEW f \in Files, f \in ToSet(p)
      PROVE  f \in C /\ stat[f] = "Unknown" /\ Last(q).index \in Reach(G, f)
  <2>1. PICK n \in 1..Len(p) : f = p[n]
    BY <1>2, <1>5, ElementsOf
  <2>2. QED
    BY <1>3, <1>4, <2>1
<1>6. ASSUME NEW f \in Files, NEW c \in ToSet(cs), f \in c
      PROVE  f \in C /\ stat[f] = "Unknown" /\ Last(q).index \in Reach(G, f)
  <2>1. PICK k \in 1..Len(cs) : c = cs[k]
    BY <1>2, ElementsOf
  <2>2. f \in C /\ stat[f] = "Unknown" /\ p[st[k]] \in Reach(G, f)
    BY <1>1, <1>6, <2>1 DEF InCycles
  <2>3. Last(q).index \in Reach(G, p[st[k]])
    BY <1>2, <1>4
  <2>4. QED
    BY <2>2, <2>3, ReachTrans
<1>7. QED
  BY <1>5, <1>6

\* What depends on an outdated file is outdated.
LEMMA OutdatedSpreads ==
    ASSUME NEW S \in Programs, NEW P, NEW f \in Files, NEW g \in Reach(Edges(S), f), ~UpToDate(S, P, g)
    PROVE  ~UpToDate(S, P, f)
BY ProgramFields, ReachTrans DEF UpToDate

\* What is processed.
LEMMA Processing ==
    ASSUME ContentsDiffer, Inv, pc = "process"
    PROVE  /\ Walking(Edges(old), Open, Entries, root, parents, circular, cycles, childCounts, queue, 1, status)
           /\ queue # <<>> /\ queue \in Seq(Entries)
           /\ Current \in [name : Files, index : Files] /\ Current.index \in Files /\ Current.index \in Way
           /\ Id(old, Current.index) = Id(new, Current.name)
           /\ parents \in Seq(Files)
           /\ \A m \in 1..Len(parents) : Current.index # parents[m]
           /\ status[Current.index] = "Unknown" /\ Unchanged(Current) /\ Current.index \in old.files
                => Current.index \in Open
<1>1. Walking(Edges(old), Open, Entries, root, parents, circular, cycles, childCounts, queue, 1, status)
  BY DEF Inv, Running, Extra
<1>2. /\ queue # <<>> /\ queue \in Seq(Entries) /\ Last(queue) \in Entries
      /\ parents \in Seq(Files)
      /\ parents # <<>> => \A m \in 1..Len(parents) : Last(queue).index # parents[m]
  BY <1>1, WalkingTop
<1>3. \A m \in 1..Len(parents) : Current.index # parents[m]
  BY <1>2 DEF Current
<1>4. /\ Current \in [name : Files, index : Files]
      /\ Id(old, Current.index) = Id(new, Current.name) /\ Current.index \in Way
  BY <1>2, Ways DEF Current
<1>5. Current.index \in Files
  BY <1>4
<1>6. Unchanged(Current) /\ Current.index \in old.files => Current.index \in Open
  BY <1>4, <1>5, UnchangedFiles, InstanceRelated DEF Open
<1>7. QED
  BY <1>1, <1>2, <1>3, <1>4, <1>5, <1>6

\* Files that wait for an outdated file are outdated, too.
LEMMA MarkInv ==
    ASSUME ContentsDiffer, Inv, pc = "process", MarkAsOutdated(Current.index),
           status[Current.index] # "Ok", Current.index \in old.files, ~UpToDate(old, new, Current.index)
    PROVE  Inv'
<1> DEFINE M == {f \in Files : f = Current.index \/ f \in ToSet(parents) \/ \E c \in ToSet(cycles) : f \in c}
<1>1. status' = [f \in Files |-> IF f \in M THEN "Outdated" ELSE status[f]] /\ Return(FALSE)
  BY DEF MarkAsOutdated
<1>2. /\ status \in [Files -> DependencyState] /\ Truthful(status)
      /\ Edges(old) \in [Files -> SUBSET Files] /\ Open \in SUBSET Files /\ Open \subseteq old.files
      /\ old \in Programs
  BY Ways, InstanceRelated DEF Inv, Related
<1>3. \A f \in Files : f \in ToSet(parents) \/ (\E c \in ToSet(cycles) : f \in c) =>
         f \in Open /\ status[f] = "Unknown" /\ Last(queue).index \in Reach(Edges(old), f)
  <2>1. Walking(Edges(old), Open, Entries, root, parents, circular, cycles, childCounts, queue, 1, status)
    BY Processing
  <2>2. QED
    BY <1>2, <2>1, WaitingFiles
<1>4. ASSUME NEW f \in M
      PROVE  f \in old.files /\ ~UpToDate(old, new, f) /\ status[f] # "Ok"
  <2>1. CASE f = Current.index
    BY <2>1
  <2>2. CASE f # Current.index
    <3>1. f \in Open /\ status[f] = "Unknown" /\ Current.index \in Reach(Edges(old), f) /\ f \in Files
      BY <1>3, <2>2 DEF Current
    <3>2. ~UpToDate(old, new, f)
      BY <1>2, <3>1, OutdatedSpreads
    <3>3. QED
      BY <1>2, <3>1, <3>2
  <2>3. QED
    BY <2>1, <2>2
<1> HIDE DEF M
<1>5. status' \in [Files -> DependencyState]
  BY <1>1, <1>2 DEF DependencyState
<1>6. Truthful(status')
  <2> SUFFICES ASSUME NEW f \in Files
               PROVE  /\ status'[f] = "Ok" => /\ f \in old.files => SameDeps(old, new, f)
                                              /\ \A g \in Edges(old)[f] : status'[g] = "Ok"
                      /\ status'[f] = "Outdated" => f \in old.files /\ ~UpToDate(old, new, f)
    BY DEF Truthful
  <2>1. CASE f \in M
    BY <1>1, <1>4, <2>1
  <2>2. CASE f \notin M
    <3>1. status'[f] = status[f]
      BY <1>1, <2>2
    <3>2. /\ status[f] = "Ok" => /\ f \in old.files => SameDeps(old, new, f)
                                 /\ \A g \in Edges(old)[f] : status[g] = "Ok"
          /\ status[f] = "Outdated" => f \in old.files /\ ~UpToDate(old, new, f)
      BY <1>2 DEF Truthful
    <3>3. \A g \in Files : status[g] = "Ok" => status'[g] = "Ok"
      BY <1>1, <1>4
    <3>4. QED
      BY <1>2, <3>1, <3>2, <3>3
  <2>3. QED
    BY <2>1, <2>2
<1>7. QED
  BY <1>1, <1>5, <1>6, ReturnInv

\* An outdated dependency is found.
LEMMA KnownOutdatedInv ==
    ASSUME ContentsDiffer, Inv, KnownOutdated
    PROVE  Inv'
<1>1. pc = "process" /\ status[Current.index] = "Outdated" /\ MarkAsOutdated(Current.index)
  BY DEF KnownOutdated
<1>2. Current.index \in old.files /\ ~UpToDate(old, new, Current.index)
  BY <1>1, Processing DEF Inv, Truthful
<1>3. QED
  BY <1>1, <1>2, MarkInv

\* A file with other dependencies than before is found.
LEMMA ChangedInv ==
    ASSUME ContentsDiffer, Inv, Changed
    PROVE  Inv'
<1>1. pc = "process" /\ status[Current.index] = "Unknown" /\ ~Unchanged(Current) /\ MarkAsOutdated(Current.index)
  BY DEF Changed
<1>2. /\ Current \in [name : Files, index : Files] /\ Current.index \in Files
      /\ Id(old, Current.index) = Id(new, Current.name)
  BY <1>1, Processing
<1>3. Current.index \in old.files /\ ~SameDeps(old, new, Current.index)
  BY <1>1, <1>2, UnchangedFiles, InstanceRelated
<1>4. ~UpToDate(old, new, Current.index)
  BY <1>2, <1>3, ReachRefl DEF UpToDate
<1>5. QED
  BY <1>1, <1>3, <1>4, MarkInv

\* A file that is Ok is skipped.
LEMMA KnownOkInv ==
    ASSUME ContentsDiffer, Inv, KnownOk
    PROVE  Inv'
<1>1. /\ pc = "process" /\ status[Current.index] = "Ok" /\ queue' = Front(queue) /\ pc' = "unwind"
      /\ UNCHANGED <<old, new, status, parents, childCounts, circular, cycles, root, known, answer>>
  BY DEF KnownOk
<1>2. Walking(Edges(old), Open, Entries, root, parents, circular, cycles, childCounts, Front(queue), 0, status)
  BY <1>1, Processing, WalkingKnown DEF Current
<1>3. /\ status \in [Files -> DependencyState] /\ Truthful(status) /\ Keeps(status) /\ Stays(status)
  BY <1>1 DEF Inv, Running
<1>4. QED
  BY <1>1, <1>2, <1>3, StepInv

\* A parent has more children.
LEMMA NextChildInv ==
    ASSUME ContentsDiffer, Inv, NextChild
    PROVE  Inv'
<1>1. /\ pc = "unwind" /\ parents # <<>> /\ Last(childCounts) > 1
      /\ childCounts' = [childCounts EXCEPT ![Len(childCounts)] = @ - 1]
      /\ pc' = "process"
      /\ UNCHANGED <<old, new, status, queue, parents, circular, cycles, root, known, answer>>
  BY DEF NextChild
<1>2. Walking(Edges(old), Open, Entries, root, parents, circular, cycles, childCounts, queue, 0, status)
  BY <1>1 DEF Inv, Running, Extra
<1>3. Len(childCounts) = Len(parents)
  BY <1>2 DEF Walking, Queued
<1>4. childCounts[Len(parents)] > 1 /\ childCounts' = [childCounts EXCEPT ![Len(parents)] = @ - 1]
  BY <1>1, <1>3 DEF Last
<1>5. Walking(Edges(old), Open, Entries, root, parents, circular, cycles, childCounts', queue, 1, status)
  BY <1>1, <1>2, <1>4, WalkingNext
<1>6. /\ status \in [Files -> DependencyState] /\ Truthful(status) /\ Keeps(status) /\ Stays(status)
  BY <1>1 DEF Inv, Running
<1>7. QED
  BY <1>1, <1>5, <1>6, StepInv

\* The file the walk started from is Ok.
LEMMA FinishInv ==
    ASSUME ContentsDiffer, Inv, Finish
    PROVE  Inv'
<1>1. pc # "idle" /\ Return(TRUE) /\ status' = status
  BY DEF Finish
<1>2. status \in [Files -> DependencyState] /\ Truthful(status)
  BY DEF Inv
<1>3. QED
  BY <1>1, <1>2, ReturnInv

\* A walk starts.
LEMMA AskInv ==
    ASSUME ContentsDiffer, Inv, NEW f \in Files, Ask(f)
    PROVE  Inv'
<1>1. /\ pc = "idle" /\ f \in new.files /\ Id(old, f) = Id(new, f) /\ pc' = "process" /\ root' = f
      /\ queue' = <<[name |-> f, index |-> f]>>
      /\ UNCHANGED <<old, new, status, parents, childCounts, circular, cycles, known, answer>>
  BY DEF Ask
<1>2. /\ parents = <<>> /\ childCounts = <<>> /\ circular = <<>> /\ cycles = <<>> /\ known = status
  BY <1>1 DEF Inv, Idle
<1>3. f \in Way'
  BY <1>1, ReachRefl DEF Way
<1> DEFINE r == [name |-> f, index |-> f]
           G == Edges(old)
<1>4. r \in Entries'
  BY <1>1, <1>3 DEF Entries
<1> HIDE DEF G
<1>5. Walking(G, Open', Entries', f, <<>>, <<>>, <<>>, <<>>, <<r>>, 1, status)
  <2> DEFINE base == [n \in 1..1 |-> 0]
             st == [n \in 1..0 |-> n]
             e == <<>>
             T == 1..Cardinality(Files) * Cardinality(Specs)
  <2>1. Shape(e, e, e, st)
    BY DEF Shape
  <2>2. OnPath(G, Open', e, status) /\ InCycles(G, Open', ToSet(e), e, e, st, status)
    BY DEF OnPath, InCycles
  <2>3. EdgesSeen(G, e, e, e, st, <<r>>, base, 1, status)
    BY DEF EdgesSeen
  <2>4. Queued(G, Entries', f, e, e, <<r>>, base, 1)
    <3>1. <<r>> \in Seq(Entries') /\ Len(<<r>>) = 1 /\ <<r>>[1].index = f
      BY <1>4
    <3> HIDE DEF T
    <3>2. e \in Seq(T) /\ Len(e) = 0
      OBVIOUS
    <3>3. base \in [1..Len(e) + 1 -> Nat] /\ base[1] = 0 /\ \A n \in 1..1 : base[n] = 0
      OBVIOUS
    <3>4. \A n \in 1..Len(e) : FALSE
      OBVIOUS
    <3>5. \A m, n \in 1..Len(e) + 1 : m <= n => base[m] <= base[n]
      BY <3>2, <3>3
    <3>6. Len(<<r>>) = base[Len(e) + 1] + 1
      BY <3>1, <3>2, <3>3
    <3> HIDE DEF base, e, r
    <3>7. QED
      BY <3>1, <3>2, <3>3, <3>4, <3>5, <3>6 DEF Queued, T
  <2>5. QED
    BY <2>1, <2>2, <2>3, <2>4 DEF Walking
<1>6. Truthful(status)' /\ Keeps(status)' /\ Stays(status)'
  BY <1>1, <1>2 DEF Inv, Truthful, Keeps, Stays
<1>7. Running'
  BY <1>1, <1>2, <1>5, <1>6 DEF Running, Extra, G
<1>8. f \in Files
  OBVIOUS
<1>9. QED
  BY <1>1, <1>6, <1>7, <1>8 DEF Inv

\* Files that depend on each other and files that are Ok are rightly found to be Ok.
LEMMA OkFiles ==
    ASSUME ContentsDiffer, Inv, pc # "idle", NEW D, D \subseteq Way,
           \A f \in D : /\ status[f] = "Unknown"
                        /\ f \in old.files => SameDeps(old, new, f)
                        /\ \A g \in Edges(old)[f] : status[g] = "Ok" \/ g \in D,
           NEW stat, stat = MarkedOk(status, D)
    PROVE  stat \in [Files -> DependencyState] /\ Truthful(stat) /\ Keeps(stat) /\ Stays(stat)
<1>1. /\ status \in [Files -> DependencyState] /\ Truthful(status) /\ Keeps(status) /\ Stays(status)
      /\ Edges(old) \in [Files -> SUBSET Files]
  BY Ways DEF Inv, Running
<1>2. stat \in [Files -> DependencyState] /\ \A f \in Files : stat[f] = IF f \in D THEN "Ok" ELSE status[f]
  BY <1>1 DEF MarkedOk, DependencyState
<1>3. Truthful(stat)
  <2> SUFFICES ASSUME NEW f \in Files
               PROVE  /\ stat[f] = "Ok" => /\ f \in old.files => SameDeps(old, new, f)
                                           /\ \A g \in Edges(old)[f] : stat[g] = "Ok"
                      /\ stat[f] = "Outdated" => f \in old.files /\ ~UpToDate(old, new, f)
    BY DEF Truthful
  <2>1. \A g \in Edges(old)[f] : g \in Files
    BY <1>1
  <2>2. CASE f \in D
    BY <1>2, <2>1, <2>2
  <2>3. CASE f \notin D
    <3>1. /\ status[f] = "Ok" => /\ f \in old.files => SameDeps(old, new, f)
                                 /\ \A g \in Edges(old)[f] : status[g] = "Ok"
          /\ status[f] = "Outdated" => f \in old.files /\ ~UpToDate(old, new, f)
      BY <1>1 DEF Truthful
    <3>2. QED
      BY <1>2, <2>1, <2>3, <3>1
  <2>4. QED
    BY <2>2, <2>3
<1>4. Keeps(stat)
  BY <1>1, <1>2 DEF Keeps
<1>5. Stays(stat)
  BY <1>1, <1>2 DEF Stays
<1>6. QED
  BY <1>2, <1>3, <1>4, <1>5

\* A parent without further children is done.
LEMMA CloseInv ==
    ASSUME ContentsDiffer, Inv, Close
    PROVE  Inv'
<1> DEFINE N == Len(parents)
           D == Done(parents, circular, cycles)
<1>1. /\ pc = "unwind" /\ parents # <<>> /\ Last(childCounts) = 1
      /\ LET first == Last(circular)
             ends == first >= Len(parents)
             done == IF ends /\ first # Infinity THEN Last(cycles) ELSE {}
         IN  /\ status' = [f \in Files |-> IF ends /\ (f = Last(parents) \/ f \in done)
                                           THEN "Ok" ELSE status[f]]
             /\ cycles' = IF ends /\ first # Infinity THEN Front(cycles) ELSE cycles
      /\ parents' = Front(parents)
      /\ childCounts' = Front(childCounts)
      /\ circular' = Front(circular)
      /\ UNCHANGED <<old, new, queue, pc, root, known, answer>>
  BY DEF Close
<1>2. Walking(Edges(old), Open, Entries, root, parents, circular, cycles, childCounts, queue, 0, status)
  BY <1>1 DEF Inv, Running, Extra
<1>3. PICK st, base :
        Shape(parents, circular, cycles, st) /\ Queued(Edges(old), Entries, root, parents, childCounts, queue, base, 0)
  BY <1>2 DEF Walking
<1>4. Len(childCounts) = N /\ Len(circular) = N /\ N \in Nat /\ N < Infinity /\ Infinity \in Nat
  BY <1>3, ShapePositions DEF Queued
<1>5. N \in 1..N /\ (circular[N] # Infinity => circular[N] \in 1..N)
  BY <1>1, <1>3, TopOfShape
<1>6. childCounts[N] = 1 /\ Last(circular) = circular[N] /\ Last(parents) = parents[N]
      /\ Last(cycles) = cycles[Len(cycles)]
  BY <1>1, <1>4 DEF Last
<1>7. cycles' = IF circular[N] = N THEN Front(cycles) ELSE cycles
  BY <1>1, <1>4, <1>5, <1>6
<1>8. status' = MarkedOk(status, D)
  <2>1. CASE circular[N] = Infinity
    BY <1>1, <1>4, <1>6, <2>1 DEF MarkedOk, Done
  <2>2. CASE circular[N] = N
    BY <1>1, <1>4, <1>6, <2>2 DEF MarkedOk, Done
  <2>3. CASE circular[N] # Infinity /\ circular[N] # N
    <3>1. ~(circular[N] >= N)
      BY <1>4, <1>5, <2>3
    <3>2. QED
      BY <1>1, <1>6, <2>3, <3>1 DEF MarkedOk, Done
  <2>4. QED
    BY <2>1, <2>2, <2>3
<1>9. /\ Edges(old) \in [Files -> SUBSET Files] /\ Open \in SUBSET Files /\ root \in Files
      /\ Open \subseteq Way /\ (\A f \in Open : SameDeps(old, new, f))
      /\ status \in [Files -> DependencyState] /\ pc # "idle"
  BY <1>1, Ways DEF Inv
<1> HIDE DEF D, N
<1>10. /\ Walking(Edges(old), Open, Entries, root, Front(parents), Front(circular), cycles', Front(childCounts),
                  queue, 0, status')
       /\ D \subseteq Open
       /\ \A f \in D : status[f] = "Unknown" /\ \A g \in Edges(old)[f] : status[g] = "Ok" \/ g \in D
  BY <1>1, <1>2, <1>6, <1>7, <1>8, <1>9, WalkingClose DEF D, N
<1>11. status' \in [Files -> DependencyState] /\ Truthful(status') /\ Keeps(status') /\ Stays(status')
  <2>1. D \subseteq Way
    BY <1>9, <1>10
  <2>2. \A f \in D : /\ status[f] = "Unknown"
                     /\ f \in old.files => SameDeps(old, new, f)
                     /\ \A g \in Edges(old)[f] : status[g] = "Ok" \/ g \in D
    BY <1>9, <1>10
  <2>3. QED
    BY <1>8, <1>9, <2>1, <2>2, OkFiles
<1>12. QED
  BY <1>1, <1>9, <1>10, <1>11, StepInv

\* The search for the cycle a file belongs to ends at the first parent of the cycle.
LEMMA CycleSearch ==
    ASSUME NEW st, Shape(parents, circular, cycles, st), NEW v, InCycle(v)
    PROVE  \E k \in 1..Len(cycles) :
              /\ v \in cycles[k] /\ CycleOf(v) = cycles[k]
              /\ CyclePositions(CycleOf(v)) # {} /\ Min(CyclePositions(CycleOf(v))) = st[k]
              /\ st[k] \in 1..Len(parents) /\ circular[st[k]] = st[k]
              /\ \A j \in 1..k - 1 : v \notin cycles[j]
<1>1. /\ Len(parents) \in Nat /\ Len(cycles) \in Nat
      /\ Len(parents) < Infinity /\ Infinity \in Nat
      /\ \A k \in 1..Len(cycles) : st[k] \in 1..Len(parents) /\ circular[st[k]] = st[k]
  BY ShapePositions
<1>2. /\ parents \in Seq(Files) /\ cycles \in Seq(SUBSET Files)
      /\ \A j, k \in 1..Len(cycles) : j < k => cycles[j] \cap cycles[k] = {}
      /\ \A n \in 1..Len(parents), k \in 1..Len(cycles) : parents[n] \in cycles[k] <=> circular[n] = st[k]
      /\ \A n \in 1..Len(parents) : circular[n] # Infinity => circular[n] \in 1..n
  BY DEF Shape
<1>3. DOMAIN cycles = 1..Len(cycles) /\ DOMAIN parents = 1..Len(parents)
  BY <1>2
<1>4. PICK k \in 1..Len(cycles) : v \in cycles[k]
  BY <1>3 DEF InCycle
<1>5. \A j \in 1..Len(cycles) : v \in cycles[j] => j = k
  <2> SUFFICES ASSUME NEW j \in 1..Len(cycles), v \in cycles[j], j # k
               PROVE  FALSE
    OBVIOUS
  <2>1. j < k \/ k < j
    BY <1>1
  <2>2. QED
    BY <1>2, <1>4, <2>1
<1>6. \A j \in 1..k - 1 : v \notin cycles[j]
  <2>1. \A j \in 1..k - 1 : j \in 1..Len(cycles) /\ j # k
    BY <1>1
  <2>2. QED
    BY <1>5, <2>1
<1>7. CycleOf(v) = cycles[k]
  <2> DEFINE Found(j) == v \in cycles[j] /\ \A n \in 1..j - 1 : v \notin cycles[n]
  <2>1. k \in DOMAIN cycles /\ Found(k)
    BY <1>3, <1>4, <1>6
  <2>2. \A j \in DOMAIN cycles : Found(j) => j = k
    BY <1>3, <1>5
  <2> HIDE DEF Found
  <2>3. (CHOOSE j \in DOMAIN cycles : Found(j)) = k
    BY <2>1, <2>2
  <2>4. QED
    BY <2>3 DEF CycleOf, Found
<1>8. CyclePositions(cycles[k]) = {n \in 1..Len(parents) : circular[n] = st[k]}
  <2>1. \A n \in 1..Len(parents) : circular[n] # Infinity /\ parents[n] \in cycles[k] <=> circular[n] = st[k]
    <3>1. st[k] # Infinity
      BY <1>1
    <3>2. QED
      BY <1>2, <3>1
  <2>2. QED
    BY <1>3, <2>1 DEF CyclePositions
<1>9. st[k] \in CyclePositions(cycles[k]) /\ CyclePositions(cycles[k]) \in SUBSET (0..Len(parents))
      /\ \A n \in CyclePositions(cycles[k]) : st[k] <= n
  <2>1. st[k] \in CyclePositions(cycles[k])
    BY <1>1, <1>8
  <2>2. \A n \in 1..Len(parents) : circular[n] = st[k] => st[k] <= n
    <3>1. \A n \in 1..Len(parents) : circular[n] = st[k] => circular[n] \in 1..n
      BY <1>1, <1>2
    <3>2. QED
      BY <3>1
  <2>3. QED
    BY <1>1, <1>8, <2>1, <2>2
<1>10. Min(CyclePositions(cycles[k])) = st[k]
  <2>1. /\ Min(CyclePositions(cycles[k])) \in CyclePositions(cycles[k])
        /\ \A n \in CyclePositions(cycles[k]) : Min(CyclePositions(cycles[k])) <= n
    BY <1>1, <1>9, MinOfPositions
  <2>2. QED
    BY <1>9, <2>1
<1>11. QED
  BY <1>1, <1>4, <1>6, <1>7, <1>9, <1>10

\* A member of a cycle is reached once more.
LEMMA KnownCycleInv ==
    ASSUME ContentsDiffer, Inv, KnownCycle
    PROVE  Inv'
<1> DEFINE self == Current.index
           G == Edges(old)
<1>1. /\ pc = "process" /\ status[self] = "Unknown" /\ InCycle(self)
      /\ LET r == SetCircularDependency(self, circular[Min(CyclePositions(CycleOf(self)))])
         IN  cycles' = r.cycles /\ circular' = r.circular
      /\ queue' = Front(queue) /\ pc' = "unwind"
      /\ UNCHANGED <<old, new, status, parents, childCounts, root, known, answer>>
  BY DEF KnownCycle
<1>2. /\ Walking(G, Open, Entries, root, parents, circular, cycles, childCounts, queue, 1, status)
      /\ self \in Files /\ \A m \in 1..Len(parents) : self # parents[m]
      /\ parents \in Seq(Files)
  BY <1>1, Processing
<1>3. PICK st, base : Under(G, Open, Entries, root, parents, circular, cycles, childCounts, queue, status, st, base)
  BY <1>2 DEF Walking, Under
<1>4. Shape(parents, circular, cycles, st) /\ InCycles(G, Open, ToSet(parents), parents, cycles, st, status)
  BY <1>3 DEF Under
<1>5. PICK k \in 1..Len(cycles) :
        /\ self \in cycles[k]
        /\ Min(CyclePositions(CycleOf(self))) = st[k]
        /\ st[k] \in 1..Len(parents) /\ circular[st[k]] = st[k]
        /\ \A j \in 1..k - 1 : self \notin cycles[j]
  BY <1>1, <1>4, CycleSearch
<1>6. /\ Len(parents) \in Nat /\ Len(cycles) \in Nat /\ Len(parents) < Infinity /\ Infinity \in Nat
      /\ \A j, l \in 1..Len(cycles) : j < l => st[j] < st[l]
      /\ \A j \in 1..Len(cycles) : st[j] \in 1..Len(parents)
  <2>1. \A j, l \in 1..Len(cycles) : j < l => st[j] < st[l]
    BY <1>4 DEF Shape
  <2>2. QED
    BY <1>4, <2>1, ShapePositions
<1> DEFINE e == st[k]
           kept == k - 1
<1>7. FirstOf(circular, e) = e /\ kept \in 0..Len(cycles) /\ e \in 1..Len(parents)
  BY <1>5, <1>6 DEF FirstOf
<1>8. \A j \in 1..Len(cycles) : st[j] < e <=> j <= kept
  <2> SUFFICES ASSUME NEW j \in 1..Len(cycles)
               PROVE  st[j] < st[k] <=> j <= k - 1
    OBVIOUS
  <2>1. CASE j < k
    BY <1>6, <2>1
  <2>2. CASE j = k
    BY <1>6, <2>2
  <2>3. CASE k < j
    <3>1. st[k] < st[j] /\ st[j] \in Nat /\ st[k] \in Nat
      BY <1>6, <2>3
    <3>2. QED
      BY <1>6, <2>3, <3>1
  <2>4. QED
    BY <1>6, <2>1, <2>2, <2>3
<1>9. /\ self \in Open /\ parents[e] \in Reach(G, self)
      /\ self \in ToSet(parents) \/ \A g \in G[self] : status[g] = "Ok" \/ g \in cycles[k]
  BY <1>2, <1>4, <1>5 DEF InCycles
<1>10. self \notin ToSet(parents)
  BY <1>2, ElementsOf
<1>11. \A g \in G[self] : status[g] = "Ok" \/ g \in cycles[k]
  BY <1>9, <1>10
<1> HIDE DEF self, kept, e
<1>12. Closes(G, Open, parents, circular, cycles, st, status, e, kept, self)
  BY <1>1, <1>5, <1>7, <1>8, <1>9 DEF Closes, kept
<1>13. \A g \in G[self] : status[g] = "Ok" \/ g \in Merged(parents, cycles, kept, e, self)
  <2>1. k \in kept + 1..Len(cycles)
    BY <1>6 DEF kept
  <2>2. QED
    BY <1>11, <2>1 DEF Merged
<1>14. /\ cycles' = MergedCycles(parents, cycles, kept, e, self)
       /\ circular' = MergedRuns(circular, e)
  <2>1. SetCircularDependency(self, e) =
             [first |-> FirstOf(circular, e),
              cycles |-> MergedCycles(parents, cycles, kept, FirstOf(circular, e), self),
              circular |-> MergedRuns(circular, FirstOf(circular, e))]
    BY <1>4, <1>7, <1>8, MergeEffect
  <2>2. circular[Min(CyclePositions(CycleOf(self)))] = e
    BY <1>5 DEF e, self
  <2>3. QED
    BY <1>1, <1>7, <2>1, <2>2 DEF self
<1>15. G \in [Files -> SUBSET Files] /\ Open \in SUBSET Files /\ self = Last(queue).index
  BY <1>1, Ways DEF self, Current
<1> HIDE DEF G
<1>16. Walking(G, Open, Entries, root, parents, MergedRuns(circular, e),
               MergedCycles(parents, cycles, kept, e, self), childCounts, Front(queue), 0, status)
  <2>1. e = FirstOf(circular, e)
    BY <1>7
  <2>2. QED
    BY ONLY <1>3, <1>12, <1>13, <1>15, <2>1, MergedPop
<1>17. /\ status \in [Files -> DependencyState] /\ Truthful(status) /\ Keeps(status) /\ Stays(status)
  BY <1>1 DEF Inv, Running
<1>18. QED
  BY <1>1, <1>14, <1>16, <1>17, StepInv DEF G

\* The parents and the children among the dependencies of the file that is processed.
ClosingOf(deps) == {i \in DOMAIN parents : \E d \in deps : parents[i] = d.index}
ChildrenOf(deps) == {d \in deps : d.index \notin ToSet(parents)}

\* The file that is processed depends on nothing else, and on the children.
ChildrenValid(children) ==
    /\ \A d \in children : /\ d.name \in Files /\ d.index \in Files /\ d.key \in Specs
                           /\ Id(old, d.index) = Id(new, d.name)
                           /\ d.index \in Edges(old)[Current.index] /\ d.index # Current.index
                           /\ \A m \in 1..Len(parents) : d.index # parents[m]
    /\ \A d, e \in children : d.index = e.index /\ d.key = e.key => d = e
ClosingValid(closing) ==
    closing # {} => /\ Min(closing) \in 1..Len(parents)
                    /\ parents[Min(closing)] \in Edges(old)[Current.index]
                    /\ \A n \in closing : n \in Min(closing)..Len(parents)

\* The dependencies of the file that is processed are parents or children.
LEMMA ExpandDeps ==
    ASSUME ContentsDiffer, Inv, pc = "process", status[Current.index] = "Unknown", Unchanged(Current),
           NEW deps \in Dependencies(Current)
    PROVE  /\ \A g \in Edges(old)[Current.index] :
                 \/ g = Current.index
                 \/ \E n \in ClosingOf(deps) : parents[n] = g
                 \/ \E d \in ChildrenOf(deps) : d.index = g
           /\ ClosingOf(deps) # {} \/ ChildrenOf(deps) # {} => Current.index \in Open
           /\ ClosingValid(ClosingOf(deps))
           /\ ChildrenValid(ChildrenOf(deps))
<1> DEFINE self == Current.index
           closing == ClosingOf(deps)
           children == ChildrenOf(deps)
<1> USE DEF ClosingOf, ChildrenOf
<1>1. /\ Current \in [name : Files, index : Files] /\ self \in Files
      /\ Id(old, self) = Id(new, Current.name) /\ parents \in Seq(Files)
      /\ status[self] = "Unknown" /\ Unchanged(Current) /\ self \in old.files => self \in Open
  BY Processing
<1>2. Related /\ old \in Programs
  BY InstanceRelated DEF Related
<1>3. /\ \A d \in deps :
           /\ d.name \in Files /\ d.index \in Files /\ d.key \in Specs
           /\ Id(old, d.index) = Id(new, d.name)
           /\ d.index \in Edges(old)[self] /\ d.index # self
      /\ \A g \in Edges(old)[self] : g = self \/ \E d \in deps : d.index = g
      /\ \A d, e \in deps : d.index = e.index /\ d.key = e.key => d = e
  BY <1>1, <1>2, DependencyFacts
<1>4. DOMAIN parents = 1..Len(parents) /\ Len(parents) \in Nat
      /\ \A v : v \in ToSet(parents) <=> \E n \in 1..Len(parents) : v = parents[n]
  BY <1>1, ElementsOf
<1>5. \A d \in deps : d \in children \/ \E n \in closing : parents[n] = d.index
  BY <1>4
<1>6. \A g \in Edges(old)[self] :
        g = self \/ (\E n \in closing : parents[n] = g) \/ \E d \in children : d.index = g
  BY <1>3, <1>5
<1>7. ASSUME closing # {} \/ children # {}
      PROVE  self \in Open
  <2>1. \E d \in deps : d.index \in Edges(old)[self]
    BY <1>3, <1>7
  <2>2. self \in old.files
    BY <1>1, <1>2, <2>1, UnchangedFiles
  <2>3. QED
    BY <1>1, <2>2
<1>8. ASSUME closing # {}
      PROVE  /\ Min(closing) \in 1..Len(parents)
             /\ parents[Min(closing)] \in Edges(old)[self]
             /\ \A n \in closing : n \in Min(closing)..Len(parents)
  <2>1. closing \in SUBSET (0..Len(parents)) /\ closing \in SUBSET (1..Len(parents))
    BY <1>4
  <2>2. Min(closing) \in closing /\ \A n \in closing : Min(closing) <= n
    BY <1>4, <1>8, <2>1, MinOfPositions
  <2>3. \E d \in deps : parents[Min(closing)] = d.index
    BY <2>2
  <2>4. \A n \in closing : n \in Min(closing)..Len(parents)
    BY <1>4, <2>1, <2>2
  <2>5. QED
    BY <1>3, <2>1, <2>2, <2>3, <2>4
<1>9. \A d \in children : d \in deps /\ \A m \in 1..Len(parents) : d.index # parents[m]
  BY <1>4
<1>10. ClosingValid(closing)
  BY <1>8 DEF ClosingValid
<1>11. ChildrenValid(children)
  BY <1>3, <1>9 DEF ChildrenValid
<1>12. QED
  BY <1>6, <1>7, <1>10, <1>11

\* The entries of the queue for children that are processed in some order
EntriesFor(order) == [i \in DOMAIN order |-> [name |-> order[i].name, index |-> order[i].index]]

\* The children that are put into the queue.
LEMMA ExpandOrder ==
    ASSUME ContentsDiffer, Inv, pc = "process", status[Current.index] = "Unknown",
           Current.index \in Open,
           NEW children, children # {}, ChildrenValid(children),
           NEW order \in SetToSeqs(children)
    PROVE  /\ EntriesFor(order) \in Seq(Entries) /\ Len(EntriesFor(order)) = Cardinality(children)
           /\ Len(EntriesFor(order)) \in 1..Cardinality(Files) * Cardinality(Specs)
           /\ Children(Edges(old), parents, Current.index, EntriesFor(order))
           /\ \A d \in children : \E x \in 1..Len(EntriesFor(order)) : EntriesFor(order)[x].index = d.index
<1> DEFINE self == Current.index
           G == Edges(old)
           Most == Cardinality(Files) * Cardinality(Specs)
           o == EntriesFor(order)
<1>1. /\ \A d \in children : /\ d.name \in Files /\ d.index \in Files /\ d.key \in Specs
                             /\ Id(old, d.index) = Id(new, d.name)
                             /\ d.index \in G[self] /\ d.index # self
                             /\ \A m \in 1..Len(parents) : d.index # parents[m]
      /\ \A d, e \in children : d.index = e.index /\ d.key = e.key => d = e
  BY DEF ChildrenValid
<1>2. G[self] \subseteq Way
  <2>1. known[self] = "Unknown"
    BY Processing DEF Inv, Keeps
  <2>2. QED
    BY <1>1, <2>1, Ways
<1> HIDE DEF self, G, Most
<1>3. IsFiniteSet(children) /\ Cardinality(children) <= Most
  BY <1>1, FewDependencies DEF Most
<1>4. Most \in Nat
  BY ManyChildren DEF Most
<1> DEFINE N == Cardinality(children)
<1>5. /\ DOMAIN order = 1..N /\ N \in Nat \ {0}
      /\ \A n \in 1..N : order[n] \in children
      /\ \A d \in children : \E n \in 1..N : order[n] = d
  <2>1. IsFiniteSet(children) /\ children # {} /\ order \in SetToSeqs(children)
    BY <1>3
  <2>2. QED
    BY ONLY <2>1, OrderFacts
<1> HIDE DEF N
<1>6. o = [n \in 1..N |-> [name |-> order[n].name, index |-> order[n].index]]
  BY <1>5 DEF EntriesFor
<1> HIDE DEF o
<1>7. \A n \in 1..N : [name |-> order[n].name, index |-> order[n].index] \in Entries
  BY <1>1, <1>2, <1>5 DEF Entries
<1>8. o \in [1..N -> Entries]
  BY <1>6, <1>7
<1>9. o \in Seq(Entries) /\ Len(o) = N
  BY <1>5, <1>8, FunctionIsSeq
<1>10. \A n \in 1..N : o[n].index = order[n].index
  BY <1>6
<1>11. Children(G, parents, self, o)
  BY <1>1, <1>5, <1>9, <1>10 DEF Children
<1>12. \A d \in children : \E x \in 1..N : o[x].index = d.index
  BY <1>5, <1>10
<1>13. N \in 1..Most
  BY <1>3, <1>4, <1>5 DEF N
<1>14. QED
  BY <1>9, <1>11, <1>12, <1>13 DEF N, self, G, Most, o

\* A dependency on parents closes a cycle.
LEMMA ExpandCloses ==
    ASSUME ContentsDiffer, Inv, pc = "process", status[Current.index] = "Unknown", ~InCycle(Current.index),
           Current.index \in Open, NEW closing, closing # {}, ClosingValid(closing), NEW st, NEW base,
           Under(Edges(old), Open, Entries, root, parents, circular, cycles, childCounts, queue, status, st, base)
    PROVE  \E kept :
              /\ Closes(Edges(old), Open, parents, circular, cycles, st, status, Min(closing), kept, Current.index)
              /\ SetCircularDependency(Current.index, Min(closing)) =
                   [first |-> FirstOf(circular, Min(closing)),
                    cycles |-> MergedCycles(parents, cycles, kept, FirstOf(circular, Min(closing)), Current.index),
                    circular |-> MergedRuns(circular, FirstOf(circular, Min(closing)))]
<1> DEFINE self == Current.index
           G == Edges(old)
           e == Min(closing)
           F == FirstOf(circular, e)
<1>1. e \in 1..Len(parents) /\ parents[e] \in G[self]
  BY DEF ClosingValid
<1>2. Shape(parents, circular, cycles, st)
  BY DEF Under
<1>3. G \in [Files -> SUBSET Files] /\ Open \in SUBSET Files /\ self \in Files
  BY Ways
<1> HIDE DEF G, e, self
<1>4. e \in Nat /\ circular[e] \in Nat /\ Len(cycles) \in Nat /\ cycles \in Seq(SUBSET Files)
  <2>1. e \in Nat
    BY <1>1
  <2>2. cycles \in Seq(SUBSET Files)
    BY <1>2 DEF Shape
  <2>3. QED
    BY <1>1, <1>2, <2>1, <2>2, ShapePositions
<1>5. F \in Nat
  BY <1>4 DEF FirstOf
<1> HIDE DEF F
<1>6. PICK kept \in 0..Len(cycles) : \A k \in 1..Len(cycles) : st[k] < F <=> k <= kept
  BY ONLY <1>2, <1>5, Kept
<1>7. \A k \in 1..kept : self \notin cycles[k]
  BY <1>4 DEF InCycle, self
<1>8. parents[e] \in Reach(G, self)
  <2>1. self \in Reach(G, self) /\ Closed(G, Reach(G, self))
    BY <1>3, ReachRefl, ReachClosed
  <2>2. QED
    BY <1>1, <1>3, <2>1 DEF Closed
<1>9. Closes(G, Open, parents, circular, cycles, st, status, e, kept, self)
  BY <1>1, <1>6, <1>7, <1>8 DEF Closes, F, self
<1>10. SetCircularDependency(self, e) =
         [first |-> F, cycles |-> MergedCycles(parents, cycles, kept, F, self), circular |-> MergedRuns(circular, F)]
  <2>1. \A k \in 1..Len(cycles) : st[k] < FirstOf(circular, e) <=> k <= kept
    BY <1>6 DEF F
  <2>2. kept \in 0..Len(cycles)
    BY <1>6
  <2>3. QED
    BY ONLY <1>1, <1>2, <2>1, <2>2, MergeEffect DEF F
<1>11. QED
  BY <1>9, <1>10 DEF G, e, F, self

\* A file without dependencies is Ok.
LEMMA ExpandLeaf ==
    ASSUME ContentsDiffer, Inv, pc = "process", status[Current.index] = "Unknown", ~InCycle(Current.index),
           Unchanged(Current), \A g \in Edges(old)[Current.index] : g = Current.index,
           queue' = Front(queue), pc' = "unwind", status' = [status EXCEPT ![Current.index] = "Ok"],
           UNCHANGED <<old, new, parents, childCounts, circular, cycles, root, known, answer>>
    PROVE  Inv'
<1> DEFINE self == Current.index
           G == Edges(old)
<1>1. /\ Walking(G, Open, Entries, root, parents, circular, cycles, childCounts, queue, 1, status)
      /\ Current \in [name : Files, index : Files] /\ self \in Files /\ self \in Way
      /\ Id(old, Current.index) = Id(new, Current.name)
  BY Processing
<1>2. /\ status \in [Files -> DependencyState] /\ G \in [Files -> SUBSET Files] /\ pc # "idle"
      /\ self = Last(queue).index
  BY Ways DEF Inv, Current
<1>3. \A k \in 1..Len(cycles) : self \notin cycles[k]
  <2>1. cycles \in Seq(SUBSET Files)
    BY <1>1 DEF Walking, Shape
  <2>2. QED
    BY <2>1 DEF InCycle
<1>4. self \in old.files => SameDeps(old, new, self)
  BY <1>1, UnchangedFiles, InstanceRelated
<1> HIDE DEF G, self
<1>5. Walking(G, Open, Entries, root, parents, circular, cycles, childCounts, Front(queue), 0,
              [status EXCEPT ![self] = "Ok"])
  BY ONLY <1>1, <1>2, <1>3, WalkingLeaf
<1>6. [status EXCEPT ![self] = "Ok"] = MarkedOk(status, {self})
  BY <1>2 DEF MarkedOk
<1>7. /\ status' \in [Files -> DependencyState] /\ Truthful(status') /\ Keeps(status') /\ Stays(status')
  <2>1. {self} \subseteq Way
    BY <1>1
  <2>2. \A f \in {self} : /\ status[f] = "Unknown"
                          /\ f \in old.files => SameDeps(old, new, f)
                          /\ \A g \in Edges(old)[f] : status[g] = "Ok" \/ g \in {self}
    BY <1>4 DEF self
  <2>3. status' = MarkedOk(status, {self})
    BY <1>6 DEF self
  <2>4. QED
    BY <1>2, <2>1, <2>2, <2>3, OkFiles
<1>8. Walking(Edges(old), Open, Entries, root, parents', circular', cycles', childCounts', queue', 0, status')
  BY <1>5 DEF G, self
<1>9. QED
  BY <1>2, <1>7, <1>8, StepInv

\* The children of a file are processed next.
LEMMA ExpandPush ==
    ASSUME ContentsDiffer, Inv, pc = "process", status[Current.index] = "Unknown", ~InCycle(Current.index),
           Current.index \in Open,
           NEW children, children # {}, ChildrenValid(children),
           \A g \in Edges(old)[Current.index] : g = Current.index \/ \E d \in children : d.index = g,
           NEW order \in SetToSeqs(children),
           queue' = Front(queue) \o EntriesFor(order),
           parents' = Append(parents, Current.index), childCounts' = Append(childCounts, Cardinality(children)),
           circular' = Append(circular, Infinity), pc' = "process",
           UNCHANGED <<old, new, status, cycles, root, known, answer>>
    PROVE  Inv'
<1> DEFINE self == Current.index
           G == Edges(old)
           o == EntriesFor(order)
<1>1. Walking(G, Open, Entries, root, parents, circular, cycles, childCounts, queue, 1, status)
  BY Processing
<1>2. G \in [Files -> SUBSET Files] /\ Open \in SUBSET Files /\ pc # "idle" /\ self = Last(queue).index
  BY Ways DEF Current
<1>3. \A k \in 1..Len(cycles) : self \notin cycles[k]
  <2>1. cycles \in Seq(SUBSET Files)
    BY <1>1 DEF Walking, Shape
  <2>2. QED
    BY <2>1 DEF InCycle
<1> HIDE DEF o
<1>4. /\ o \in Seq(Entries) /\ Len(o) = Cardinality(children)
      /\ Len(o) \in 1..Cardinality(Files) * Cardinality(Specs)
      /\ Children(G, parents, self, o)
      /\ \A d \in children : \E x \in 1..Len(o) : o[x].index = d.index
  <2>1. /\ ContentsDiffer /\ Inv /\ pc = "process" /\ status[Current.index] = "Unknown"
        /\ Current.index \in Open /\ children # {} /\ ChildrenValid(children) /\ order \in SetToSeqs(children)
    OBVIOUS
  <2>2. QED
    BY ONLY <2>1, ExpandOrder DEF self, G, o
<1>5. self \in Open /\ status[self] = "Unknown"
  OBVIOUS
<1>6. \A g \in G[self] : g = self \/ \E d \in children : d.index = g
  OBVIOUS
<1> HIDE DEF G, self
<1>7. \A g \in Files : g \in G[self] => g = self \/ \E x \in 1..Len(o) : o[x].index = g
  BY <1>4, <1>6
<1>8. Walking(G, Open, Entries, root, Append(parents, self), Append(circular, Infinity), cycles,
              Append(childCounts, Len(o)), Front(queue) \o o, 1, status)
  BY ONLY <1>1, <1>2, <1>3, <1>4, <1>5, <1>7, WalkingPush
<1>9. Walking(Edges(old), Open, Entries, root, parents', circular', cycles', childCounts', queue', 1, status')
  BY <1>4, <1>8 DEF G, self, o
<1>10. status' \in [Files -> DependencyState] /\ Truthful(status') /\ Keeps(status') /\ Stays(status')
  BY <1>2 DEF Inv, Running
<1>11. QED
  BY <1>2, <1>9, <1>10, StepInv

\* A file that depends on parents only is left behind.
LEMMA ExpandMergedPop ==
    ASSUME ContentsDiffer, Inv, pc = "process", status[Current.index] = "Unknown", ~InCycle(Current.index),
           Current.index \in Open,
           NEW closing, closing # {}, ClosingValid(closing),
           \A g \in Edges(old)[Current.index] : g = Current.index \/ \E n \in closing : parents[n] = g,
           cycles' = SetCircularDependency(Current.index, Min(closing)).cycles,
           circular' = SetCircularDependency(Current.index, Min(closing)).circular,
           queue' = Front(queue), pc' = "unwind",
           UNCHANGED <<old, new, status, parents, childCounts, root, known, answer>>
    PROVE  Inv'
<1> DEFINE self == Current.index
           G == Edges(old)
           e == Min(closing)
           F == FirstOf(circular, e)
<1>1. /\ Walking(G, Open, Entries, root, parents, circular, cycles, childCounts, queue, 1, status)
      /\ self \in Files /\ parents \in Seq(Files)
  BY Processing
<1>2. G \in [Files -> SUBSET Files] /\ Open \in SUBSET Files /\ pc # "idle" /\ self = Last(queue).index
  BY Ways DEF Current
<1>3. PICK st, base : Under(G, Open, Entries, root, parents, circular, cycles, childCounts, queue, status, st, base)
  BY <1>1 DEF Walking, Under
<1>4. PICK kept :
        /\ Closes(G, Open, parents, circular, cycles, st, status, e, kept, self)
        /\ SetCircularDependency(self, e) =
             [first |-> F, cycles |-> MergedCycles(parents, cycles, kept, F, self), circular |-> MergedRuns(circular, F)]
  BY <1>3, ExpandCloses
<1>5. /\ e \in 1..Len(parents) /\ Len(parents) \in Nat
      /\ \A n \in closing : n \in e..Len(parents)
  BY <1>1 DEF ClosingValid
<1>6. \A g \in G[self] : g = self \/ \E n \in closing : parents[n] = g
  OBVIOUS
<1>7. cycles' = MergedCycles(parents, cycles, kept, F, self) /\ circular' = MergedRuns(circular, F)
  BY <1>4
<1> HIDE DEF self, G, e
<1>8. F \in 1..e
  <2>1. circular[e] = Infinity \/ circular[e] \in 1..e
    BY <1>3, <1>5 DEF Under, Shape
  <2>2. QED
    BY <1>5, <2>1 DEF FirstOf
<1>9. F = FirstOf(circular, e)
  OBVIOUS
<1> HIDE DEF F
<1>10. \A n \in e..Len(parents) : n \in F..Len(parents)
  BY <1>5, <1>8
<1>11. \A g \in G[self] : status[g] = "Ok" \/ g \in Merged(parents, cycles, kept, F, self)
  BY <1>5, <1>6, <1>10 DEF Merged
<1>12. Walking(G, Open, Entries, root, parents, MergedRuns(circular, F),
               MergedCycles(parents, cycles, kept, F, self), childCounts, Front(queue), 0, status)
  BY ONLY <1>2, <1>3, <1>4, <1>9, <1>11, MergedPop
<1>13. Walking(Edges(old), Open, Entries, root, parents', circular', cycles', childCounts', queue', 0, status')
  BY <1>7, <1>12 DEF G
<1>14. status' \in [Files -> DependencyState] /\ Truthful(status') /\ Keeps(status') /\ Stays(status')
  BY <1>2 DEF Inv, Running
<1>15. QED
  BY <1>2, <1>13, <1>14, StepInv

\* The children of a file that depends on parents, too, are processed next.
LEMMA ExpandMergedPush ==
    ASSUME ContentsDiffer, Inv, pc = "process", status[Current.index] = "Unknown", ~InCycle(Current.index),
           Current.index \in Open,
           NEW closing, closing # {}, ClosingValid(closing),
           NEW children, children # {}, ChildrenValid(children),
           \A g \in Edges(old)[Current.index] :
              g = Current.index \/ (\E n \in closing : parents[n] = g) \/ \E d \in children : d.index = g,
           NEW order \in SetToSeqs(children),
           queue' = Front(queue) \o EntriesFor(order),
           parents' = Append(parents, Current.index), childCounts' = Append(childCounts, Cardinality(children)),
           cycles' = SetCircularDependency(Current.index, Min(closing)).cycles,
           circular' = Append(SetCircularDependency(Current.index, Min(closing)).circular,
                              SetCircularDependency(Current.index, Min(closing)).first),
           pc' = "process",
           UNCHANGED <<old, new, status, root, known, answer>>
    PROVE  Inv'
<1> DEFINE self == Current.index
           G == Edges(old)
           e == Min(closing)
           F == FirstOf(circular, e)
           o == EntriesFor(order)
<1>1. /\ Walking(G, Open, Entries, root, parents, circular, cycles, childCounts, queue, 1, status)
      /\ self \in Files /\ parents \in Seq(Files)
  BY Processing
<1>2. G \in [Files -> SUBSET Files] /\ Open \in SUBSET Files /\ pc # "idle" /\ self = Last(queue).index
  BY Ways DEF Current
<1>3. PICK st, base : Under(G, Open, Entries, root, parents, circular, cycles, childCounts, queue, status, st, base)
  BY <1>1 DEF Walking, Under
<1>4. PICK kept :
        /\ Closes(G, Open, parents, circular, cycles, st, status, e, kept, self)
        /\ SetCircularDependency(self, e) =
             [first |-> F, cycles |-> MergedCycles(parents, cycles, kept, F, self), circular |-> MergedRuns(circular, F)]
  BY <1>3, ExpandCloses
<1>5. \A n \in closing : n \in e..Len(parents)
  BY DEF ClosingValid
<1> HIDE DEF o
<1>6. /\ o \in Seq(Entries) /\ Len(o) = Cardinality(children)
      /\ Len(o) \in 1..Cardinality(Files) * Cardinality(Specs)
      /\ Children(G, parents, self, o)
      /\ \A d \in children : \E x \in 1..Len(o) : o[x].index = d.index
  <2>1. /\ ContentsDiffer /\ Inv /\ pc = "process" /\ status[Current.index] = "Unknown"
        /\ Current.index \in Open /\ children # {} /\ ChildrenValid(children) /\ order \in SetToSeqs(children)
    OBVIOUS
  <2>2. QED
    BY ONLY <2>1, ExpandOrder DEF self, G, o
<1>7. \A g \in G[self] : g = self \/ (\E n \in closing : parents[n] = g) \/ \E d \in children : d.index = g
  OBVIOUS
<1>8. /\ cycles' = MergedCycles(parents, cycles, kept, F, self)
      /\ circular' = Append(MergedRuns(circular, F), F)
      /\ F = FirstOf(circular, e)
  BY <1>4
<1> HIDE DEF self, G, e, F
<1>9. ClosesWith(G, parents, self, e, o)
  BY <1>5, <1>6, <1>7 DEF ClosesWith
<1>10. Walking(G, Open, Entries, root, Append(parents, self), Append(MergedRuns(circular, F), F),
               MergedCycles(parents, cycles, kept, F, self), Append(childCounts, Len(o)), Front(queue) \o o, 1, status)
  <2>1. Closes(G, Open, parents, circular, cycles, st, status, e, kept, self) /\ F = FirstOf(circular, e)
    BY <1>4, <1>8
  <2>2. /\ o \in Seq(Entries) /\ Len(o) \in 1..Cardinality(Files) * Cardinality(Specs)
        /\ Children(G, parents, self, o)
    BY <1>6
  <2>3. QED
    BY ONLY <1>2, <1>3, <1>9, <2>1, <2>2, MergedPush
<1>11. Walking(Edges(old), Open, Entries, root, parents', circular', cycles', childCounts', queue', 1, status')
  BY <1>6, <1>8, <1>10 DEF G, self, o
<1>12. status' \in [Files -> DependencyState] /\ Truthful(status') /\ Keeps(status') /\ Stays(status')
  BY <1>2 DEF Inv, Running
<1>13. QED
  BY <1>2, <1>11, <1>12, StepInv

\* The dependencies of a file are looked at.
LEMMA ExpandInv ==
    ASSUME ContentsDiffer, Inv, Expand
    PROVE  Inv'
<1> DEFINE self == Current.index
           Result(deps) == IF ClosingOf(deps) = {}
                           THEN [first |-> Infinity, cycles |-> cycles, circular |-> circular]
                           ELSE SetCircularDependency(self, Min(ClosingOf(deps)))
<1>1. /\ ContentsDiffer /\ Inv
      /\ pc = "process" /\ status[Current.index] = "Unknown" /\ ~InCycle(Current.index) /\ Unchanged(Current)
      /\ UNCHANGED <<old, new, root, known, answer>>
  BY DEF Expand
<1>2. PICK deps \in Dependencies(Current) :
        /\ cycles' = Result(deps).cycles
        /\ status' = IF ClosingOf(deps) = {} /\ ChildrenOf(deps) = {}
                     THEN [status EXCEPT ![self] = "Ok"] ELSE status
        /\ \/ /\ ChildrenOf(deps) = {}
              /\ queue' = Front(queue)
              /\ pc' = "unwind"
              /\ circular' = Result(deps).circular
              /\ UNCHANGED <<parents, childCounts>>
           \/ /\ ChildrenOf(deps) # {}
              /\ \E order \in SetToSeqs(ChildrenOf(deps)) : queue' = Front(queue) \o EntriesFor(order)
              /\ parents' = Append(parents, self)
              /\ childCounts' = Append(childCounts, Cardinality(ChildrenOf(deps)))
              /\ circular' = Append(Result(deps).circular, Result(deps).first)
              /\ pc' = "process"
  BY DEF Expand, ClosingOf, ChildrenOf, EntriesFor
<1> DEFINE closing == ClosingOf(deps)
           children == ChildrenOf(deps)
<1>3. /\ \A g \in Edges(old)[Current.index] :
            \/ g = Current.index
            \/ \E n \in closing : parents[n] = g
            \/ \E d \in children : d.index = g
      /\ closing # {} \/ children # {} => Current.index \in Open
      /\ ClosingValid(closing)
      /\ ChildrenValid(children)
  BY <1>1, <1>2, ExpandDeps
<1>4. CASE closing = {} /\ children = {}
  <2>1. /\ queue' = Front(queue) /\ pc' = "unwind" /\ status' = [status EXCEPT ![Current.index] = "Ok"]
        /\ UNCHANGED <<old, new, parents, childCounts, circular, cycles, root, known, answer>>
    BY <1>1, <1>2, <1>4
  <2>2. \A g \in Edges(old)[Current.index] : g = Current.index
    BY <1>3, <1>4
  <2>3. QED
    BY ONLY <1>1, <2>1, <2>2, ExpandLeaf
<1>5. CASE closing = {} /\ children # {}
  <2>1. PICK order \in SetToSeqs(children) : queue' = Front(queue) \o EntriesFor(order)
    BY <1>2, <1>5
  <2>2. /\ parents' = Append(parents, Current.index) /\ childCounts' = Append(childCounts, Cardinality(children))
        /\ circular' = Append(circular, Infinity) /\ pc' = "process"
        /\ UNCHANGED <<old, new, status, cycles, root, known, answer>>
    BY <1>1, <1>2, <1>5
  <2>3. /\ \A g \in Edges(old)[Current.index] : g = Current.index \/ \E d \in children : d.index = g
        /\ Current.index \in Open /\ children # {} /\ ChildrenValid(children)
    BY <1>3, <1>5
  <2> HIDE DEF children
  <2>4. QED
    BY ONLY <1>1, <2>1, <2>2, <2>3, ExpandPush
<1>6. CASE closing # {} /\ children = {}
  <2>1. /\ cycles' = SetCircularDependency(Current.index, Min(closing)).cycles
        /\ circular' = SetCircularDependency(Current.index, Min(closing)).circular
        /\ queue' = Front(queue) /\ pc' = "unwind"
        /\ UNCHANGED <<old, new, status, parents, childCounts, root, known, answer>>
    BY <1>1, <1>2, <1>6
  <2>2. /\ \A g \in Edges(old)[Current.index] : g = Current.index \/ \E n \in closing : parents[n] = g
        /\ Current.index \in Open /\ closing # {} /\ ClosingValid(closing)
    BY <1>3, <1>6
  <2> HIDE DEF closing
  <2>3. QED
    BY ONLY <1>1, <2>1, <2>2, ExpandMergedPop
<1>7. CASE closing # {} /\ children # {}
  <2>1. PICK order \in SetToSeqs(children) : queue' = Front(queue) \o EntriesFor(order)
    BY <1>2, <1>7
  <2>2. /\ parents' = Append(parents, Current.index) /\ childCounts' = Append(childCounts, Cardinality(children))
        /\ cycles' = SetCircularDependency(Current.index, Min(closing)).cycles
        /\ circular' = Append(SetCircularDependency(Current.index, Min(closing)).circular,
                              SetCircularDependency(Current.index, Min(closing)).first)
        /\ pc' = "process"
        /\ UNCHANGED <<old, new, status, root, known, answer>>
    BY <1>1, <1>2, <1>7
  <2>3. /\ \A g \in Edges(old)[Current.index] :
              g = Current.index \/ (\E n \in closing : parents[n] = g) \/ \E d \in children : d.index = g
        /\ Current.index \in Open
        /\ closing # {} /\ ClosingValid(closing)
        /\ children # {} /\ ChildrenValid(children)
    BY <1>3, <1>7
  <2> HIDE DEF closing, children
  <2>4. QED
    BY ONLY <1>1, <2>1, <2>2, <2>3, ExpandMergedPush
<1>8. QED
  BY <1>4, <1>5, <1>6, <1>7
-----------------------------------------------------------------------------
(* The invariant                                                           *)

\* Nothing is known at first.
LEMMA InitInv == Init => Inv
<1> SUFFICES ASSUME Init
             PROVE  Inv
  OBVIOUS
<1>1. PICK I \in Instances : old = I[1] /\ new = I[2]
  BY DEF Init
<1>2. /\ status = [f \in Files |-> "Unknown"] /\ known = status
      /\ queue = <<>> /\ parents = <<>> /\ childCounts = <<>> /\ circular = <<>> /\ cycles = <<>>
      /\ pc = "idle" /\ root = None /\ answer = None
  BY DEF Init
<1>3. <<old, new>> \in Instances
  BY <1>1, InstancesAssumption
<1>4. status \in [Files -> DependencyState] /\ Truthful(status)
  BY <1>2 DEF DependencyState, Truthful
<1>5. Keeps(status) /\ Idle
  BY <1>2 DEF Keeps, Idle
<1>6. QED
  BY <1>2, <1>3, <1>4, <1>5 DEF Inv

\* Every step keeps what is known of the stacks and the statuses.
LEMMA NextInv == ContentsDiffer /\ Inv /\ [Next]_vars => Inv'
<1> SUFFICES ASSUME ContentsDiffer, Inv, [Next]_vars
             PROVE  Inv'
  OBVIOUS
<1>1. CASE KnownOutdated
  BY <1>1, KnownOutdatedInv
<1>2. CASE KnownOk
  BY <1>2, KnownOkInv
<1>3. CASE KnownCycle
  BY <1>3, KnownCycleInv
<1>4. CASE Changed
  BY <1>4, ChangedInv
<1>5. CASE Expand
  BY <1>5, ExpandInv
<1>6. CASE Close
  BY <1>6, CloseInv
<1>7. CASE NextChild
  BY <1>7, NextChildInv
<1>8. CASE Finish
  BY <1>8, FinishInv
<1>9. ASSUME NEW f \in Files, Ask(f)
      PROVE  Inv'
  BY <1>9, AskInv
<1>10. CASE UNCHANGED vars
  <2>1. UNCHANGED <<old, new, known, status, root>>
    BY <1>10 DEF vars
  <2>2. Way' = Way
    BY <2>1 DEF Way
  <2>3. Open' = Open /\ Entries' = Entries
    BY <2>1, <2>2 DEF Open, Entries
  <2>4. Truthful(status)' = Truthful(status) /\ Keeps(status)' = Keeps(status) /\ Stays(status)' = Stays(status)
    BY <2>1, <2>2 DEF Truthful, Keeps, Stays
  <2>5. Idle' = Idle /\ Extra' = Extra
    BY <1>10 DEF vars, Idle, Extra
  <2>6. Running' = Running
    BY <1>10, <2>3, <2>4, <2>5 DEF vars, Running
  <2>7. QED
    BY <1>10, <2>4, <2>5, <2>6 DEF vars, Inv
<1>11. QED
  BY <1>1, <1>2, <1>3, <1>4, <1>5, <1>6, <1>7, <1>8, <1>9, <1>10 DEF Next, Step

\* The invariant holds in every state of every walk.
LEMMA Invariance == ASSUME ContentsDiffer PROVE Spec => []Inv
BY InitInv, NextInv, PTL DEF Spec

\* A file that is Ok is up to date, one that is outdated is not.
LEMMA TrueStatuses ==
    ASSUME ContentsDiffer, Inv, NEW stat, Truthful(stat), NEW f \in Files
    PROVE  /\ stat[f] = "Ok" => UpToDate(old, new, f)
           /\ stat[f] = "Outdated" => ~UpToDate(old, new, f)
<1>1. ASSUME stat[f] = "Ok"
      PROVE  UpToDate(old, new, f)
  <2> DEFINE X == {g \in Files : stat[g] = "Ok"}
             E == Edges(old)
  <2>1. E \in [Files -> SUBSET Files]
    BY InstanceRelated, ProgramFields DEF Related
  <2>2. \A g \in X : E[g] \subseteq X
    BY <2>1 DEF Truthful
  <2>3. X \in SUBSET Files /\ f \in X /\ Closed(E, X)
    BY <1>1, <2>2 DEF Closed
  <2>4. Reach(E, f) \subseteq X
    <3> HIDE DEF X, E
    <3>1. QED
      BY <2>3, ReachLeast
  <2>5. \A g \in X : g \in old.files => SameDeps(old, new, g)
    BY DEF Truthful
  <2>6. QED
    BY <2>4, <2>5 DEF UpToDate
<1>2. stat[f] = "Outdated" => ~UpToDate(old, new, f)
  BY DEF Truthful
<1>3. QED
  BY <1>1, <1>2

\* At no point of a walk a status is wrong, although the walk goes through cycles whose
\* members cannot be decided one by one: ContentsDiffer is all fileDependenciesUpToDate needs.
THEOREM StatusesAreTrue == ASSUME ContentsDiffer PROVE Spec => []StatusesTrue
<1>1. Inv => StatusesTrue
  <2> SUFFICES ASSUME Inv, NEW f \in old.files
               PROVE  /\ status[f] = "Ok" => UpToDate(old, new, f)
                      /\ status[f] = "Outdated" => ~UpToDate(old, new, f)
    BY DEF StatusesTrue
  <2>1. f \in Files
    BY InstanceRelated, ProgramFields DEF Related
  <2>2. Truthful(status)
    BY DEF Inv
  <2>3. QED
    BY <2>1, <2>2, TrueStatuses
<1>2. QED
  BY <1>1, Invariance, PTL

\* The types of the stacks follow from what they contain.
LEMMA TypesHold ==
    ASSUME ContentsDiffer, Inv
    PROVE  TypeOK
<1>1. /\ status \in [Files -> DependencyState] /\ known \in [Files -> DependencyState]
      /\ root \in {None} \union Files
      /\ answer \in {None} \union [file : Files, result : BOOLEAN]
      /\ pc \in {"idle", "process", "unwind"}
  BY DEF Inv
<1> DEFINE T == 1..Cardinality(Files) * Cardinality(Specs)
           U == 1..Len(parents) \union {Infinity}
<1>2. /\ queue \in Seq([name : Files, index : Files])
      /\ parents \in Seq(Files)
      /\ Len(parents) = Len(childCounts) /\ Len(parents) = Len(circular)
      /\ childCounts \in Seq(T)
      /\ circular \in Seq(U)
      /\ cycles \in Seq(SUBSET Files)
  <2>1. CASE pc = "idle"
    <3>1. queue = <<>> /\ parents = <<>> /\ childCounts = <<>> /\ circular = <<>> /\ cycles = <<>>
      BY <2>1 DEF Inv, Idle
    <3> HIDE DEF T, U
    <3>2. QED
      BY <3>1
  <2>2. CASE pc # "idle"
    <3>1. PICK st, base :
            /\ Shape(parents, circular, cycles, st)
            /\ Queued(Edges(old), Entries, root, parents, childCounts, queue, base, Extra)
      BY <2>2 DEF Inv, Running, Walking
    <3>2. /\ parents \in Seq(Files) /\ cycles \in Seq(SUBSET Files) /\ circular \in Seq(Nat)
          /\ Len(circular) = Len(parents)
          /\ \A n \in 1..Len(parents) : circular[n] = Infinity \/ circular[n] \in 1..n
      BY <3>1 DEF Shape
    <3>3. queue \in Seq(Entries) /\ childCounts \in Seq(T) /\ Len(childCounts) = Len(parents)
      BY <3>1 DEF Queued
    <3>4. circular \in Seq(U)
      <4>1. Len(parents) \in Nat
        BY <3>2
      <4>2. \A n \in 1..Len(parents) : circular[n] \in U
        BY <3>2, <4>1
      <4> HIDE DEF U
      <4>3. circular \in [1..Len(parents) -> U]
        BY <3>2, <4>2
      <4>4. QED
        BY ONLY <3>2, <4>1, <4>2
    <3>5. queue \in Seq([name : Files, index : Files])
      <4>1. Entries \subseteq [name : Files, index : Files]
        BY DEF Entries
      <4>2. Len(queue) \in Nat /\ \A n \in 1..Len(queue) : queue[n] \in [name : Files, index : Files]
        BY <3>3, <4>1
      <4>3. queue \in [1..Len(queue) -> [name : Files, index : Files]]
        BY <3>3, <4>2
      <4>4. QED
        BY ONLY <4>2, <4>3, FunctionIsSeq
    <3> HIDE DEF T, U
    <3>6. QED
      BY <3>2, <3>3, <3>4, <3>5
  <2>3. QED
    BY <2>1, <2>2
<1>3. QED
  BY <1>1, <1>2 DEF TypeOK

\* No file is in two cycles or decided while it is in one.
LEMMA CyclesApart ==
    ASSUME ContentsDiffer, Inv
    PROVE  CyclesSeparate
<1>1. CASE pc = "idle"
  BY <1>1 DEF Inv, Idle, CyclesSeparate
<1>2. CASE pc # "idle"
  <2>1. PICK st :
          /\ Shape(parents, circular, cycles, st)
          /\ InCycles(Edges(old), Open, ToSet(parents), parents, cycles, st, status)
    BY <1>2 DEF Inv, Running, Walking
  <2>2. Len(cycles) \in Nat /\ DOMAIN cycles = 1..Len(cycles)
        /\ \A k \in 1..Len(cycles) : cycles[k] \in SUBSET Files
    BY <2>1, ShapePositions DEF Shape
  <2>3. \A k \in 1..Len(cycles), f \in Files : f \in cycles[k] => status[f] = "Unknown"
    BY <2>1 DEF InCycles
  <2>4. \A j, k \in 1..Len(cycles) : j < k => cycles[j] \cap cycles[k] = {}
    BY <2>1 DEF Shape
  <2>5. \A j, k \in 1..Len(cycles) : j # k => cycles[j] \cap cycles[k] = {}
    <3> SUFFICES ASSUME NEW j \in 1..Len(cycles), NEW k \in 1..Len(cycles), j # k
                 PROVE  cycles[j] \cap cycles[k] = {}
      OBVIOUS
    <3>1. j < k \/ k < j
      BY <2>2
    <3>2. cycles[j] \cap cycles[k] = cycles[k] \cap cycles[j]
      OBVIOUS
    <3>3. QED
      BY <2>4, <3>1, <3>2
  <2>6. QED
    BY <2>2, <2>3, <2>5 DEF CyclesSeparate
<1>3. QED
  BY <1>1, <1>2

\* What the loop expects to find in the stacks is there.
LEMMA NothingMissing ==
    ASSUME ContentsDiffer, Inv
    PROVE  NeverThrows
<1>1. ASSUME pc = "process", InCycle(Current.index)
      PROVE  CyclePositions(CycleOf(Current.index)) # {}
  <2>1. PICK st : Shape(parents, circular, cycles, st)
    BY <1>1 DEF Inv, Running, Walking
  <2>2. QED
    BY <1>1, <2>1, CycleSearch
<1>2. ASSUME pc = "unwind", parents # <<>>, Last(circular) >= Len(parents), Last(circular) # Infinity
      PROVE  cycles # <<>> /\ Last(parents) \in Last(cycles)
  <2>1. PICK st : Shape(parents, circular, cycles, st)
    BY <1>2 DEF Inv, Running, Walking
  <2> DEFINE N == Len(parents)
  <2>2. /\ N \in Nat /\ Len(circular) = N /\ cycles \in Seq(SUBSET Files)
        /\ \A n \in 1..N, k \in 1..Len(cycles) : parents[n] \in cycles[k] <=> circular[n] = st[k]
    BY <2>1, ShapePositions DEF Shape
  <2>3. /\ N \in 1..N
        /\ circular[N] = N => Len(cycles) \in 1..Len(cycles) /\ st[Len(cycles)] = N
        /\ circular[N] # Infinity => circular[N] \in 1..N
    BY <1>2, <2>1, TopOfShape
  <2>4. Last(circular) = circular[N] /\ Last(parents) = parents[N] /\ Last(cycles) = cycles[Len(cycles)]
    BY <2>2 DEF Last
  <2>5. circular[N] = N
    BY <1>2, <2>2, <2>3, <2>4
  <2>6. parents[N] \in cycles[Len(cycles)]
    BY <2>2, <2>3, <2>5
  <2>7. cycles # <<>>
    BY <2>3, <2>5
  <2>8. QED
    BY <2>4, <2>6, <2>7
<1>3. QED
  BY <1>1, <1>2 DEF NeverThrows

\* The stacks that fileDependenciesUpToDate keeps instead of recursion stay aligned whatever cycles there are: the
\* error that "should never happen" does not happen, no cycle is closed early, and none is read from an empty stack.
THEOREM StacksStayAligned == ASSUME ContentsDiffer PROVE Spec => []StacksAligned
<1>1. Inv => StacksAligned
  BY TypesHold, CyclesApart, NothingMissing DEF StacksAligned
<1>2. QED
  BY <1>1, Invariance, PTL
-----------------------------------------------------------------------------
(* The abstract specification                                              *)

\* What the abstract specification says of programs is what this one says.
LEMMA SameWords ==
    /\ \A P, f : Walk!Id(P, f) = Id(P, f)
    /\ \A S, P, st, f : Walk!WalkSucceeds(S, P, st, f) = WalkSucceeds(S, P, st, f)
    /\ \A S, P, st, f : Walk!Visited(S, P, st, f) = Visited(S, P, st, f)
    /\ \A S, P, st, M : Walk!Mark(S, P, st, M) = Mark(S, P, st, M)
<1>1. \A P, f : Walk!Id(P, f) = Id(P, f)
  BY DEF Walk!Id, Id
<1>2. \A e, o : Walk!Option(e, o) = Option(e, o)
  BY DEF Walk!Option, Option
<1>3. \A P : Walk!Direct(P) = Direct(P)
  BY <1>2 DEF Walk!Direct, Direct
<1>4. \A P, f, k : Walk!Resolved(P, f, k) = Resolved(P, f, k)
  BY DEF Walk!Resolved, Resolved
<1>5. \A P, f : Walk!Targets(P, f) = Targets(P, f)
  BY <1>4 DEF Walk!Targets, Targets
<1>6. \A P : Walk!Edges(P) = Edges(P)
  BY <1>3, <1>5 DEF Walk!Edges, Edges
<1>7. \A E, X : Walk!Closed(E, X) = Closed(E, X)
  BY DEF Walk!Closed, Closed
<1>8. \A E, f : Walk!Reach(E, f) = Reach(E, f)
  BY <1>7 DEF Walk!Reach, Reach
<1>9. \A P, D : Walk!IdList(P, D) = IdList(P, D)
  BY DEF Walk!IdList, Walk!Id, IdList, Id, Walk!Cardinality, Cardinality
<1>10. \A P, f : Walk!DepIds(P, f) = DepIds(P, f)
  BY <1>4, <1>9 DEF Walk!DepIds, DepIds
<1>11. \A S, P, f : Walk!SameDeps(S, P, f) = SameDeps(S, P, f)
  BY <1>10 DEF Walk!SameDeps, SameDeps
<1>12. \A S, P, st : Walk!OpenEdges(S, P, st) = OpenEdges(S, P, st)
  BY <1>6, <1>11 DEF Walk!OpenEdges, OpenEdges
<1>13. \A S, P, st, f : Walk!WalkSucceeds(S, P, st, f) = WalkSucceeds(S, P, st, f)
  BY <1>8, <1>11, <1>12 DEF Walk!WalkSucceeds, WalkSucceeds
<1>14. \A S, P, st, f : Walk!Visited(S, P, st, f) = Visited(S, P, st, f)
  BY <1>8, <1>12 DEF Walk!Visited, Visited
<1>15. \A S, P, st, M : Walk!Mark(S, P, st, M) = Mark(S, P, st, M)
  BY <1>13 DEF Walk!Mark, Mark
<1>16. QED
  BY <1>1, <1>13, <1>14, <1>15

\* The file a walk started from waits for the one that is processed, unless it is that one.
LEMMA RootWaits ==
    ASSUME ContentsDiffer, Inv, pc = "process"
    PROVE  /\ root = Current.index \/ root \in ToSet(parents)
           /\ \A f \in Files : f = Current.index \/ f \in ToSet(parents) \/ (\E c \in ToSet(cycles) : f \in c) => f \in Way
<1>1. /\ Walking(Edges(old), Open, Entries, root, parents, circular, cycles, childCounts, queue, 1, status)
      /\ Current.index \in Way /\ parents \in Seq(Files)
  BY Processing
<1>2. parents # <<>> => parents[1] = root
  BY <1>1 DEF Walking
<1>3. root = Current.index \/ root \in ToSet(parents)
  <2>1. CASE parents = <<>>
    BY <1>1, <2>1, WalkingTop DEF Current
  <2>2. CASE parents # <<>>
    <3>1. 1 \in 1..Len(parents)
      BY <1>1, <2>2
    <3>2. QED
      BY <1>1, <1>2, <2>2, <3>1, ElementsOf
  <2>3. QED
    BY <2>1, <2>2
<1>4. /\ Edges(old) \in [Files -> SUBSET Files] /\ Open \in SUBSET Files /\ Open \subseteq Way
  BY Ways
<1>5. \A f \in Files : f \in ToSet(parents) \/ (\E c \in ToSet(cycles) : f \in c) => f \in Open
  BY <1>1, <1>4, WaitingFiles
<1>6. QED
  BY <1>1, <1>3, <1>4, <1>5

\* The files that are decided when a walk returns are on its way and their status is the one the abstract walk gives them.
LEMMA ReturnMarks ==
    ASSUME ContentsDiffer, Inv, pc # "idle", NEW stat, stat \in [Files -> DependencyState],
           Truthful(stat), Keeps(stat), Stays(stat),
           NEW decided, decided = {g \in Files : stat[g] # known[g]}
    PROVE  /\ stat = Mark(old, new, known, decided)
           /\ decided \subseteq Visited(old, new, known, root)
           /\ stat[root] = "Ok" => WalkSucceeds(old, new, known, root)
           /\ stat[root] = "Outdated" => ~WalkSucceeds(old, new, known, root)
<1>1. /\ known \in [Files -> DependencyState] /\ root \in Files /\ old \in Programs /\ new \in Programs
  BY Ways, InstanceRelated DEF Inv, Related
<1>2. \A g \in Files : known[g] # "Unknown" => stat[g] = known[g]
  BY DEF Keeps
<1>3. \A g \in Files : /\ stat[g] = "Ok" => UpToDate(old, new, g)
                       /\ stat[g] = "Outdated" => ~UpToDate(old, new, g)
  BY TrueStatuses
<1>4. \A g \in Files : (known[g] = "Ok" => UpToDate(old, new, g)) /\ (known[g] = "Outdated" => ~UpToDate(old, new, g))
  BY <1>2, <1>3
<1>5. \A g \in Files : WalkSucceeds(old, new, known, g) <=> UpToDate(old, new, g)
  BY <1>1, <1>4, WalkDecides
<1>6. \A g \in decided : known[g] = "Unknown" /\ stat[g] \in {"Ok", "Outdated"}
  BY <1>1, <1>2 DEF DependencyState
<1>7. \A g \in Files : stat[g] = IF g \notin decided THEN known[g]
                                 ELSE IF WalkSucceeds(old, new, known, g) THEN "Ok" ELSE "Outdated"
  BY <1>3, <1>5, <1>6
<1>8. stat = Mark(old, new, known, decided)
  <2>1. \A g \in Files : stat[g] = Mark(old, new, known, decided)[g]
    BY <1>7 DEF Mark
  <2>2. stat = [g \in Files |-> stat[g]]
    OBVIOUS
  <2>3. Mark(old, new, known, decided) = [g \in Files |-> Mark(old, new, known, decided)[g]]
    BY DEF Mark
  <2>4. QED
    BY ONLY <2>1, <2>2, <2>3
<1>9. decided \subseteq Visited(old, new, known, root)
  BY <1>6 DEF Stays, Way, Visited
<1>10. QED
  BY <1>1, <1>3, <1>5, <1>8, <1>9

\* A walk that returns does what the abstract one does.
LEMMA ReturnMaps ==
    ASSUME ContentsDiffer, Inv, pc # "idle", NEW result \in BOOLEAN, Return(result),
           status' \in [Files -> DependencyState], Truthful(status'), Keeps(status'), Stays(status'),
           IF result THEN status'[root] = "Ok" ELSE status'[root] = "Outdated"
    PROVE  root \in Files /\ Walk!Check(root)
<1> DEFINE decided == {g \in Files : status'[g] # known[g]}
<1>1. /\ root \in Files /\ Id(old, root) = Id(new, root)
  BY Ways DEF Inv, Running
<1>2. /\ UNCHANGED <<old, new>> /\ known' = status' /\ answer' = [file |-> root, result |-> result]
  BY DEF Return
<1>3. /\ status' = Mark(old, new, known, decided)
      /\ decided \subseteq Visited(old, new, known, root)
      /\ status'[root] = "Ok" => WalkSucceeds(old, new, known, root)
      /\ status'[root] = "Outdated" => ~WalkSucceeds(old, new, known, root)
  <2>1. decided = {g \in Files : status'[g] # known[g]}
    OBVIOUS
  <2> HIDE DEF decided
  <2>2. QED
    BY <2>1, ReturnMarks
<1>4. result = WalkSucceeds(old, new, known, root)
  BY <1>3 DEF WalkSucceeds
<1>5. ASSUME result
      PROVE  Visited(old, new, known, root) \subseteq decided
  <2> DEFINE X == {g \in Files : status'[g] = "Ok"}
             O == OpenEdges(old, new, known)
  <2>1. old \in Programs
    BY InstanceRelated DEF Related
  <2>2. Edges(old) \in [Files -> SUBSET Files]
    BY <2>1, ProgramFields
  <2>3. \A g \in X : Edges(old)[g] \subseteq X
    BY <2>2 DEF Truthful
  <2>4. \A g \in Files : O[g] \subseteq Edges(old)[g]
    BY <2>1, OpenEdgesType
  <2>5. X \in SUBSET Files /\ root \in X /\ Closed(O, X)
    BY <1>1, <1>5, <2>3, <2>4 DEF Closed
  <2>6. Reach(O, root) \subseteq X
    <3> HIDE DEF X, O
    <3>1. QED
      BY <2>5, ReachLeast
  <2>7. QED
    BY <2>6 DEF Visited
<1>6. ~result => known'[root] = "Outdated"
  BY <1>2
<1>7. {g \in Files : known'[g] # known[g]} = decided
  BY <1>2
<1> HIDE DEF decided
<1>8. Walk!Check(root)
  <2>1. Walk!Id(old, root) = Walk!Id(new, root)
    BY <1>1, SameWords
  <2>2. result = Walk!WalkSucceeds(old, new, known, root)
    BY <1>4, SameWords
  <2>3. /\ known' = Walk!Mark(old, new, known, decided)
        /\ decided \subseteq Walk!Visited(old, new, known, root)
        /\ IF result THEN Walk!Visited(old, new, known, root) \subseteq decided
           ELSE known'[root] = "Outdated"
    BY <1>2, <1>3, <1>5, <1>6, SameWords
  <2>4. QED
    BY <1>2, <1>7, <2>1, <2>2, <2>3 DEF Walk!Check
<1>9. QED
  BY <1>1, <1>8

\* Marking everything that waits returns FALSE like the abstract walk.
LEMMA MarkMaps ==
    ASSUME ContentsDiffer, Inv, pc = "process", MarkAsOutdated(Current.index), Inv',
           status[Current.index] # "Ok", known[Current.index] = "Unknown" \/ status[Current.index] = "Outdated"
    PROVE  root \in Files /\ Walk!Check(root)
<1> DEFINE M == {f \in Files : f = Current.index \/ f \in ToSet(parents) \/ \E c \in ToSet(cycles) : f \in c}
<1>1. status' = [f \in Files |-> IF f \in M THEN "Outdated" ELSE status[f]] /\ Return(FALSE)
  BY DEF MarkAsOutdated
<1>2. /\ Edges(old) \in [Files -> SUBSET Files] /\ Open \in SUBSET Files /\ root \in Files
      /\ Walking(Edges(old), Open, Entries, root, parents, circular, cycles, childCounts, queue, 1, status)
  BY Ways, Processing DEF Inv
<1>3. \A f \in M : f = Current.index \/ status[f] = "Unknown"
  <2>1. \A f \in Files : f \in ToSet(parents) \/ (\E c \in ToSet(cycles) : f \in c) =>
           f \in Open /\ status[f] = "Unknown" /\ Last(queue).index \in Reach(Edges(old), f)
    BY ONLY <1>2, WaitingFiles
  <2>2. QED
    BY <2>1
<1>4. \A f \in M : f \in Way
  BY RootWaits
<1>5. root \in M
  BY <1>2, RootWaits
<1>6. Keeps(status) /\ Stays(status)
  BY DEF Inv, Running
<1> HIDE DEF M
<1>7. Keeps(status')
  <2> SUFFICES ASSUME NEW f \in Files, known[f] # "Unknown"
               PROVE  status'[f] = known[f]
    BY DEF Keeps
  <2>1. status[f] = known[f]
    BY <1>6 DEF Keeps
  <2>2. CASE f \in M
    <3>1. f = Current.index /\ status[f] = "Outdated"
      BY <1>3, <2>1, <2>2
    <3>2. QED
      BY <1>1, <2>1, <2>2, <3>1
  <2>3. CASE f \notin M
    BY <1>1, <2>1, <2>3
  <2>4. QED
    BY <2>2, <2>3
<1>8. Stays(status')
  BY <1>1, <1>4, <1>6 DEF Stays
<1>9. status' \in [Files -> DependencyState] /\ Truthful(status')
  <2>1. Truthful(status)' <=> Truthful(status')
    BY <1>1 DEF Return, Truthful
  <2>2. QED
    BY <2>1 DEF Inv
<1>10. status'[root] = "Outdated"
  BY <1>1, <1>2, <1>5
<1>11. QED
  BY <1>1, <1>7, <1>8, <1>9, <1>10, ReturnMaps

\* A step that returns is one of the abstract walk, others do not change what it is about.
LEMMA StepMaps ==
    ASSUME ContentsDiffer, Inv, Inv', [Next]_vars
    PROVE  IF pc # "idle" /\ pc' = "idle" THEN root \in Files /\ Walk!Check(root)
           ELSE UNCHANGED <<old, new, known, answer>>
<1>1. CASE KnownOutdated
  <2>1. pc = "process" /\ status[Current.index] = "Outdated" /\ MarkAsOutdated(Current.index)
    BY <1>1 DEF KnownOutdated
  <2>2. QED
    BY <2>1, MarkMaps DEF MarkAsOutdated, Return
<1>2. CASE Changed
  <2>1. pc = "process" /\ status[Current.index] = "Unknown" /\ MarkAsOutdated(Current.index)
    BY <1>2 DEF Changed
  <2>2. Current.index \in Files
    BY <2>1, Processing
  <2>3. known[Current.index] = "Unknown"
    BY <2>1, <2>2 DEF Inv, Keeps
  <2>4. QED
    BY <2>1, <2>3, MarkMaps DEF MarkAsOutdated, Return
<1>3. CASE Finish
  <2>1. pc = "unwind" /\ parents = <<>> /\ status' = status /\ Return(TRUE)
    BY <1>3 DEF Finish
  <2>2. status[root] = "Ok"
    BY <2>1 DEF Inv, Running, Extra, Walking
  <2>3. status' \in [Files -> DependencyState] /\ Truthful(status') /\ Keeps(status') /\ Stays(status')
    BY <2>1 DEF Inv, Running
  <2>4. QED
    BY <2>1, <2>2, <2>3, ReturnMaps DEF Return
<1>4. CASE KnownOk \/ KnownCycle \/ Expand \/ Close \/ NextChild \/ UNCHANGED vars
  <2>1. (pc' = "idle" => pc = "idle") /\ UNCHANGED <<old, new, known, answer>>
    BY <1>4 DEF KnownOk, KnownCycle, Expand, Close, NextChild, vars
  <2>2. QED
    BY <2>1
<1>5. ASSUME NEW f \in Files, Ask(f)
      PROVE  pc' # "idle" /\ UNCHANGED <<old, new, known, answer>>
  BY <1>5 DEF Ask
<1>6. QED
  BY <1>1, <1>2, <1>3, <1>4, <1>5 DEF Next, Step

\* A call of fileDependenciesUpToDate answers whether the file is up to date and remembers nothing but
\* true statuses of files on its way, of all of them if it succeeds: what ProgramState takes for granted.
THEOREM ImplementsWalk == ASSUME ContentsDiffer PROVE Spec => RefinesWalk
<1>1. Init => Walk!Init
  BY DEF Init, Walk!Init
<1>2. ContentsDiffer /\ Inv /\ Inv' /\ [Next]_vars => [Walk!Next]_<<old, new, known, answer>>
  BY StepMaps DEF Walk!Next
<1>3. QED
  BY <1>1, <1>2, Invariance, PTL DEF Spec, RefinesWalk, Walk!Spec
-----------------------------------------------------------------------------
(* Calls one after the other                                               *)

\* A walk after others answers what it would answer without them. Where it stops before
\* that, a file was found to be Ok.
LEMMA AfterOthers ==
    ASSUME NEW S \in Programs, NEW P, NEW st \in [Files -> DependencyState],
           NEW M \in SUBSET Files, \A g \in M : st[g] = "Unknown",
           NEW st1, st1 = Mark(S, P, st, M), NEW f \in Files
    PROVE  /\ Reach(OpenEdges(S, P, st1), f) \subseteq Reach(OpenEdges(S, P, st), f)
           /\ WalkSucceeds(S, P, st1, f) <=> WalkSucceeds(S, P, st, f)
           /\ WalkSucceeds(S, P, st, f) =>
                \A h \in Reach(OpenEdges(S, P, st), f) :
                    \/ h \in Reach(OpenEdges(S, P, st1), f)
                    \/ \E k \in M : st1[k] = "Ok" /\ h \in Reach(OpenEdges(S, P, st), k)
<1> DEFINE O == OpenEdges(S, P, st)
           O1 == OpenEdges(S, P, st1)
           Found == {k \in M : WalkSucceeds(S, P, st, k)}
           X == {h \in Files : h \in Reach(O1, f) \/ \E k \in Found : h \in Reach(O, k)}
<1>1. O \in [Files -> SUBSET Files] /\ O1 \in [Files -> SUBSET Files]
  BY OpenEdgesType
<1>2. \A g \in Files : st1[g] = IF g \notin M THEN st[g] ELSE IF g \in Found THEN "Ok" ELSE "Outdated"
  BY DEF Mark
<1>3. \A g \in Files : O1[g] \subseteq O[g]
  BY <1>2 DEF OpenEdges
<1>4. \A g \in Files : g \notin M => O1[g] = O[g]
  BY <1>2 DEF OpenEdges
<1>5. \A g \in Files : (st[g] = "Unknown" /\ SameDeps(S, P, g)) \/ O[g] = {}
  BY DEF OpenEdges
<1>6. /\ Closed(O, Reach(O, f)) /\ Reach(O, f) \in SUBSET Files /\ f \in Reach(O, f)
      /\ Closed(O1, Reach(O1, f)) /\ Reach(O1, f) \in SUBSET Files /\ f \in Reach(O1, f)
      /\ \A k \in Files : Closed(O, Reach(O, k)) /\ Reach(O, k) \in SUBSET Files /\ k \in Reach(O, k)
  BY <1>1, ReachClosed, ReachRefl
<1>7. Reach(O1, f) \subseteq Reach(O, f)
  <2>1. Closed(O1, Reach(O, f))
    BY <1>3, <1>6 DEF Closed
  <2> HIDE DEF O, O1
  <2>2. QED
    BY <1>6, <2>1, ReachLeast
<1>8. \A h \in Reach(O, f) : \A g \in Reach(O, h) : g \in Reach(O, f)
  <2> HIDE DEF O
  <2>1. QED
    BY <1>1, ReachTrans
<1>9. ASSUME WalkSucceeds(S, P, st, f)
      PROVE  WalkSucceeds(S, P, st1, f)
  <2>1. \A h \in Reach(O, f) : WalkSucceeds(S, P, st, h)
    BY <1>8, <1>9 DEF WalkSucceeds
  <2> SUFFICES ASSUME NEW g \in Reach(O1, f)
               PROVE  st1[g] # "Outdated" /\ (st1[g] = "Unknown" /\ g \in S.files => SameDeps(S, P, g))
    BY DEF WalkSucceeds
  <2>2. g \in Reach(O, f) /\ g \in Files
    BY <1>6, <1>7
  <2>3. st[g] # "Outdated" /\ (st[g] = "Unknown" /\ g \in S.files => SameDeps(S, P, g))
    BY <1>9, <2>2 DEF WalkSucceeds
  <2>4. QED
    BY <1>2, <2>1, <2>2, <2>3
<1>10. ASSUME WalkSucceeds(S, P, st1, f)
       PROVE  Reach(O, f) \subseteq X
  <2>1. ASSUME NEW h \in X, NEW t \in O[h]
        PROVE  t \in X
    <3>1. t \in Files /\ h \in Files
      BY <1>1
    <3>2. CASE \E k \in Found : h \in Reach(O, k)
      BY <1>6, <3>1, <3>2 DEF Closed
    <3>3. CASE h \in Reach(O1, f) /\ h \notin M
      <4>1. t \in O1[h]
        BY <1>4, <3>1, <3>3
      <4>2. t \in Reach(O1, f)
        BY <1>6, <3>3, <4>1 DEF Closed
      <4>3. QED
        BY <3>1, <4>2
    <3>4. CASE h \in Reach(O1, f) /\ h \in M
      <4>1. st1[h] # "Outdated"
        BY <1>10, <3>4 DEF WalkSucceeds
      <4>2. h \in Found
        BY <1>2, <3>1, <3>4, <4>1
      <4>3. t \in Reach(O, h)
        BY <1>6, <3>1 DEF Closed
      <4>4. QED
        BY <3>1, <4>2, <4>3
    <3>5. QED
      BY <3>2, <3>3, <3>4
  <2>2. X \in SUBSET Files /\ f \in X /\ Closed(O, X)
    BY <1>6, <2>1 DEF Closed
  <2> HIDE DEF O, X
  <2>3. QED
    BY <2>2, ReachLeast
<1>11. ASSUME WalkSucceeds(S, P, st1, f)
       PROVE  WalkSucceeds(S, P, st, f)
  <2> SUFFICES ASSUME NEW g \in Reach(O, f)
               PROVE  st[g] # "Outdated" /\ (st[g] = "Unknown" /\ g \in S.files => SameDeps(S, P, g))
    BY DEF WalkSucceeds
  <2>1. CASE \E k \in Found : g \in Reach(O, k)
    BY <2>1 DEF WalkSucceeds
  <2>2. CASE g \in Reach(O1, f)
    <3>1. st1[g] # "Outdated" /\ (st1[g] = "Unknown" /\ g \in S.files => SameDeps(S, P, g)) /\ g \in Files
      BY <1>6, <1>11, <2>2 DEF WalkSucceeds
    <3>2. CASE g \notin M
      BY <1>2, <3>1, <3>2
    <3>3. CASE g \in M
      <4>1. g \in Found /\ g \in Reach(O, g)
        BY <1>2, <1>6, <3>1, <3>3
      <4>2. QED
        BY <4>1 DEF WalkSucceeds
    <3>4. QED
      BY <3>2, <3>3
  <2>3. QED
    BY <1>10, <1>11, <2>1, <2>2
<1>12. ASSUME WalkSucceeds(S, P, st, f), NEW h \in Reach(O, f)
       PROVE  h \in Reach(O1, f) \/ \E k \in M : st1[k] = "Ok" /\ h \in Reach(O, k)
  BY <1>2, <1>9, <1>10, <1>12
<1>13. QED
  BY <1>7, <1>9, <1>11, <1>12

\* The statuses after another call are statuses after all of them.
LEMMA OneMoreCall ==
    ASSUME NEW S \in Programs, NEW P, NEW st \in [Files -> DependencyState], NEW R \in SUBSET Files,
           NEW st1 \in AfterWalks(S, P, st, R),
           \A k \in Files : st1[k] = "Ok" => \A g \in Edges(S)[k] : st1[g] = "Ok",
           NEW f \in Files, NEW decided \in SUBSET Files, NEW st2, st2 = Mark(S, P, st1, decided),
           decided \subseteq Visited(S, P, st1, f),
           WalkSucceeds(S, P, st1, f) => Visited(S, P, st1, f) \subseteq decided,
           st1[f] = "Unknown" => f \in decided
    PROVE  st2 \in AfterWalks(S, P, st, R \union {f})
<1> DEFINE O == OpenEdges(S, P, st)
           sure(Q) == {g \in Q : st[g] = "Unknown"}
                        \union UNION {Visited(S, P, st, g) : g \in {h \in Q : WalkSucceeds(S, P, st, h)}}
           maybe(Q) == UNION {Visited(S, P, st, g) : g \in Q}
           All == R \union {f}
<1>0. \A g : Visited(S, P, st, g) \subseteq {h \in Files : st[h] = "Unknown"}
  BY DEF Visited, Reach
<1>1. PICK N \in SUBSET maybe(R) : st1 = Mark(S, P, st, sure(R) \union N)
  BY DEF AfterWalks
<1> DEFINE M == sure(R) \union N
<1>2. M \in SUBSET Files /\ \A g \in M : st[g] = "Unknown"
  BY <1>0, <1>1
<1>3. st1 = Mark(S, P, st, M)
  BY <1>1
<1> HIDE DEF M
<1>4. \A g \in Files : /\ Reach(OpenEdges(S, P, st1), g) \subseteq Reach(O, g)
                       /\ WalkSucceeds(S, P, st1, g) <=> WalkSucceeds(S, P, st, g)
  BY <1>2, <1>3, AfterOthers
<1>5. \A g \in Files : st1[g] = IF g \notin M THEN st[g] ELSE IF WalkSucceeds(S, P, st, g) THEN "Ok" ELSE "Outdated"
  BY <1>3 DEF Mark
<1>6. \A g \in decided : st1[g] = "Unknown" /\ g \in Reach(OpenEdges(S, P, st1), f)
  BY DEF Visited
<1>7. \A g \in decided : g \notin M /\ st[g] = "Unknown"
  BY <1>5, <1>6
<1>8. st2 = Mark(S, P, st, M \union decided)
  BY <1>4, <1>5, <1>7 DEF Mark
<1>9. decided \subseteq Visited(S, P, st, f)
  BY <1>4, <1>6, <1>7 DEF Visited
<1>10. M \union decided \subseteq sure(All) \union maybe(All)
  <2>1. M \subseteq sure(R) \union maybe(R)
    BY <1>1 DEF M
  <2>2. QED
    BY <1>9, <2>1
<1>11. sure(R) \subseteq M
  BY DEF M
<1>12. st[f] = "Unknown" => f \in M \union decided
  BY <1>5
<1>13. ASSUME WalkSucceeds(S, P, st, f), NEW h \in Visited(S, P, st, f)
       PROVE  h \in M \union decided
  <2>1. h \in Files /\ h \in Reach(O, f) /\ st[h] = "Unknown"
    BY <1>0 DEF Visited
  <2>2. CASE h \in Reach(OpenEdges(S, P, st1), f)
    <3>1. h \notin M => h \in Visited(S, P, st1, f)
      BY <1>5, <2>1, <2>2 DEF Visited
    <3>2. QED
      BY <1>4, <1>13, <3>1
  <2>3. CASE \E k \in M : st1[k] = "Ok" /\ h \in Reach(O, k)
    <3> DEFINE X == {g \in Files : st1[g] = "Ok"}
    <3>1. PICK k \in M : k \in X /\ h \in Reach(O, k)
      BY <1>2, <2>3
    <3>2. X \in SUBSET Files /\ Closed(O, X)
      <4>1. \A g \in Files : O[g] \subseteq Edges(S)[g] /\ O[g] \subseteq Files
        BY OpenEdgesType
      <4>2. QED
        BY <4>1 DEF Closed
    <3>3. Reach(O, k) \subseteq X
      <4> HIDE DEF O, X
      <4>1. QED
        BY <3>1, <3>2, ReachLeast
    <3>4. st1[h] = "Ok"
      BY <3>1, <3>3
    <3>5. QED
      BY <1>5, <2>1, <3>4
  <2>4. h \in Reach(OpenEdges(S, P, st1), f) \/ \E k \in M : st1[k] = "Ok" /\ h \in Reach(O, k)
    BY <1>2, <1>3, <1>13, <2>1, AfterOthers
  <2>5. QED
    BY <2>2, <2>3, <2>4
<1>14. sure(All) \subseteq M \union decided
  BY <1>11, <1>12, <1>13
<1> DEFINE rest == (M \union decided) \ sure(All)
<1>15. rest \in SUBSET maybe(All) /\ M \union decided = sure(All) \union rest
  BY <1>10, <1>14
<1>16. st2 = Mark(S, P, st, sure(All) \union rest)
  BY <1>8, <1>15
<1>17. AfterWalks(S, P, st, All) = {Mark(S, P, st, sure(All) \union m) : m \in SUBSET maybe(All)}
  BY DEF AfterWalks
<1> HIDE DEF rest, sure, maybe, All
<1>18. st2 \in AfterWalks(S, P, st, All)
  BY <1>15, <1>16, <1>17
<1>19. QED
  BY <1>18 DEF All

\* Without a call statuses are what they were.
LEMMA NoCalls ==
    ASSUME NEW S, NEW P, NEW st \in [Files -> DependencyState]
    PROVE  st \in AfterWalks(S, P, st, {})
<1>1. st = Mark(S, P, st, {})
  BY DEF Mark
<1>2. QED
  BY <1>1 DEF AfterWalks

\* What a file depends on is known to be Ok as well.
KnownClosed == \A k \in Files : known[k] = "Ok" => \A g \in Edges(old)[k] : known[g] = "Ok"

\* It stays so.
LEMMA KnownStaysClosed ==
    ASSUME ContentsDiffer, Inv, Inv', [Next]_vars, KnownClosed
    PROVE  KnownClosed'
<1>1. CASE pc' = "idle"
  BY <1>1 DEF Inv, Idle, Truthful, KnownClosed
<1>2. CASE pc' # "idle"
  BY <1>2, StepMaps DEF KnownClosed
<1>3. QED
  BY <1>1, <1>2

\* A call made when the statuses are those after calls for the files in R leaves statuses
\* that are possible after calls for one more file.
AddsUp ==
    \A st \in [Files -> DependencyState], R \in SUBSET Files :
        pc # "idle" /\ pc' = "idle" /\ known \in AfterWalks(old, new, st, R)
            => known' \in AfterWalks(old, new, st, R \union {root})

\* Calls of fileDependenciesUpToDate one after the other, which stop at what earlier ones found out, leave the statuses that
\* ProgramState takes for granted when it asks for all these files in one step (AfterWalks in Aggregate).
THEOREM CallsAddUp == ASSUME ContentsDiffer PROVE Spec => [][AddsUp]_vars
<1>1. Init => KnownClosed
  BY DEF Init, KnownClosed
<1>2. ContentsDiffer /\ Inv /\ Inv' /\ [Next]_vars /\ KnownClosed => KnownClosed'
  BY KnownStaysClosed
<1>3. ASSUME ContentsDiffer, Inv, Inv', [Next]_vars, KnownClosed
      PROVE  AddsUp
  <2> SUFFICES ASSUME NEW st \in [Files -> DependencyState], NEW R \in SUBSET Files,
                      pc # "idle", pc' = "idle", known \in AfterWalks(old, new, st, R)
               PROVE  known' \in AfterWalks(old, new, st, R \union {root})
    BY DEF AddsUp
  <2> DEFINE decided == {g \in Files : known'[g] # known[g]}
  <2>1. root \in Files /\ Walk!Check(root)
    BY <1>3, StepMaps
  <2>2. old \in Programs
    BY <1>3, InstanceRelated DEF Related
  <2>3. PICK result \in BOOLEAN :
          /\ result = WalkSucceeds(old, new, known, root)
          /\ known' = Mark(old, new, known, decided)
          /\ decided \subseteq Visited(old, new, known, root)
          /\ IF result THEN Visited(old, new, known, root) \subseteq decided ELSE known'[root] = "Outdated"
    BY <2>1, SameWords DEF Walk!Check
  <2>4. ASSUME known[root] = "Unknown"
        PROVE  root \in decided
    <3>1. root \in Visited(old, new, known, root)
      BY <2>1, <2>4, ReachRefl DEF Visited
    <3>2. QED
      BY <2>1, <2>3, <2>4, <3>1
  <2>5. \A k \in Files : known[k] = "Ok" => \A g \in Edges(old)[k] : known[g] = "Ok"
    BY <1>3 DEF KnownClosed
  <2>6. decided \in SUBSET Files
    OBVIOUS
  <2> HIDE DEF decided
  <2>7. QED
    BY <2>1, <2>2, <2>3, <2>4, <2>5, <2>6, OneMoreCall
<1>4. QED
  BY <1>1, <1>2, <1>3, Invariance, PTL DEF Spec

-----------------------------------------------------------------------------
(* The caches of the resolver                                              *)

\* The caches are functions of files, and so are the texts; with that, what is cached is fresh.
ResolverInv ==
    /\ sources \subseteq SourceNames
    /\ DOMAIN texts = SourceNames
    /\ DOMAIN fileMetadata \subseteq SourceNames
    /\ DOMAIN dependencies \subseteq SourceNames
    /\ ResolverCachesFresh

-----------------------------------------------------------------------------
\* resolveCachedResult and the state return what is computed from the current program, be it from a cache or not.
LEMMA Transparent ==
    ASSUME ResolverInv
    PROVE  /\ CachedMetadata = Metadata
           /\ CachedReferences = References
           /\ CachedState = ProgramWide
<1>1. CachedMetadata = Metadata
  BY DEF ResolverInv, ResolverCachesFresh, CachedMetadata, Metadata
<1>2. CachedReferences = References
  BY DEF ResolverInv, ResolverCachesFresh, CachedReferences, References
<1>3. CachedState = ProgramWide
  BY <1>1, <1>2 DEF ResolverInv, ResolverCachesFresh, CachedState, ProgramWide
<1>4. QED
  BY <1>1, <1>2, <1>3

\* buildState only looks at the references of files of the program.
LEMMA AugmentedAreSources == Augmented \subseteq sources
BY DEF Augmented, Rest

-----------------------------------------------------------------------------
\* A new resolver has nothing cached.
LEMMA ResolverInitially == ResolverInit => ResolverInv
<1>1. SUFFICES ASSUME ResolverInit
               PROVE  ResolverInv
  OBVIOUS
<1>2. sources \subseteq SourceNames /\ DOMAIN texts = SourceNames
  BY <1>1 DEF ResolverInit, FreshInit
<1>3. DOMAIN fileMetadata = {} /\ DOMAIN dependencies = {} /\ state = NotAsked
  BY <1>1 DEF ResolverInit
<1>4. QED
  BY <1>2, <1>3 DEF ResolverInv, ResolverCachesFresh

\* update drops the metadata and the references of the file whose text changes: those of other files,
\* which depend on no text but their own, remain what they were.
LEMMA UpdateKeepsFresh ==
    ASSUME ResolverInv, NEW f \in SourceNames, ResolverUpdate(f)
    PROVE  ResolverInv'
<1>1. PICK t \in TextsOf[f] : texts' = [texts EXCEPT ![f] = t]
  BY DEF ResolverUpdate, Update
<1>2. DOMAIN texts' = SourceNames /\ \A g \in SourceNames \ {f} : texts'[g] = texts[g]
  BY <1>1 DEF ResolverInv
<1>3. sources' \subseteq SourceNames
  BY DEF ResolverUpdate, Update
<1>4. /\ DOMAIN fileMetadata' = DOMAIN fileMetadata \ {f}
      /\ \A g \in DOMAIN fileMetadata' : fileMetadata'[g] = fileMetadata[g]
  BY DEF ResolverUpdate
<1>5. /\ DOMAIN dependencies' = DOMAIN dependencies \ {f}
      /\ \A g \in DOMAIN dependencies' : dependencies'[g] = dependencies[g]
  BY DEF ResolverUpdate
<1>6. \A g \in DOMAIN fileMetadata' : fileMetadata'[g] = Metadata'[g]
  BY <1>2, <1>4 DEF ResolverInv, ResolverCachesFresh, Metadata
<1>7. \A g \in DOMAIN dependencies' : dependencies'[g] = References'[g]
  BY <1>2, <1>5 DEF ResolverInv, ResolverCachesFresh, References
<1>8. state' = NotAsked
  BY DEF ResolverUpdate
<1>9. QED
  BY <1>2, <1>3, <1>4, <1>5, <1>6, <1>7, <1>8 DEF ResolverInv, ResolverCachesFresh

\* Answering a question adds to the caches what is true of the current program. A state is only kept
\* together with the metadata of all files.
LEMMA CollectKeepsFresh ==
    ASSUME ResolverInv, NEW also \in SUBSET sources, Collect(also), UNCHANGED <<sources, texts>>
    PROVE  ResolverInv'
<1> DEFINE asksFor  == DOMAIN fileMetadata \union (IF state = NotAsked THEN sources ELSE {})
           follows  == DOMAIN dependencies \union (IF state = NotAsked THEN Augmented ELSE {}) \union also
<1>1. Metadata' = Metadata /\ References' = References
  BY DEF Metadata, References
<1>2. ProgramWide' = ProgramWide
  BY <1>1 DEF ProgramWide
<1>3. asksFor \subseteq SourceNames /\ follows \subseteq SourceNames
  BY AugmentedAreSources DEF ResolverInv
<1>4. fileMetadata' = [f \in asksFor |-> Metadata[f]]
  BY Transparent DEF Collect
<1>5. dependencies' = [f \in follows |-> References[f]]
  BY Transparent DEF Collect
<1>6. state' = ProgramWide
  BY Transparent DEF Collect
<1>7. sources' \subseteq asksFor
  BY DEF ResolverInv, ResolverCachesFresh
<1>8. ResolverCachesFresh'
  <2>1. DOMAIN fileMetadata' = asksFor /\ \A f \in asksFor : fileMetadata'[f] = Metadata'[f]
    BY <1>1, <1>4
  <2>2. DOMAIN dependencies' = follows /\ \A f \in follows : dependencies'[f] = References'[f]
    BY <1>1, <1>5
  <2> HIDE DEF asksFor, follows
  <2>3. QED
    BY <2>1, <2>2, <1>2, <1>6, <1>7 DEF ResolverCachesFresh
<1> HIDE DEF asksFor, follows
<1>9. QED
  BY <1>3, <1>4, <1>5, <1>8 DEF ResolverInv

\* Every step of the resolver.
LEMMA ResolverStep == ResolverInv /\ [ResolverNext]_resolverVars => ResolverInv'
<1> SUFFICES ASSUME ResolverInv, [ResolverNext]_resolverVars
             PROVE  ResolverInv'
  OBVIOUS
<1>1. CASE \E f \in SourceNames : ResolverUpdate(f)
  BY <1>1, UpdateKeepsFresh
<1>2. CASE CachedFilesAffectingGlobalScope
  BY <1>2, CollectKeepsFresh DEF CachedFilesAffectingGlobalScope
<1>3. ASSUME NEW f \in SourceNames, CachedDependencies(f)
      PROVE  ResolverInv'
  <2>1. CASE f \in sources
    BY <1>3, <2>1, CollectKeepsFresh DEF CachedDependencies
  <2>2. CASE f \notin sources
    <3>1. UNCHANGED <<sources, texts, fileMetadata, dependencies, state>>
      BY <1>3, <2>2 DEF CachedDependencies
    <3>2. QED
      BY <3>1 DEF ResolverInv, ResolverCachesFresh, Metadata, References, ProgramWide
  <2>3. QED
    BY <2>1, <2>2
<1>4. CASE UNCHANGED resolverVars
  BY <1>4 DEF resolverVars, ResolverInv, ResolverCachesFresh, Metadata, References, ProgramWide
<1>5. QED
  BY <1>1, <1>2, <1>3, <1>4 DEF ResolverNext

\* The invariant holds in every state of every run.
LEMMA ResolverInvariance == ResolverSpec => []ResolverInv
BY ResolverInitially, ResolverStep, PTL DEF ResolverSpec

\* No metadata, references or state that were collected before an update are used if they would be different now:
\* DependencyResolverImpl.update drops enough.
THEOREM CachesStayFresh == ResolverSpec => []ResolverCachesFresh
<1>1. ResolverInv => ResolverCachesFresh
  BY DEF ResolverInv
<1>2. QED
  BY <1>1, ResolverInvariance, PTL

-----------------------------------------------------------------------------
\* A step of the resolver is the same step of one that caches nothing.
LEMMA ResolverStepMaps ==
    ResolverInv /\ [ResolverNext]_resolverVars => [FreshNext]_<<sources, texts, asked>>
<1> SUFFICES ASSUME ResolverInv, [ResolverNext]_resolverVars
             PROVE  [FreshNext]_<<sources, texts, asked>>
  OBVIOUS
<1>1. ASSUME NEW f \in SourceNames, ResolverUpdate(f)
      PROVE  FreshNext
  BY <1>1 DEF ResolverUpdate, FreshNext
<1>2. CASE CachedFilesAffectingGlobalScope
  BY <1>2, Transparent DEF CachedFilesAffectingGlobalScope, GetFilesAffectingGlobalScope, FreshNext
<1>3. ASSUME NEW f \in SourceNames, CachedDependencies(f)
      PROVE  FreshNext
  <2>1. GetDependencies(f)
    BY <1>3, Transparent DEF CachedDependencies, GetDependencies
  <2>2. QED
    BY <2>1 DEF FreshNext
<1>4. CASE UNCHANGED resolverVars
  BY <1>4 DEF resolverVars
<1>5. QED
  BY <1>1, <1>2, <1>3, <1>4 DEF ResolverNext

\* The answers of DependencyResolverImpl are those of a resolver that is created anew for every question.
THEOREM ImplementsFresh == ResolverSpec => ImplementsFreshResolver
<1>1. ResolverInit => FreshInit
  BY DEF ResolverInit
<1>2. QED
  BY <1>1, ResolverInvariance, ResolverStepMaps, PTL DEF ResolverSpec, ImplementsFreshResolver, FreshSpec
=============================================================================
