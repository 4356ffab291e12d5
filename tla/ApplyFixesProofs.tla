-------------------------- MODULE ApplyFixesProofs --------------------------
(***************************************************************************)
(* What applyFixes returns is right for any text and any list of fixes,    *)
(* however often it goes back: OutputSound is an invariant.                *)
(***************************************************************************)
EXTENDS ApplyFixes, FiniteSetTheorems, TLAPS

-----------------------------------------------------------------------------
(* Numbers and finite orders                                               *)

\* A set of natural numbers has a least element.
LEMMA Least ==
    ASSUME NEW T \in SUBSET Nat, T # {}
    PROVE  \E x \in T : \A y \in T : x <= y
<1> DEFINE R == {ss \in Nat \X Nat : ss[1] < ss[2]}
<1>1. IsWellFoundedOn(R, Nat)
  BY NatLessThanWellFounded DEF OpToRel
<1>2. PICK x \in T : \A y \in T : <<y, x>> \notin R
  BY <1>1, WFMin
<1>3. \A y \in T : <<y, x>> \in Nat \X Nat /\ <<y, x>>[1] = y /\ <<y, x>>[2] = x
  BY <1>2
<1>4. \A y \in T : ~(y < x)
  BY <1>2, <1>3
<1>5. QED
  BY <1>2, <1>4

\* A bounded one has a greatest element.
LEMMA Greatest ==
    ASSUME NEW b \in Nat, NEW T \in SUBSET (0..b), T # {}
    PROVE  \E x \in T : \A y \in T : y <= x
<1> DEFINE B == {c \in 0..b : b - c \in T}
<1>1. ASSUME NEW y \in T
      PROVE  b - y \in B
  <2>1. y \in 0..b /\ b - (b - y) = y /\ b - y \in 0..b
    OBVIOUS
  <2>2. QED
    BY <2>1
<1>2. B \in SUBSET Nat /\ B # {}
  <2>1. PICK y \in T : TRUE
    OBVIOUS
  <2>2. B # {}
    BY <1>1
  <2>3. QED
    BY <2>2
<1>3. PICK c \in B : \A d \in B : c <= d
  BY <1>2, Least
<1>4. b - c \in T
  OBVIOUS
<1>5. \A y \in T : y <= b - c
  <2>1. TAKE y \in T
  <2>2. c <= b - y /\ c \in 0..b /\ y \in 0..b
    BY <1>1, <1>3
  <2>3. QED
    BY <2>2
<1>6. QED
  BY <1>4, <1>5

\* What is not after an element in an order
Down(S, R, k) == {j \in S : <<j, k>> \in R}

\* In a finite total order, counting what is not after an element numbers the elements in order.
LEMMA Ranked ==
    ASSUME NEW S, IsFiniteSet(S), NEW R,
           \A x \in S : <<x, x>> \in R,
           \A x, y \in S : <<x, y>> \in R /\ <<y, x>> \in R => x = y,
           \A x, y, z \in S : <<x, y>> \in R /\ <<y, z>> \in R => <<x, z>> \in R,
           \A x, y \in S : <<x, y>> \in R \/ <<y, x>> \in R,
           NEW rank, rank = [k \in S |-> rank[k]],
           \A k \in S : rank[k] = Cardinality(Down(S, R, k))
    PROVE  /\ rank \in [S -> 1..Cardinality(S)]
           /\ \A j, k \in S : rank[j] <= rank[k] <=> <<j, k>> \in R
           /\ \A j, k \in S : rank[j] = rank[k] => j = k
           /\ rank \in Surjection(S, 1..Cardinality(S))
<1>1. Cardinality(S) \in Nat
  BY FS_CardinalityType
<1>2. \A k \in S : IsFiniteSet(Down(S, R, k)) /\ Cardinality(Down(S, R, k)) \in Nat /\ Cardinality(Down(S, R, k)) <= Cardinality(S)
  <2>1. TAKE k \in S
  <2>2. Down(S, R, k) \in SUBSET S
    BY DEF Down
  <2>3. QED
    BY <2>2, FS_Subset, FS_CardinalityType
<1>3. \A k \in S : Cardinality(Down(S, R, k)) # 0
  <2>1. TAKE k \in S
  <2>2. k \in Down(S, R, k)
    BY DEF Down
  <2>3. QED
    BY <2>2, <1>2, FS_EmptySet
<1>4. ASSUME NEW j \in S, NEW k \in S, <<j, k>> \in R
      PROVE  Cardinality(Down(S, R, j)) <= Cardinality(Down(S, R, k))
  <2>1. Down(S, R, j) \in SUBSET Down(S, R, k)
    BY <1>4 DEF Down
  <2>2. QED
    BY <2>1, <1>2, FS_Subset
<1>5. ASSUME NEW j \in S, NEW k \in S, <<j, k>> \in R, Cardinality(Down(S, R, j)) = Cardinality(Down(S, R, k))
      PROVE  j = k
  <2>1. Down(S, R, j) \in SUBSET Down(S, R, k)
    BY <1>5 DEF Down
  <2>2. Down(S, R, j) = Down(S, R, k)
    BY <2>1, <1>2, <1>5, FS_Subset
  <2>3. k \in Down(S, R, k)
    BY DEF Down
  <2>4. QED
    BY <2>2, <2>3, <1>5 DEF Down
<1>6. \A k \in S : rank[k] = Cardinality(Down(S, R, k))
  OBVIOUS
<1>7. rank \in [S -> 1..Cardinality(S)]
  <2>1. \A k \in S : rank[k] \in 1..Cardinality(S)
    BY <1>1, <1>2, <1>3, <1>6
  <2>2. QED
    BY <2>1
<1>8. \A j, k \in S : rank[j] <= rank[k] <=> <<j, k>> \in R
  <2>1. TAKE j, k \in S
  <2>2. rank[j] \in Nat /\ rank[k] \in Nat
    BY <1>2, <1>6
  <2>3. CASE <<j, k>> \in R
    BY <2>3, <1>4, <1>6
  <2>4. CASE <<j, k>> \notin R
    <3>1. <<k, j>> \in R /\ j # k
      BY <2>4
    <3>2. rank[k] <= rank[j] /\ rank[k] # rank[j]
      BY <3>1, <1>4, <1>5, <1>6
    <3>3. QED
      BY <2>2, <2>4, <3>2
  <2>5. QED
    BY <2>3, <2>4
<1>9. \A j, k \in S : rank[j] = rank[k] => j = k
  BY <1>5, <1>6
<1>10. rank \in Surjection(S, 1..Cardinality(S))
  <2>1. IsFiniteSet(1..Cardinality(S)) /\ Cardinality(1..Cardinality(S)) = Cardinality(S)
    BY <1>1, FS_Interval
  <2>2. rank \in Injection(S, 1..Cardinality(S))
    BY <1>7, <1>9 DEF Injection, IsInjective
  <2>3. QED
    BY <2>1, <2>2, FS_Injection
<1>11. QED
  BY <1>7, <1>8, <1>9, <1>10

\* Sort is a stable sort: a permutation, in order, that keeps the order of equal elements.
LEMMA SortIsStable ==
    ASSUME NEW s, Len(s) \in Nat, DOMAIN s = 1..Len(s),
           \A k \in DOMAIN s : s[k].start \in Int /\ s[k].end \in Int
    PROVE  \E p \in [1..Len(s) -> 1..Len(s)] :
             /\ \A j, k \in 1..Len(s) : p[j] = p[k] => j = k
             /\ \A k \in 1..Len(s) : \E n \in 1..Len(s) : p[n] = k
             /\ Sort(s) = [n \in 1..Len(s) |-> s[p[n]]]
             /\ \A m, n \in 1..Len(s) : m < n =>
                  /\ ~Before(s[p[n]], s[p[m]])
                  /\ ~Before(s[p[m]], s[p[n]]) => p[m] < p[n]
<1> DEFINE D == 1..Len(s)
           R == {x \in D \X D : Before(s[x[1]], s[x[2]]) \/ (~Before(s[x[2]], s[x[1]]) /\ x[1] <= x[2])}
           rank == [k \in D |-> Cardinality(Down(D, R, k))]
           p == [n \in D |-> CHOOSE k \in D : rank[k] = n]
<1>1. IsFiniteSet(D) /\ Cardinality(D) = Len(s)
  BY FS_Interval
<1>2. \A j, k \in D : <<j, k>> \in R <=> Before(s[j], s[k]) \/ (~Before(s[k], s[j]) /\ j <= k)
  OBVIOUS
<1> HIDE DEF R
<1>3. /\ \A x \in D : <<x, x>> \in R
      /\ \A x, y \in D : <<x, y>> \in R /\ <<y, x>> \in R => x = y
      /\ \A x, y, z \in D : <<x, y>> \in R /\ <<y, z>> \in R => <<x, z>> \in R
      /\ \A x, y \in D : <<x, y>> \in R \/ <<y, x>> \in R
  <2>1. \A j \in D : s[j].start \in Int /\ s[j].end \in Int /\ j \in Int
    OBVIOUS
  <2> HIDE DEF D
  <2>2. \A x \in D : <<x, x>> \in R
    BY <1>2, <2>1 DEF Before
  <2>3. \A x, y \in D : <<x, y>> \in R /\ <<y, x>> \in R => x = y
    BY <1>2, <2>1 DEF Before
  <2>4. \A x, y, z \in D : <<x, y>> \in R /\ <<y, z>> \in R => <<x, z>> \in R
    <3>1. TAKE x, y, z \in D
    <3>2. HAVE <<x, y>> \in R /\ <<y, z>> \in R
    <3>3. /\ Before(s[x], s[y]) \/ (~Before(s[y], s[x]) /\ x <= y)
          /\ Before(s[y], s[z]) \/ (~Before(s[z], s[y]) /\ y <= z)
      BY <1>2, <3>2
    <3>4. Before(s[x], s[z]) \/ (~Before(s[z], s[x]) /\ x <= z)
      BY <2>1, <3>3 DEF Before
    <3>5. QED
      BY <1>2, <3>4
  <2>5. \A x, y \in D : <<x, y>> \in R \/ <<y, x>> \in R
    <3>1. TAKE x, y \in D
    <3>2. \/ Before(s[x], s[y]) \/ (~Before(s[y], s[x]) /\ x <= y)
          \/ Before(s[y], s[x]) \/ (~Before(s[x], s[y]) /\ y <= x)
      BY <2>1 DEF Before
    <3>3. QED
      BY <1>2, <3>2
  <2>6. QED
    BY <2>2, <2>3, <2>4, <2>5
<1>4. /\ \A j, k \in D : rank[j] <= rank[k] <=> <<j, k>> \in R
      /\ \A j, k \in D : rank[j] = rank[k] => j = k
      /\ \A n \in D : \E k \in D : rank[k] = n
  <2> HIDE DEF D
  <2>1. Cardinality(D) = Len(s) /\ rank = [k \in D |-> rank[k]] /\ \A k \in D : rank[k] = Cardinality(Down(D, R, k))
    BY <1>1
  <2> HIDE DEF rank
  <2>2. /\ rank \in [D -> 1..Cardinality(D)]
        /\ \A j, k \in D : rank[j] <= rank[k] <=> <<j, k>> \in R
        /\ \A j, k \in D : rank[j] = rank[k] => j = k
        /\ \A n \in 1..Cardinality(D) : \E k \in D : rank[k] = n
    <3>1. IsFiniteSet(D)
      BY <1>1
    <3>2. rank \in [D -> 1..Cardinality(D)]
      BY ONLY <3>1, <1>3, <2>1, Ranked
    <3>3. \A j, k \in D : rank[j] <= rank[k] <=> <<j, k>> \in R
      BY ONLY <3>1, <1>3, <2>1, Ranked
    <3>4. \A j, k \in D : rank[j] = rank[k] => j = k
      BY ONLY <3>1, <1>3, <2>1, Ranked
    <3>5. rank \in Surjection(D, 1..Cardinality(D))
      BY ONLY <3>1, <1>3, <2>1, Ranked
    <3>6. QED
      BY <3>2, <3>3, <3>4, <3>5 DEF Surjection
  <2>3. QED
    BY <2>1, <2>2 DEF D
<1>5. \A n \in D : p[n] \in D /\ rank[p[n]] = n
  <2> HIDE DEF rank
  <2>1. TAKE n \in D
  <2>2. PICK k \in D : rank[k] = n
    BY <1>4
  <2>3. QED
    BY <2>2
<1>6. p \in [D -> D]
  BY <1>5
<1>7. \A j, k \in D : p[j] = p[k] => j = k
  BY <1>5
<1>8. \A k \in D : \E n \in D : p[n] = k
  <2>1. TAKE k \in D
  <2>2. rank[k] \in D
    <3> HIDE DEF D
    <3>1. Cardinality(D) = Len(s) /\ rank = [kk \in D |-> rank[kk]] /\ \A kk \in D : rank[kk] = Cardinality(Down(D, R, kk))
      BY <1>1
    <3> HIDE DEF rank
    <3>2. rank \in [D -> 1..Cardinality(D)]
      <4>1. IsFiniteSet(D)
        BY <1>1
      <4>2. QED
        BY ONLY <4>1, <1>3, <3>1, Ranked
    <3>3. QED
      BY <2>1, <3>1, <3>2 DEF D
  <2>3. p[rank[k]] = k
    BY <2>2, <1>4, <1>5
  <2>4. QED
    BY <2>2, <2>3
<1>9. Sort(s) = [n \in D |-> s[p[n]]]
  <2>1. \A k \in D : rank[k] = Cardinality({j \in D : Before(s[j], s[k]) \/ (~Before(s[k], s[j]) /\ j <= k)})
    <3>1. TAKE k \in D
    <3>2. Down(D, R, k) = {j \in D : Before(s[j], s[k]) \/ (~Before(s[k], s[j]) /\ j <= k)}
      BY <1>2 DEF Down
    <3>3. QED
      BY <3>2
  <2> HIDE DEF rank
  <2>2. \A n \in D : p[n] = CHOOSE k \in D : Cardinality({j \in D : Before(s[j], s[k]) \/ (~Before(s[k], s[j]) /\ j <= k)}) = n
    BY <2>1
  <2> DEFINE Rank(k) == Cardinality({j \in D : Before(s[j], s[k]) \/ (~Before(s[k], s[j]) /\ j <= k)})
  <2>3. Sort(s) = [n \in D |-> s[CHOOSE k \in D : Rank(k) = n]]
    BY DEF Sort
  <2>4. \A n \in D : p[n] = CHOOSE k \in D : Rank(k) = n
    BY <2>2
  <2> HIDE DEF p, Rank
  <2>5. QED
    BY <2>3, <2>4
<1>10. \A m, n \in D : m < n => /\ ~Before(s[p[n]], s[p[m]])
                                /\ ~Before(s[p[m]], s[p[n]]) => p[m] < p[n]
  <2> HIDE DEF rank, p
  <2>1. TAKE m, n \in D
  <2>2. HAVE m < n
  <2>3. p[m] \in D /\ p[n] \in D /\ rank[p[m]] = m /\ rank[p[n]] = n
    BY <1>5
  <2>4. <<p[m], p[n]>> \in R /\ p[m] # p[n]
    <3>1. rank[p[m]] <= rank[p[n]] /\ rank[p[m]] # rank[p[n]]
      BY <2>2, <2>3
    <3>2. QED
      BY <2>3, <3>1, <1>4
  <2>5. /\ s[p[m]].start \in Int /\ s[p[m]].end \in Int /\ s[p[n]].start \in Int /\ s[p[n]].end \in Int
        /\ p[m] \in Int /\ p[n] \in Int
    BY <2>3
  <2>6. Before(s[p[m]], s[p[n]]) \/ (~Before(s[p[n]], s[p[m]]) /\ p[m] <= p[n])
    BY <2>3, <2>4, <1>2
  <2>7. QED
    BY <2>4, <2>5, <2>6 DEF Before
<1> HIDE DEF p, rank
<1>11. QED
  BY <1>6, <1>7, <1>8, <1>9, <1>10

-----------------------------------------------------------------------------
(* Combining the replacements of a fix                                     *)

In(x, s) == \E n \in DOMAIN s : s[n] = x

\* The replacement that inserts a character
At(x) == fixes[x[1]][x[2]]

Replacement == [fix : DOMAIN fixes, start : 0..N, end : 0..N, text : Seq(Nat \X Nat)]

\* What a combined replacement inserts belongs to replacements of its fix; these cover
\* its range and nothing else, and the order of insertions at one position is theirs.
Combined(r) ==
    /\ r.start <= r.end
    /\ r.text # <<>>
    /\ \A p \in DOMAIN r.text :
         /\ r.text[p][1] = r.fix /\ r.text[p][2] \in DOMAIN fixes[r.fix]
         /\ r.start <= At(r.text[p]).start /\ At(r.text[p]).end <= r.end
    /\ \A c \in r.start..r.end - 1 :
         \E p \in DOMAIN r.text : At(r.text[p]).start <= c /\ c < At(r.text[p]).end
    /\ \A p, q \in DOMAIN r.text : p < q =>
         /\ r.text[p] # r.text[q]
         /\ At(r.text[p]) = At(r.text[q]) => r.text[p][2] < r.text[q][2]

\* Two replacements of a fix overlap.
Overlaps(fix) == \E j, k \in DOMAIN fix : j # k /\ fix[j].end > fix[k].start /\ fix[k].end > fix[j].start

Overlapping(f) == Overlaps(fixes[f])

\* What a sequence consists of
LEMMA ElementOfSeq ==
    ASSUME NEW S, NEW s \in Seq(S)
    PROVE  Len(s) \in Nat /\ DOMAIN s = 1..Len(s) /\ \A n \in DOMAIN s : s[n] \in S
OBVIOUS

\* The argument is a list of fixes.
LEMMA FixesType ==
    ASSUME fixes \in FixLists
    PROVE  /\ N \in Nat /\ Len(fixes) \in Nat /\ DOMAIN fixes = 1..Len(fixes)
           /\ \A f \in DOMAIN fixes :
                /\ Len(fixes[f]) \in Nat \ {0} /\ DOMAIN fixes[f] = 1..Len(fixes[f])
                /\ \A k \in DOMAIN fixes[f] :
                     /\ fixes[f][k].start \in 0..N /\ fixes[f][k].end \in 0..N
                     /\ fixes[f][k].start <= fixes[f][k].end
<1>1. N \in Nat
  BY SourceAssumption
<1>2. fixes \in Seq(Seq([start : 0..N, end : 0..N]) \ {<<>>})
  BY FixesAssumption
<1>3. Len(fixes) \in Nat /\ DOMAIN fixes = 1..Len(fixes)
  BY <1>2
<1>4. ASSUME NEW f \in DOMAIN fixes
      PROVE  /\ Len(fixes[f]) \in Nat \ {0} /\ DOMAIN fixes[f] = 1..Len(fixes[f])
             /\ \A k \in DOMAIN fixes[f] :
                  /\ fixes[f][k].start \in 0..N /\ fixes[f][k].end \in 0..N
                  /\ fixes[f][k].start <= fixes[f][k].end
  <2>1. fixes[f] \in Seq([start : 0..N, end : 0..N]) /\ fixes[f] # <<>>
    <3>1. fixes[f] \in Seq([start : 0..N, end : 0..N]) \ {<<>>}
      BY <1>2, ElementOfSeq
    <3>2. QED
      BY <3>1
  <2>2. Len(fixes[f]) \in Nat \ {0} /\ DOMAIN fixes[f] = 1..Len(fixes[f])
    BY <2>1
  <2>3. \A k \in DOMAIN fixes[f] : fixes[f][k] \in [start : 0..N, end : 0..N]
    BY <2>1, ElementOfSeq
  <2>4. \A k \in DOMAIN fixes[f] : fixes[f][k].start <= fixes[f][k].end
    BY FixesAssumption
  <2>5. QED
    BY <2>2, <2>3, <2>4
<1>5. QED
  BY <1>1, <1>3, <1>4

\* The sorted replacements of a fix are those of the fix, in another order.
LEMMA SortedFix ==
    ASSUME fixes \in FixLists, NEW f \in DOMAIN fixes, NEW t, t = Sort(Tagged(f)), NEW L, L = Len(fixes[f])
    PROVE  /\ DOMAIN t = 1..L /\ Len(t) = L
           /\ \E p \in [1..L -> 1..L] :
                /\ \A j, k \in 1..L : p[j] = p[k] => j = k
                /\ \A k \in 1..L : \E n \in 1..L : p[n] = k
                /\ \A n \in 1..L : /\ t[n].fix = f
                                   /\ t[n].start = fixes[f][p[n]].start
                                   /\ t[n].end = fixes[f][p[n]].end
                                   /\ t[n].text = <<<<f, p[n]>>>>
                /\ \A m, n \in 1..L : m < n => /\ ~Before(t[n], t[m])
                                               /\ ~Before(t[m], t[n]) => p[m] < p[n]
<1> DEFINE s == Tagged(f)
<1>1. L \in Nat /\ DOMAIN fixes[f] = 1..L
  BY FixesType
<1>2. DOMAIN s = 1..L /\ s = [k \in 1..L |-> s[k]]
  BY <1>1 DEF Tagged
<1>3. Len(s) = L
  BY <1>1, <1>2
<1>4. \A k \in 1..L : s[k].fix = f /\ s[k].start = fixes[f][k].start /\ s[k].end = fixes[f][k].end /\ s[k].text = <<<<f, k>>>>
  BY <1>1 DEF Tagged
<1> HIDE DEF s
<1>5. \A k \in DOMAIN s : s[k].start \in Int /\ s[k].end \in Int
  BY <1>1, <1>2, <1>4, FixesType
<1>6. Len(s) \in Nat /\ DOMAIN s = 1..Len(s)
  BY <1>1, <1>2, <1>3
<1>7. PICK p \in [1..Len(s) -> 1..Len(s)] :
        /\ \A j, k \in 1..Len(s) : p[j] = p[k] => j = k
        /\ \A k \in 1..Len(s) : \E n \in 1..Len(s) : p[n] = k
        /\ Sort(s) = [n \in 1..Len(s) |-> s[p[n]]]
        /\ \A m, n \in 1..Len(s) : m < n =>
             /\ ~Before(s[p[n]], s[p[m]])
             /\ ~Before(s[p[m]], s[p[n]]) => p[m] < p[n]
  BY <1>5, <1>6, SortIsStable
<1>8. t = [n \in 1..L |-> s[p[n]]]
  BY <1>3, <1>7 DEF s
<1>9. DOMAIN t = 1..L /\ Len(t) = L /\ \A n \in 1..L : t[n] = s[p[n]]
  BY <1>1, <1>8
<1>10. p \in [1..L -> 1..L]
  BY <1>3, <1>7
<1>11. \A n \in 1..L : /\ t[n].fix = f
                       /\ t[n].start = fixes[f][p[n]].start
                       /\ t[n].end = fixes[f][p[n]].end
                       /\ t[n].text = <<<<f, p[n]>>>>
  BY <1>4, <1>9, <1>10
<1>12. \A m, n \in 1..L : m < n => /\ ~Before(t[n], t[m])
                                   /\ ~Before(t[m], t[n]) => p[m] < p[n]
  <2>1. TAKE m, n \in 1..L
  <2>2. t[m] = s[p[m]] /\ t[n] = s[p[n]]
    BY <1>9
  <2>3. m \in 1..Len(s) /\ n \in 1..Len(s)
    BY <1>3
  <2>4. QED
    BY <1>7, <2>2, <2>3
<1>13. /\ \A j, k \in 1..L : p[j] = p[k] => j = k
       /\ \A k \in 1..L : \E n \in 1..L : p[n] = k
  BY <1>3, <1>7
<1>14. QED
  BY <1>9, <1>10, <1>11, <1>12, <1>13

\* If no replacement ends after the start of the next one, none ends after the start of a later one.
LEMMA Chain ==
    ASSUME NEW L \in Nat, NEW t,
           \A n \in 1..L : t[n].start \in Int /\ t[n].end \in Int /\ t[n].start <= t[n].end,
           \A n \in 1..L - 1 : t[n].end <= t[n + 1].start
    PROVE  \A m, n \in 1..L : m < n => t[m].end <= t[n].start
<1>1. SUFFICES ASSUME NEW m \in 1..L, NEW n \in 1..L, m < n, ~(t[m].end <= t[n].start)
               PROVE  FALSE
  OBVIOUS
<1> DEFINE B == {k \in 1..L : m < k /\ ~(t[m].end <= t[k].start)}
<1>2. B \in SUBSET Nat /\ B # {}
  BY <1>1
<1>3. PICK k \in B : \A l \in B : k <= l
  BY <1>2, Least
<1>4. k \in 1..L /\ m < k /\ ~(t[m].end <= t[k].start) /\ k - 1 \in 1..L - 1 /\ k - 1 \in 1..L
  BY <1>3
<1>5. t[k - 1].end <= t[(k - 1) + 1].start /\ (k - 1) + 1 = k
  BY <1>4
<1>6. CASE m = k - 1
  BY <1>4, <1>5, <1>6
<1>7. CASE m # k - 1
  <2>1. k - 1 \notin B /\ m < k - 1
    BY <1>3, <1>4, <1>7
  <2>2. t[m].end <= t[k - 1].start
    BY <1>4, <2>1
  <2>3. QED
    BY <1>4, <1>5, <2>2
<1>8. QED
  BY <1>6, <1>7

\* It is enough for combineReplacements to compare each replacement with the next one.
LEMMA OverlapIsFound ==
    ASSUME fixes \in FixLists, NEW f \in DOMAIN fixes
    PROVE  Overlap(Tagged(f)) <=> Overlapping(f)
<1> DEFINE t == Sort(Tagged(f))
           L == Len(fixes[f])
           F == fixes[f]
<1>0. L \in Nat /\ DOMAIN F = 1..L /\ \A k \in 1..L : F[k].start \in Int /\ F[k].end \in Int /\ F[k].start <= F[k].end
  BY FixesType
<1>1. DOMAIN t = 1..L /\ Len(t) = L
  BY SortedFix
<1>2. PICK p \in [1..L -> 1..L] :
                /\ \A j, k \in 1..L : p[j] = p[k] => j = k
                /\ \A k \in 1..L : \E n \in 1..L : p[n] = k
                /\ \A n \in 1..L : /\ t[n].fix = f
                                   /\ t[n].start = fixes[f][p[n]].start
                                   /\ t[n].end = fixes[f][p[n]].end
                                   /\ t[n].text = <<<<f, p[n]>>>>
                /\ \A m, n \in 1..L : m < n => /\ ~Before(t[n], t[m])
                                               /\ ~Before(t[m], t[n]) => p[m] < p[n]
  BY SortedFix
<1>3. Overlap(Tagged(f)) <=> \E k \in 1..L - 1 : t[k].end > t[k + 1].start
  BY <1>1 DEF Overlap
<1>4. Overlapping(f) <=> \E j, k \in 1..L : j # k /\ F[j].end > F[k].start /\ F[k].end > F[j].start
  BY <1>0 DEF Overlapping, Overlaps
<1> HIDE DEF t, F, L
<1>5. \A n \in 1..L : p[n] \in 1..L /\ t[n].start = F[p[n]].start /\ t[n].end = F[p[n]].end
  BY <1>2 DEF F
<1>6. \A n \in 1..L : t[n].start \in Int /\ t[n].end \in Int /\ t[n].start <= t[n].end
  BY <1>0, <1>5
<1>7. ASSUME NEW k \in 1..L - 1, t[k].end > t[k + 1].start
      PROVE  \E j, l \in 1..L : j # l /\ F[j].end > F[l].start /\ F[l].end > F[j].start
  <2>1. k \in 1..L /\ k + 1 \in 1..L /\ k < k + 1
    BY <1>0
  <2>2. ~Before(t[k + 1], t[k])
    BY <1>2, <2>1
  <2>3. t[k + 1].end > t[k].start
    BY <1>6, <1>7, <2>1, <2>2 DEF Before
  <2>4. p[k] # p[k + 1]
    BY <1>2, <2>1
  <2>5. QED
    BY <1>5, <1>7, <2>1, <2>3, <2>4
<1>8. ASSUME NEW j \in 1..L, NEW l \in 1..L, j # l, F[j].end > F[l].start, F[l].end > F[j].start,
             ~\E k \in 1..L - 1 : t[k].end > t[k + 1].start
      PROVE  FALSE
  <2>1. \A n \in 1..L - 1 : t[n].end <= t[n + 1].start
    <3>1. TAKE n \in 1..L - 1
    <3>2. n \in 1..L /\ n + 1 \in 1..L
      BY <1>0
    <3>3. QED
      BY <1>6, <1>8, <3>2
  <2>2. \A m, n \in 1..L : m < n => t[m].end <= t[n].start
    BY ONLY <1>0, <1>6, <2>1, Chain
  <2>3. PICK m \in 1..L : p[m] = j
    BY <1>2
  <2>4. PICK n \in 1..L : p[n] = l
    BY <1>2
  <2>5. m # n
    BY <1>8, <2>3, <2>4
  <2>6. t[m].end > t[n].start /\ t[n].end > t[m].start
    BY <1>5, <1>8, <2>3, <2>4
  <2>7. t[m].end \in Int /\ t[n].end \in Int /\ t[m].start \in Int /\ t[n].start \in Int
    BY <1>6
  <2>8. m < n \/ n < m
    BY <2>5
  <2>9. QED
    BY <2>2, <2>6, <2>7, <2>8
<1>9. QED
  BY <1>3, <1>4, <1>7, <1>8

\* The first and the last replacement that become the m-th combined one
From(first, m) == CHOOSE k \in first : Cardinality({j \in first : j <= k}) = m
To(first, L, m) == IF m < Cardinality(first) THEN From(first, m + 1) - 1 ELSE L

\* Everything is between them, and nothing else comes first.
Divided(L, first, M, A, Z) ==
    /\ \A m \in 1..M : A[m] = From(first, m) /\ Z[m] = To(first, L, m)
    /\ \A m \in 1..M : /\ A[m] \in first /\ A[m] <= Z[m]
                       /\ \A k \in first : ~(A[m] < k /\ k <= Z[m])
    /\ \A m, l \in 1..M : m < l => Z[m] < A[l]
    /\ \A k \in 1..L : \E m \in 1..M : A[m] <= k /\ k <= Z[m]

\* The first and last replacements as functions
LEMMA Runs ==
    ASSUME NEW L \in Nat, NEW first \in SUBSET (1..L), 1 \in first, NEW M, M = Cardinality(first)
    PROVE  /\ M \in Nat
           /\ \E A, Z \in [1..M -> 1..L] : Divided(L, first, M, A, Z)
<1> DEFINE R == {x \in first \X first : x[1] <= x[2]}
           rank == [k \in first |-> Cardinality(Down(first, R, k))]
           A == [m \in 1..M |-> From(first, m)]
           Z == [m \in 1..M |-> To(first, L, m)]
<1>1. IsFiniteSet(first) /\ M \in Nat
  <2>1. IsFiniteSet(1..L)
    BY FS_Interval
  <2>2. QED
    BY <2>1, FS_Subset, FS_CardinalityType
<1>2. \A j, k \in first : j \in 1..L /\ j \in Int /\ (<<j, k>> \in R <=> j <= k)
  OBVIOUS
<1>3. \A k \in first : Down(first, R, k) = {j \in first : j <= k}
  BY <1>2 DEF Down
<1>4. \A k \in first : rank[k] = Cardinality(Down(first, R, k))
  OBVIOUS
<1>5. \A k \in first : Cardinality({j \in first : j <= k}) = rank[k]
  BY <1>3, <1>4
<1>6. rank = [k \in first |-> rank[k]]
  OBVIOUS
<1> HIDE DEF R, rank
<1>7. /\ \A x \in first : <<x, x>> \in R
      /\ \A x, y \in first : <<x, y>> \in R /\ <<y, x>> \in R => x = y
      /\ \A x, y, z \in first : <<x, y>> \in R /\ <<y, z>> \in R => <<x, z>> \in R
      /\ \A x, y \in first : <<x, y>> \in R \/ <<y, x>> \in R
  BY <1>2
<1>8. rank \in [first -> 1..M]
  BY ONLY <1>1, <1>4, <1>6, <1>7, M = Cardinality(first), Ranked
<1>9. \A j, k \in first : rank[j] <= rank[k] <=> <<j, k>> \in R
  BY ONLY <1>1, <1>4, <1>6, <1>7, Ranked
<1>10. rank \in Surjection(first, 1..M)
  BY ONLY <1>1, <1>4, <1>6, <1>7, M = Cardinality(first), Ranked
<1>11. \A m \in 1..M : \E k \in first : rank[k] = m
  BY <1>10 DEF Surjection
<1>12. \A j, k \in first : rank[j] <= rank[k] <=> j <= k
  BY <1>2, <1>9
<1>13. \A j, k \in first : rank[j] < rank[k] <=> j < k
  <2>1. TAKE j, k \in first
  <2>2. rank[j] \in 1..M /\ rank[k] \in 1..M
    BY <1>8
  <2>3. (rank[j] <= rank[k] <=> j <= k) /\ (rank[k] <= rank[j] <=> k <= j) /\ j \in Int /\ k \in Int
    BY <1>2, <1>12
  <2>4. QED
    BY <1>1, <2>2, <2>3
<1>14. \A m \in 1..M : A[m] \in first /\ A[m] \in 1..L /\ rank[A[m]] = m
  <2>1. TAKE m \in 1..M
  <2>2. PICK k \in first : rank[k] = m
    BY <1>11
  <2>3. From(first, m) = CHOOSE kk \in first : rank[kk] = m
    BY <1>5 DEF From
  <2>4. QED
    BY <1>2, <2>2, <2>3
<1>15. \A m \in 1..M : /\ m < M => m + 1 \in 1..M /\ Z[m] = A[m + 1] - 1
                       /\ ~(m < M) => m = M /\ Z[m] = L
  BY <1>1 DEF To
<1>16. \A m \in 1..M : A[m] = From(first, m) /\ Z[m] = To(first, L, m)
  OBVIOUS
<1>17. A = [m \in 1..M |-> A[m]] /\ Z = [m \in 1..M |-> Z[m]]
  OBVIOUS
<1> HIDE DEF A, Z
<1>18. \A m, l \in 1..M : m < l => A[m] < A[l]
  BY <1>13, <1>14
<1>19. ASSUME NEW m \in 1..M
       PROVE  /\ Z[m] \in 1..L /\ A[m] <= Z[m]
              /\ \A k \in first : ~(A[m] < k /\ k <= Z[m])
  <2>1. A[m] \in first /\ A[m] \in 1..L /\ rank[A[m]] = m
    BY <1>14
  <2>2. CASE m < M
    <3>1. m + 1 \in 1..M /\ m < m + 1 /\ Z[m] = A[m + 1] - 1
      BY <1>1, <1>15, <2>2
    <3>2. A[m] < A[m + 1] /\ A[m + 1] \in 1..L /\ A[m + 1] \in first /\ rank[A[m + 1]] = m + 1
      BY <1>14, <1>18, <3>1
    <3>3. ASSUME NEW k \in first, A[m] < k, k <= Z[m]
          PROVE  FALSE
      <4>1. k \in 1..L /\ rank[k] \in 1..M
        BY <1>2, <1>8
      <4>2. k < A[m + 1]
        BY <3>1, <3>2, <3>3, <4>1
      <4>3. m < rank[k] /\ rank[k] < m + 1
        BY <1>13, <2>1, <3>2, <3>3, <4>2
      <4>4. QED
        BY <4>1, <4>3
    <3>4. QED
      BY <2>1, <3>1, <3>2, <3>3
  <2>3. CASE ~(m < M)
    <3>1. Z[m] = L /\ m = M
      BY <1>1, <1>15, <2>3
    <3>2. ASSUME NEW k \in first, A[m] < k
          PROVE  FALSE
      <4>1. rank[k] \in 1..M
        BY <1>8
      <4>2. m < rank[k]
        BY <1>13, <2>1, <3>2
      <4>3. QED
        BY <1>1, <3>1, <4>1, <4>2
    <3>3. QED
      BY <2>1, <3>1, <3>2
  <2>4. QED
    BY <2>2, <2>3
<1>20. ASSUME NEW m \in 1..M, NEW l \in 1..M, m < l
       PROVE  Z[m] < A[l]
  <2>1. m < M /\ (m + 1 = l \/ m + 1 < l)
    BY <1>1, <1>20
  <2>2. m + 1 \in 1..M /\ Z[m] = A[m + 1] - 1
    BY <1>1, <1>15, <2>1
  <2>3. A[m + 1] <= A[l]
    BY <1>14, <1>18, <2>1, <2>2
  <2>4. A[m + 1] \in 1..L /\ A[l] \in 1..L
    BY <1>14, <2>2
  <2>5. QED
    BY <2>2, <2>3, <2>4
<1>21. ASSUME NEW k \in 1..L
       PROVE  \E m \in 1..M : A[m] <= k /\ k <= Z[m]
  <2> DEFINE B == {j \in first : j <= k}
  <2>1. B \in SUBSET (0..L) /\ B # {}
    <3>1. 1 \in B
      OBVIOUS
    <3>2. \A x \in B : x \in 0..L
      BY <1>2
    <3>3. QED
      BY <3>1, <3>2
  <2>2. \A x : x \in B <=> x \in first /\ x <= k
    OBVIOUS
  <2> HIDE DEF B
  <2>3. PICK g \in B : \A x \in B : x <= g
    BY <2>1, Greatest
  <2>4. g \in first /\ g <= k /\ g \in 1..L
    BY <1>2, <2>2
  <2>5. PICK m \in 1..M : rank[g] = m
    BY <1>8, <2>4
  <2>6. A[m] \in first /\ A[m] \in 1..L /\ rank[A[m]] = m
    BY <1>14
  <2>7. ~(A[m] < g) /\ ~(g < A[m])
    <3>1. ~(rank[A[m]] < rank[g]) /\ ~(rank[g] < rank[A[m]])
      BY <2>5, <2>6
    <3>2. QED
      BY <1>13, <2>4, <2>6, <3>1
  <2>8. A[m] = g
    BY <2>4, <2>6, <2>7
  <2>9. k <= Z[m]
    <3>1. CASE m < M
      <4>1. m + 1 \in 1..M /\ Z[m] = A[m + 1] - 1 /\ m < m + 1
        BY <1>1, <1>15, <3>1
      <4>2. A[m + 1] \in first /\ A[m + 1] \in 1..L /\ A[m] < A[m + 1]
        BY <1>14, <1>18, <4>1
      <4>3. ~(A[m + 1] <= k)
        BY <2>2, <2>3, <2>4, <2>8, <4>2
      <4>4. QED
        BY <4>1, <4>2, <4>3
    <3>2. CASE ~(m < M)
      BY <1>1, <1>15, <3>2
    <3>3. QED
      BY <3>1, <3>2
  <2>10. QED
    BY <2>4, <2>8, <2>9
<1>22. A \in [1..M -> 1..L] /\ Z \in [1..M -> 1..L]
  BY <1>14, <1>17, <1>19
<1>23. QED
  BY <1>1, <1>14, <1>16, <1>19, <1>20, <1>21, <1>22 DEF Divided

\* A function on 1..n is a sequence.
LEMMA SeqOfFunction ==
    ASSUME NEW S, NEW n \in Nat, NEW s \in [1..n -> S]
    PROVE  s \in Seq(S) /\ Len(s) = n
OBVIOUS

\* combineReplacements of replacements that do not overlap: nothing is lost, doubled or moved, and
\* what it returns is in order and does not touch.
LEMMA CombineIsSound ==
    ASSUME fixes \in FixLists, NEW f \in DOMAIN fixes, ~Overlap(Tagged(f)), NEW c, c = Combine(Tagged(f))
    PROVE  /\ c \in Seq(Replacement)
           /\ \A m \in DOMAIN c : c[m].fix = f /\ Combined(c[m])
           /\ \A k \in DOMAIN fixes[f] : \E m \in DOMAIN c : In(<<f, k>>, c[m].text)
           /\ \A m, l \in DOMAIN c : m < l => c[m].end < c[l].start
<1> DEFINE t == Sort(Tagged(f))
           L == Len(fixes[f])
           F == fixes[f]
           first == {k \in DOMAIN t : k = 1 \/ t[k - 1].end # t[k].start}
           M == Cardinality(first)
<1>0. /\ L \in Nat \ {0} /\ DOMAIN F = 1..L /\ N \in Nat
      /\ \A k \in 1..L : F[k].start \in 0..N /\ F[k].end \in 0..N /\ F[k].start <= F[k].end
  BY FixesType
<1>1. DOMAIN t = 1..L /\ Len(t) = L
  BY SortedFix
<1>2. PICK p \in [1..L -> 1..L] :
                /\ \A j, k \in 1..L : p[j] = p[k] => j = k
                /\ \A k \in 1..L : \E n \in 1..L : p[n] = k
                /\ \A n \in 1..L : /\ t[n].fix = f
                                   /\ t[n].start = fixes[f][p[n]].start
                                   /\ t[n].end = fixes[f][p[n]].end
                                   /\ t[n].text = <<<<f, p[n]>>>>
                /\ \A m, n \in 1..L : m < n => /\ ~Before(t[n], t[m])
                                               /\ ~Before(t[m], t[n]) => p[m] < p[n]
  BY SortedFix
<1>3. c = [m \in 1..M |-> [fix |-> t[From(first, m)].fix, start |-> t[From(first, m)].start, end |-> t[To(first, L, m)].end,
                           text |-> [n \in 1..To(first, L, m) - From(first, m) + 1 |->
                                       t[From(first, m) + n - 1].text[1]]]]
  <2>1. c = Pieces(t)
    BY DEF Combine
  <2>2. Len(t) = L
    BY <1>1
  <2> HIDE DEF t, L
  <2>3. c = [m \in 1..M |-> [fix |-> t[From(first, m)].fix, start |-> t[From(first, m)].start, end |-> t[To(first, Len(t), m)].end,
                             text |-> [n \in 1..To(first, Len(t), m) - From(first, m) + 1 |->
                                         t[From(first, m) + n - 1].text[1]]]]
    BY ONLY <2>1, Zenon DEF Pieces, From, To
  <2>4. QED
    BY ONLY <2>2, <2>3
<1>4. \A k \in 1..L - 1 : ~(t[k].end > t[k + 1].start)
  BY <1>1 DEF Overlap
<1>5. first \in SUBSET (1..L) /\ 1 \in first
  BY <1>0, <1>1
<1>6. \A k \in 1..L : k \notin first => k - 1 \in 1..L /\ t[k - 1].end = t[k].start
  BY <1>0, <1>1
<1>7. \A k \in first : k # 1 => k - 1 \in 1..L /\ t[k - 1].end # t[k].start
  BY <1>0, <1>1
<1> HIDE DEF t, F, L, first
<1>8. \A n \in 1..L : /\ p[n] \in 1..L /\ t[n].start = F[p[n]].start /\ t[n].end = F[p[n]].end
                      /\ t[n].fix = f /\ t[n].text[1] = <<f, p[n]>>
  BY <1>2 DEF F
<1>9. \A n \in 1..L : t[n].start \in 0..N /\ t[n].end \in 0..N /\ t[n].start <= t[n].end
  BY <1>0, <1>8
<1>10. \A m, n \in 1..L : m < n => t[m].end <= t[n].start
  <2>1. \A n \in 1..L : t[n].start \in Int /\ t[n].end \in Int /\ t[n].start <= t[n].end
    <3>1. TAKE n \in 1..L
    <3>2. t[n].start \in 0..N /\ t[n].end \in 0..N /\ t[n].start <= t[n].end
      BY <1>9
    <3>3. QED
      BY <1>0, <3>2
  <2>2. \A n \in 1..L - 1 : t[n].end <= t[n + 1].start
    <3>1. TAKE n \in 1..L - 1
    <3>2. n \in 1..L /\ n + 1 \in 1..L
      BY <1>0
    <3>3. QED
      BY <1>4, <2>1, <3>2
  <2>3. L \in Nat
    BY <1>0
  <2>4. QED
    BY ONLY <2>1, <2>2, <2>3, Chain
<1> HIDE DEF t
<1>11. M \in Nat /\ L \in Nat /\ M = Cardinality(first)
  <2>1. L \in Nat
    BY <1>0
  <2>2. M = Cardinality(first)
    OBVIOUS
  <2> HIDE DEF M
  <2>3. M \in Nat
    BY <2>1, <2>2, <1>5, Runs
  <2>4. QED
    BY <2>1, <2>2, <2>3
<1> HIDE DEF M
<1>12. PICK A, Z \in [1..M -> 1..L] : Divided(L, first, M, A, Z)
  BY ONLY <1>5, <1>11, Runs
<1>13. /\ \A m \in 1..M : A[m] = From(first, m) /\ Z[m] = To(first, L, m)
       /\ \A m \in 1..M : /\ A[m] \in first /\ A[m] <= Z[m]
                          /\ \A k \in first : ~(A[m] < k /\ k <= Z[m])
       /\ \A m, l \in 1..M : m < l => Z[m] < A[l]
       /\ \A k \in 1..L : \E m \in 1..M : A[m] <= k /\ k <= Z[m]
  BY <1>12 DEF Divided
<1>14. DOMAIN c = 1..M /\ Len(c) = M
  BY <1>3, <1>11
<1>15. ASSUME NEW m \in 1..M
       PROVE  /\ c[m].fix = f /\ c[m].start = t[A[m]].start /\ c[m].end = t[Z[m]].end
              /\ A[m] \in 1..L /\ Z[m] \in 1..L /\ A[m] <= Z[m]
              /\ c[m].text \in Seq(Nat \X Nat) /\ DOMAIN c[m].text = 1..Z[m] - A[m] + 1
              /\ \A n \in 1..Z[m] - A[m] + 1 :
                   A[m] + n - 1 \in 1..L /\ c[m].text[n] = <<f, p[A[m] + n - 1]>>
              /\ c[m] \in Replacement
  <2>1. /\ c[m].fix = t[A[m]].fix /\ c[m].start = t[A[m]].start /\ c[m].end = t[Z[m]].end
        /\ c[m].text = [n \in 1..Z[m] - A[m] + 1 |-> t[A[m] + n - 1].text[1]]
        /\ c[m] = [fix |-> t[A[m]].fix, start |-> t[A[m]].start, end |-> t[Z[m]].end,
                   text |-> [n \in 1..Z[m] - A[m] + 1 |-> t[A[m] + n - 1].text[1]]]
    <3>1. c[m] = [fix |-> t[A[m]].fix, start |-> t[A[m]].start, end |-> t[Z[m]].end,
                  text |-> [n \in 1..Z[m] - A[m] + 1 |-> t[A[m] + n - 1].text[1]]]
      BY <1>3, <1>13
    <3>2. QED
      BY <3>1
  <2>2. A[m] \in 1..L /\ Z[m] \in 1..L /\ A[m] <= Z[m]
    BY <1>13
  <2>3. Z[m] - A[m] + 1 \in Nat
    BY <2>2
  <2>4. DOMAIN c[m].text = 1..Z[m] - A[m] + 1
    BY <2>1
  <2>5. ASSUME NEW n \in 1..Z[m] - A[m] + 1
        PROVE  A[m] + n - 1 \in 1..L /\ c[m].text[n] = <<f, p[A[m] + n - 1]>> /\ c[m].text[n] \in Nat \X Nat
    <3>7. A[m] \in Int /\ Z[m] \in Int /\ L \in Int /\ 1 <= A[m] /\ Z[m] <= L
      BY <1>0, <2>2
    <3>8. n \in Int /\ 1 <= n /\ n <= Z[m] - A[m] + 1
      BY <2>3
    <3>1. A[m] + n - 1 \in 1..L
      <4>1. \A a, l, y, z \in Int : 1 <= a /\ z <= l /\ 1 <= y /\ y <= z - a + 1 => a + y - 1 \in 1..l
        OBVIOUS
      <4>2. QED
        BY <3>7, <3>8, <4>1
    <3>2. c[m].text[n] = t[A[m] + n - 1].text[1]
      BY <2>1
    <3>3. f \in Nat
      BY FixesType
    <3>4. p[A[m] + n - 1] \in Nat
      BY <1>8, <3>1
    <3>5. c[m].text[n] = <<f, p[A[m] + n - 1]>>
      BY <3>1, <3>2, <1>8
    <3>6. QED
      BY <3>1, <3>3, <3>4, <3>5
  <2>6. c[m].text \in Seq(Nat \X Nat)
    <3>1. c[m].text \in [1..Z[m] - A[m] + 1 -> Nat \X Nat]
      BY <2>1, <2>5
    <3>2. QED
      BY <2>3, <3>1, SeqOfFunction
  <2>7. t[A[m]].fix = f /\ t[A[m]].start \in 0..N /\ t[Z[m]].end \in 0..N
    BY <1>8, <1>9, <2>2
  <2>8. c[m] \in Replacement
    BY <2>1, <2>6, <2>7 DEF Replacement
  <2>9. QED
    BY <2>1, <2>2, <2>4, <2>5, <2>6, <2>7, <2>8
<1>16. c \in Seq(Replacement)
  <2>1. c = [m \in 1..M |-> c[m]]
    BY <1>3
  <2>2. c \in [1..M -> Replacement]
    BY <1>15, <2>1
  <2>3. QED
    BY <1>11, <2>2, SeqOfFunction
<1>17. ASSUME NEW m \in 1..M, NEW l \in 1..M, m < l
       PROVE  c[m].end < c[l].start
  <2>1. Z[m] < A[l] /\ A[l] \in first
    BY <1>13, <1>17
  <2>2. A[l] # 1 /\ A[l] \in 1..L /\ Z[m] \in 1..L
    BY <1>15, <2>1
  <2>3. A[l] - 1 \in 1..L /\ t[A[l] - 1].end # t[A[l]].start
    BY <1>7, <2>1, <2>2
  <2>4. t[A[l] - 1].end <= t[A[l]].start
    BY <1>10, <2>2, <2>3
  <2>5. t[A[l] - 1].end < t[A[l]].start
    BY <1>9, <2>2, <2>3, <2>4
  <2>6. t[Z[m]].end <= t[A[l] - 1].end
    <3>1. CASE Z[m] = A[l] - 1
      BY <1>9, <2>2, <3>1
    <3>2. CASE Z[m] # A[l] - 1
      <4>1. Z[m] < A[l] - 1
        BY <2>1, <2>2, <3>2
      <4>2. t[Z[m]].end <= t[A[l] - 1].start
        BY <1>10, <2>2, <2>3, <4>1
      <4>3. QED
        BY <1>9, <2>2, <2>3, <4>2
    <3>3. QED
      BY <3>1, <3>2
  <2>7. c[m].end = t[Z[m]].end /\ c[l].start = t[A[l]].start
    BY <1>15
  <2>8. t[Z[m]].end \in Int /\ t[A[l]].start \in Int /\ t[A[l] - 1].end \in Int
    BY <1>9, <2>2, <2>3
  <2>9. QED
    BY <2>5, <2>6, <2>7, <2>8
<1>18. ASSUME NEW k \in 1..L
       PROVE  \E m \in 1..M : In(<<f, k>>, c[m].text)
  <2>1. PICK x \in 1..L : p[x] = k
    BY <1>2
  <2>2. PICK m \in 1..M : A[m] <= x /\ x <= Z[m]
    BY <1>13
  <2>3. A[m] \in Int /\ Z[m] \in Int
    BY <1>15
  <2>4. x - A[m] + 1 \in 1..Z[m] - A[m] + 1 /\ A[m] + (x - A[m] + 1) - 1 = x
    BY <2>2, <2>3
  <2>5. c[m].text[x - A[m] + 1] = <<f, k>>
    BY <1>15, <2>1, <2>4
  <2>6. QED
    BY <1>15, <2>4, <2>5 DEF In
<1>19. ASSUME NEW m \in 1..M
       PROVE  Combined(c[m])
  <2> DEFINE T == c[m].text
             K == Z[m] - A[m] + 1
  <2>1. /\ c[m].fix = f /\ c[m].start = t[A[m]].start /\ c[m].end = t[Z[m]].end
        /\ A[m] \in 1..L /\ Z[m] \in 1..L /\ A[m] <= Z[m] /\ DOMAIN T = 1..K
    BY <1>15
  <2>2. \A n \in 1..K : /\ A[m] + n - 1 \in 1..L /\ T[n] = <<f, p[A[m] + n - 1]>>
                        /\ A[m] <= A[m] + n - 1 /\ A[m] + n - 1 <= Z[m]
    <3>1. TAKE n \in 1..K
    <3>2. A[m] + n - 1 \in 1..L /\ T[n] = <<f, p[A[m] + n - 1]>>
      BY <1>15
    <3>3. A[m] \in Int /\ Z[m] \in Int
      BY <2>1
    <3>4. QED
      BY <3>2, <3>3
  <2>3. \A x \in 1..L : A[m] <= x => t[A[m]].start <= t[x].start
    <3>1. TAKE x \in 1..L
    <3>2. HAVE A[m] <= x
    <3>3. CASE A[m] = x
      BY <1>9, <3>3
    <3>4. CASE A[m] # x
      <4>1. t[A[m]].end <= t[x].start
        BY <1>10, <2>1, <3>2, <3>4
      <4>2. QED
        BY <1>9, <2>1, <4>1
    <3>5. QED
      BY <3>3, <3>4
  <2>4. \A x \in 1..L : x <= Z[m] => t[x].end <= t[Z[m]].end
    <3>1. TAKE x \in 1..L
    <3>2. HAVE x <= Z[m]
    <3>3. CASE Z[m] = x
      BY <1>9, <3>3
    <3>4. CASE Z[m] # x
      <4>1. t[x].end <= t[Z[m]].start
        BY <1>10, <2>1, <3>2, <3>4
      <4>2. QED
        BY <1>9, <2>1, <4>1
    <3>5. QED
      BY <3>3, <3>4
  <2>5. \A n \in 1..K : /\ T[n][1] = f /\ T[n][2] = p[A[m] + n - 1] /\ T[n][2] \in DOMAIN fixes[f]
                        /\ At(T[n]) = F[p[A[m] + n - 1]]
                        /\ At(T[n]).start = t[A[m] + n - 1].start /\ At(T[n]).end = t[A[m] + n - 1].end
    <3>1. TAKE n \in 1..K
    <3>2. A[m] + n - 1 \in 1..L /\ T[n] = <<f, p[A[m] + n - 1]>>
      BY <2>2
    <3>3. T[n][1] = f /\ T[n][2] = p[A[m] + n - 1]
      BY <3>2
    <3>4. At(T[n]) = F[p[A[m] + n - 1]]
      BY <3>3 DEF At, F
    <3>5. p[A[m] + n - 1] \in DOMAIN F
      BY <1>0, <1>8, <3>2
    <3>6. QED
      BY <1>8, <3>2, <3>3, <3>4, <3>5 DEF F
  <2> HIDE DEF T, K
  <2>6. c[m].start <= c[m].end
    <3>1. t[A[m]].start <= t[Z[m]].start
      BY <2>1, <2>3
    <3>2. QED
      BY <1>9, <2>1, <3>1
  <2>7. T # <<>>
    <3>1. 1 \in 1..K
      BY <2>1 DEF K
    <3>2. DOMAIN T # {}
      BY <2>1, <3>1
    <3>3. DOMAIN <<>> = {}
      OBVIOUS
    <3>4. QED
      BY <3>2, <3>3
  <2>8. ASSUME NEW n \in 1..K
        PROVE  /\ T[n][1] = c[m].fix /\ T[n][2] \in DOMAIN fixes[c[m].fix]
               /\ c[m].start <= At(T[n]).start /\ At(T[n]).end <= c[m].end
    <3>1. A[m] + n - 1 \in 1..L /\ A[m] <= A[m] + n - 1 /\ A[m] + n - 1 <= Z[m]
      BY <2>2
    <3>2. t[A[m]].start <= t[A[m] + n - 1].start /\ t[A[m] + n - 1].end <= t[Z[m]].end
      BY <2>3, <2>4, <3>1
    <3>3. QED
      BY <2>1, <2>5, <3>2
  <2>9. ASSUME NEW x \in c[m].start..c[m].end - 1
        PROVE  \E n \in 1..K : At(T[n]).start <= x /\ x < At(T[n]).end
    <3> DEFINE B == {k \in 1..L : A[m] <= k /\ k <= Z[m] /\ t[k].start <= x}
    <3>1. x \in Int /\ t[A[m]].start <= x /\ x < t[Z[m]].end
      BY <1>9, <2>1
    <3>2. B \in SUBSET (0..L) /\ A[m] \in B /\ L \in Nat
      <4>1. A[m] \in B /\ L \in Nat
        BY <1>0, <2>1, <3>1
      <4>2. B \in SUBSET (0..L)
        OBVIOUS
      <4>3. QED
        BY <4>1, <4>2
    <3>3. PICK k \in B : \A y \in B : y <= k
      BY <3>2, Greatest
    <3>4. k \in 1..L /\ A[m] <= k /\ k <= Z[m] /\ t[k].start <= x
      BY <3>3
    <3>5. x < t[k].end
      <4>1. CASE k = Z[m]
        BY <3>1, <4>1
      <4>2. CASE k # Z[m]
        <5>1. k + 1 \in 1..L /\ A[m] <= k + 1 /\ k + 1 <= Z[m] /\ A[m] < k + 1
          <6>1. A[m] \in Int /\ Z[m] \in Int /\ Z[m] <= L /\ k \in Int /\ 1 <= k /\ L \in Int
            BY <1>0, <2>1, <3>4
          <6>2. A[m] <= k /\ k <= Z[m] /\ k # Z[m]
            BY <3>4, <4>2
          <6> HIDE DEF B
          <6>3. \A a, l, y, z \in Int : a <= y /\ y <= z /\ y # z /\ z <= l /\ 1 <= y =>
                  /\ y + 1 \in 1..l /\ a <= y + 1 /\ y + 1 <= z /\ a < y + 1
            OBVIOUS
          <6>4. QED
            BY ONLY <6>1, <6>2, <6>3
        <5>2. k + 1 \notin first
          <6>1. A[m] < k + 1 /\ k + 1 <= Z[m]
            BY <5>1
          <6>2. QED
            BY <1>13, <6>1
        <5>3. t[k].end = t[k + 1].start
          <6>1. (k + 1) - 1 = k
            BY <3>4
          <6>2. QED
            BY <1>6, <5>1, <5>2, <6>1
        <5>4. k + 1 \notin B
          BY <3>3, <3>4
        <5>5. ~(t[k + 1].start <= x)
          BY <5>1, <5>4
        <5>6. t[k + 1].start \in Int
          <6>1. t[k + 1].start \in 0..N
            BY <1>9, <5>1
          <6>2. QED
            BY <6>1, <1>0
        <5>7. QED
          BY <3>1, <5>3, <5>5, <5>6
      <4>3. QED
        BY <4>1, <4>2
    <3>6. k - A[m] + 1 \in 1..K /\ A[m] + (k - A[m] + 1) - 1 = k
      BY <2>1, <3>4 DEF K
    <3>7. At(T[k - A[m] + 1]).start = t[k].start /\ At(T[k - A[m] + 1]).end = t[k].end
      BY <2>5, <3>6
    <3>8. QED
      BY <3>4, <3>5, <3>6, <3>7
  <2>10. ASSUME NEW n \in 1..K, NEW q \in 1..K, n < q
         PROVE  /\ T[n] # T[q]
                /\ At(T[n]) = At(T[q]) => T[n][2] < T[q][2]
    <3> DEFINE x == A[m] + n - 1
               y == A[m] + q - 1
    <3>1. x \in 1..L /\ y \in 1..L /\ x < y
      BY <2>1, <2>2, <2>10
    <3>2. p[x] # p[y]
      BY <1>2, <3>1
    <3>3. At(T[n]) = At(T[q]) => ~Before(t[x], t[y])
      <4>1. HAVE At(T[n]) = At(T[q])
      <4>2. t[x].start = t[y].start /\ t[x].end = t[y].end
        BY <2>5, <4>1
      <4>3. t[x].start \in Int /\ t[x].end \in Int
        <5>1. t[x].start \in 0..N /\ t[x].end \in 0..N
          BY <1>9, <3>1
        <5>2. QED
          BY <5>1
      <4>4. QED
        BY <4>2, <4>3 DEF Before
    <3>4. At(T[n]) = At(T[q]) => p[x] < p[y]
      BY <1>2, <3>1, <3>3
    <3>5. QED
      BY <2>5, <3>2, <3>4
  <2>11. DOMAIN c[m].text = 1..K
    BY <2>1 DEF T
  <2>12. PICK r : r = c[m]
    OBVIOUS
  <2>13. DOMAIN r.text = 1..K /\ r.text = T
    BY <2>11, <2>12 DEF T
  <2>14. r.start <= r.end /\ r.text # <<>>
    BY <2>6, <2>7, <2>12, <2>13
  <2>15. \A q \in DOMAIN r.text :
            /\ r.text[q][1] = r.fix /\ r.text[q][2] \in DOMAIN fixes[r.fix]
            /\ r.start <= At(r.text[q]).start /\ At(r.text[q]).end <= r.end
    BY <2>8, <2>12, <2>13
  <2>16. \A x \in r.start..r.end - 1 :
            \E q \in DOMAIN r.text : At(r.text[q]).start <= x /\ x < At(r.text[q]).end
    BY <2>9, <2>12, <2>13
  <2>17. \A n, q \in DOMAIN r.text : n < q =>
            /\ r.text[n] # r.text[q]
            /\ At(r.text[n]) = At(r.text[q]) => r.text[n][2] < r.text[q][2]
    BY <2>10, <2>13
  <2>18. Combined(r)
    BY ONLY <2>14, <2>15, <2>16, <2>17 DEF Combined
  <2>19. QED
    BY <2>12, <2>18
<1>20. \A m \in DOMAIN c : c[m].fix = f /\ Combined(c[m])
  <2>1. \A m \in 1..M : c[m].fix = f
    BY <1>15
  <2>2. \A m \in 1..M : Combined(c[m])
    BY <1>19
  <2>3. QED
    BY ONLY <1>14, <2>1, <2>2
<1>21. \A k \in DOMAIN fixes[f] : \E m \in DOMAIN c : In(<<f, k>>, c[m].text)
  <2>1. \A k \in 1..L : \E m \in 1..M : In(<<f, k>>, c[m].text)
    BY <1>14, <1>18
  <2>2. DOMAIN fixes[f] = 1..L
    BY <1>0 DEF F
  <2>3. QED
    BY ONLY <1>14, <2>1, <2>2
<1>22. \A m, l \in DOMAIN c : m < l => c[m].end < c[l].start
  <2>1. \A m, l \in 1..M : m < l => c[m].end < c[l].start
    BY <1>17
  <2>2. QED
    BY ONLY <1>14, <2>1
<1>23. QED
  BY ONLY <1>16, <1>20, <1>21, <1>22

-----------------------------------------------------------------------------
(* The replacements of all fixes                                           *)

\* They are the combined replacements of the first m fixes: none is missing, those of a fix
\* do not touch, and no fix overlaps itself.
CombinedTo(rs, m) ==
    /\ rs \in Seq(Replacement)
    /\ \A n \in DOMAIN rs : rs[n].fix \in 1..m /\ Combined(rs[n])
    /\ \A f \in 1..m : \A k \in DOMAIN fixes[f] : \E n \in DOMAIN rs : In(<<f, k>>, rs[n].text)
    /\ \A n, l \in DOMAIN rs :
         n # l /\ rs[n].fix = rs[l].fix => rs[n].end < rs[l].start \/ rs[l].end < rs[n].start
    /\ \A f \in 1..m : ~Overlapping(f)

Sorted(rs) == \A n, l \in DOMAIN rs : n < l => ~Before(rs[l], rs[n])

\* The elements of a concatenation
LEMMA Concatenated ==
    ASSUME NEW S, NEW s \in Seq(S), NEW t \in Seq(S)
    PROVE  /\ s \o t \in Seq(S) /\ Len(s \o t) = Len(s) + Len(t) /\ Len(s) \in Nat /\ Len(t) \in Nat
           /\ DOMAIN s = 1..Len(s) /\ DOMAIN t = 1..Len(t) /\ DOMAIN (s \o t) = 1..Len(s) + Len(t)
           /\ \A n \in 1..Len(s) : (s \o t)[n] = s[n]
           /\ \A n \in 1..Len(t) : (s \o t)[Len(s) + n] = t[n]
           /\ \A n \in 1..Len(s) + Len(t) :
                n \in 1..Len(s) \/ \E l \in 1..Len(t) : n = Len(s) + l
<1>1. Len(s) \in Nat /\ Len(t) \in Nat /\ DOMAIN s = 1..Len(s) /\ DOMAIN t = 1..Len(t)
  OBVIOUS
<1>2. s \o t \in Seq(S) /\ Len(s \o t) = Len(s) + Len(t) /\ DOMAIN (s \o t) = 1..Len(s) + Len(t)
  OBVIOUS
<1>3. \A n \in 1..Len(s) : (s \o t)[n] = s[n]
  BY <1>1
<1>4. \A n \in 1..Len(t) : (s \o t)[Len(s) + n] = t[n]
  BY <1>1
<1>5. ASSUME NEW n \in 1..Len(s) + Len(t), n \notin 1..Len(s)
      PROVE  \E l \in 1..Len(t) : n = Len(s) + l
  <2>1. n - Len(s) \in 1..Len(t) /\ n = Len(s) + (n - Len(s))
    BY <1>1, <1>5
  <2>2. QED
    BY <2>1
<1>6. QED
  BY <1>1, <1>2, <1>3, <1>4, <1>5

\* Nothing is combined yet.
LEMMA NothingCombined == CombinedTo(<<>>, 0)
<1>1. <<>> \in Seq(Replacement) /\ DOMAIN <<>> = {}
  OBVIOUS
<1>2. 1..0 = {}
  OBVIOUS
<1>3. QED
  BY <1>1, <1>2 DEF CombinedTo

\* A replacement has a position and a text.
LEMMA ReplacementType ==
    ASSUME N \in Nat, NEW r \in Replacement
    PROVE  /\ r.fix \in DOMAIN fixes /\ r.start \in Int /\ r.end \in Int
           /\ 0 <= r.start /\ r.end <= N /\ r.text \in Seq(Nat \X Nat)
BY DEF Replacement

\* The replacements of one more fix are added.
LEMMA FixIsAdded ==
    ASSUME fixes \in FixLists, NEW m \in Nat, NEW f \in DOMAIN fixes, f = m + 1,
           NEW rs, CombinedTo(rs, m), ~Overlap(Tagged(f)), NEW c, c = Combine(Tagged(f))
    PROVE  CombinedTo(rs \o c, f)
<1> DEFINE s == rs \o c
<1>1. rs \in Seq(Replacement)
  BY DEF CombinedTo
<1>2. /\ c \in Seq(Replacement)
      /\ \A n \in DOMAIN c : c[n].fix = f /\ Combined(c[n])
      /\ \A k \in DOMAIN fixes[f] : \E n \in DOMAIN c : In(<<f, k>>, c[n].text)
      /\ \A n, l \in DOMAIN c : n < l => c[n].end < c[l].start
  BY CombineIsSound
<1>3. /\ s \in Seq(Replacement) /\ Len(rs) \in Nat /\ Len(c) \in Nat
      /\ DOMAIN rs = 1..Len(rs) /\ DOMAIN c = 1..Len(c) /\ DOMAIN s = 1..Len(rs) + Len(c)
      /\ \A n \in 1..Len(rs) : s[n] = rs[n]
      /\ \A n \in 1..Len(c) : s[Len(rs) + n] = c[n]
      /\ \A n \in 1..Len(rs) + Len(c) :
           n \in 1..Len(rs) \/ \E l \in 1..Len(c) : n = Len(rs) + l
  <2>1. rs \in Seq(Replacement) /\ c \in Seq(Replacement)
    BY <1>1, <1>2
  <2>2. /\ s \in Seq(Replacement) /\ Len(rs) \in Nat /\ Len(c) \in Nat
        /\ DOMAIN rs = 1..Len(rs) /\ DOMAIN c = 1..Len(c) /\ DOMAIN s = 1..Len(rs) + Len(c)
    BY ONLY <2>1, Concatenated
  <2>3. \A n \in 1..Len(rs) : s[n] = rs[n]
    BY ONLY <2>1, Concatenated
  <2>4. \A n \in 1..Len(c) : s[Len(rs) + n] = c[n]
    BY ONLY <2>1, Concatenated
  <2>5. \A n \in 1..Len(rs) + Len(c) : n \in 1..Len(rs) \/ \E l \in 1..Len(c) : n = Len(rs) + l
    BY ONLY <2>1, Concatenated
  <2> HIDE DEF s
  <2>6. QED
    BY <2>2, <2>3, <2>4, <2>5
<1> HIDE DEF s
<1>4. \A n \in DOMAIN rs : n \in DOMAIN s
  BY <1>3
<1>5. \A n \in DOMAIN c : Len(rs) + n \in DOMAIN s
  BY <1>3
<1>6. ASSUME NEW n \in DOMAIN s
      PROVE  s[n].fix \in 1..f /\ Combined(s[n])
  <2>1. CASE n \in 1..Len(rs)
    <3>1. s[n] = rs[n] /\ rs[n].fix \in 1..m /\ Combined(rs[n])
      BY <1>3, <2>1 DEF CombinedTo
    <3>2. QED
      BY <3>1
  <2>2. CASE \E l \in 1..Len(c) : n = Len(rs) + l
    <3>1. PICK l \in 1..Len(c) : n = Len(rs) + l
      BY <2>2
    <3>2. s[n] = c[l] /\ c[l].fix = f /\ Combined(c[l])
      BY <1>2, <1>3, <3>1
    <3>3. QED
      BY <3>2
  <2>3. QED
    BY <1>3, <2>1, <2>2
<1>7. ASSUME NEW g \in 1..f, NEW k \in DOMAIN fixes[g]
      PROVE  \E n \in DOMAIN s : In(<<g, k>>, s[n].text)
  <2>1. CASE g = f
    <3>1. PICK n \in DOMAIN c : In(<<g, k>>, c[n].text)
      BY <1>2, <2>1
    <3>2. s[Len(rs) + n] = c[n]
      BY <1>3
    <3>3. QED
      BY <1>5, <3>1, <3>2
  <2>2. CASE g # f
    <3>1. g \in 1..m
      BY <2>2
    <3>2. PICK n \in DOMAIN rs : In(<<g, k>>, rs[n].text)
      BY <3>1 DEF CombinedTo
    <3>3. s[n] = rs[n]
      BY <1>3
    <3>4. QED
      BY <1>4, <3>2, <3>3
  <2>3. QED
    BY <2>1, <2>2
<1>8. ASSUME NEW n \in DOMAIN s, NEW l \in DOMAIN s, n # l, s[n].fix = s[l].fix
      PROVE  s[n].end < s[l].start \/ s[l].end < s[n].start
  <2>1. CASE n \in 1..Len(rs) /\ l \in 1..Len(rs)
    BY <1>3, <1>8, <2>1 DEF CombinedTo
  <2>2. CASE \E x, y \in 1..Len(c) : n = Len(rs) + x /\ l = Len(rs) + y
    <3>1. PICK x \in 1..Len(c), y \in 1..Len(c) : n = Len(rs) + x /\ l = Len(rs) + y
      BY <2>2
    <3>2. s[n] = c[x] /\ s[l] = c[y]
      BY <1>3, <3>1
    <3>3. x # y
      BY <1>8, <3>1
    <3>4. x < y \/ y < x
      BY <1>3, <3>3
    <3>5. x \in DOMAIN c /\ y \in DOMAIN c
      BY <1>3
    <3>6. c[x].end < c[y].start \/ c[y].end < c[x].start
      BY <1>2, <3>4, <3>5
    <3>7. QED
      BY <3>2, <3>6
  <2>3. ASSUME NEW x \in 1..Len(rs), NEW y \in 1..Len(c)
        PROVE  s[x].fix # s[Len(rs) + y].fix
    <3>1. s[x] = rs[x] /\ rs[x].fix \in 1..m
      BY <1>3 DEF CombinedTo
    <3>4. y \in DOMAIN c /\ s[Len(rs) + y] = c[y]
      BY <1>3
    <3>2. s[Len(rs) + y].fix = f
      BY <1>2, <3>4
    <3>3. QED
      BY <3>1, <3>2
  <2>4. n \in 1..Len(rs) + Len(c) /\ l \in 1..Len(rs) + Len(c)
    BY <1>3
  <2>5. CASE n \in 1..Len(rs)
    <3>1. CASE l \in 1..Len(rs)
      BY <2>1, <2>5, <3>1
    <3>2. CASE l \notin 1..Len(rs)
      <4>1. PICK y \in 1..Len(c) : l = Len(rs) + y
        BY <1>3, <2>4, <3>2
      <4>2. QED
        BY <1>8, <2>3, <2>5, <4>1
    <3>3. QED
      BY <3>1, <3>2
  <2>6. CASE n \notin 1..Len(rs)
    <3>1. PICK x \in 1..Len(c) : n = Len(rs) + x
      BY <1>3, <2>4, <2>6
    <3>2. CASE l \in 1..Len(rs)
      BY <1>8, <2>3, <3>1, <3>2
    <3>3. CASE l \notin 1..Len(rs)
      <4>1. PICK y \in 1..Len(c) : l = Len(rs) + y
        BY <1>3, <2>4, <3>3
      <4>2. QED
        BY <2>2, <3>1, <4>1
    <3>4. QED
      BY <3>2, <3>3
  <2>7. QED
    BY <2>5, <2>6
<1>9. ASSUME NEW g \in 1..f
      PROVE  ~Overlapping(g)
  <2>1. CASE g = f
    BY <2>1, OverlapIsFound
  <2>2. CASE g # f
    <3>1. g \in 1..m
      BY <2>2
    <3>2. QED
      BY <3>1 DEF CombinedTo
  <2>3. QED
    BY <2>1, <2>2
<1>10. CombinedTo(s, f)
  <2>1. s \in Seq(Replacement)
    BY <1>3
  <2>2. \A n \in DOMAIN s : s[n].fix \in 1..f /\ Combined(s[n])
    BY <1>6
  <2>3. \A g \in 1..f : \A k \in DOMAIN fixes[g] : \E n \in DOMAIN s : In(<<g, k>>, s[n].text)
    BY <1>7
  <2>4. \A n, l \in DOMAIN s :
          n # l /\ s[n].fix = s[l].fix => s[n].end < s[l].start \/ s[l].end < s[n].start
    BY <1>8
  <2>5. \A g \in 1..f : ~Overlapping(g)
    BY <1>9
  <2>6. QED
    BY ONLY <2>1, <2>2, <2>3, <2>4, <2>5 DEF CombinedTo
<1>11. QED
  BY <1>10 DEF s

\* Sorting keeps all of them.
LEMMA AllAreSorted ==
    ASSUME fixes \in FixLists, NEW m, NEW rs, CombinedTo(rs, m)
    PROVE  CombinedTo(Sort(rs), m) /\ Sorted(Sort(rs)) /\ Len(Sort(rs)) = Len(rs)
<1> DEFINE t == Sort(rs)
           L == Len(rs)
<1>1. L \in Nat /\ DOMAIN rs = 1..L /\ \A n \in DOMAIN rs : rs[n] \in Replacement
  BY ElementOfSeq DEF CombinedTo
<1>2. \A n \in DOMAIN rs : rs[n].start \in Int /\ rs[n].end \in Int
  BY <1>1, FixesType, ReplacementType
<1>3. PICK p \in [1..L -> 1..L] :
        /\ \A j, k \in 1..L : p[j] = p[k] => j = k
        /\ \A k \in 1..L : \E n \in 1..L : p[n] = k
        /\ t = [n \in 1..L |-> rs[p[n]]]
        /\ \A n, l \in 1..L : n < l => ~Before(rs[p[l]], rs[p[n]])
  <2>1. Len(rs) \in Nat /\ DOMAIN rs = 1..Len(rs)
    BY <1>1
  <2>2. QED
    BY <1>2, <2>1, SortIsStable
<1> HIDE DEF t, L
<1>4. DOMAIN t = 1..L /\ \A n \in 1..L : t[n] = rs[p[n]] /\ p[n] \in DOMAIN rs
  BY <1>1, <1>3
<1>5. t \in Seq(Replacement) /\ Len(t) = L
  <2>1. t \in [1..L -> Replacement]
    BY <1>1, <1>3, <1>4
  <2>2. QED
    BY <1>1, <2>1, SeqOfFunction
<1>6. \A n \in DOMAIN t : t[n].fix \in 1..m /\ Combined(t[n])
  BY <1>4 DEF CombinedTo
<1>7. ASSUME NEW f \in 1..m, NEW k \in DOMAIN fixes[f]
      PROVE  \E n \in DOMAIN t : In(<<f, k>>, t[n].text)
  <2>1. PICK l \in DOMAIN rs : In(<<f, k>>, rs[l].text)
    BY DEF CombinedTo
  <2>2. PICK n \in 1..L : p[n] = l
    BY <1>1, <1>3
  <2>3. QED
    BY <1>4, <2>1, <2>2
<1>8. ASSUME NEW n \in DOMAIN t, NEW l \in DOMAIN t, n # l, t[n].fix = t[l].fix
      PROVE  t[n].end < t[l].start \/ t[l].end < t[n].start
  <2>1. p[n] # p[l] /\ t[n] = rs[p[n]] /\ t[l] = rs[p[l]] /\ p[n] \in DOMAIN rs /\ p[l] \in DOMAIN rs
    BY <1>3, <1>4, <1>8
  <2>2. QED
    BY <1>8, <2>1 DEF CombinedTo
<1>9. CombinedTo(t, m)
  BY <1>5, <1>6, <1>7, <1>8 DEF CombinedTo
<1>10. Sorted(t)
  BY <1>3, <1>4 DEF Sorted
<1>11. QED
  BY <1>5, <1>9, <1>10 DEF t, L

\* The argument stays the same.
LEMMA SameFixes ==
    ASSUME fixes' = fixes, NEW m, CombinedTo(replacements', m)
    PROVE  CombinedTo(replacements, m)'
<1>0. fixes' = fixes
  BY Zenon
<1>1. Replacement' = Replacement
  BY ONLY <1>0 DEF Replacement
<1>2. \A f : Overlapping(f)' <=> Overlapping(f)
  BY ONLY <1>0 DEF Overlapping
<1>3. \A n \in DOMAIN replacements' : Combined(replacements'[n]) => Combined(replacements[n])'
  BY ONLY <1>0 DEF Combined, At
<1>4. CombinedTo(replacements', m)
  BY Zenon
<1>5. QED
  BY ONLY <1>0, <1>1, <1>2, <1>3, <1>4 DEF CombinedTo

-----------------------------------------------------------------------------
(* The text                                                                *)

Character == Nat \X Nat

\* How characters follow each other: none twice, those of the source in their order, what is inserted
\* after what is before it in the source and before what it does not replace, and insertions of a fix
\* at one position as the fix lists them.
InOrder(x, y) ==
    /\ x # y
    /\ x[1] = 0 /\ y[1] = 0 => x[2] < y[2]
    /\ x[1] = 0 /\ y[1] # 0 => x[2] < At(y).start
    /\ x[1] # 0 /\ y[1] = 0 => y[2] >= At(x).end
    /\ x[1] # 0 /\ x[1] = y[1] /\ At(x) = At(y) => x[2] < y[2]

AllInOrder(s) == \A m, n \in DOMAIN s : m < n => InOrder(s[m], s[n])

\* One of the replacements in A removes a character of the source.
Covers(A, c) == \E a \in A : replacements[a].start <= c /\ c < replacements[a].end

\* A text consists of the source before a position and the replacements in A.
UpTo(out, to, A) ==
    /\ out \in Seq(Character)
    /\ AllInOrder(out)
    /\ \A c \in 0..N - 1 : In(<<0, c>>, out) <=> c < to /\ ~Covers(A, c)
    /\ \A n \in DOMAIN out :
         \/ out[n][1] = 0 /\ out[n][2] \in 0..N - 1
         \/ \E a \in A : In(out[n], replacements[a].text)
    /\ \A a \in A : \A p \in DOMAIN replacements[a].text : In(replacements[a].text[p], out)

\* What all replacements are known to be once they are sorted.
Prepared ==
    /\ fixes \in FixLists
    /\ CombinedTo(replacements, Len(fixes))
    /\ Sorted(replacements)

\* A combined replacement and a character it inserts
LEMMA CharacterOfReplacement ==
    ASSUME Prepared, NEW a \in DOMAIN replacements
    PROVE  /\ replacements[a].start \in 0..N /\ replacements[a].end \in 0..N
           /\ replacements[a].start <= replacements[a].end /\ replacements[a].fix \in DOMAIN fixes
           /\ replacements[a].text \in Seq(Character) /\ replacements[a].text # <<>>
           /\ \A x : In(x, replacements[a].text) =>
                /\ x \in Character /\ x[1] = replacements[a].fix /\ x[1] # 0
                /\ x[1] \in DOMAIN fixes /\ x[2] \in DOMAIN fixes[x[1]]
                /\ At(x).start \in Int /\ At(x).end \in Int /\ At(x).start <= At(x).end
                /\ replacements[a].start <= At(x).start /\ At(x).end <= replacements[a].end
<1> DEFINE r == replacements[a]
<1>1. r \in Replacement /\ Combined(r) /\ N \in Nat
  BY ElementOfSeq, FixesType DEF Prepared, CombinedTo
<1>2. r.start \in 0..N /\ r.end \in 0..N /\ r.fix \in DOMAIN fixes /\ r.text \in Seq(Nat \X Nat)
  BY <1>1 DEF Replacement
<1>3. r.start <= r.end /\ r.text # <<>>
  BY <1>1 DEF Combined
<1>4. ASSUME NEW x, In(x, r.text)
      PROVE  /\ x \in Character /\ x[1] = r.fix /\ x[1] # 0
             /\ x[1] \in DOMAIN fixes /\ x[2] \in DOMAIN fixes[x[1]]
             /\ At(x).start \in Int /\ At(x).end \in Int /\ At(x).start <= At(x).end
             /\ r.start <= At(x).start /\ At(x).end <= r.end
  <2>1. PICK p \in DOMAIN r.text : r.text[p] = x
    BY <1>4 DEF In
  <2>2. x \in Character
    BY <1>2, <2>1, ElementOfSeq DEF Character
  <2>3. /\ x[1] = r.fix /\ x[2] \in DOMAIN fixes[r.fix]
        /\ r.start <= At(x).start /\ At(x).end <= r.end
    BY <1>1, <2>1 DEF Combined
  <2>4. x[1] # 0
    BY <1>2, <2>3, FixesType DEF Prepared
  <2>5. At(x).start \in 0..N /\ At(x).end \in 0..N /\ At(x).start <= At(x).end
    BY <1>2, <2>3, FixesType DEF At, Prepared
  <2>6. QED
    BY <1>1, <1>2, <2>2, <2>3, <2>4, <2>5
<1>5. QED
  BY <1>2, <1>3, <1>4 DEF Character

\* What is in a concatenation, and when it is in order
LEMMA ConcatenatedText ==
    ASSUME NEW s \in Seq(Character), NEW t \in Seq(Character)
    PROVE  /\ s \o t \in Seq(Character)
           /\ \A x : In(x, s \o t) <=> In(x, s) \/ In(x, t)
           /\ AllInOrder(s) /\ AllInOrder(t)
                /\ (\A m \in DOMAIN s, n \in DOMAIN t : InOrder(s[m], t[n])) => AllInOrder(s \o t)
<1> DEFINE u == s \o t
<1>1. /\ u \in Seq(Character) /\ Len(s) \in Nat /\ Len(t) \in Nat
      /\ DOMAIN s = 1..Len(s) /\ DOMAIN t = 1..Len(t) /\ DOMAIN u = 1..Len(s) + Len(t)
      /\ \A n \in 1..Len(s) : u[n] = s[n]
      /\ \A n \in 1..Len(t) : u[Len(s) + n] = t[n]
      /\ \A n \in 1..Len(s) + Len(t) :
           n \in 1..Len(s) \/ \E l \in 1..Len(t) : n = Len(s) + l
  BY Concatenated
<1> HIDE DEF u
<1>2. \A n \in DOMAIN s : n \in DOMAIN u /\ u[n] = s[n]
  BY <1>1
<1>3. \A n \in DOMAIN t : Len(s) + n \in DOMAIN u /\ u[Len(s) + n] = t[n]
  BY <1>1
<1>4. ASSUME NEW x
      PROVE  In(x, u) <=> In(x, s) \/ In(x, t)
  <2>1. ASSUME In(x, u)
        PROVE  In(x, s) \/ In(x, t)
    <3>1. PICK n \in DOMAIN u : u[n] = x
      BY <2>1 DEF In
    <3>2. CASE n \in 1..Len(s)
      BY <1>1, <3>1, <3>2 DEF In
    <3>3. CASE \E l \in 1..Len(t) : n = Len(s) + l
      BY <1>1, <3>1, <3>3 DEF In
    <3>4. QED
      BY <1>1, <3>2, <3>3
  <2>2. In(x, s) => In(x, u)
    BY <1>2 DEF In
  <2>3. In(x, t) => In(x, u)
    BY <1>3 DEF In
  <2>4. QED
    BY <2>1, <2>2, <2>3
<1>5. ASSUME AllInOrder(s), AllInOrder(t), \A m \in DOMAIN s, n \in DOMAIN t : InOrder(s[m], t[n]),
             NEW m \in DOMAIN u, NEW n \in DOMAIN u, m < n
      PROVE  InOrder(u[m], u[n])
  <2>1. CASE n \in 1..Len(s)
    <3>1. m \in 1..Len(s) /\ u[m] = s[m] /\ u[n] = s[n]
      BY <1>1, <1>5, <2>1
    <3>2. QED
      BY <1>1, <1>5, <2>1, <3>1 DEF AllInOrder
  <2>2. CASE n \notin 1..Len(s)
    <3>1. PICK l \in 1..Len(t) : n = Len(s) + l
      BY <1>1, <2>2
    <3>2. u[n] = t[l] /\ l \in DOMAIN t
      BY <1>1, <3>1
    <3>3. CASE m \in 1..Len(s)
      <4>1. u[m] = s[m] /\ m \in DOMAIN s
        BY <1>1, <3>3
      <4>2. QED
        BY <1>5, <3>2, <4>1
    <3>4. CASE m \notin 1..Len(s)
      <4>1. PICK k \in 1..Len(t) : m = Len(s) + k
        BY <1>1, <3>4
      <4>2. u[m] = t[k] /\ k \in DOMAIN t /\ k < l
        BY <1>1, <1>5, <3>1, <4>1
      <4>3. QED
        BY <1>5, <3>2, <4>2 DEF AllInOrder
    <3>5. QED
      BY <3>3, <3>4
  <2>3. QED
    BY <2>1, <2>2
<1>6. QED
  BY <1>1, <1>4, <1>5 DEF AllInOrder, u

\* A character of a text comes from the source before the position or from one of the replacements.
LEMMA CharacterOfText ==
    ASSUME Prepared, NEW A \in SUBSET DOMAIN replacements, NEW out, NEW to, UpTo(out, to, A), NEW n \in DOMAIN out
    PROVE  /\ out[n] \in Character
           /\ \/ out[n][1] = 0 /\ out[n][2] \in 0..N - 1 /\ out[n][2] < to
              \/ \E a \in A : In(out[n], replacements[a].text)
<1>1. out \in Seq(Character)
  BY DEF UpTo
<1>2. out[n] \in Character
  BY <1>1, ElementOfSeq
<1>3. CASE out[n][1] = 0 /\ out[n][2] \in 0..N - 1
  <2>1. out[n] = <<0, out[n][2]>>
    BY <1>2, <1>3 DEF Character
  <2>2. In(<<0, out[n][2]>>, out)
    BY <2>1 DEF In
  <2>3. out[n][2] < to
    BY <1>3, <2>2 DEF UpTo
  <2>4. QED
    BY <1>2, <1>3, <2>3
<1>4. QED
  BY <1>2, <1>3 DEF UpTo

\* A piece of the source
LEMMA SourceType ==
    ASSUME N \in Nat, NEW from \in 0..N, NEW to \in from..N
    PROVE  /\ Source(from, to) \in Seq(Character) /\ Len(Source(from, to)) = to - from
           /\ DOMAIN Source(from, to) = 1..to - from
           /\ \A n \in 1..to - from : Source(from, to)[n] = <<0, from + n - 1>>
           /\ \A n \in 1..to - from : from + n - 1 \in 0..N - 1 /\ from <= from + n - 1 /\ from + n - 1 < to
           /\ \A c \in 0..N - 1 : In(<<0, c>>, Source(from, to)) <=> from <= c /\ c < to
<1> DEFINE S == Source(from, to)
<1>1. from \in Int /\ to \in Int /\ to - from \in Nat /\ 0 <= from /\ to <= N /\ from <= to
  OBVIOUS
<1>2. DOMAIN S = 1..to - from /\ \A n \in 1..to - from : S[n] = <<0, from + n - 1>>
  BY DEF Source
<1>3. \A n \in 1..to - from : from + n - 1 \in 0..N - 1 /\ from <= from + n - 1 /\ from + n - 1 < to
  <2>1. \A n, a, b, k \in Int : 0 <= a /\ b <= k /\ 1 <= n /\ n <= b - a =>
            a + n - 1 \in 0..k - 1 /\ a <= a + n - 1 /\ a + n - 1 < b
    OBVIOUS
  <2>2. QED
    BY <1>1, <2>1
<1>4. S \in [1..to - from -> Character]
  <2>1. \A n \in 1..to - from : S[n] \in Character
    <3>1. TAKE n \in 1..to - from
    <3>2. from + n - 1 \in 0..N - 1
      BY <1>3
    <3>3. from + n - 1 \in Nat
      BY <3>2
    <3>4. S[n] = <<0, from + n - 1>>
      BY <1>2
    <3> HIDE DEF S
    <3>5. QED
      BY <3>3, <3>4 DEF Character
  <2>2. S = [n \in 1..to - from |-> S[n]]
    BY DEF Source
  <2>3. QED
    BY <2>1, <2>2
<1>5. S \in Seq(Character) /\ Len(S) = to - from
  BY <1>1, <1>4, SeqOfFunction
<1>6. ASSUME NEW c \in 0..N - 1
      PROVE  In(<<0, c>>, S) <=> from <= c /\ c < to
  <2>1. ASSUME In(<<0, c>>, S)
        PROVE  from <= c /\ c < to
    <3>1. PICK n \in DOMAIN S : S[n] = <<0, c>>
      BY <2>1 DEF In
    <3>2. c = from + n - 1
      BY <1>2, <3>1
    <3>3. QED
      BY <1>2, <1>3, <3>2
  <2>2. ASSUME from <= c, c < to
        PROVE  In(<<0, c>>, S)
    <3>1. c - from + 1 \in 1..to - from /\ from + (c - from + 1) - 1 = c
      BY <1>1, <2>2
    <3>2. S[c - from + 1] = <<0, c>>
      BY <1>2, <3>1
    <3>3. QED
      BY <1>2, <3>1, <3>2 DEF In
  <2>3. QED
    BY <2>1, <2>2
<1>7. QED
  BY <1>2, <1>3, <1>5, <1>6

\* The source is continued from where the last replacement ends, or from its start.
LEMMA SourceIsAdded ==
    ASSUME Prepared, NEW A \in SUBSET DOMAIN replacements, NEW out, NEW pos \in -1..N, UpTo(out, pos, A),
           \A a \in A : replacements[a].end <= pos,
           NEW from, from = (IF pos = -1 THEN 0 ELSE pos), NEW to \in from..N
    PROVE  UpTo(out \o Source(from, to), to, A)
<1> DEFINE S == Source(from, to)
           u == out \o S
<1>1. N \in Nat
  BY FixesType DEF Prepared
<1>2. from \in 0..N /\ to \in Int /\ from <= to /\ from \in Int /\ pos \in Int /\ pos <= from
  BY <1>1
<1>3. /\ S \in Seq(Character) /\ DOMAIN S = 1..to - from
      /\ \A n \in 1..to - from : S[n] = <<0, from + n - 1>>
      /\ \A n \in 1..to - from : from + n - 1 \in 0..N - 1 /\ from <= from + n - 1 /\ from + n - 1 < to
      /\ \A c \in 0..N - 1 : In(<<0, c>>, S) <=> from <= c /\ c < to
  BY <1>1, <1>2, SourceType
<1>4. out \in Seq(Character) /\ AllInOrder(out)
  BY DEF UpTo
<1> HIDE DEF S
<1>5. AllInOrder(S)
  <2>1. SUFFICES ASSUME NEW m \in DOMAIN S, NEW n \in DOMAIN S, m < n
                 PROVE  InOrder(S[m], S[n])
    BY DEF AllInOrder
  <2>2. S[m] = <<0, from + m - 1>> /\ S[n] = <<0, from + n - 1>> /\ from + m - 1 < from + n - 1
    BY <1>2, <1>3, <2>1
  <2>3. S[m][1] = 0 /\ S[n][1] = 0 /\ S[m][2] < S[n][2]
    BY <2>2
  <2>4. S[m] # S[n]
    <3>1. from + m - 1 \in Int /\ from + n - 1 \in Int
      BY <1>3
    <3>2. QED
      BY <2>2, <3>1
  <2>5. QED
    BY <2>3, <2>4 DEF InOrder
<1>6. ASSUME NEW m \in DOMAIN out, NEW n \in DOMAIN S
      PROVE  InOrder(out[m], S[n])
  <2> DEFINE x == out[m]
             d == from + n - 1
  <2>1. S[n] = <<0, d>> /\ d \in Int /\ from <= d
    BY <1>3
  <2>2. CASE x[1] = 0 /\ x[2] \in 0..N - 1 /\ x[2] < pos
    <3>1. x[2] < d
      BY <1>1, <1>2, <2>1, <2>2
    <3>2. QED
      BY <2>1, <2>2, <3>1 DEF InOrder
  <2>3. CASE \E a \in A : In(x, replacements[a].text)
    <3>1. PICK a \in A : In(x, replacements[a].text)
      BY <2>3
    <3>2. x[1] # 0 /\ At(x).end \in Int /\ At(x).end <= replacements[a].end /\ replacements[a].end \in 0..N
      BY <3>1, CharacterOfReplacement
    <3>3. d >= At(x).end
      BY <1>1, <1>2, <2>1, <3>2
    <3>4. QED
      BY <2>1, <3>2, <3>3 DEF InOrder
  <2>4. QED
    BY <2>2, <2>3, CharacterOfText
<1>7. u \in Seq(Character) /\ AllInOrder(u) /\ \A x : In(x, u) <=> In(x, out) \/ In(x, S)
  BY <1>3, <1>4, <1>5, <1>6, ConcatenatedText
<1> HIDE DEF u
<1>8. ASSUME NEW c \in 0..N - 1
      PROVE  In(<<0, c>>, u) <=> c < to /\ ~Covers(A, c)
  <2>1. In(<<0, c>>, u) <=> (c < pos /\ ~Covers(A, c)) \/ (from <= c /\ c < to)
    BY <1>3, <1>7 DEF UpTo
  <2>2. ASSUME Covers(A, c)
        PROVE  c < pos
    <3>1. PICK a \in A : c < replacements[a].end
      BY <2>2 DEF Covers
    <3>2. replacements[a].end \in 0..N
      BY CharacterOfReplacement
    <3>3. QED
      BY <1>1, <1>2, <3>1, <3>2
  <2>3. c < from => c < pos
    BY <1>1, <1>2
  <2>4. c \in Int
    BY <1>1
  <2>5. QED
    BY <1>2, <2>1, <2>2, <2>3, <2>4
<1>9. ASSUME NEW n \in DOMAIN u
      PROVE  \/ u[n][1] = 0 /\ u[n][2] \in 0..N - 1
             \/ \E a \in A : In(u[n], replacements[a].text)
  <2>1. In(u[n], u)
    BY DEF In
  <2>2. CASE In(u[n], out)
    BY <2>2 DEF In, UpTo
  <2>3. CASE In(u[n], S)
    <3>1. PICK k \in 1..to - from : u[n] = S[k]
      BY <1>3, <2>3 DEF In
    <3>2. u[n] = <<0, from + k - 1>> /\ from + k - 1 \in 0..N - 1
      BY <1>3, <3>1
    <3>3. QED
      BY <3>2
  <2>4. QED
    BY <1>7, <2>1, <2>2, <2>3
<1>10. \A a \in A : \A p \in DOMAIN replacements[a].text : In(replacements[a].text[p], u)
  BY <1>7 DEF UpTo
<1>11. QED
  BY <1>7, <1>8, <1>9, <1>10 DEF UpTo, u, S

\* A replacement is inserted after the text up to its start.
LEMMA ReplacementIsAdded ==
    ASSUME Prepared, NEW A \in SUBSET DOMAIN replacements, NEW b \in DOMAIN replacements, NEW out,
           UpTo(out, replacements[b].start, A),
           \A a \in A : replacements[a].end < replacements[b].start
    PROVE  UpTo(out \o replacements[b].text, replacements[b].end, A \union {b})
<1> DEFINE r == replacements[b]
           T == r.text
           u == out \o T
           B == A \union {b}
<1>1. N \in Nat
  BY FixesType DEF Prepared
<1>2. /\ r.start \in 0..N /\ r.end \in 0..N /\ r.start <= r.end /\ T \in Seq(Character)
      /\ \A x : In(x, T) =>
           /\ x \in Character /\ x[1] # 0
           /\ At(x).start \in Int /\ At(x).end \in Int /\ At(x).start <= At(x).end
           /\ r.start <= At(x).start /\ At(x).end <= r.end
  BY CharacterOfReplacement
<1>3. out \in Seq(Character) /\ AllInOrder(out)
  BY DEF UpTo
<1>4. AllInOrder(T)
  <2>1. SUFFICES ASSUME NEW m \in DOMAIN T, NEW n \in DOMAIN T, m < n
                 PROVE  InOrder(T[m], T[n])
    BY DEF AllInOrder
  <2>2. Combined(r)
    BY DEF Prepared, CombinedTo
  <2>3. T[m] # T[n] /\ (At(T[m]) = At(T[n]) => T[m][2] < T[n][2])
    BY <2>1, <2>2 DEF Combined
  <2>4. T[m][1] # 0 /\ T[n][1] # 0
    BY <1>2 DEF In
  <2>5. QED
    BY <2>3, <2>4 DEF InOrder
<1> HIDE DEF T
<1>5. ASSUME NEW m \in DOMAIN out, NEW n \in DOMAIN T
      PROVE  InOrder(out[m], T[n])
  <2> DEFINE x == out[m]
             y == T[n]
  <2>1. /\ y[1] # 0 /\ At(y).start \in Int /\ At(y).end \in Int /\ At(y).start <= At(y).end
        /\ r.start <= At(y).start
    BY <1>2 DEF In
  <2> HIDE DEF y
  <2>2. CASE x[1] = 0 /\ x[2] \in 0..N - 1 /\ x[2] < r.start
    <3>1. x[2] < At(y).start
      BY <1>1, <1>2, <2>1, <2>2
    <3>2. QED
      BY <2>1, <2>2, <3>1 DEF InOrder, y
  <2>3. CASE \E a \in A : In(x, replacements[a].text)
    <3>1. PICK a \in A : In(x, replacements[a].text)
      BY <2>3
    <3>2. /\ x[1] # 0 /\ At(x).start \in Int /\ At(x).end \in Int /\ At(x).start <= At(x).end
          /\ At(x).end <= replacements[a].end /\ replacements[a].end \in 0..N
      BY <3>1, CharacterOfReplacement
    <3>3. replacements[a].end < r.start
      OBVIOUS
    <3>4. At(x).end < At(y).start
      BY <1>1, <1>2, <2>1, <3>2, <3>3
    <3>5. At(x) # At(y)
      BY <2>1, <3>2, <3>4
    <3>6. x # y
      BY <3>5
    <3>7. QED
      BY <2>1, <3>2, <3>5, <3>6 DEF InOrder, y
  <2>4. QED
    BY <2>2, <2>3, CharacterOfText
<1>6. u \in Seq(Character) /\ AllInOrder(u) /\ \A x : In(x, u) <=> In(x, out) \/ In(x, T)
  BY <1>2, <1>3, <1>4, <1>5, ConcatenatedText
<1> HIDE DEF u
<1>7. ASSUME NEW c \in 0..N - 1
      PROVE  In(<<0, c>>, u) <=> c < r.end /\ ~Covers(B, c)
  <2>1. ~In(<<0, c>>, T)
    <3>1. <<0, c>>[1] = 0
      OBVIOUS
    <3>2. QED
      BY <1>2, <3>1
  <2>2. In(<<0, c>>, u) <=> c < r.start /\ ~Covers(A, c)
    BY <1>6, <2>1 DEF UpTo
  <2>3. Covers(B, c) <=> Covers(A, c) \/ (r.start <= c /\ c < r.end)
    BY DEF Covers
  <2>4. c \in Int
    BY <1>1
  <2>5. QED
    BY <1>1, <1>2, <2>2, <2>3, <2>4
<1>8. ASSUME NEW n \in DOMAIN u
      PROVE  \/ u[n][1] = 0 /\ u[n][2] \in 0..N - 1
             \/ \E a \in B : In(u[n], replacements[a].text)
  <2>1. In(u[n], u)
    BY DEF In
  <2>2. CASE In(u[n], out)
    BY <2>2 DEF In, UpTo
  <2>3. CASE In(u[n], T)
    BY <2>3 DEF T
  <2>4. QED
    BY <1>6, <2>1, <2>2, <2>3
<1>9. ASSUME NEW a \in B, NEW p \in DOMAIN replacements[a].text
      PROVE  In(replacements[a].text[p], u)
  <2>1. CASE a \in A
    BY <1>6, <2>1 DEF UpTo
  <2>2. CASE a = b
    <3>1. In(replacements[a].text[p], T)
      BY <2>2 DEF In, T
    <3>2. QED
      BY <1>6, <3>1
  <2>3. QED
    BY <2>1, <2>2
<1>10. QED
  BY <1>6, <1>7, <1>8, <1>9 DEF UpTo, u, T

\* The text after the replacements in A were applied: no two of them touch, the last one ends at
\* the position, and before the first one is the unchanged source.
Text(out, pos, A) ==
    /\ UpTo(out, pos, A)
    /\ pos \in -1..N
    /\ \A a, b \in A : a < b => replacements[a].end < replacements[b].start
    /\ A = {} => pos = -1 /\ out = <<>>
    /\ A # {} => \E a \in A : pos = replacements[a].end /\ \A b \in A : b <= a
    /\ \A a \in A : (\A b \in A : a <= b) =>
         /\ replacements[a].start <= Len(out)
         /\ \A n \in 1..replacements[a].start : out[n] = <<0, n - 1>>

\* Everything that was applied ends before the position or at it.
LEMMA EndsBefore ==
    ASSUME Prepared, NEW A \in SUBSET DOMAIN replacements, NEW out, NEW pos, Text(out, pos, A), NEW a \in A
    PROVE  replacements[a].end <= pos
<1>1. PICK w \in A : pos = replacements[w].end /\ \A b \in A : b <= w
  BY DEF Text
<1>2. DOMAIN replacements \in SUBSET Int
  BY ElementOfSeq DEF Prepared, CombinedTo
<1>3. /\ replacements[a].end \in 0..N
      /\ replacements[w].start \in 0..N /\ replacements[w].end \in 0..N
      /\ replacements[w].start <= replacements[w].end /\ N \in Nat
  BY CharacterOfReplacement, FixesType DEF Prepared
<1>4. CASE a = w
  BY <1>1, <1>3, <1>4
<1>5. CASE a # w
  <2>1. a < w
    BY <1>1, <1>2, <1>5
  <2>2. replacements[a].end < replacements[w].start
    BY <2>1 DEF Text
  <2>3. QED
    BY <1>1, <1>3, <2>2
<1>6. QED
  BY <1>4, <1>5

\* One more replacement is applied.
LEMMA TextGrows ==
    ASSUME Prepared, NEW A \in SUBSET DOMAIN replacements, NEW b \in DOMAIN replacements, \A a \in A : a < b,
           NEW out, NEW pos, Text(out, pos, A), replacements[b].start > pos,
           NEW from, from = (IF pos = -1 THEN 0 ELSE pos)
    PROVE  /\ replacements[b].start \in from..N /\ from \in 0..N
           /\ Text(out \o Source(from, replacements[b].start) \o replacements[b].text,
                   replacements[b].end, A \union {b})
<1> DEFINE r == replacements[b]
           S == Source(from, r.start)
           u == out \o S \o r.text
           B == A \union {b}
<1>1. N \in Nat /\ DOMAIN replacements \in SUBSET Int
  BY FixesType, ElementOfSeq DEF Prepared, CombinedTo
<1>2. /\ r.start \in 0..N /\ r.end \in 0..N /\ r.start <= r.end /\ r.text \in Seq(Character)
  BY CharacterOfReplacement
<1>3. pos \in -1..N /\ out \in Seq(Character) /\ UpTo(out, pos, A)
  BY DEF Text, UpTo
<1>4. r.start \in from..N /\ from \in 0..N
  BY <1>1, <1>2, <1>3
<1>5. \A a \in A : replacements[a].end <= pos
  BY EndsBefore
<1>6. UpTo(out \o S, r.start, A)
  BY <1>3, <1>4, <1>5, SourceIsAdded
<1>7. \A a \in A : replacements[a].end < r.start
  <2>1. TAKE a \in A
  <2>2. replacements[a].end \in 0..N /\ replacements[a].end <= pos
    BY <1>5, CharacterOfReplacement
  <2>3. QED
    BY <1>1, <1>2, <1>3, <2>2
<1>8. UpTo(u, r.end, B)
  BY <1>6, <1>7, ReplacementIsAdded
<1>9. r.end \in -1..N
  BY <1>1, <1>2
<1>10. ASSUME NEW x \in B, NEW y \in B, x < y
       PROVE  replacements[x].end < replacements[y].start
  <2>1. x \in Int /\ y \in Int /\ b \in Int
    BY <1>1
  <2>2. x \in A
    <3>1. x = b => y \in A /\ y < b
      BY <1>10, <2>1
    <3>2. QED
      BY <1>10, <2>1, <3>1
  <2>3. CASE y = b
    BY <1>7, <2>2, <2>3
  <2>4. CASE y \in A
    BY <1>10, <2>2, <2>4 DEF Text
  <2>5. QED
    BY <2>3, <2>4
<1>11. r.end = replacements[b].end /\ b \in B /\ \A x \in B : x <= b
  BY <1>1
<1>12. /\ S \in Seq(Character) /\ Len(S) = r.start - from /\ DOMAIN S = 1..r.start - from
       /\ \A n \in 1..r.start - from : S[n] = <<0, from + n - 1>>
  BY <1>1, <1>4, SourceType
<1> HIDE DEF S
<1>13. /\ out \o S \in Seq(Character) /\ Len(out) \in Nat /\ Len(S) \in Nat
       /\ Len(out \o S) = Len(out) + Len(S)
       /\ \A n \in 1..Len(out) : (out \o S)[n] = out[n]
       /\ \A n \in 1..Len(S) : (out \o S)[Len(out) + n] = S[n]
  <2>1. out \in Seq(Character) /\ S \in Seq(Character)
    BY <1>3, <1>12
  <2>2. out \o S \in Seq(Character) /\ Len(out) \in Nat /\ Len(S) \in Nat
    BY ONLY <2>1, Concatenated
  <2>3. Len(out \o S) = Len(out) + Len(S)
    BY ONLY <2>1, Concatenated
  <2>4. \A n \in 1..Len(out) : (out \o S)[n] = out[n]
    BY ONLY <2>1, Concatenated
  <2>5. \A n \in 1..Len(S) : (out \o S)[Len(out) + n] = S[n]
    BY ONLY <2>1, Concatenated
  <2>6. QED
    BY <2>2, <2>3, <2>4, <2>5
<1>14. /\ Len(r.text) \in Nat /\ Len(u) = Len(out) + Len(S) + Len(r.text)
       /\ \A n \in 1..Len(out) + Len(S) : u[n] = (out \o S)[n]
  <2> DEFINE v == out \o S
  <2>1. v \in Seq(Character) /\ Len(v) = Len(out) + Len(S)
    BY <1>13
  <2> HIDE DEF v
  <2>4. v \in Seq(Character) /\ r.text \in Seq(Character)
    BY <1>2, <2>1
  <2>5. Len(v \o r.text) = Len(v) + Len(r.text) /\ Len(r.text) \in Nat
    BY ONLY <2>4, Concatenated
  <2>6. \A n \in 1..Len(v) : (v \o r.text)[n] = v[n]
    BY ONLY <2>4, Concatenated
  <2>2. Len(v \o r.text) = Len(v) + Len(r.text) /\ Len(r.text) \in Nat /\ \A n \in 1..Len(v) : (v \o r.text)[n] = v[n]
    BY <2>5, <2>6
  <2>3. QED
    BY <2>1, <2>2 DEF v
<1> HIDE DEF u
<1>15. ASSUME NEW a \in B, \A x \in B : a <= x
       PROVE  /\ replacements[a].start <= Len(u)
              /\ \A n \in 1..replacements[a].start : u[n] = <<0, n - 1>>
  <2>1. CASE A = {}
    <3>1. a = b /\ pos = -1 /\ out = <<>> /\ from = 0
      BY <2>1 DEF Text
    <3>2. Len(out) = 0 /\ Len(S) = r.start
      BY <1>2, <1>12, <3>1
    <3>3. r.start <= Len(u)
      BY <1>2, <1>14, <3>2
    <3>4. ASSUME NEW n \in 1..r.start
          PROVE  u[n] = <<0, n - 1>>
      <4>1. n \in 1..Len(S) /\ n \in 1..Len(out) + Len(S) /\ Len(out) + n = n
        BY <1>2, <3>2
      <4>2. u[n] = S[n]
        BY <1>13, <1>14, <4>1
      <4>3. S[n] = <<0, from + n - 1>>
        BY <1>12, <3>1, <3>2, <4>1
      <4>4. from + n - 1 = n - 1
        BY <1>2, <3>1
      <4>5. QED
        BY <4>2, <4>3, <4>4
    <3>5. QED
      BY <3>1, <3>3, <3>4
  <2>2. CASE A # {}
    <3>1. PICK x \in A : TRUE
      BY <2>2
    <3>2. x < b /\ a <= x /\ x \in Int /\ a \in Int /\ b \in Int
      BY <1>1, <1>15
    <3>3. a # b
      BY <3>2
    <3>4. a \in A
      BY <3>3
    <3>5. /\ replacements[a].start <= Len(out)
          /\ \A n \in 1..replacements[a].start : out[n] = <<0, n - 1>>
      BY <1>15, <3>4 DEF Text
    <3>6. replacements[a].start \in 0..N
      BY <3>4, CharacterOfReplacement
    <3>7. replacements[a].start <= Len(u)
      <4>1. replacements[a].start \in Int
        BY <3>6
      <4>2. Len(out) \in Nat /\ Len(S) \in Nat /\ Len(r.text) \in Nat /\ Len(u) = Len(out) + Len(S) + Len(r.text)
        BY <1>13, <1>14
      <4>3. \A q, x1, x2, x3 \in Int : q <= x1 /\ x2 \in Nat /\ x3 \in Nat => q <= x1 + x2 + x3
        OBVIOUS
      <4>4. Len(out) \in Int /\ Len(S) \in Int /\ Len(r.text) \in Int
        BY <4>2
      <4>5. replacements[a].start <= Len(out) + Len(S) + Len(r.text)
        BY <3>5, <4>1, <4>2, <4>3, <4>4
      <4>6. QED
        BY <4>2, <4>5
    <3>8. ASSUME NEW n \in 1..replacements[a].start
          PROVE  u[n] = <<0, n - 1>>
      <4>1. n \in 1..Len(out) /\ n \in 1..Len(out) + Len(S)
        BY <1>1, <1>13, <3>5, <3>6
      <4>2. QED
        BY <1>13, <1>14, <3>5, <4>1
    <3>9. QED
      BY <3>7, <3>8
  <2>3. QED
    BY <2>1, <2>2
<1>16. B # {}
  OBVIOUS
<1>17. Text(u, r.end, B)
  BY <1>8, <1>9, <1>10, <1>11, <1>15, <1>16 DEF Text
<1>18. QED
  BY <1>4, <1>17 DEF u, S

\* The parts of a text that was continued
LEMMA Truncated ==
    ASSUME NEW S, NEW s \in Seq(S), NEW t \in Seq(S), NEW k \in Nat, k <= Len(s)
    PROVE  /\ SubSeq(s \o t, 1, k) = SubSeq(s, 1, k) /\ SubSeq(s \o t, 1, Len(s)) = s
           /\ SubSeq(s, 1, k) \in Seq(S) /\ Len(SubSeq(s, 1, k)) = k
           /\ \A l \in Nat : l <= k => SubSeq(SubSeq(s, 1, k), 1, l) = SubSeq(s, 1, l)
<1>1. Len(s) \in Nat /\ Len(t) \in Nat /\ DOMAIN s = 1..Len(s)
  OBVIOUS
<1>2. SubSeq(s \o t, 1, k) = SubSeq(s, 1, k)
  BY <1>1
<1>3. SubSeq(s \o t, 1, Len(s)) = s
  BY <1>1
<1>4. SubSeq(s, 1, k) \in Seq(S) /\ Len(SubSeq(s, 1, k)) = k
  BY <1>1
<1>5. \A l \in Nat : l <= k => SubSeq(SubSeq(s, 1, k), 1, l) = SubSeq(s, 1, l)
  BY <1>1
<1>6. QED
  BY <1>2, <1>3, <1>4, <1>5

-----------------------------------------------------------------------------
(* The loop                                                                *)

Below(A, n) == {a \in A : a < n}

Started(f) == state[f] # NoState

\* Going back to the first replacement of a fix, which did not apply it only, restores the text
\* without it. Everything of the fix since then is applied.
CanUndo(A, f) ==
    /\ state[f].index \in A
    /\ \A n \in A : replacements[n].fix = f => state[f].index <= n
    /\ \A n \in state[f].index..i - 1 : replacements[n].fix = f => n \in A
    /\ Parts(f) # 1
    /\ state[f].length <= Len(output)
    /\ Text(SubSeq(output, 1, state[f].length), state[f].position, Below(A, state[f].index))

\* A state is saved at one of the replacements of the fix; the fix may have been given up since.
StatesSaved ==
    \A f \in DOMAIN fixes :
        Started(f) => /\ state[f].index \in 1..i - 1 /\ replacements[state[f].index].fix = f
                      /\ state[f].position \in -1..N /\ state[f].length \in Nat

\* What was saved later is longer.
StatesInOrder ==
    \A f, g \in DOMAIN fixes :
        Started(f) /\ ~skip[f] /\ Started(g) /\ ~skip[g] /\ state[f].index <= state[g].index =>
            state[f].length <= state[g].length

\* Nothing of a fix is applied if it was given up, or if it has yet to save its state.
NotApplied(A) ==
    \A f \in DOMAIN fixes :
        skip[f] \/ (~Started(f) /\ Parts(f) # 1) => \A n \in A : replacements[n].fix # f

\* A fix that was given up at once had one before it.
GivenUp(A) ==
    \A f \in DOMAIN fixes :
        skip[f] /\ ~Started(f) =>
            \E n \in 1..i - 1 : replacements[n].fix = f /\ \E a \in A : a < n

\* A fix that was not is applied or will be tried.
Awaited(A) ==
    \A f \in DOMAIN fixes :
        ~skip[f] => (\E n \in A : replacements[n].fix = f)
                      \/ \E n \in i..Len(replacements) : replacements[n].fix = f

\* Only what was rolled back comes before the first applied replacement.
FirstApplied(A) ==
    \A n \in 1..i - 1 :
        (\A a \in A : n < a) => /\ skip[replacements[n].fix]
                                /\ state[replacements[n].fix].index \in 1..n

Unskipped == {f \in DOMAIN fixes : ~skip[f]}

\* The replacements in A are applied.
Applying(A) ==
    /\ A \in SUBSET (1..i - 1)
    /\ Text(output, position, A)
    /\ \A a \in A : (\A b \in A : a <= b) => start = replacements[a].start
    /\ \A f \in DOMAIN fixes : Started(f) /\ ~skip[f] => CanUndo(A, f)
    /\ NotApplied(A)
    /\ GivenUp(A)
    /\ Awaited(A)
    /\ FirstApplied(A)

Loop ==
    /\ Prepared
    /\ i \in 1..Len(replacements) + 1
    /\ start \in 0..N
    /\ skip \in [DOMAIN fixes -> BOOLEAN]
    /\ state = [f \in DOMAIN fixes |-> state[f]]
    /\ StatesSaved
    /\ StatesInOrder
    /\ fixed = Cardinality(Unskipped)
    /\ fixes # <<>> => Unskipped # {}
    /\ \E A : Applying(A)

\* A text is about the argument and the replacements only.
LEMMA SameText ==
    ASSUME fixes' = fixes, replacements' = replacements, NEW out, NEW pos, NEW A
    PROVE  Text(out, pos, A) => Text(out, pos, A)'
<1>1. \A x : At(x)' = At(x)
  BY DEF At
<1>2. AllInOrder(out) => AllInOrder(out)'
  BY <1>1 DEF AllInOrder, InOrder
<1>3. \A c : Covers(A, c)' <=> Covers(A, c)
  BY DEF Covers
<1>4. UpTo(out, pos, A) => UpTo(out, pos, A)'
  BY <1>2, <1>3 DEF UpTo
<1>5. QED
  BY <1>4 DEF Text

\* So is what is prepared.
LEMMA SamePrepared ==
    ASSUME fixes' = fixes, replacements' = replacements, Prepared
    PROVE  Prepared'
<1>1. CombinedTo(replacements', Len(fixes))
  BY DEF Prepared
<1>2. CombinedTo(replacements, Len(fixes))'
  BY <1>1, SameFixes
<1>3. QED
  BY <1>2 DEF Prepared, Sorted

\* The replacements are a list.
LEMMA ReplacementList ==
    ASSUME Prepared
    PROVE  /\ Len(replacements) \in Nat /\ DOMAIN replacements = 1..Len(replacements) /\ N \in Nat
           /\ Len(fixes) \in Nat /\ DOMAIN fixes = 1..Len(fixes)
           /\ \A n \in DOMAIN replacements : replacements[n].fix \in DOMAIN fixes
<1>1. replacements \in Seq(Replacement) /\ fixes \in FixLists
  BY DEF Prepared, CombinedTo
<1>2. \A n \in DOMAIN replacements : replacements[n].fix \in DOMAIN fixes
  BY CharacterOfReplacement
<1>3. QED
  BY <1>1, <1>2, ElementOfSeq, FixesType

\* A fix with a single combined replacement
LEMMA SinglePart ==
    ASSUME Prepared, NEW n \in DOMAIN replacements, NEW l \in DOMAIN replacements,
           NEW f, Parts(f) = 1, replacements[n].fix = f, replacements[l].fix = f
    PROVE  n = l
<1> DEFINE P == {k \in DOMAIN replacements : replacements[k].fix = f}
<1>1. P \in SUBSET (1..Len(replacements)) /\ Len(replacements) \in Nat
  BY ReplacementList
<1>2. IsFiniteSet(P)
  <2>1. IsFiniteSet(1..Len(replacements))
    BY <1>1, FS_Interval
  <2>2. QED
    BY <1>1, <2>1, FS_Subset
<1>3. Cardinality(P) = 1
  BY DEF Parts
<1>4. PICK x : P = {x}
  BY <1>2, <1>3, FS_Singleton
<1>5. n \in P /\ l \in P
  OBVIOUS
<1>6. QED
  BY <1>4, <1>5

\* A conflict is with the last replacement that was applied, and that is of another fix.
LEMMA ConflictIsWithAnother ==
    ASSUME Loop, NEW A, Applying(A), i <= Len(replacements), replacements[i].start <= position
    PROVE  \E w \in A : replacements[w].fix # replacements[i].fix /\ \A a \in A : a <= w
<1>1. i \in DOMAIN replacements /\ Prepared /\ N \in Nat /\ DOMAIN replacements \in SUBSET Int
  BY ReplacementList DEF Loop
<1>2. A \in SUBSET DOMAIN replacements /\ \A a \in A : a < i
  BY <1>1, ReplacementList DEF Applying, Loop
<1>3. replacements[i].start \in 0..N /\ replacements[i].end \in 0..N /\ replacements[i].start <= replacements[i].end
  BY <1>1, CharacterOfReplacement
<1>4. position # -1
  BY <1>1, <1>3
<1>5. PICK w \in A : position = replacements[w].end /\ \A a \in A : a <= w
  BY <1>4 DEF Applying, Text
<1>6. w \in DOMAIN replacements /\ w < i
  BY <1>2
<1>7. replacements[w].start \in 0..N /\ replacements[w].end \in 0..N /\ replacements[w].start <= replacements[w].end
  BY <1>1, <1>6, CharacterOfReplacement
<1>8. ~Before(replacements[i], replacements[w])
  BY <1>1, <1>6 DEF Prepared, Sorted
<1>9. ~(replacements[w].end < replacements[i].start) /\ ~(replacements[i].end < replacements[w].start)
  BY <1>1, <1>3, <1>5, <1>7, <1>8 DEF Before
<1>10. w # i
  BY <1>1, <1>6
<1>11. replacements[w].fix # replacements[i].fix
  BY <1>1, <1>6, <1>9, <1>10 DEF Prepared, CombinedTo
<1>12. QED
  BY <1>5, <1>11

\* The fix of the next replacement
LEMMA CurrentFix ==
    ASSUME Loop, i <= Len(replacements)
    PROVE  /\ i \in DOMAIN replacements /\ Current.fix \in DOMAIN fixes /\ Current = replacements[i]
           /\ i \in Int /\ Len(replacements) \in Int /\ DOMAIN replacements = 1..Len(replacements)
           /\ Prepared /\ N \in Nat /\ IsFiniteSet(DOMAIN fixes) /\ Unskipped \in SUBSET DOMAIN fixes
           /\ IsFiniteSet(Unskipped)
<1>1. Prepared /\ i \in 1..Len(replacements) + 1
  BY DEF Loop
<1>2. /\ Len(replacements) \in Nat /\ DOMAIN replacements = 1..Len(replacements) /\ N \in Nat
      /\ Len(fixes) \in Nat /\ DOMAIN fixes = 1..Len(fixes)
      /\ \A n \in DOMAIN replacements : replacements[n].fix \in DOMAIN fixes
  BY <1>1, ReplacementList
<1>3. i \in DOMAIN replacements /\ i \in Int
  BY <1>1, <1>2
<1>4. Current = replacements[i] /\ Current.fix \in DOMAIN fixes
  BY <1>2, <1>3 DEF Current
<1>5. IsFiniteSet(DOMAIN fixes)
  <2>1. IsFiniteSet(1..Len(fixes))
    BY <1>2, FS_Interval
  <2>2. QED
    BY <1>2, <2>1
<1>6. Unskipped \in SUBSET DOMAIN fixes
  BY DEF Unskipped
<1>7. IsFiniteSet(Unskipped)
  BY <1>5, <1>6, FS_Subset
<1>8. QED
  BY <1>1, <1>2, <1>3, <1>4, <1>5, <1>6, <1>7

\* A replacement of a fix that was given up is passed over.
LEMMA SkipKeepsLoop ==
    ASSUME Loop, Skip
    PROVE  Loop'
<1>1. /\ i <= Len(replacements) /\ skip[Current.fix] /\ i' = i + 1
      /\ UNCHANGED <<fixes, pc, replacements, output, position, start, skip, state, fixed>>
  BY DEF Skip
<1>2. /\ i \in DOMAIN replacements /\ Current.fix \in DOMAIN fixes /\ Current = replacements[i]
      /\ i \in Int /\ Len(replacements) \in Int /\ DOMAIN replacements = 1..Len(replacements)
      /\ Prepared
  BY <1>1, CurrentFix
<1>3. PICK A : Applying(A)
  BY DEF Loop
<1>4. \A a \in A : a \in 1..i - 1 /\ a \in 1..i' - 1 /\ a < i
  BY <1>1, <1>2, <1>3 DEF Applying
<1>5. \A out, pos, D : Text(out, pos, D) => Text(out, pos, D)'
  BY <1>1, SameText
<1>6. \A n \in Int : n \in 1..i' - 1 <=> n = i \/ n \in 1..i - 1
  BY <1>1, <1>2
<1>7. Applying(A)'
  <2>1. (A \in SUBSET (1..i - 1))'
    BY <1>4
  <2>2. Text(output, position, A)'
    <3>1. Text(output, position, A)
      BY <1>3 DEF Applying
    <3>2. QED
      BY <1>1, <1>5, <3>1
  <2>3. (\A a \in A : (\A b \in A : a <= b) => start = replacements[a].start)'
    BY <1>1, <1>3 DEF Applying
  <2>4. ASSUME NEW f \in DOMAIN fixes, Started(f)', ~skip'[f]
        PROVE  CanUndo(A, f)'
    <3>1. Started(f) /\ ~skip[f] /\ f # Current.fix
      BY <1>1, <2>4 DEF Started
    <3>2. CanUndo(A, f) /\ state[f].index \in 1..i - 1
      BY <1>3, <3>1 DEF Applying, Loop, StatesSaved
    <3>3. \A n \in state[f].index..i' - 1 : replacements[n].fix = f => n \in A
      <4>1. TAKE n \in state[f].index..i' - 1
      <4>2. n = i \/ n \in state[f].index..i - 1
        BY <1>1, <1>2, <3>2
      <4>3. QED
        BY <1>2, <3>1, <3>2, <4>2 DEF CanUndo
    <3>4. Text(SubSeq(output, 1, state[f].length), state[f].position, Below(A, state[f].index))'
      <4>1. Text(SubSeq(output, 1, state[f].length), state[f].position, Below(A, state[f].index))
        BY <3>2 DEF CanUndo
      <4>2. Below(A, state[f].index)' = Below(A, state[f].index)
        BY <1>1 DEF Below
      <4>3. QED
        BY <1>1, <1>5, <4>1, <4>2
    <3>5. Parts(f)' = Parts(f)
      BY <1>1 DEF Parts
    <3>6. QED
      BY <1>1, <3>2, <3>3, <3>4, <3>5 DEF CanUndo
  <2>5. NotApplied(A)'
    <3>1. \A f : Parts(f)' = Parts(f)
      BY <1>1 DEF Parts
    <3>2. QED
      BY <1>1, <1>3, <3>1 DEF Applying, NotApplied, Started
  <2>6. GivenUp(A)'
    <3>1. 1..i - 1 \subseteq 1..i' - 1
      BY <1>6
    <3>2. GivenUp(A)
      BY <1>3 DEF Applying
    <3>3. QED
      BY <1>1, <3>1, <3>2 DEF GivenUp, Started
  <2>7. Awaited(A)'
    <3>1. SUFFICES ASSUME NEW f \in DOMAIN fixes, ~skip[f], \A n \in A : replacements[n].fix # f
                   PROVE  \E n \in i'..Len(replacements) : replacements[n].fix = f
      BY <1>1 DEF Awaited
    <3>2. PICK n \in i..Len(replacements) : replacements[n].fix = f
      BY <1>3, <3>1 DEF Applying, Awaited
    <3>3. n # i
      BY <1>1, <1>2, <3>1, <3>2
    <3>4. n \in i'..Len(replacements)
      BY <1>1, <1>2, <3>3
    <3>5. QED
      BY <3>2, <3>4
  <2>8. FirstApplied(A)'
    <3>1. SUFFICES ASSUME NEW n \in 1..i' - 1, \A a \in A : n < a
                   PROVE  skip[replacements[n].fix] /\ state[replacements[n].fix].index \in 1..n
      BY <1>1 DEF FirstApplied
    <3>2. CASE n = i
      <4>1. A = {}
        BY <1>2, <1>4, <3>1, <3>2
      <4>2. Started(Current.fix)
        BY <1>1, <1>2, <1>3, <4>1 DEF Applying, GivenUp
      <4>3. state[Current.fix].index \in 1..i - 1
        BY <1>2, <4>2 DEF Loop, StatesSaved
      <4>4. state[Current.fix].index \in 1..i
        BY <1>2, <4>3
      <4>5. QED
        BY <1>1, <1>2, <3>2, <4>4
    <3>3. CASE n \in 1..i - 1
      BY <1>3, <3>1, <3>3 DEF Applying, FirstApplied
    <3>4. QED
      BY <1>6, <3>2, <3>3
  <2>9. QED
    BY <1>1, <2>1, <2>2, <2>3, <2>4, <2>5, <2>6, <2>7, <2>8 DEF Applying
<1>8. Prepared' /\ i' \in 1..Len(replacements') + 1
  <2>1. Prepared'
    BY <1>1, <1>2, SamePrepared
  <2>2. QED
    BY <1>1, <1>2, <2>1
<1>9. StatesSaved'
  <2>1. 1..i - 1 \subseteq 1..i' - 1
    BY <1>6
  <2>2. QED
    BY <1>1, <2>1 DEF Loop, StatesSaved, Started
<1>10. StatesInOrder' /\ Unskipped' = Unskipped
  BY <1>1 DEF Loop, StatesInOrder, Started, Unskipped
<1>11. QED
  BY <1>1, <1>7, <1>8, <1>9, <1>10 DEF Loop

\* A fix that is in a conflict at its first replacement is given up.
LEMMA ConflictKeepsLoop ==
    ASSUME Loop, Conflict
    PROVE  Loop'
<1> DEFINE c == Current.fix
<1>1. /\ i <= Len(replacements) /\ ~skip[c] /\ Current.start <= position /\ state[c] = NoState
      /\ skip' = [skip EXCEPT ![c] = TRUE] /\ fixed' = fixed - 1 /\ i' = i + 1
      /\ UNCHANGED <<fixes, pc, replacements, output, position, start, state>>
  BY DEF Conflict
<1>2. /\ i \in DOMAIN replacements /\ c \in DOMAIN fixes /\ Current = replacements[i]
      /\ i \in Int /\ Len(replacements) \in Int /\ DOMAIN replacements = 1..Len(replacements)
      /\ Prepared
  BY <1>1, CurrentFix
<1> HIDE DEF c
<1>3. PICK A : Applying(A)
  BY DEF Loop
<1>4. \A a \in A : a \in 1..i - 1 /\ a \in 1..i' - 1 /\ a < i /\ a \in DOMAIN replacements
  BY <1>1, <1>2, <1>3 DEF Applying
<1>5. \A out, pos, D : Text(out, pos, D) => Text(out, pos, D)'
  BY <1>1, SameText
<1>6. \A n \in Int : n \in 1..i' - 1 <=> n = i \/ n \in 1..i - 1
  BY <1>1, <1>2
<1>7. PICK w \in A : replacements[w].fix # c
  <2>1. replacements[i].start <= position
    BY <1>1, <1>2
  <2>2. \E w \in A : replacements[w].fix # replacements[i].fix /\ \A a \in A : a <= w
    BY <1>1, <1>3, <2>1, ConflictIsWithAnother
  <2>3. QED
    BY <1>2, <2>2 DEF c
<1>8. /\ skip' \in [DOMAIN fixes -> BOOLEAN] /\ skip'[c]
      /\ \A f \in DOMAIN fixes : f # c => skip'[f] = skip[f]
  <2>1. skip \in [DOMAIN fixes -> BOOLEAN]
    BY DEF Loop
  <2>2. QED
    BY <1>1, <1>2, <2>1
<1>9. \A f \in DOMAIN fixes : ~skip'[f] => ~skip[f] /\ f # c
  BY <1>8
<1>10. \A f : Parts(f)' = Parts(f)
  BY <1>1 DEF Parts
<1>11. Applying(A)'
  <2>1. (A \in SUBSET (1..i - 1))'
    BY <1>4
  <2>2. Text(output, position, A)'
    <3>1. Text(output, position, A)
      BY <1>3 DEF Applying
    <3>2. QED
      BY <1>1, <1>5, <3>1
  <2>3. (\A a \in A : (\A b \in A : a <= b) => start = replacements[a].start)'
    BY <1>1, <1>3 DEF Applying
  <2>4. ASSUME NEW f \in DOMAIN fixes, Started(f)', ~skip'[f]
        PROVE  CanUndo(A, f)'
    <3>1. Started(f) /\ ~skip[f] /\ f # c
      BY <1>1, <1>9, <2>4 DEF Started
    <3>2. CanUndo(A, f) /\ state[f].index \in 1..i - 1
      BY <1>3, <3>1 DEF Applying, Loop, StatesSaved
    <3>3. \A n \in state[f].index..i' - 1 : replacements[n].fix = f => n \in A
      <4>1. TAKE n \in state[f].index..i' - 1
      <4>2. n = i \/ n \in state[f].index..i - 1
        BY <1>1, <1>2, <3>2
      <4>3. QED
        BY <1>2, <3>1, <3>2, <4>2 DEF CanUndo, c
    <3>4. Text(SubSeq(output, 1, state[f].length), state[f].position, Below(A, state[f].index))'
      <4>1. Text(SubSeq(output, 1, state[f].length), state[f].position, Below(A, state[f].index))
        BY <3>2 DEF CanUndo
      <4>2. Below(A, state[f].index)' = Below(A, state[f].index)
        BY <1>1 DEF Below
      <4>3. QED
        BY <1>1, <1>5, <4>1, <4>2
    <3>5. QED
      BY <1>1, <1>10, <3>2, <3>3, <3>4 DEF CanUndo
  <2>5. NotApplied(A)'
    <3>1. SUFFICES ASSUME NEW f \in DOMAIN fixes, skip'[f] \/ (~Started(f)' /\ Parts(f) # 1), NEW n \in A,
                          replacements[n].fix = f
                   PROVE  FALSE
      BY <1>1, <1>10 DEF NotApplied
    <3>2. NotApplied(A)
      BY <1>3 DEF Applying
    <3>3. CASE f # c
      <4>1. skip[f] \/ (~Started(f) /\ Parts(f) # 1)
        BY <1>1, <1>8, <3>1, <3>3 DEF Started
      <4>2. QED
        BY <3>1, <3>2, <4>1 DEF NotApplied
    <3>4. CASE f = c /\ Parts(c) # 1
      <4>1. ~Started(f)
        BY <1>1, <3>4 DEF Started
      <4>2. QED
        BY <3>1, <3>2, <3>4, <4>1 DEF NotApplied
    <3>5. CASE f = c /\ Parts(c) = 1
      <4>1. n \in DOMAIN replacements /\ n < i
        BY <1>4
      <4>2. replacements[n].fix = c /\ replacements[i].fix = c
        BY <1>2, <3>1, <3>5 DEF c
      <4>3. n = i
        BY <1>2, <3>5, <4>1, <4>2, SinglePart
      <4>4. QED
        BY <1>2, <4>1, <4>3
    <3>6. QED
      BY <3>3, <3>4, <3>5
  <2>6. GivenUp(A)'
    <3>1. SUFFICES ASSUME NEW f \in DOMAIN fixes, skip'[f], ~Started(f)
                   PROVE  \E n \in 1..i' - 1 : replacements[n].fix = f /\ \E a \in A : a < n
      BY <1>1 DEF GivenUp, Started
    <3>2. CASE f = c
      <4>1. i \in 1..i' - 1 /\ replacements[i].fix = f /\ w < i
        BY <1>2, <1>4, <1>6, <3>2 DEF c
      <4>2. QED
        BY <1>7, <4>1
    <3>3. CASE f # c
      <4>1. skip[f]
        BY <1>8, <3>1, <3>3
      <4>2. PICK n \in 1..i - 1 : replacements[n].fix = f /\ \E a \in A : a < n
        BY <1>3, <3>1, <4>1 DEF Applying, GivenUp
      <4>3. n \in 1..i' - 1
        BY <1>6
      <4>4. QED
        BY <4>2, <4>3
    <3>4. QED
      BY <3>2, <3>3
  <2>7. Awaited(A)'
    <3>1. SUFFICES ASSUME NEW f \in DOMAIN fixes, ~skip'[f], \A n \in A : replacements[n].fix # f
                   PROVE  \E n \in i'..Len(replacements) : replacements[n].fix = f
      BY <1>1 DEF Awaited
    <3>2. PICK n \in i..Len(replacements) : replacements[n].fix = f
      BY <1>3, <1>9, <3>1 DEF Applying, Awaited
    <3>3. n # i
      BY <1>2, <1>9, <3>1, <3>2 DEF c
    <3>4. n \in i'..Len(replacements)
      BY <1>1, <1>2, <3>3
    <3>5. QED
      BY <3>2, <3>4
  <2>8. FirstApplied(A)'
    <3>1. SUFFICES ASSUME NEW n \in 1..i' - 1, \A a \in A : n < a
                   PROVE  skip'[replacements[n].fix] /\ state[replacements[n].fix].index \in 1..n
      BY <1>1 DEF FirstApplied
    <3>2. w < i /\ n < w
      BY <1>4, <3>1
    <3>3. n \in 1..i - 1
      BY <1>2, <1>4, <1>6, <3>2
    <3>4. skip[replacements[n].fix] /\ state[replacements[n].fix].index \in 1..n
      BY <1>3, <3>1, <3>3 DEF Applying, FirstApplied
    <3>5. replacements[n].fix \in DOMAIN fixes
      <4>1. n \in DOMAIN replacements
        BY <1>2, <3>3
      <4>2. QED
        BY <1>2, <4>1, CharacterOfReplacement
    <3>6. QED
      BY <1>8, <3>4, <3>5
  <2>9. QED
    BY <1>1, <2>1, <2>2, <2>3, <2>4, <2>5, <2>6, <2>7, <2>8 DEF Applying
<1>12. Prepared' /\ i' \in 1..Len(replacements') + 1
  <2>1. Prepared'
    BY <1>1, <1>2, SamePrepared
  <2>2. QED
    BY <1>1, <1>2, <2>1
<1>13. StatesSaved'
  <2>1. 1..i - 1 \subseteq 1..i' - 1
    BY <1>6
  <2>2. QED
    BY <1>1, <2>1 DEF Loop, StatesSaved, Started
<1>14. StatesInOrder'
  BY <1>1, <1>9 DEF Loop, StatesInOrder, Started
<1>15. Unskipped' = Unskipped \ {c} /\ c \in Unskipped
  BY <1>1, <1>2, <1>8 DEF Unskipped
<1>16. fixed' = Cardinality(Unskipped')
  <2>1. IsFiniteSet(Unskipped) /\ fixed = Cardinality(Unskipped)
    BY <1>1, CurrentFix DEF Loop
  <2>2. Cardinality(Unskipped \ {c}) = Cardinality(Unskipped) - 1
    BY <1>15, <2>1, FS_RemoveElement
  <2>3. QED
    BY <1>1, <1>15, <2>1, <2>2
<1>17. Unskipped' # {}
  <2>1. replacements[w].fix \in DOMAIN fixes
    BY <1>2, <1>4, CharacterOfReplacement
  <2>2. ~skip[replacements[w].fix]
    BY <1>3, <2>1 DEF Applying, NotApplied
  <2>3. QED
    BY <1>7, <1>15, <2>1, <2>2 DEF Unskipped
<1>18. QED
  BY <1>1, <1>8, <1>11, <1>12, <1>13, <1>14, <1>16, <1>17 DEF Loop

\* What was written before stays when the text is continued.
LEMMA Continued ==
    ASSUME NEW S, NEW s \in Seq(S), NEW t \in Seq(S), NEW u \in Seq(S)
    PROVE  /\ (s \o t) \o u \in Seq(S) /\ Len(s) <= Len((s \o t) \o u) /\ Len(s) \in Nat
           /\ SubSeq((s \o t) \o u, 1, Len(s)) = s
           /\ \A k \in Nat : k <= Len(s) => SubSeq((s \o t) \o u, 1, k) = SubSeq(s, 1, k)
<1> DEFINE v == s \o t
<1>1. v \in Seq(S) /\ Len(v) = Len(s) + Len(t) /\ Len(s) \in Nat /\ Len(t) \in Nat
  BY Concatenated
<1>2. \A k \in Nat : k <= Len(s) => SubSeq(v, 1, k) = SubSeq(s, 1, k)
  BY Truncated
<1>3. SubSeq(v, 1, Len(s)) = s
  BY <1>1, Truncated
<1> HIDE DEF v
<1>4. v \o u \in Seq(S) /\ Len(v \o u) = Len(v) + Len(u) /\ Len(u) \in Nat
  BY ONLY <1>1, u \in Seq(S), Concatenated
<1>5. \A k \in Nat : k <= Len(v) => SubSeq(v \o u, 1, k) = SubSeq(v, 1, k)
  BY <1>1, Truncated
<1>6. Len(s) <= Len(v)
  BY <1>1
<1>7. Len(s) <= Len(v \o u)
  BY <1>1, <1>4
<1>8. SubSeq(v \o u, 1, Len(s)) = s
  BY <1>1, <1>3, <1>5, <1>6
<1>9. ASSUME NEW k \in Nat, k <= Len(s)
      PROVE  SubSeq(v \o u, 1, k) = SubSeq(s, 1, k)
  <2>1. k <= Len(v)
    BY <1>1, <1>9
  <2>2. QED
    BY <1>2, <1>5, <1>9, <2>1
<1>10. QED
  BY <1>1, <1>4, <1>7, <1>8, <1>9 DEF v

\* A replacement is applied; the first one of several of a fix saves the state.
LEMMA ApplyKeepsLoop ==
    ASSUME Loop, Apply
    PROVE  Loop'
<1> DEFINE c == Current.fix
           from == IF position = -1 THEN 0 ELSE position
           new == [position |-> position, index |-> i, length |-> Len(output)]
           Saves == state[c] = NoState /\ Parts(c) # 1
<1>1. /\ i <= Len(replacements) /\ ~skip[c] /\ Current.start > position
      /\ state' = IF Saves THEN [state EXCEPT ![c] = new] ELSE state
      /\ start' = IF position = -1 THEN Current.start ELSE start
      /\ output' = output \o Source(from, Current.start) \o Current.text
      /\ position' = Current.end /\ i' = i + 1
      /\ UNCHANGED <<fixes, pc, replacements, skip, fixed>>
  BY DEF Apply
<1>2. /\ i \in DOMAIN replacements /\ c \in DOMAIN fixes /\ Current = replacements[i]
      /\ i \in Int /\ Len(replacements) \in Int /\ DOMAIN replacements = 1..Len(replacements)
      /\ Prepared /\ N \in Nat
  BY <1>1, CurrentFix
<1>3. PICK A : Applying(A)
  BY DEF Loop
<1>4. PICK B : B = A \union {i}
  OBVIOUS
<1>5. /\ A \in SUBSET DOMAIN replacements
      /\ \A a \in A : a \in 1..i - 1 /\ a \in 1..i' - 1 /\ a < i /\ a \in Int
  BY <1>1, <1>2, <1>3 DEF Applying
<1>6. Text(output, position, A) /\ output \in Seq(Character) /\ position \in -1..N /\ Len(output) \in Nat
  <2>1. Text(output, position, A)
    BY <1>3 DEF Applying
  <2>2. output \in Seq(Character) /\ position \in -1..N
    BY <2>1 DEF Text, UpTo
  <2>3. QED
    BY <2>1, <2>2
<1>7. \A out, pos, D : Text(out, pos, D) => Text(out, pos, D)'
  BY <1>1, SameText
<1>8. \A n \in Int : n \in 1..i' - 1 <=> n = i \/ n \in 1..i - 1
  BY <1>1, <1>2
<1>9. \A f : Parts(f)' = Parts(f)
  BY <1>1 DEF Parts
<1>10. /\ Current.start \in from..N /\ from \in 0..N
       /\ Text(output', position', B)
  <2>1. replacements[i].start > position
    BY <1>1, <1>2
  <2>2. PICK x : x = from
    OBVIOUS
  <2>3. /\ replacements[i].start \in x..N /\ x \in 0..N
        /\ Text(output \o Source(x, replacements[i].start) \o replacements[i].text,
                replacements[i].end, A \union {i})
    BY <1>2, <1>5, <1>6, <2>1, <2>2, TextGrows
  <2>4. QED
    BY <1>1, <1>2, <1>4, <2>2, <2>3
<1>11. /\ Len(output) <= Len(output')
       /\ SubSeq(output', 1, Len(output)) = output
       /\ \A k \in Nat : k <= Len(output) => SubSeq(output', 1, k) = SubSeq(output, 1, k)
  <2>1. Source(from, Current.start) \in Seq(Character)
    BY <1>2, <1>10, SourceType
  <2>2. Current.text \in Seq(Character)
    BY <1>2, CharacterOfReplacement
  <2>3. PICK t \in Seq(Character), u \in Seq(Character) : output' = (output \o t) \o u
    BY <1>1, <2>1, <2>2
  <2>4. output \in Seq(Character) /\ t \in Seq(Character) /\ u \in Seq(Character)
    BY <1>6
  <2>5. Len(output) <= Len((output \o t) \o u)
    BY ONLY <2>4, Continued
  <2>6. SubSeq((output \o t) \o u, 1, Len(output)) = output
    BY ONLY <2>4, Continued
  <2>7. \A k \in Nat : k <= Len(output) => SubSeq((output \o t) \o u, 1, k) = SubSeq(output, 1, k)
    BY ONLY <2>4, Continued
  <2>8. QED
    BY <2>3, <2>5, <2>6, <2>7
<1>12. /\ state' = [f \in DOMAIN fixes |-> state'[f]]
       /\ \A f \in DOMAIN fixes : ~(Saves /\ f = c) => state'[f] = state[f]
       /\ Saves => state'[c] = new
  <2>1. state = [f \in DOMAIN fixes |-> state[f]]
    BY DEF Loop
  <2>2. QED
    BY <1>1, <1>2, <2>1
<1> HIDE DEF c, from
<1>13. new # NoState /\ new.index = i /\ new.length = Len(output) /\ new.position = position
  BY <1>2 DEF NoState
<1>14. ASSUME NEW f \in DOMAIN fixes, Started(f)'
       PROVE  \/ Started(f) /\ state'[f] = state[f] /\ ~(Saves /\ f = c)
              \/ f = c /\ Saves /\ state'[f] = new
  BY <1>12, <1>14 DEF Started
<1>15. ASSUME NEW f \in DOMAIN fixes, ~Started(f)'
       PROVE  ~Started(f) /\ (f = c => Parts(c) = 1)
  BY <1>12, <1>13, <1>15 DEF Started
<1> HIDE DEF new
<1>16. StatesSaved'
  <2>1. SUFFICES ASSUME NEW f \in DOMAIN fixes, Started(f)'
                 PROVE  /\ state'[f].index \in 1..i' - 1 /\ replacements[state'[f].index].fix = f
                        /\ state'[f].position \in -1..N /\ state'[f].length \in Nat
    BY <1>1 DEF StatesSaved
  <2>2. CASE Started(f) /\ state'[f] = state[f]
    <3>1. /\ state[f].index \in 1..i - 1 /\ replacements[state[f].index].fix = f
          /\ state[f].position \in -1..N /\ state[f].length \in Nat
      BY <2>2 DEF Loop, StatesSaved
    <3>2. state[f].index \in 1..i' - 1
      BY <1>8, <3>1
    <3>3. QED
      BY <2>2, <3>1, <3>2
  <2>3. CASE f = c /\ state'[f] = new
    <3>1. i \in 1..i' - 1
      BY <1>2, <1>8
    <3>2. QED
      BY <1>2, <1>6, <1>13, <2>3, <3>1 DEF c
  <2>4. QED
    BY <1>14, <2>1, <2>2, <2>3
<1>17. StatesInOrder'
  <2>1. SUFFICES ASSUME NEW f \in DOMAIN fixes, NEW g \in DOMAIN fixes, Started(f)', ~skip[f], Started(g)', ~skip[g],
                        state'[f].index <= state'[g].index
                 PROVE  state'[f].length <= state'[g].length
    BY <1>1 DEF StatesInOrder
  <2>2. CASE Started(f) /\ state'[f] = state[f] /\ Started(g) /\ state'[g] = state[g]
    BY <2>1, <2>2 DEF Loop, StatesInOrder
  <2>3. CASE Started(f) /\ state'[f] = state[f] /\ state'[g] = new
    <3>1. state[f].length <= Len(output)
      BY <1>3, <2>1, <2>3 DEF Applying, CanUndo
    <3>2. QED
      BY <1>13, <2>3, <3>1
  <2>4. CASE state'[f] = new /\ Started(g) /\ state'[g] = state[g]
    <3>1. state[g].index \in 1..i - 1
      BY <2>4 DEF Loop, StatesSaved
    <3>2. i <= state[g].index
      BY <1>13, <2>1, <2>4
    <3>3. QED
      BY <1>2, <3>1, <3>2
  <2>5. CASE state'[f] = new /\ state'[g] = new
    BY <1>6, <1>13, <2>5
  <2>6. QED
    BY <1>14, <2>1, <2>2, <2>3, <2>4, <2>5
<1>18. ASSUME NEW f \in DOMAIN fixes, Started(f)', ~skip[f]
       PROVE  CanUndo(B, f)'
  <2>1. CASE Started(f) /\ state'[f] = state[f]
    <3>1. CanUndo(A, f) /\ state[f].index \in 1..i - 1 /\ state[f].length \in Nat
      BY <1>3, <1>18, <2>1 DEF Applying, Loop, StatesSaved
    <3>2. state[f].index \in B /\ state[f].index < i
      BY <1>2, <1>4, <3>1 DEF CanUndo
    <3>3. ASSUME NEW n \in B, replacements[n].fix = f
          PROVE  state[f].index <= n
      BY <1>2, <1>4, <3>1, <3>2, <3>3 DEF CanUndo
    <3>4. \A n \in state[f].index..i' - 1 : replacements[n].fix = f => n \in B
      <4>1. TAKE n \in state[f].index..i' - 1
      <4>2. n = i \/ n \in state[f].index..i - 1
        BY <1>1, <1>2, <3>1
      <4>3. QED
        BY <1>4, <3>1, <4>2 DEF CanUndo
    <3>5. state[f].length <= Len(output) /\ state[f].length <= Len(output')
      <4>1. state[f].length <= Len(output)
        BY <3>1 DEF CanUndo
      <4>2. Len(output') \in Nat
        BY <1>10 DEF Text, UpTo
      <4>3. QED
        BY <1>6, <1>11, <3>1, <4>1, <4>2
    <3>6. Text(SubSeq(output', 1, state[f].length), state[f].position, Below(B, state[f].index))
      <4>1. Text(SubSeq(output, 1, state[f].length), state[f].position, Below(A, state[f].index))
        BY <3>1 DEF CanUndo
      <4>2. ~(i < state[f].index)
        BY <1>2, <3>1
      <4>3. Below(B, state[f].index) = Below(A, state[f].index)
        BY <1>4, <4>2 DEF Below
      <4>4. SubSeq(output', 1, state[f].length) = SubSeq(output, 1, state[f].length)
        BY <1>11, <3>1, <3>5
      <4>5. QED
        BY <4>1, <4>3, <4>4
    <3>7. Text(SubSeq(output, 1, state[f].length), state[f].position, Below(B, state[f].index))'
      <4>1. Below(B, state[f].index)' = Below(B, state[f].index)
        BY <2>1 DEF Below
      <4>2. QED
        BY <1>7, <2>1, <3>6, <4>1
    <3>8. Parts(f)' # 1
      BY <1>9, <3>1 DEF CanUndo
    <3>9. QED
      BY <1>1, <2>1, <3>2, <3>3, <3>4, <3>5, <3>7, <3>8 DEF CanUndo
  <2>2. CASE f = c /\ Saves /\ state'[f] = new
    <3>1. state'[f].index = i /\ state'[f].length = Len(output) /\ state'[f].position = position
      BY <1>13, <2>2
    <3>2. i \in B
      BY <1>4
    <3>3. ASSUME NEW n \in B, replacements[n].fix = f
          PROVE  i <= n
      <4>1. \A a \in A : replacements[a].fix # f
        BY <1>3, <2>2 DEF Applying, NotApplied, Started
      <4>2. n = i
        BY <1>4, <3>3, <4>1
      <4>3. QED
        BY <1>2, <4>2
    <3>4. \A n \in i..i' - 1 : n \in B
      <4>1. TAKE n \in i..i' - 1
      <4>2. n = i
        BY <1>1, <1>2
      <4>3. QED
        BY <1>4, <4>2
    <3>5. Below(B, i) = A
      BY <1>2, <1>4, <1>5 DEF Below
    <3>6. Text(SubSeq(output', 1, Len(output)), position, Below(B, i))
      BY <1>6, <1>11, <3>5
    <3>7. Text(SubSeq(output, 1, state[f].length), state[f].position, Below(B, state[f].index))'
      <4>1. Below(B, state[f].index)' = Below(B, i)
        BY <3>1 DEF Below
      <4>2. QED
        BY <1>7, <3>1, <3>6, <4>1
    <3>8. Parts(f)' # 1
      BY <1>9, <2>2
    <3>9. QED
      BY <1>1, <1>11, <3>1, <3>2, <3>3, <3>4, <3>7, <3>8 DEF CanUndo
  <2>3. QED
    BY <1>14, <1>18, <2>1, <2>2
<1>19. (\A a \in B : (\A b \in B : a <= b) => start' = replacements[a].start) /\ start' \in 0..N
  <2>1. Text(output, position, A) /\ start \in 0..N /\ Current.start \in 0..N
    BY <1>2, <1>6, CharacterOfReplacement DEF Loop
  <2>2. CASE position = -1
    <3>1. A = {}
      <4>1. ASSUME A # {}
            PROVE  FALSE
        <5>1. PICK a \in A : position = replacements[a].end
          BY <2>1, <4>1 DEF Text
        <5>2. replacements[a].end \in 0..N
          BY <1>2, <1>5, CharacterOfReplacement
        <5>3. QED
          BY <1>2, <2>2, <5>1, <5>2
      <4>2. QED
        BY <4>1
    <3>2. start' = replacements[i].start
      BY <1>1, <1>2, <2>2
    <3>3. QED
      BY <1>2, <1>4, <2>1, <3>1, <3>2
  <2>3. CASE position # -1
    <3>1. start' = start
      BY <1>1, <2>3
    <3>2. PICK w \in A : TRUE
      BY <2>1, <2>3 DEF Text
    <3>3. ASSUME NEW a \in B, \A b \in B : a <= b
          PROVE  start = replacements[a].start
      <4>1. a # i
        BY <1>2, <1>4, <1>5, <3>2, <3>3
      <4>2. a \in A /\ \A b \in A : a <= b
        BY <1>4, <3>3, <4>1
      <4>3. QED
        BY <1>3, <4>2 DEF Applying
    <3>4. QED
      BY <2>1, <3>1, <3>3
  <2>4. QED
    BY <2>2, <2>3
<1>20. NotApplied(B)'
  <2>1. SUFFICES ASSUME NEW f \in DOMAIN fixes, skip[f] \/ (~Started(f)' /\ Parts(f) # 1), NEW n \in B,
                        replacements[n].fix = f
                 PROVE  FALSE
    BY <1>1, <1>9 DEF NotApplied
  <2>2. f # c
    BY <1>1, <1>15, <2>1 DEF c
  <2>3. n \in A
    BY <1>2, <1>4, <2>1, <2>2 DEF c
  <2>4. skip[f] \/ (~Started(f) /\ Parts(f) # 1)
    BY <1>15, <2>1
  <2>5. QED
    BY <1>3, <2>1, <2>3, <2>4 DEF Applying, NotApplied
<1>21. GivenUp(B)'
  <2>1. SUFFICES ASSUME NEW f \in DOMAIN fixes, skip[f], ~Started(f)'
                 PROVE  \E n \in 1..i' - 1 : replacements[n].fix = f /\ \E a \in B : a < n
    BY <1>1 DEF GivenUp
  <2>2. PICK n \in 1..i - 1 : replacements[n].fix = f /\ \E a \in A : a < n
    BY <1>3, <1>15, <2>1 DEF Applying, GivenUp
  <2>3. n \in 1..i' - 1
    BY <1>8
  <2>4. QED
    BY <1>4, <2>2, <2>3
<1>22. Awaited(B)'
  <2>1. SUFFICES ASSUME NEW f \in DOMAIN fixes, ~skip[f], \A n \in B : replacements[n].fix # f
                 PROVE  \E n \in i'..Len(replacements) : replacements[n].fix = f
    BY <1>1 DEF Awaited
  <2>2. PICK n \in i..Len(replacements) : replacements[n].fix = f
    BY <1>3, <1>4, <2>1 DEF Applying, Awaited
  <2>3. n # i
    BY <1>4, <2>1, <2>2
  <2>4. n \in i'..Len(replacements)
    BY <1>1, <1>2, <2>3
  <2>5. QED
    BY <2>2, <2>4
<1>23. FirstApplied(B)'
  <2>1. SUFFICES ASSUME NEW n \in 1..i' - 1, \A a \in B : n < a
                 PROVE  skip[replacements[n].fix] /\ state'[replacements[n].fix].index \in 1..n
    BY <1>1 DEF FirstApplied
  <2>2. n \in 1..i - 1 /\ \A a \in A : n < a
    <3>1. n < i
      BY <1>4, <2>1
    <3>2. n # i
      BY <1>2, <3>1
    <3>3. QED
      BY <1>4, <1>8, <2>1, <3>2
  <2>3. skip[replacements[n].fix] /\ state[replacements[n].fix].index \in 1..n
    BY <1>3, <2>2 DEF Applying, FirstApplied
  <2>4. replacements[n].fix \in DOMAIN fixes /\ replacements[n].fix # c
    <3>1. n \in DOMAIN replacements
      BY <1>2, <2>2
    <3>2. QED
      BY <1>1, <1>2, <2>3, <3>1, CharacterOfReplacement DEF c
  <2>5. QED
    BY <1>12, <2>3, <2>4
<1>24. Applying(B)'
  <2>1. (B \in SUBSET (1..i - 1))'
    <3>1. i \in 1..i' - 1
      BY <1>2, <1>8
    <3>2. QED
      BY <1>4, <1>5, <3>1
  <2>2. Text(output, position, B)'
    BY <1>7, <1>10
  <2>3. (\A a \in B : (\A b \in B : a <= b) => start = replacements[a].start)'
    BY <1>1, <1>19
  <2>4. (\A f \in DOMAIN fixes : Started(f) /\ ~skip[f] => CanUndo(B, f))'
    BY <1>1, <1>18
  <2>5. QED
    BY <1>20, <1>21, <1>22, <1>23, <2>1, <2>2, <2>3, <2>4 DEF Applying
<1>25. Prepared' /\ i' \in 1..Len(replacements') + 1
  <2>1. Prepared'
    BY <1>1, <1>2, SamePrepared
  <2>2. QED
    BY <1>1, <1>2, <2>1
<1>26. Unskipped' = Unskipped
  BY <1>1 DEF Unskipped
<1>27. QED
  BY <1>1, <1>12, <1>16, <1>17, <1>19, <1>24, <1>25, <1>26 DEF Loop

\* A fix that is in a conflict later is undone: the text is the one before its first replacement,
\* and the fixes that were given up since then without a replacement before get another chance.
LEMMA RollBackKeepsLoop ==
    ASSUME Loop, RollBack
    PROVE  Loop'
<1> DEFINE c == Current.fix
<1>1. PICK back : back = state[c]
  OBVIOUS
<1>2. /\ i <= Len(replacements) /\ ~skip[c] /\ Current.start <= position /\ Started(c)
      /\ output' = SubSeq(output, 1, back.length) /\ position' = back.position /\ i' = back.index + 1
      /\ state' = [f \in DOMAIN fixes |-> IF f \in Reset THEN NoState ELSE state[f]]
      /\ skip' = [f \in DOMAIN fixes |-> f = c \/ (skip[f] /\ f \notin Retried)]
      /\ fixed' = fixed - 1 + Cardinality(Retried)
      /\ UNCHANGED <<fixes, pc, replacements, start>>
  BY <1>1 DEF RollBack, Started
<1>3. /\ i \in DOMAIN replacements /\ c \in DOMAIN fixes /\ Current = replacements[i]
      /\ i \in Int /\ Len(replacements) \in Int /\ DOMAIN replacements = 1..Len(replacements)
      /\ Prepared /\ N \in Nat /\ Unskipped \in SUBSET DOMAIN fixes
  BY <1>2, CurrentFix
<1>4. PICK A : Applying(A)
  BY DEF Loop
<1>5. PICK p : p = back.index
  OBVIOUS
<1>6. Passed = p + 1..i - 1
  BY <1>1, <1>5 DEF Passed, c
<1> HIDE DEF c
<1>7. /\ CanUndo(A, c) /\ p \in A /\ p \in 1..i - 1 /\ p \in Int /\ replacements[p].fix = c
      /\ back.position \in -1..N /\ back.length \in Nat /\ back.length <= Len(output)
      /\ p \in DOMAIN replacements /\ p < i /\ i' = p + 1
  <2>1. CanUndo(A, c)
    BY <1>2, <1>3, <1>4 DEF Applying
  <2>2. /\ p \in 1..i - 1 /\ replacements[p].fix = c
        /\ back.position \in -1..N /\ back.length \in Nat
    BY <1>1, <1>2, <1>3, <1>5 DEF Loop, StatesSaved
  <2>3. p \in A /\ back.length <= Len(output)
    BY <1>1, <1>5, <2>1 DEF CanUndo
  <2>4. p \in DOMAIN replacements /\ p < i /\ i' = p + 1
    BY <1>2, <1>3, <1>5, <2>2
  <2>5. QED
    BY <2>1, <2>2, <2>3, <2>4
<1>8. PICK B : B = Below(A, p)
  OBVIOUS
<1>9. /\ A \in SUBSET DOMAIN replacements /\ B \in SUBSET A
      /\ \A a \in A : a \in Int /\ a < i
      /\ \A a \in A : a \in B <=> a < p
  BY <1>3, <1>4, <1>8 DEF Applying, Below
<1>10. \A out, pos, D : Text(out, pos, D) => Text(out, pos, D)'
  BY <1>2, SameText
<1>11. \A f : Parts(f)' = Parts(f)
  BY <1>2 DEF Parts
<1>12. Text(output', position', B) /\ output \in Seq(Character)
  <2>1. Text(output', position', B)
    BY <1>1, <1>2, <1>5, <1>7, <1>8 DEF CanUndo
  <2>2. output \in Seq(Character)
    BY <1>4 DEF Applying, Text, UpTo
  <2>3. QED
    BY <2>1, <2>2
<1>13. /\ \A f \in DOMAIN fixes : f \in Reset => state'[f] = NoState
       /\ \A f \in DOMAIN fixes : f \notin Reset => state'[f] = state[f]
       /\ state' = [f \in DOMAIN fixes |-> state'[f]]
       /\ skip' \in [DOMAIN fixes -> BOOLEAN]
       /\ \A f \in DOMAIN fixes : skip'[f] <=> f = c \/ (skip[f] /\ f \notin Retried)
  BY <1>2
<1>14. \A f \in DOMAIN fixes : f \in Reset <=> state[f].index \in p + 1..i - 1
  BY <1>6 DEF Reset
<1>15. \A f \in DOMAIN fixes : f \in Retried <=>
           skip[f] /\ \E n \in p + 1..i - 1 : replacements[n].fix = f /\ (~Started(f) \/ state[f].index >= n)
  BY <1>6 DEF Retried, Started
<1>16. \A f \in DOMAIN fixes : Started(f) => state[f].index \in 1..i - 1 /\ replacements[state[f].index].fix = f
  BY DEF Loop, StatesSaved
<1>17. ASSUME NEW f \in DOMAIN fixes, Started(f)'
       PROVE  Started(f) /\ state'[f] = state[f] /\ state[f].index \in 1..p /\ f \notin Reset
  <2>1. f \notin Reset /\ state'[f] = state[f]
    BY <1>13, <1>17 DEF Started
  <2>2. Started(f)
    BY <1>17, <2>1 DEF Started
  <2>3. state[f].index \in 1..i - 1 /\ ~(state[f].index \in p + 1..i - 1)
    BY <1>14, <1>16, <2>1, <2>2
  <2>4. state[f].index \in 1..p
    BY <1>3, <1>7, <2>3
  <2>5. QED
    BY <2>1, <2>2, <2>4
<1>18. ASSUME NEW f \in DOMAIN fixes, Started(f)', ~skip'[f]
       PROVE  ~skip[f] /\ f # c /\ state[f].index < p
  <2>1. Started(f) /\ state[f].index \in 1..p /\ replacements[state[f].index].fix = f
    BY <1>16, <1>17, <1>18
  <2>2. f # c
    BY <1>13, <1>18
  <2>3. state[f].index # p
    BY <1>7, <2>1, <2>2
  <2>4. f \notin Retried
    <3>1. \A n \in p + 1..i - 1 : ~(state[f].index >= n)
      BY <1>3, <1>7, <2>1
    <3>2. QED
      BY <1>15, <2>1, <3>1
  <2>5. ~skip[f]
    BY <1>13, <1>18, <2>2, <2>4
  <2>6. QED
    BY <1>7, <2>1, <2>2, <2>3, <2>5
<1>19. StatesSaved'
  <2>1. SUFFICES ASSUME NEW f \in DOMAIN fixes, Started(f)'
                 PROVE  /\ state'[f].index \in 1..i' - 1 /\ replacements[state'[f].index].fix = f
                        /\ state'[f].position \in -1..N /\ state'[f].length \in Nat
    BY <1>2 DEF StatesSaved
  <2>2. Started(f) /\ state'[f] = state[f] /\ state[f].index \in 1..p
    BY <1>17, <2>1
  <2>3. state[f].index \in 1..i' - 1
    BY <1>7, <2>2
  <2>4. QED
    BY <2>2, <2>3 DEF Loop, StatesSaved
<1>20. StatesInOrder'
  <2>1. SUFFICES ASSUME NEW f \in DOMAIN fixes, NEW g \in DOMAIN fixes, Started(f)', ~skip'[f], Started(g)', ~skip'[g],
                        state'[f].index <= state'[g].index
                 PROVE  state'[f].length <= state'[g].length
    BY <1>2 DEF StatesInOrder
  <2>2. /\ Started(f) /\ ~skip[f] /\ state'[f] = state[f]
        /\ Started(g) /\ ~skip[g] /\ state'[g] = state[g]
    BY <1>17, <1>18, <2>1
  <2>3. QED
    BY <2>1, <2>2 DEF Loop, StatesInOrder
<1>21. ASSUME NEW f \in DOMAIN fixes, Started(f)', ~skip'[f]
       PROVE  CanUndo(B, f)'
  <2>1. /\ Started(f) /\ ~skip[f] /\ f # c /\ state'[f] = state[f]
        /\ state[f].index \in 1..p /\ state[f].index < p /\ state[f].length \in Nat
    BY <1>17, <1>18, <1>21 DEF Loop, StatesSaved
  <2>2. CanUndo(A, f)
    BY <1>4, <2>1 DEF Applying
  <2>3. state[f].length <= back.length
    <3>1. state[f].index <= state[c].index
      BY <1>1, <1>5, <1>7, <2>1
    <3>2. QED
      BY <1>1, <1>2, <1>3, <2>1, <3>1 DEF Loop, StatesInOrder
  <2>4. state[f].index \in B
    BY <1>9, <2>1, <2>2 DEF CanUndo
  <2>5. \A n \in B : replacements[n].fix = f => state[f].index <= n
    BY <1>9, <2>2 DEF CanUndo
  <2>6. \A n \in state[f].index..i' - 1 : replacements[n].fix = f => n \in B
    <3>1. SUFFICES ASSUME NEW n \in state[f].index..i' - 1, replacements[n].fix = f
                   PROVE  n \in B
      OBVIOUS
    <3>2. n # p
      BY <1>7, <2>1, <3>1
    <3>3. n < p /\ n \in state[f].index..i - 1
      BY <1>3, <1>7, <2>1, <3>2
    <3>4. n \in A
      BY <2>2, <3>1, <3>3 DEF CanUndo
    <3>5. QED
      BY <1>9, <3>3, <3>4
  <2>7. Len(output') = back.length /\ SubSeq(output', 1, state[f].length) = SubSeq(output, 1, state[f].length)
    <3>1. output' = SubSeq(output, 1, back.length)
      BY <1>2
    <3>2. Len(SubSeq(output, 1, back.length)) = back.length
      BY <1>7, <1>12, Truncated
    <3>3. SubSeq(SubSeq(output, 1, back.length), 1, state[f].length) = SubSeq(output, 1, state[f].length)
      BY <1>7, <1>12, <2>1, <2>3, Truncated
    <3>4. QED
      BY <3>1, <3>2, <3>3
  <2>8. Text(SubSeq(output, 1, state[f].length), state[f].position, Below(B, state[f].index))'
    <3>1. Text(SubSeq(output, 1, state[f].length), state[f].position, Below(A, state[f].index))
      BY <2>2 DEF CanUndo
    <3>2. \A a \in A : a < state[f].index => a < p
      BY <1>7, <1>9, <2>1
    <3>3. Below(B, state[f].index) = Below(A, state[f].index)
      BY <1>9, <3>2 DEF Below
    <3>4. Below(B, state[f].index)' = Below(B, state[f].index)
      BY <2>1 DEF Below
    <3>5. QED
      BY <1>10, <2>1, <2>7, <3>1, <3>3, <3>4
  <2>9. Parts(f)' # 1
    BY <1>11, <2>2 DEF CanUndo
  <2>10. QED
    BY <1>2, <2>1, <2>3, <2>4, <2>5, <2>6, <2>7, <2>8, <2>9 DEF CanUndo
<1>22. NotApplied(B)'
  <2>1. SUFFICES ASSUME NEW f \in DOMAIN fixes, skip'[f] \/ (~Started(f)' /\ Parts(f) # 1), NEW n \in B,
                        replacements[n].fix = f
                 PROVE  FALSE
    BY <1>2, <1>11 DEF NotApplied
  <2>2. n \in A /\ n < p /\ NotApplied(A)
    BY <1>4, <1>9 DEF Applying
  <2>3. f # c
    <3>1. ~(p <= n)
      BY <1>7, <1>9, <2>2
    <3>2. QED
      BY <1>1, <1>5, <1>7, <2>1, <2>2, <3>1 DEF CanUndo
  <2>4. ~skip[f]
    BY <2>1, <2>2 DEF NotApplied
  <2>5. ~Started(f)' /\ Parts(f) # 1
    BY <1>13, <2>1, <2>3, <2>4
  <2>6. Started(f)
    BY <2>1, <2>2, <2>5 DEF NotApplied
  <2>7. f \in Reset
    BY <1>13, <2>5, <2>6 DEF Started
  <2>8. state[f].index <= n
    BY <1>4, <2>1, <2>2, <2>4, <2>6 DEF Applying, CanUndo
  <2>9. QED
    BY <1>3, <1>7, <1>9, <1>14, <2>2, <2>7, <2>8
<1>23. GivenUp(B)'
  <2>1. SUFFICES ASSUME NEW f \in DOMAIN fixes, skip'[f], ~Started(f)'
                 PROVE  \E n \in 1..p : replacements[n].fix = f /\ \E a \in B : a < n
    <3>1. i' - 1 = p
      BY <1>7
    <3>2. QED
      BY <1>2, <2>1, <3>1 DEF GivenUp
  <2>2. f # c
    <3>1. c \notin Reset
      BY <1>1, <1>3, <1>5, <1>7, <1>14
    <3>2. QED
      BY <1>2, <1>3, <1>13, <2>1, <3>1 DEF Started
  <2>3. skip[f] /\ f \notin Retried
    BY <1>13, <2>1, <2>2
  <2>4. ~Started(f)
    <3>1. SUFFICES ASSUME Started(f)
                   PROVE  FALSE
      OBVIOUS
    <3>2. f \in Reset
      BY <1>13, <2>1, <3>1 DEF Started
    <3>3. state[f].index \in p + 1..i - 1 /\ replacements[state[f].index].fix = f
      BY <1>14, <1>16, <3>1, <3>2
    <3>4. state[f].index >= state[f].index
      BY <1>3, <1>7, <3>3
    <3>5. QED
      BY <1>15, <2>3, <3>3, <3>4
  <2>5. PICK n \in 1..i - 1, a \in A : replacements[n].fix = f /\ a < n
    BY <1>4, <2>3, <2>4 DEF Applying, GivenUp
  <2>6. ~(n \in p + 1..i - 1)
    BY <1>15, <2>3, <2>4, <2>5
  <2>7. n \in 1..p
    BY <1>3, <1>7, <2>6
  <2>8. n # p
    BY <1>7, <2>2, <2>5
  <2>9. a < p
    BY <1>7, <1>9, <2>5, <2>7
  <2>10. a \in B
    BY <1>9, <2>9
  <2>11. QED
    BY <2>5, <2>7, <2>10
<1>24. Awaited(B)'
  <2>1. SUFFICES ASSUME NEW f \in DOMAIN fixes, ~skip'[f], \A n \in B : replacements[n].fix # f
                 PROVE  \E n \in p + 1..Len(replacements) : replacements[n].fix = f
    BY <1>2, <1>7 DEF Awaited
  <2>2. f # c /\ (skip[f] => f \in Retried)
    BY <1>13, <2>1
  <2>3. p + 1..i - 1 \subseteq p + 1..Len(replacements) /\ i..Len(replacements) \subseteq p + 1..Len(replacements)
    BY <1>2, <1>3, <1>7
  <2>4. CASE skip[f]
    BY <1>15, <2>2, <2>3, <2>4
  <2>5. CASE ~skip[f]
    <3>1. CASE \E n \in i..Len(replacements) : replacements[n].fix = f
      BY <2>3, <3>1
    <3>2. CASE \E n \in A : replacements[n].fix = f
      <4>1. PICK n \in A : replacements[n].fix = f
        BY <3>2
      <4>2. n # p
        BY <1>7, <2>2, <4>1
      <4>3. ~(n < p) /\ n \in Int /\ n < i
        BY <1>9, <2>1, <4>1
      <4>4. n \in p + 1..i - 1
        BY <1>3, <1>7, <4>2, <4>3
      <4>5. QED
        BY <2>3, <4>1, <4>4
    <3>3. QED
      BY <1>4, <2>5, <3>1, <3>2 DEF Applying, Awaited
  <2>6. QED
    BY <2>4, <2>5
<1>25. FirstApplied(B)'
  <2>1. SUFFICES ASSUME NEW n \in 1..p, \A a \in B : n < a
                 PROVE  skip'[replacements[n].fix] /\ state'[replacements[n].fix].index \in 1..n
    <3>1. i' - 1 = p
      BY <1>7
    <3>2. QED
      BY <1>2, <2>1, <3>1 DEF FirstApplied
  <2>2. CASE n = p
    <3>1. c \notin Reset
      BY <1>1, <1>3, <1>5, <1>7, <1>14
    <3>2. state'[c].index = p
      BY <1>1, <1>3, <1>5, <1>13, <3>1
    <3>3. p \in 1..p
      BY <1>7
    <3>4. QED
      BY <1>3, <1>7, <1>13, <2>2, <3>2, <3>3
  <2>3. CASE n # p
    <3>1. PICK g : g = replacements[n].fix
      OBVIOUS
    <3>2. n < p /\ n \in 1..i - 1 /\ n \in DOMAIN replacements
      BY <1>3, <1>7, <2>3
    <3>3. \A a \in A : n < a
      BY <1>7, <1>9, <2>1, <3>2
    <3>4. skip[g] /\ state[g].index \in 1..n
      BY <1>4, <3>1, <3>2, <3>3 DEF Applying, FirstApplied
    <3>5. g \in DOMAIN fixes
      BY <1>3, <3>1, <3>2, CharacterOfReplacement
    <3>6. Started(g)
      BY <3>4 DEF Started, NoState
    <3>7. g \notin Reset
      BY <1>3, <1>7, <1>14, <3>2, <3>4, <3>5
    <3>8. \A m \in p + 1..i - 1 : ~(state[g].index >= m)
      BY <1>3, <1>7, <3>2, <3>4
    <3>9. g \notin Retried
      BY <1>15, <3>5, <3>6, <3>8
    <3>10. QED
      BY <1>13, <3>1, <3>4, <3>5, <3>7, <3>9
  <2>4. QED
    BY <2>2, <2>3
<1>26. \A a \in B : (\A b \in B : a <= b) => start = replacements[a].start
  <2>1. SUFFICES ASSUME NEW a \in B, \A b \in B : a <= b
                 PROVE  start = replacements[a].start
    OBVIOUS
  <2>2. ASSUME NEW b \in A
        PROVE  a <= b
    <3>1. a \in Int /\ a < p /\ b \in Int
      BY <1>9
    <3>2. CASE b < p
      BY <1>9, <2>1, <3>2
    <3>3. CASE ~(b < p)
      BY <1>7, <3>1, <3>3
    <3>4. QED
      BY <3>2, <3>3
  <2>3. QED
    BY <1>4, <1>9, <2>2 DEF Applying
<1>27. Applying(B)'
  <2>1. (B \in SUBSET (1..i - 1))'
    <3>1. SUFFICES ASSUME NEW a \in B
                   PROVE  a \in 1..i' - 1
      OBVIOUS
    <3>2. a \in 1..i - 1 /\ a < p
      BY <1>4, <1>9 DEF Applying
    <3>3. QED
      BY <1>3, <1>7, <3>2
  <2>2. Text(output, position, B)'
    BY <1>10, <1>12
  <2>3. (\A a \in B : (\A b \in B : a <= b) => start = replacements[a].start)'
    BY <1>2, <1>26
  <2>4. (\A f \in DOMAIN fixes : Started(f) /\ ~skip[f] => CanUndo(B, f))'
    BY <1>2, <1>21
  <2>5. QED
    BY <1>22, <1>23, <1>24, <1>25, <2>1, <2>2, <2>3, <2>4 DEF Applying
<1>28. Unskipped' = (Unskipped \ {c}) \union Retried /\ c \in Unskipped /\ (Unskipped \ {c}) \intersect Retried = {}
  <2>1. \A f \in DOMAIN fixes : f \in Retried => skip[f] /\ f # c
    BY <1>2, <1>15
  <2>2. Retried \in SUBSET DOMAIN fixes
    BY DEF Retried
  <2>3. QED
    BY <1>2, <1>3, <1>13, <2>1, <2>2 DEF Unskipped
<1>29. fixed' = Cardinality(Unskipped')
  <2>1. IsFiniteSet(Unskipped) /\ fixed = Cardinality(Unskipped) /\ IsFiniteSet(DOMAIN fixes)
    BY <1>2, CurrentFix DEF Loop
  <2>2. IsFiniteSet(Retried)
    <3>1. Retried \in SUBSET DOMAIN fixes
      BY DEF Retried
    <3>2. QED
      BY <2>1, <3>1, FS_Subset
  <2>3. /\ IsFiniteSet(Unskipped \ {c}) /\ Cardinality(Unskipped \ {c}) = Cardinality(Unskipped) - 1
        /\ Cardinality(Unskipped) \in Nat /\ Cardinality(Retried) \in Nat
    BY <1>28, <2>1, <2>2, FS_RemoveElement, FS_CardinalityType
  <2>4. Cardinality((Unskipped \ {c}) \union Retried)
          = Cardinality(Unskipped \ {c}) + Cardinality(Retried) - Cardinality((Unskipped \ {c}) \intersect Retried)
    BY <2>2, <2>3, FS_Union
  <2>5. Cardinality((Unskipped \ {c}) \intersect Retried) = 0
    BY <1>28, FS_EmptySet
  <2>6. QED
    BY <1>2, <1>28, <2>1, <2>3, <2>4, <2>5
<1>30. Unskipped' # {}
  <2>1. PICK w \in A : replacements[w].fix # c
    <3>1. replacements[i].start <= position
      BY <1>2, <1>3
    <3>2. \E w \in A : replacements[w].fix # replacements[i].fix /\ \A a \in A : a <= w
      BY <1>2, <1>4, <3>1, ConflictIsWithAnother
    <3>3. QED
      BY <1>3, <3>2 DEF c
  <2>2. replacements[w].fix \in DOMAIN fixes
    BY <1>3, <1>9, CharacterOfReplacement
  <2>3. ~skip[replacements[w].fix]
    BY <1>4, <2>2 DEF Applying, NotApplied
  <2>4. QED
    BY <1>28, <2>1, <2>2, <2>3 DEF Unskipped
<1>31. Prepared' /\ i' \in 1..Len(replacements') + 1 /\ start' \in 0..N
  <2>1. Prepared'
    BY <1>2, <1>3, SamePrepared
  <2>2. QED
    BY <1>2, <1>3, <1>7, <2>1 DEF Loop
<1>32. QED
  BY <1>2, <1>13, <1>19, <1>20, <1>27, <1>29, <1>30, <1>31 DEF Loop

-----------------------------------------------------------------------------
(* The result                                                              *)

\* A character is in the text if and only if the replacement that inserts it is applied.
LEMMA UsedIsApplied ==
    ASSUME Prepared, NEW A \in SUBSET DOMAIN replacements, NEW out, NEW to, UpTo(out, to, A),
           NEW f \in DOMAIN fixes, NEW k
    PROVE  In(<<f, k>>, out) <=> \E a \in A : In(<<f, k>>, replacements[a].text)
<1>1. ASSUME In(<<f, k>>, out)
      PROVE  \E a \in A : In(<<f, k>>, replacements[a].text)
  <2>1. PICK n \in DOMAIN out : out[n] = <<f, k>>
    BY <1>1 DEF In
  <2>2. out[n][1] # 0
    BY <2>1, FixesType DEF Prepared
  <2>3. QED
    BY <2>1, <2>2 DEF UpTo
<1>2. ASSUME NEW a \in A, In(<<f, k>>, replacements[a].text)
      PROVE  In(<<f, k>>, out)
  <2>1. PICK p \in DOMAIN replacements[a].text : replacements[a].text[p] = <<f, k>>
    BY <1>2 DEF In
  <2>2. In(replacements[a].text[p], out)
    BY DEF UpTo
  <2>3. QED
    BY <2>1, <2>2
<1>3. QED
  BY <1>1, <1>2

\* The fixes with a character in the text are those with a replacement that is applied.
LEMMA UsedFix ==
    ASSUME Prepared, NEW A \in SUBSET DOMAIN replacements, NEW out, NEW to, UpTo(out, to, A),
           NEW f \in DOMAIN fixes
    PROVE  (\E k \in DOMAIN fixes[f] : In(<<f, k>>, out)) <=> \E a \in A : replacements[a].fix = f
<1>1. ASSUME NEW k \in DOMAIN fixes[f], In(<<f, k>>, out)
      PROVE  \E a \in A : replacements[a].fix = f
  <2>1. PICK a \in A : In(<<f, k>>, replacements[a].text)
    BY <1>1, UsedIsApplied
  <2>2. <<f, k>>[1] = replacements[a].fix
    BY <2>1, CharacterOfReplacement
  <2>3. QED
    BY <2>2
<1>2. ASSUME NEW a \in A, replacements[a].fix = f
      PROVE  \E k \in DOMAIN fixes[f] : In(<<f, k>>, out)
  <2> DEFINE x == replacements[a].text[1]
  <2>1. replacements[a].text \in Seq(Character) /\ replacements[a].text # <<>>
    BY CharacterOfReplacement
  <2>2. 1 \in DOMAIN replacements[a].text
    BY <2>1
  <2>3. In(x, replacements[a].text)
    BY <2>2 DEF In
  <2> HIDE DEF x
  <2>4. x \in Character /\ x[1] = f /\ x[2] \in DOMAIN fixes[f]
    BY <1>2, <2>3, CharacterOfReplacement
  <2>5. x = <<f, x[2]>>
    BY <2>4 DEF Character
  <2>6. In(<<f, x[2]>>, out)
    BY <2>3, <2>5, UsedIsApplied
  <2>7. QED
    BY <2>4, <2>6
<1>3. QED
  BY <1>1, <1>2

\* What is inserted by different fixes does not touch.
LEMMA FixesDoNotTouch ==
    ASSUME Prepared, NEW A \in SUBSET DOMAIN replacements, NEW out, NEW to, UpTo(out, to, A),
           \A a, b \in A : a < b => replacements[a].end < replacements[b].start,
           NEW f \in DOMAIN fixes, NEW g \in DOMAIN fixes, f # g,
           NEW j, NEW k, In(<<f, j>>, out), In(<<g, k>>, out)
    PROVE  fixes[f][j].end < fixes[g][k].start \/ fixes[g][k].end < fixes[f][j].start
<1> DEFINE x == <<f, j>>
           y == <<g, k>>
<1>1. PICK a \in A : In(x, replacements[a].text)
  BY UsedIsApplied
<1>2. PICK b \in A : In(y, replacements[b].text)
  BY UsedIsApplied
<1>3. At(x) = fixes[f][j] /\ At(y) = fixes[g][k]
  BY DEF At
<1>4. /\ x[1] = replacements[a].fix /\ At(x).start \in Int /\ At(x).end \in Int
      /\ replacements[a].start <= At(x).start /\ At(x).end <= replacements[a].end
      /\ replacements[a].start \in 0..N /\ replacements[a].end \in 0..N
  BY <1>1, CharacterOfReplacement
<1>5. /\ y[1] = replacements[b].fix /\ At(y).start \in Int /\ At(y).end \in Int
      /\ replacements[b].start <= At(y).start /\ At(y).end <= replacements[b].end
      /\ replacements[b].start \in 0..N /\ replacements[b].end \in 0..N
  BY <1>2, CharacterOfReplacement
<1>6. replacements[a].fix = f /\ replacements[b].fix = g
  BY <1>4, <1>5
<1>7. a \in Int /\ b \in Int /\ a # b
  BY <1>6, ReplacementList
<1>8. replacements[a].end < replacements[b].start \/ replacements[b].end < replacements[a].start
  BY <1>7
<1> HIDE DEF x, y
<1>9. At(x).end < At(y).start \/ At(y).end < At(x).start
  <2>1. N \in Nat
    BY FixesType DEF Prepared
  <2>2. QED
    BY <1>4, <1>5, <1>8, <2>1
<1>10. QED
  BY <1>3, <1>9

\* A character of the source is missing if and only if a replacement of its position is used.
LEMMA CoveredIsUsed ==
    ASSUME Prepared, NEW A \in SUBSET DOMAIN replacements, NEW out, NEW to, UpTo(out, to, A), NEW c \in 0..N - 1
    PROVE  Covers(A, c) <=> \E f \in DOMAIN fixes : \E k \in DOMAIN fixes[f] :
                                In(<<f, k>>, out) /\ c \in fixes[f][k].start..fixes[f][k].end - 1
<1>1. N \in Nat /\ c \in Int
  BY FixesType DEF Prepared
<1>2. ASSUME NEW a \in A, replacements[a].start <= c, c < replacements[a].end
      PROVE  \E f \in DOMAIN fixes : \E k \in DOMAIN fixes[f] :
                 In(<<f, k>>, out) /\ c \in fixes[f][k].start..fixes[f][k].end - 1
  <2>1. replacements[a].start \in 0..N /\ replacements[a].end \in 0..N
    BY CharacterOfReplacement
  <2>2. c \in replacements[a].start..replacements[a].end - 1
    BY <1>1, <1>2, <2>1
  <2>3. Combined(replacements[a])
    BY DEF Prepared, CombinedTo
  <2>4. PICK p \in DOMAIN replacements[a].text :
            At(replacements[a].text[p]).start <= c /\ c < At(replacements[a].text[p]).end
    BY <2>2, <2>3 DEF Combined
  <2>5. PICK x : x = replacements[a].text[p]
    OBVIOUS
  <2>6. In(x, replacements[a].text)
    BY <2>5 DEF In
  <2>7. /\ x \in Character /\ x[1] \in DOMAIN fixes /\ x[2] \in DOMAIN fixes[x[1]]
        /\ At(x).start \in Int /\ At(x).end \in Int
    BY <2>6, CharacterOfReplacement
  <2>8. x = <<x[1], x[2]>> /\ At(x) = fixes[x[1]][x[2]]
    BY <2>7 DEF Character, At
  <2>9. In(<<x[1], x[2]>>, out)
    BY <2>6, <2>7, <2>8, UsedIsApplied
  <2>10. c \in At(x).start..At(x).end - 1
    BY <1>1, <2>4, <2>5, <2>7
  <2>11. QED
    BY <2>7, <2>8, <2>9, <2>10
<1>3. ASSUME NEW f \in DOMAIN fixes, NEW k \in DOMAIN fixes[f],
             In(<<f, k>>, out), c \in fixes[f][k].start..fixes[f][k].end - 1
      PROVE  Covers(A, c)
  <2>1. PICK a \in A : In(<<f, k>>, replacements[a].text)
    BY <1>3, UsedIsApplied
  <2>2. PICK x : x = <<f, k>>
    OBVIOUS
  <2>3. /\ At(x).start \in Int /\ At(x).end \in Int
        /\ replacements[a].start <= At(x).start /\ At(x).end <= replacements[a].end
        /\ replacements[a].start \in 0..N /\ replacements[a].end \in 0..N
    BY <2>1, <2>2, CharacterOfReplacement
  <2>4. At(x) = fixes[f][k]
    BY <2>2 DEF At
  <2>5. At(x).start <= c /\ c < At(x).end
    BY <1>1, <1>3, <2>3, <2>4
  <2>6. QED
    BY <1>1, <2>3, <2>5 DEF Covers
<1>4. QED
  BY <1>2, <1>3 DEF Covers

\* The first fix that is applied is applied as a whole.
LEMMA FirstIsComplete ==
    ASSUME Loop, i > Len(replacements), NEW A, Applying(A), NEW a \in A, \A b \in A : a <= b,
           NEW n \in DOMAIN replacements, replacements[n].fix = replacements[a].fix
    PROVE  n \in A
<1> DEFINE f == replacements[a].fix
<1>1. /\ Prepared /\ Len(replacements) \in Nat /\ DOMAIN replacements = 1..Len(replacements)
      /\ i = Len(replacements) + 1
  BY ReplacementList DEF Loop
<1>2. A \in SUBSET DOMAIN replacements /\ n \in 1..i - 1 /\ \A b \in A : b \in Int
  BY <1>1 DEF Applying
<1>3. f \in DOMAIN fixes
  BY <1>1, <1>2, ReplacementList
<1>4. ~skip[f]
  BY <1>3 DEF Applying, NotApplied
<1>5. CASE Parts(f) = 1
  <2>1. n = a
    BY <1>1, <1>2, <1>5, SinglePart
  <2>2. QED
    BY <2>1
<1>6. CASE Parts(f) # 1
  <2>1. Started(f)
    BY <1>3, <1>6 DEF Applying, NotApplied
  <2>2. CanUndo(A, f) /\ state[f].index \in 1..i - 1
    BY <1>3, <1>4, <2>1 DEF Applying, Loop, StatesSaved
  <2>3. state[f].index = a
    <3>1. state[f].index <= a /\ a <= state[f].index
      BY <2>2 DEF CanUndo
    <3>2. QED
      BY <1>2, <2>2, <3>1
  <2>4. CASE n < a
    <3>1. \A b \in A : n < b
      BY <1>2, <2>4
    <3>2. skip[replacements[n].fix]
      BY <1>2, <3>1 DEF Applying, FirstApplied
    <3>3. QED
      BY <1>4, <3>2
  <2>5. CASE ~(n < a)
    <3>1. n \in state[f].index..i - 1
      BY <1>2, <2>3, <2>5
    <3>2. QED
      BY <2>2, <3>1 DEF CanUndo
  <2>6. QED
    BY <2>4, <2>5
<1>7. QED
  BY <1>5, <1>6

\* The type of everything while replacements are applied
LEMMA LoopType ==
    ASSUME Loop, pc = "apply"
    PROVE  TypeOK
<1>1. /\ Prepared /\ N \in Nat /\ Len(replacements) \in Nat /\ Len(fixes) \in Nat
      /\ DOMAIN fixes = 1..Len(fixes) /\ i \in 1..Len(replacements) + 1
      /\ start \in 0..N /\ skip \in [DOMAIN fixes -> BOOLEAN]
  BY ReplacementList DEF Loop
<1>2. position \in -1..N
  BY DEF Loop, Applying, Text
<1>3. ASSUME NEW f \in DOMAIN fixes
      PROVE  state[f].position \in -1..N /\ state[f].index \in 0..Len(replacements) /\ state[f].length \in Nat
  <2>1. CASE Started(f)
    <3>1. state[f].index \in 1..i - 1 /\ state[f].position \in -1..N /\ state[f].length \in Nat
      BY <2>1 DEF Loop, StatesSaved
    <3>2. QED
      BY <1>1, <3>1
  <2>2. CASE ~Started(f)
    BY <1>1, <2>2 DEF Started, NoState
  <2>3. QED
    BY <2>1, <2>2
<1>4. fixed \in 0..Len(fixes)
  <2>1. IsFiniteSet(1..Len(fixes)) /\ Cardinality(1..Len(fixes)) = Len(fixes)
    <3>1. 1 \in Int /\ Len(fixes) \in Int
      BY <1>1
    <3>2. /\ IsFiniteSet(1..Len(fixes))
          /\ Cardinality(1..Len(fixes)) = IF 1 > Len(fixes) THEN 0 ELSE Len(fixes) - 1 + 1
      BY ONLY <3>1, FS_Interval
    <3>3. QED
      BY <1>1, <3>2
  <2>2. Unskipped \in SUBSET (1..Len(fixes))
    BY <1>1 DEF Unskipped
  <2>3. IsFiniteSet(Unskipped) /\ Cardinality(Unskipped) <= Len(fixes)
    BY <2>1, <2>2, FS_Subset
  <2>4. Cardinality(Unskipped) \in Nat
    BY <2>3, FS_CardinalityType
  <2>5. QED
    BY <1>1, <2>3, <2>4 DEF Loop
<1>5. i \in 1..1 + IF pc = "combine" THEN Len(fixes) ELSE Len(replacements)
  BY <1>1
<1>6. QED
  BY <1>1, <1>2, <1>3, <1>4, <1>5 DEF TypeOK

\* The text that is returned
LEMMA FinishedText ==
    ASSUME Loop, Finish, NEW A, Applying(A)
    PROVE  /\ UNCHANGED <<fixes, replacements, i, position, start, skip, state, fixed>>
           /\ pc = "apply" /\ pc' = "done" /\ i > Len(replacements)
           /\ Prepared /\ A \in SUBSET DOMAIN replacements /\ N \in Nat
           /\ \A a, b \in A : a < b => replacements[a].end < replacements[b].start
           /\ \A f \in DOMAIN fixes : ~skip[f] <=> \E a \in A : replacements[a].fix = f
           /\ output \in Seq(Character)
           /\ \E from \in 0..N :
                /\ from = (IF position = -1 THEN 0 ELSE position)
                /\ output' = output \o Source(from, N)
           /\ UpTo(output', N, A)
<1>1. /\ UNCHANGED <<fixes, replacements, i, position, start, skip, state, fixed>>
      /\ pc = "apply" /\ pc' = "done" /\ i > Len(replacements)
      /\ output' = output \o Source(IF position = -1 THEN 0 ELSE position, N)
  BY DEF Finish
<1>2. /\ Prepared /\ Len(replacements) \in Nat /\ DOMAIN replacements = 1..Len(replacements)
      /\ i = Len(replacements) + 1 /\ N \in Nat
  BY <1>1, ReplacementList DEF Loop
<1>3. A \in SUBSET DOMAIN replacements
  BY <1>2 DEF Applying
<1>4. Text(output, position, A)
  BY DEF Applying
<1>5. \A f \in DOMAIN fixes : ~skip[f] <=> \E a \in A : replacements[a].fix = f
  <2>1. i..Len(replacements) = {}
    BY <1>2
  <2>2. QED
    BY <2>1 DEF Applying, NotApplied, Awaited
<1>6. position \in -1..N /\ output \in Seq(Character) /\ UpTo(output, position, A)
  BY <1>4 DEF Text, UpTo
<1>7. PICK from : from = (IF position = -1 THEN 0 ELSE position)
  OBVIOUS
<1>8. from \in 0..N /\ N \in from..N
  BY <1>2, <1>6, <1>7
<1>9. \A a \in A : replacements[a].end <= position
  BY <1>2, <1>3, <1>4, EndsBefore
<1>10. UpTo(output \o Source(from, N), N, A)
  BY <1>2, <1>3, <1>6, <1>7, <1>8, <1>9, SourceIsAdded
<1>11. UpTo(output', N, A)
  BY <1>1, <1>7, <1>10
<1>12. \A a, b \in A : a < b => replacements[a].end < replacements[b].start
  BY <1>4 DEF Text
<1>13. QED
  BY <1>1, <1>2, <1>3, <1>5, <1>6, <1>7, <1>8, <1>11, <1>12

\* What is in the text is what it is made of.
LEMMA FinishedTextIsIntact ==
    ASSUME Loop, Finish
    PROVE  TextIntact'
<1>1. PICK A : Applying(A)
  BY DEF Loop
<1>2. /\ fixes' = fixes /\ Prepared /\ A \in SUBSET DOMAIN replacements /\ N \in Nat /\ UpTo(output', N, A)
  BY <1>1, FinishedText
<1>3. \A f, k : Used(f, k)' <=> In(<<f, k>>, output')
  BY DEF Used, In
<1>4. ASSUME NEW c \in 0..N - 1
      PROVE  (\E n \in DOMAIN output' : output'[n] = <<0, c>>)
               <=> ~\E f \in DOMAIN fixes : \E k \in DOMAIN fixes[f] :
                      Used(f, k)' /\ c \in fixes[f][k].start..fixes[f][k].end - 1
  <2>1. In(<<0, c>>, output') <=> c < N /\ ~Covers(A, c)
    BY <1>2 DEF UpTo
  <2>2. c < N
    BY <1>2
  <2>3. Covers(A, c) <=> \E f \in DOMAIN fixes : \E k \in DOMAIN fixes[f] :
                             In(<<f, k>>, output') /\ c \in fixes[f][k].start..fixes[f][k].end - 1
    BY <1>2, CoveredIsUsed
  <2>4. QED
    BY <1>3, <2>1, <2>2, <2>3 DEF In
<1>5. ASSUME NEW m \in DOMAIN output', NEW n \in DOMAIN output', m < n, NEW x, x = output'[m], NEW y, y = output'[n]
      PROVE  /\ x # y
             /\ x[1] = 0 /\ y[1] = 0 => x[2] < y[2]
             /\ x[1] = 0 /\ y[1] # 0 => x[2] < fixes[y[1]][y[2]].start
             /\ x[1] # 0 /\ y[1] = 0 => y[2] >= fixes[x[1]][x[2]].end
  <2>1. InOrder(x, y)
    BY <1>2, <1>5 DEF UpTo, AllInOrder
  <2>2. QED
    BY <2>1 DEF InOrder, At
<1>6. QED
  BY <1>2, <1>4, <1>5 DEF TextIntact

\* The fixes that are not given up are those in the text, and one of them is complete.
LEMMA FinishedFixesAreCounted ==
    ASSUME Loop, Finish
    PROVE  CountsFixes'
<1>1. PICK A : Applying(A)
  BY DEF Loop
<1>2. /\ fixes' = fixes /\ fixed' = fixed /\ i > Len(replacements)
      /\ Prepared /\ A \in SUBSET DOMAIN replacements /\ UpTo(output', N, A)
      /\ \A f \in DOMAIN fixes : ~skip[f] <=> \E a \in A : replacements[a].fix = f
  BY <1>1, FinishedText
<1>3. \A f, k : Used(f, k)' <=> In(<<f, k>>, output')
  BY DEF Used, In
<1>4. Unskipped = {f \in DOMAIN fixes : \E k \in DOMAIN fixes[f] : Used(f, k)'}
  <2>1. \A f \in DOMAIN fixes : ~skip[f] <=> \E k \in DOMAIN fixes[f] : In(<<f, k>>, output')
    BY <1>2, UsedFix
  <2>2. QED
    BY <1>3, <2>1 DEF Unskipped
<1>5. ASSUME fixes # <<>>
      PROVE  \E f \in DOMAIN fixes : \A k \in DOMAIN fixes[f] : Used(f, k)'
  <2>1. PICK g \in DOMAIN fixes : ~skip[g]
    BY <1>5 DEF Loop, Unskipped
  <2>2. A # {}
    BY <1>2, <2>1
  <2>3. A \in SUBSET Nat
    BY <1>2, ReplacementList
  <2>4. PICK a \in A : \A b \in A : a <= b
    BY <2>2, <2>3, Least
  <2>5. PICK f \in DOMAIN fixes : f = replacements[a].fix
    BY <1>2, CharacterOfReplacement
  <2>6. ASSUME NEW k \in DOMAIN fixes[f]
        PROVE  Used(f, k)'
    <3>1. PICK n \in DOMAIN replacements : In(<<f, k>>, replacements[n].text)
      <4>1. DOMAIN fixes = 1..Len(fixes)
        BY <1>2, ReplacementList
      <4>2. QED
        BY <1>2, <2>5, <4>1 DEF Prepared, CombinedTo
    <3>2. <<f, k>>[1] = replacements[n].fix
      BY <1>2, <3>1, CharacterOfReplacement
    <3>3. n \in A
      BY <1>1, <1>2, <2>4, <2>5, <3>2, FirstIsComplete
    <3>4. In(<<f, k>>, output')
      BY <1>2, <2>5, <3>1, <3>3, UsedIsApplied
    <3>5. QED
      BY <1>3, <3>4
  <2>7. QED
    BY <2>6
<1>6. fixed' = Cardinality({f \in DOMAIN fixes : \E k \in DOMAIN fixes[f] : Used(f, k)'})
  BY <1>2, <1>4 DEF Loop
<1>7. QED
  BY <1>2, <1>5, <1>6 DEF CountsFixes

\* The end of a text that was continued
LEMMA Suffix ==
    ASSUME NEW S, NEW s \in Seq(S), NEW t \in Seq(S)
    PROVE  SubSeq(s \o t, Len(s) + 1, Len(s \o t)) = t
<1>1. /\ s \o t \in Seq(S) /\ Len(s \o t) = Len(s) + Len(t) /\ Len(s) \in Nat /\ Len(t) \in Nat
      /\ DOMAIN t = 1..Len(t) /\ \A n \in 1..Len(t) : (s \o t)[Len(s) + n] = t[n]
  <2>1. Len(s) \in Nat /\ Len(t) \in Nat /\ DOMAIN t = 1..Len(t)
    OBVIOUS
  <2>2. s \o t \in Seq(S) /\ Len(s \o t) = Len(s) + Len(t)
    OBVIOUS
  <2>3. \A n \in 1..Len(t) : (s \o t)[Len(s) + n] = t[n]
    BY <2>1
  <2>4. QED
    BY <2>1, <2>2, <2>3
<1> DEFINE u == s \o t
           v == SubSeq(u, Len(s) + 1, Len(u))
<1>2. \A n \in Nat : n >= 1 => n + (Len(s) + 1) - 1 = Len(s) + n
  BY <1>1
<1>3. v = [n \in 1..Len(t) |-> u[Len(s) + n]]
  <2>1. Len(u) - (Len(s) + 1) + 1 = Len(t)
    BY <1>1
  <2> HIDE DEF u
  <2>2. v = [n \in 1..Len(u) - (Len(s) + 1) + 1 |-> u[Len(s) + 1 + n - 1]]
    BY <1>1 DEF u
  <2>3. \A n \in 1..Len(t) : Len(s) + 1 + n - 1 = Len(s) + n
    BY <1>1
  <2>4. QED
    BY <2>1, <2>2, <2>3
<1>4. t = [n \in 1..Len(t) |-> t[n]]
  BY <1>1
<1> HIDE DEF u, v
<1>5. v = t
  BY <1>1, <1>3, <1>4 DEF u
<1>6. QED
  BY <1>5 DEF u, v

\* Everything before the first and after the last replacement is unchanged.
LEMMA FinishedRange ==
    ASSUME Loop, Finish
    PROVE  RangeCoversChanges'
<1>1. PICK A : Applying(A)
  BY DEF Loop
<1>2. /\ UNCHANGED <<fixes, position, start>> /\ Prepared /\ A \in SUBSET DOMAIN replacements /\ N \in Nat
      /\ \A a, b \in A : a < b => replacements[a].end < replacements[b].start
      /\ \A f \in DOMAIN fixes : ~skip[f] <=> \E a \in A : replacements[a].fix = f
      /\ output \in Seq(Character)
  BY <1>1, FinishedText
<1>3. PICK from \in 0..N : from = (IF position = -1 THEN 0 ELSE position) /\ output' = output \o Source(from, N)
  BY <1>1, FinishedText
<1>4. SUFFICES ASSUME fixes # <<>>
               PROVE  /\ Length' >= 0 /\ NewLength' >= 0
                      /\ SubSeq(output', 1, start) = Source(0, start)
                      /\ SubSeq(output', start + NewLength' + 1, Len(output')) = Source(start + Length', N)
  BY <1>2 DEF RangeCoversChanges
<1>5. A # {} /\ A \in SUBSET Nat
  <2>1. PICK g \in DOMAIN fixes : ~skip[g]
    BY <1>4 DEF Loop, Unskipped
  <2>2. QED
    BY <1>2, <2>1, ReplacementList
<1>6. PICK a \in A : \A b \in A : a <= b
  BY <1>5, Least
<1>7. PICK w \in A : position = replacements[w].end /\ \A b \in A : b <= w
  BY <1>1, <1>5 DEF Applying, Text
<1>8. /\ start = replacements[a].start /\ replacements[a].start <= Len(output)
      /\ \A n \in 1..start : output[n] = <<0, n - 1>>
  BY <1>1, <1>6 DEF Applying, Text
<1>9. /\ replacements[a].start \in 0..N /\ replacements[a].end \in 0..N
      /\ replacements[a].start <= replacements[a].end
  BY <1>2, CharacterOfReplacement
<1>10. /\ replacements[w].start \in 0..N /\ replacements[w].end \in 0..N
       /\ replacements[w].start <= replacements[w].end
  BY <1>2, CharacterOfReplacement
<1>11. start \in 0..N /\ position \in 0..N /\ start <= position
  <2>1. CASE a = w
    BY <1>7, <1>8, <1>9, <2>1
  <2>2. CASE a # w
    <3>1. a < w
      BY <1>5, <1>6, <2>2
    <3>2. replacements[a].end < replacements[w].start
      BY <1>2, <3>1
    <3>3. QED
      BY <1>2, <1>7, <1>8, <1>9, <1>10, <3>2
  <2>3. QED
    BY <2>1, <2>2
<1>12. from = position /\ from \in 0..N /\ N \in from..N
  BY <1>2, <1>3, <1>11
<1>13. PICK S : S = Source(position, N)
  OBVIOUS
<1>14. S \in Seq(Character) /\ Len(S) = N - position /\ output' = output \o S
  BY <1>2, <1>3, <1>12, <1>13, SourceType
<1>15. Len(output') = Len(output) + Len(S) /\ Len(output) \in Nat /\ \A n \in 1..Len(output) : output'[n] = output[n]
  <2>1. output \in Seq(Character) /\ S \in Seq(Character)
    BY <1>2, <1>14
  <2>2. Len(output \o S) = Len(output) + Len(S) /\ Len(output) \in Nat
    BY ONLY <2>1, Concatenated
  <2>3. \A n \in 1..Len(output) : (output \o S)[n] = output[n]
    BY ONLY <2>1, Concatenated
  <2>4. QED
    BY <1>14, <2>2, <2>3
<1>16. Length' = position - start /\ NewLength' = Len(output) - start
  <2>1. Length' = position - start /\ NewLength' = position - start + Len(output') - N
    BY <1>2 DEF Length, NewLength
  <2>2. QED
    BY <1>2, <1>11, <1>14, <1>15, <2>1
<1>17. Length' >= 0 /\ NewLength' >= 0
  <2>1. \A x \in 0..N : x \in Int
    BY <1>2
  <2>2. start \in Int /\ position \in Int /\ Len(output) \in Int /\ start <= Len(output)
    BY <1>8, <1>11, <1>15, <2>1
  <2>3. QED
    BY <1>11, <1>16, <2>2
<1>18. start + Length' = position /\ start + NewLength' + 1 = Len(output) + 1
  BY <1>2, <1>11, <1>15, <1>16
<1>19. SubSeq(output', Len(output) + 1, Len(output')) = S
  BY <1>2, <1>14, Suffix
<1>20. SubSeq(output', 1, start) = Source(0, start)
  <2>1. start \in Nat /\ start <= Len(output') /\ start - 0 = start
    BY <1>2, <1>8, <1>11, <1>14, <1>15
  <2>2. \A n \in 1..start : output'[n] = <<0, n - 1>>
    <3>1. start \in Int /\ Len(output) \in Int /\ start <= Len(output)
      BY <1>8, <1>15, <2>1
    <3>2. \A n \in 1..start : n \in 1..Len(output)
      BY <3>1
    <3>3. QED
      BY <1>8, <1>15, <3>2
  <2>3. Source(0, start) = [n \in 1..start |-> <<0, n - 1>>]
    <3>1. Source(0, start) = [n \in 1..start - 0 |-> <<0, 0 + n - 1>>]
      BY DEF Source
    <3>2. \A n \in 1..start : 0 + n - 1 = n - 1
      BY <2>1
    <3>3. QED
      BY <2>1, <3>1, <3>2
  <2>4. SubSeq(output', 1, start) = [n \in 1..start |-> output'[n]]
    <3>1. SubSeq(output', 1, start) = [n \in 1..start - 1 + 1 |-> output'[1 + n - 1]]
      BY <2>1
    <3>2. start - 1 + 1 = start /\ \A n \in 1..start : 1 + n - 1 = n
      BY <2>1
    <3>3. QED
      BY <3>1, <3>2
  <2>5. QED
    BY <2>2, <2>3, <2>4
<1>21. QED
  BY <1>13, <1>17, <1>18, <1>19, <1>20

\* No fix overlaps itself.
LEMMA FinishedIsNotThrown ==
    ASSUME Loop, Finish
    PROVE  ThrowsOnOverlap'
<1>1. fixes' = fixes /\ pc' = "done" /\ Prepared
  BY DEF Loop, Finish
<1>2. \A f \in DOMAIN fixes : ~Overlapping(f)
  BY <1>1, ReplacementList DEF Prepared, CombinedTo
<1>3. QED
  BY <1>1, <1>2 DEF ThrowsOnOverlap, Overlapping, Overlaps

\* Insertions stay in the order of the fix.
LEMMA FinishedInsertOrder ==
    ASSUME Loop, Finish
    PROVE  KeepsInsertOrder'
<1>1. PICK A : Applying(A)
  BY DEF Loop
<1>2. fixes' = fixes /\ Prepared /\ UpTo(output', N, A)
  BY <1>1, FinishedText
<1>3. SUFFICES ASSUME NEW f \in DOMAIN fixes, NEW j \in DOMAIN fixes[f], NEW k \in DOMAIN fixes[f],
                      j < k, fixes[f][j] = fixes[f][k], Used(f, j)', Used(f, k)'
               PROVE  \E m, n \in DOMAIN output' : m < n /\ output'[m] = <<f, j>> /\ output'[n] = <<f, k>>
  BY <1>2 DEF KeepsInsertOrder
<1>4. PICK m \in DOMAIN output' : output'[m] = <<f, j>>
  BY <1>3 DEF Used
<1>5. PICK n \in DOMAIN output' : output'[n] = <<f, k>>
  BY <1>3 DEF Used
<1>6. j \in Int /\ k \in Int /\ f # 0
  BY <1>2, FixesType DEF Prepared
<1>7. ~(n < m)
  <2>1. SUFFICES ASSUME n < m
                 PROVE  FALSE
    OBVIOUS
  <2>2. InOrder(<<f, k>>, <<f, j>>)
    BY <1>2, <1>4, <1>5, <2>1 DEF UpTo, AllInOrder
  <2>3. At(<<f, k>>) = At(<<f, j>>)
    BY <1>3 DEF At
  <2>4. k < j
    BY <1>6, <2>2, <2>3 DEF InOrder
  <2>5. QED
    BY <1>3, <1>6, <2>4
<1>8. m # n
  BY <1>3, <1>4, <1>5, <1>6
<1>9. m \in Int /\ n \in Int
  <2>1. output' \in Seq(Character)
    BY <1>2 DEF UpTo
  <2>2. QED
    BY <2>1, ElementOfSeq
<1>10. m < n
  BY <1>7, <1>8, <1>9
<1>11. QED
  BY <1>4, <1>5, <1>10

\* The text fits the replacements when it is complete.
LEMMA FinishIsSound ==
    ASSUME Loop, Finish
    PROVE  OutputSound'
<1>1. PICK A : Applying(A)
  BY DEF Loop
<1>2. /\ UNCHANGED <<fixes, replacements, i, position, start, skip, state, fixed>>
      /\ pc = "apply" /\ pc' = "done" /\ Prepared /\ A \in SUBSET DOMAIN replacements
      /\ \A a, b \in A : a < b => replacements[a].end < replacements[b].start
      /\ UpTo(output', N, A)
  BY <1>1, FinishedText
<1>3. TypeOK'
  BY <1>2, LoopType DEF TypeOK
<1>4. NoConflict'
  <2>1. SUFFICES ASSUME NEW f \in DOMAIN fixes, NEW g \in DOMAIN fixes, f # g,
                        NEW j \in DOMAIN fixes[f], NEW k \in DOMAIN fixes[g], Used(f, j)', Used(g, k)'
                 PROVE  fixes[f][j].end < fixes[g][k].start \/ fixes[g][k].end < fixes[f][j].start
    BY <1>2 DEF NoConflict
  <2>2. In(<<f, j>>, output') /\ In(<<g, k>>, output')
    BY <2>1 DEF Used, In
  <2>3. QED
    BY <1>2, <2>1, <2>2, FixesDoNotTouch
<1>5. QED
  BY <1>3, <1>4, FinishedTextIsIntact, FinishedFixesAreCounted, FinishedRange, FinishedIsNotThrown,
     FinishedInsertOrder DEF OutputSound

\* So it does in between.
LEMMA LoopIsSound ==
    ASSUME Loop, pc = "apply"
    PROVE  OutputSound
<1>1. PICK A : Applying(A)
  BY DEF Loop
<1>2. /\ Prepared /\ A \in SUBSET DOMAIN replacements /\ UpTo(output, position, A)
      /\ \A a, b \in A : a < b => replacements[a].end < replacements[b].start
  <2>1. i - 1 \in 0..Len(replacements) /\ DOMAIN replacements = 1..Len(replacements) /\ Len(replacements) \in Nat
    BY ReplacementList DEF Loop
  <2>2. 1..i - 1 \subseteq DOMAIN replacements
    BY <2>1
  <2>3. QED
    BY <1>1, <2>2 DEF Loop, Applying, Text
<1>3. NoConflict
  <2>1. SUFFICES ASSUME NEW f \in DOMAIN fixes, NEW g \in DOMAIN fixes, f # g,
                        NEW j \in DOMAIN fixes[f], NEW k \in DOMAIN fixes[g], Used(f, j), Used(g, k)
                 PROVE  fixes[f][j].end < fixes[g][k].start \/ fixes[g][k].end < fixes[f][j].start
    BY DEF NoConflict
  <2>2. In(<<f, j>>, output) /\ In(<<g, k>>, output)
    BY <2>1 DEF Used, In
  <2>3. QED
    BY <1>2, <2>1, <2>2, FixesDoNotTouch
<1>4. QED
  BY <1>3, LoopType DEF OutputSound, TextIntact, CountsFixes, RangeCoversChanges, ThrowsOnOverlap, KeepsInsertOrder

-----------------------------------------------------------------------------
(* Collecting the replacements                                             *)

\* Before the loop the replacements of the fixes before the next one are combined, at least one of each.
Collecting ==
    /\ fixes \in FixLists
    /\ i \in 1..Len(fixes) + 1
    /\ CombinedTo(replacements, i - 1)
    /\ i - 1 <= Len(replacements)
    /\ output = <<>> /\ position = -1 /\ start = 0
    /\ skip = [f \in DOMAIN fixes |-> FALSE]
    /\ state = [f \in DOMAIN fixes |-> NoState]
    /\ fixed = Len(fixes)

\* Nothing is wrong before the loop, also if a fix is rejected.
LEMMA CollectingType ==
    ASSUME Collecting
    PROVE  /\ N \in Nat /\ Len(fixes) \in Nat /\ DOMAIN fixes = 1..Len(fixes) /\ Len(replacements) \in Nat
           /\ i \in 1..Len(fixes) + 1 /\ i \in 1..Len(replacements) + 1
           /\ position \in -1..N /\ start \in 0..N /\ fixed \in 0..Len(fixes)
           /\ skip \in [DOMAIN fixes -> BOOLEAN]
           /\ \A f \in DOMAIN fixes :
                /\ state[f].position \in -1..N /\ state[f].index \in 0..Len(replacements)
                /\ state[f].length \in Nat
           /\ DOMAIN output = {}
<1>1. N \in Nat /\ Len(fixes) \in Nat /\ DOMAIN fixes = 1..Len(fixes)
  BY FixesType DEF Collecting
<1>2. Len(replacements) \in Nat
  BY DEF Collecting, CombinedTo
<1>3. i \in 1..Len(fixes) + 1 /\ i \in 1..Len(replacements) + 1
  BY <1>1, <1>2 DEF Collecting
<1>4. position \in -1..N /\ start \in 0..N /\ fixed \in 0..Len(fixes) /\ DOMAIN output = {}
  BY <1>1 DEF Collecting
<1>5. skip \in [DOMAIN fixes -> BOOLEAN]
  BY DEF Collecting
<1>6. ASSUME NEW f \in DOMAIN fixes
      PROVE  state[f].position \in -1..N /\ state[f].index \in 0..Len(replacements) /\ state[f].length \in Nat
  <2>1. state[f].position = -1 /\ state[f].index = 0 /\ state[f].length = 0
    BY DEF Collecting, NoState
  <2>2. QED
    BY <1>1, <1>2, <2>1
<1>7. QED
  BY <1>1, <1>2, <1>3, <1>4, <1>5, <1>6

\* So nothing is wrong while replacements are collected.
LEMMA CollectingIsSound ==
    ASSUME Collecting, pc = "combine"
    PROVE  OutputSound
<1>1. i \in 1..1 + IF pc = "combine" THEN Len(fixes) ELSE Len(replacements)
  BY CollectingType
<1>2. TypeOK
  BY <1>1, CollectingType DEF TypeOK
<1>3. \A f, k : ~Used(f, k)
  BY CollectingType DEF Used
<1>4. QED
  BY <1>2, <1>3 DEF OutputSound, TextIntact, NoConflict, CountsFixes, RangeCoversChanges, ThrowsOnOverlap,
     KeepsInsertOrder

\* The replacements of a fix are added, or the fix is rejected.
LEMMA AddFixIsSound ==
    ASSUME Collecting, AddFix
    PROVE  (pc' = "combine" /\ Collecting') \/ (pc' = "thrown" /\ OutputSound')
<1>1. /\ pc = "combine" /\ i <= Len(fixes)
      /\ UNCHANGED <<fixes, output, position, start, skip, state, fixed>>
  BY DEF AddFix
<1>2. /\ fixes \in FixLists /\ N \in Nat /\ Len(fixes) \in Nat /\ DOMAIN fixes = 1..Len(fixes)
      /\ i \in DOMAIN fixes /\ Len(replacements) \in Nat
  BY <1>1, CollectingType DEF Collecting
<1>3. CASE Overlap(Tagged(i))
  <2>1. pc' = "thrown" /\ UNCHANGED <<replacements, i>>
    BY <1>3 DEF AddFix
  <2>2. i \in 1..1 + Len(replacements)
    BY CollectingType
  <2>3. TypeOK'
    BY <1>1, <2>1, <2>2, CollectingType DEF TypeOK
  <2>4. \A f, k : ~Used(f, k)'
    BY <1>1, CollectingType DEF Used
  <2>5. Overlapping(i)
    BY <1>2, <1>3, OverlapIsFound
  <2>6. ThrowsOnOverlap'
    BY <1>1, <1>2, <2>1, <2>5 DEF ThrowsOnOverlap, Overlapping, Overlaps
  <2>7. QED
    BY <2>1, <2>3, <2>4, <2>6 DEF OutputSound, TextIntact, NoConflict, CountsFixes, RangeCoversChanges, KeepsInsertOrder
<1>4. CASE ~Overlap(Tagged(i))
  <2>1. PICK c : c = Combine(Tagged(i))
    OBVIOUS
  <2>2. PICK f \in DOMAIN fixes : f = i
    BY <1>2
  <2>3. replacements' = replacements \o c /\ i' = i + 1 /\ pc' = "combine"
    BY <1>1, <1>4, <2>1 DEF AddFix
  <2>4. f - 1 \in Nat /\ f = (f - 1) + 1 /\ CombinedTo(replacements, f - 1) /\ f - 1 <= Len(replacements)
    BY <1>2, <2>2 DEF Collecting
  <2>5. ~Overlap(Tagged(f)) /\ c = Combine(Tagged(f))
    BY <1>4, <2>1, <2>2
  <2>6. CombinedTo(replacements \o c, f)
    BY <1>2, <2>4, <2>5, FixIsAdded
  <2>7. CombinedTo(replacements, f)'
    <3>1. CombinedTo(replacements', f)
      BY <2>3, <2>6
    <3>2. fixes' = fixes
      BY <1>1
    <3>3. QED
      BY ONLY <3>1, <3>2, SameFixes
  <2>8. i' - 1 = f
    BY <1>2, <2>2, <2>3
  <2>9. CombinedTo(replacements, i - 1)'
    BY <2>7, <2>8
  <2>10. f <= Len(replacements')
    <3>1. c \in Seq(Replacement) /\ \A k \in DOMAIN fixes[f] : \E m \in DOMAIN c : In(<<f, k>>, c[m].text)
      BY <1>2, <2>5, CombineIsSound
    <3>2. 1 \in DOMAIN fixes[f]
      BY <1>2, FixesType
    <3>3. Len(c) \in Nat /\ Len(c) # 0
      <4>1. PICK m \in DOMAIN c : In(<<f, 1>>, c[m].text)
        BY <3>1, <3>2
      <4>2. Len(c) \in Nat /\ DOMAIN c = 1..Len(c)
        BY <3>1
      <4>3. 1..0 = {}
        OBVIOUS
      <4>4. QED
        BY <4>1, <4>2, <4>3
    <3>4. replacements \in Seq(Replacement) /\ c \in Seq(Replacement)
      BY <3>1 DEF Collecting, CombinedTo
    <3>5. Len(replacements \o c) = Len(replacements) + Len(c)
      BY ONLY <3>4, Concatenated
    <3>6. QED
      BY <1>2, <2>2, <2>3, <2>4, <3>3, <3>5
  <2>11. i' \in 1..Len(fixes) + 1
    BY <1>2, <2>3
  <2>12. Collecting'
    BY <1>1, <2>3, <2>8, <2>9, <2>10, <2>11 DEF Collecting
  <2>13. QED
    BY <2>3, <2>12
<1>5. QED
  BY <1>3, <1>4

\* All replacements are there when they are sorted, and none is applied.
LEMMA SortAllPrepares ==
    ASSUME Collecting, SortAll
    PROVE  pc' = "apply" /\ Loop'
<1>1. /\ pc' = "apply" /\ i > Len(fixes) /\ replacements' = Sort(replacements) /\ i' = 1
      /\ UNCHANGED <<fixes, output, position, start, skip, state, fixed>>
  BY DEF SortAll
<1>2. /\ fixes \in FixLists /\ N \in Nat /\ Len(fixes) \in Nat /\ DOMAIN fixes = 1..Len(fixes)
      /\ i - 1 = Len(fixes)
      /\ output = <<>> /\ position = -1 /\ start = 0 /\ fixed = Len(fixes)
      /\ skip = [f \in DOMAIN fixes |-> FALSE] /\ state = [f \in DOMAIN fixes |-> NoState]
  BY <1>1, CollectingType DEF Collecting
<1>3. CombinedTo(replacements', Len(fixes)) /\ Sorted(replacements')
  <2>1. CombinedTo(replacements, Len(fixes))
    BY <1>2 DEF Collecting
  <2>2. QED
    BY <1>1, <1>2, <2>1, AllAreSorted
<1>4. Prepared'
  <2>1. CombinedTo(replacements, Len(fixes))'
    BY <1>1, <1>3, SameFixes
  <2>2. QED
    BY <1>1, <1>2, <1>3, <2>1 DEF Prepared, Sorted
<1>5. Len(replacements') \in Nat /\ DOMAIN replacements' = 1..Len(replacements')
  BY <1>3, ElementOfSeq DEF CombinedTo
<1>6. \A f \in DOMAIN fixes : ~skip[f] /\ ~Started(f)'
  BY <1>1, <1>2 DEF Started
<1>7. Text(<<>>, -1, {})'
  <2>1. <<>> \in Seq(Character) /\ DOMAIN <<>> = {}
    OBVIOUS
  <2>2. \A c \in 0..N - 1 : ~(c < -1)
    BY <1>2
  <2>3. UpTo(<<>>, -1, {})'
    BY <2>1, <2>2 DEF UpTo, AllInOrder, In
  <2>4. -1 \in -1..N
    BY <1>2
  <2>5. QED
    BY <2>3, <2>4 DEF Text
<1>8. Awaited({})'
  <2>1. SUFFICES ASSUME NEW f \in DOMAIN fixes
                 PROVE  \E n \in 1..Len(replacements') : replacements'[n].fix = f
    BY <1>1 DEF Awaited
  <2>2. 1 \in DOMAIN fixes[f] /\ f \in 1..Len(fixes)
    BY <1>2, FixesType
  <2>3. PICK n \in DOMAIN replacements' : In(<<f, 1>>, replacements'[n].text)
    BY <1>3, <2>2 DEF CombinedTo
  <2>4. Combined(replacements'[n])
    BY <1>3 DEF CombinedTo
  <2>5. <<f, 1>>[1] = replacements'[n].fix
    BY <2>3, <2>4 DEF Combined, In
  <2>6. QED
    BY <1>5, <2>3, <2>5
<1>9. Applying({})'
  <2>1. NotApplied({})' /\ GivenUp({})'
    BY <1>1, <1>6 DEF NotApplied, GivenUp
  <2>2. 1..i' - 1 = {}
    BY <1>1
  <2>3. FirstApplied({})'
    BY <2>2 DEF FirstApplied
  <2>4. Text(output, position, {})'
    BY <1>1, <1>2, <1>7
  <2>5. QED
    BY <1>1, <1>6, <1>8, <2>1, <2>3, <2>4 DEF Applying
<1>10. fixed' = Cardinality(Unskipped') /\ (fixes' # <<>> => Unskipped' # {})
  <2>1. Unskipped' = 1..Len(fixes)
    BY <1>1, <1>2, <1>6 DEF Unskipped
  <2>2. 1 \in Int /\ Len(fixes) \in Int
    BY <1>2
  <2>3. Cardinality(1..Len(fixes)) = IF 1 > Len(fixes) THEN 0 ELSE Len(fixes) - 1 + 1
    BY ONLY <2>2, FS_Interval
  <2>4. Cardinality(1..Len(fixes)) = Len(fixes)
    BY <1>2, <2>3
  <2>5. fixes # <<>> => 1 \in 1..Len(fixes)
    <3>1. fixes \in Seq(Seq([start : 0..N, end : 0..N]) \ {<<>>})
      BY <1>2, FixesAssumption
    <3>2. QED
      BY <1>2, <3>1
  <2>6. QED
    BY <1>1, <1>2, <2>1, <2>4, <2>5
<1>11. /\ i' \in 1..Len(replacements') + 1 /\ start' \in 0..N
       /\ skip' \in [DOMAIN fixes -> BOOLEAN] /\ state' = [f \in DOMAIN fixes |-> state'[f]]
  BY <1>1, <1>2, <1>5
<1>12. StatesSaved' /\ StatesInOrder'
  BY <1>1, <1>6 DEF StatesSaved, StatesInOrder
<1>13. QED
  BY <1>1, <1>4, <1>9, <1>10, <1>11, <1>12 DEF Loop

-----------------------------------------------------------------------------
(* The theorems                                                            *)

\* The inductive invariant: while the replacements are collected nothing is applied, in the loop the text
\* is that of the replacements that are applied, and what is returned is sound.
IInv ==
    /\ pc \in {"combine", "apply", "done", "thrown"}
    /\ pc = "combine" => Collecting
    /\ pc = "apply" => Loop
    /\ pc \in {"done", "thrown"} => OutputSound

\* A step of something else leaves the loop alone.
LEMMA UnchangedLoop ==
    ASSUME Loop, UNCHANGED vars
    PROVE  Loop'
<1>1. UNCHANGED <<fixes, pc, replacements, i, output, position, start, skip, state, fixed>>
  BY DEF vars
<1>2. PICK A : Applying(A)
  BY DEF Loop
<1>3. Prepared'
  BY <1>1, SamePrepared DEF Loop
<1>4. \A out, pos, D : Text(out, pos, D) => Text(out, pos, D)'
  BY <1>1, SameText
<1>5. \A f : Parts(f)' = Parts(f)
  BY <1>1 DEF Parts
<1>6. ASSUME NEW f \in DOMAIN fixes, CanUndo(A, f)
      PROVE  CanUndo(A, f)'
  <2>1. Text(SubSeq(output, 1, state[f].length), state[f].position, Below(A, state[f].index))'
    <3>1. Text(SubSeq(output, 1, state[f].length), state[f].position, Below(A, state[f].index))
      BY <1>6 DEF CanUndo
    <3>2. Below(A, state[f].index)' = Below(A, state[f].index)
      BY <1>1 DEF Below
    <3>3. QED
      BY <1>1, <1>4, <3>1, <3>2
  <2>2. QED
    BY <1>1, <1>5, <1>6, <2>1 DEF CanUndo
<1>7. Text(output, position, A)'
  BY <1>1, <1>2, <1>4 DEF Applying
<1>8. Applying(A)'
  <2>1. NotApplied(A)' /\ GivenUp(A)' /\ Awaited(A)' /\ FirstApplied(A)'
    BY <1>1, <1>2, <1>5 DEF Applying, NotApplied, GivenUp, Awaited, FirstApplied, Started
  <2>2. (\A f \in DOMAIN fixes : Started(f) /\ ~skip[f] => CanUndo(A, f))'
    BY <1>1, <1>2, <1>6 DEF Applying, Started
  <2>3. (A \in SUBSET (1..i - 1))' /\ (\A a \in A : (\A b \in A : a <= b) => start = replacements[a].start)'
    BY <1>1, <1>2 DEF Applying
  <2>4. QED
    BY <1>7, <2>1, <2>2, <2>3 DEF Applying
<1>9. StatesSaved' /\ StatesInOrder' /\ Unskipped' = Unskipped
  BY <1>1 DEF Loop, StatesSaved, StatesInOrder, Unskipped, Started
<1>10. QED
  BY <1>1, <1>3, <1>8, <1>9 DEF Loop

\* Initially no fix is combined.
LEMMA InitIsSound == Init => IInv
<1>1. SUFFICES ASSUME Init
               PROVE  Collecting
  BY DEF Init, IInv
<1>2. fixes \in FixLists /\ Len(fixes) \in Nat /\ i = 1 /\ replacements = <<>>
  BY <1>1, FixesType DEF Init
<1>3. i \in 1..Len(fixes) + 1 /\ i - 1 = 0 /\ Len(replacements) = 0
  BY <1>2
<1>4. CombinedTo(replacements, i - 1)
  BY <1>2, <1>3, NothingCombined
<1>5. QED
  BY <1>1, <1>2, <1>3, <1>4 DEF Init, Collecting

\* Every step keeps the invariant.
LEMMA NextIsSound == IInv /\ [Next]_vars => IInv'
<1> SUFFICES ASSUME IInv, [Next]_vars
             PROVE  IInv'
  OBVIOUS
<1>1. CASE AddFix
  <2>1. Collecting
    BY <1>1 DEF AddFix, IInv
  <2>2. QED
    BY <1>1, <2>1, AddFixIsSound DEF IInv
<1>2. CASE SortAll
  <2>1. Collecting
    BY <1>2 DEF SortAll, IInv
  <2>2. QED
    BY <1>2, <2>1, SortAllPrepares DEF IInv
<1>3. CASE Skip
  <2>1. Loop /\ pc' = "apply"
    BY <1>3 DEF Skip, IInv
  <2>2. QED
    BY <1>3, <2>1, SkipKeepsLoop DEF IInv
<1>4. CASE Conflict
  <2>1. Loop /\ pc' = "apply"
    BY <1>4 DEF Conflict, IInv
  <2>2. QED
    BY <1>4, <2>1, ConflictKeepsLoop DEF IInv
<1>5. CASE RollBack
  <2>1. Loop /\ pc' = "apply"
    BY <1>5 DEF RollBack, IInv
  <2>2. QED
    BY <1>5, <2>1, RollBackKeepsLoop DEF IInv
<1>6. CASE Apply
  <2>1. Loop /\ pc' = "apply"
    BY <1>6 DEF Apply, IInv
  <2>2. QED
    BY <1>6, <2>1, ApplyKeepsLoop DEF IInv
<1>7. CASE Finish
  <2>1. Loop /\ pc' = "done"
    BY <1>7 DEF Finish, IInv
  <2>2. QED
    BY <1>7, <2>1, FinishIsSound DEF IInv
<1>8. CASE UNCHANGED vars
  <2>1. CASE pc = "apply"
    <3>1. Loop /\ pc' = "apply"
      BY <1>8, <2>1 DEF IInv, vars
    <3>2. QED
      BY <1>8, <3>1, UnchangedLoop DEF IInv
  <2>2. CASE pc = "combine"
    <3>1. Collecting /\ pc' = "combine"
      BY <1>8, <2>2 DEF IInv, vars
    <3>2. CombinedTo(replacements, i - 1)'
      <4>1. PICK m : m = i - 1
        OBVIOUS
      <4>2. fixes' = fixes /\ CombinedTo(replacements', m)
        BY <1>8, <3>1, <4>1 DEF Collecting, vars
      <4>3. CombinedTo(replacements, m)'
        BY ONLY <4>2, SameFixes
      <4>4. i' - 1 = m
        BY <1>8, <4>1 DEF vars
      <4>5. QED
        BY <4>3, <4>4
    <3>3. Collecting'
      BY <1>8, <3>1, <3>2 DEF Collecting, vars
    <3>4. QED
      BY <3>1, <3>3 DEF IInv
  <2>3. CASE pc \in {"done", "thrown"}
    <3>1. OutputSound /\ pc' \in {"done", "thrown"}
      BY <1>8, <2>3 DEF IInv, vars
    <3>2. TypeOK' /\ NoConflict' /\ RangeCoversChanges'
      BY <1>8, <3>1 DEF OutputSound, TypeOK, NoConflict, RangeCoversChanges, Length, NewLength, Used, Source, vars
    <3>3. TextIntact' /\ CountsFixes'
      BY <1>8, <3>1 DEF OutputSound, TextIntact, CountsFixes, Used, vars
    <3>4. ThrowsOnOverlap' /\ KeepsInsertOrder'
      BY <1>8, <3>1 DEF OutputSound, ThrowsOnOverlap, KeepsInsertOrder, Used, vars
    <3>5. QED
      BY <3>1, <3>2, <3>3, <3>4 DEF IInv, OutputSound
  <2>4. QED
    BY <2>1, <2>2, <2>3 DEF IInv
<1>9. QED
  BY <1>1, <1>2, <1>3, <1>4, <1>5, <1>6, <1>7, <1>8 DEF Next

\* What the invariant says of every state
LEMMA InvariantIsSound == IInv => OutputSound
BY CollectingIsSound, LoopIsSound DEF IInv

\* Whatever is rolled back and retried (fix.ts lines 33-79): the text that applyFixes returns is the source
\* with exactly the replacements of the fixes it counts, each at its place, replacements of different fixes
\* never overlap or touch, at least one fix is applied completely, outside of the returned range nothing
\* is changed, and a fix is rejected if and only if it overlaps itself.
THEOREM TextIsSound == Spec => []OutputSound
<1>1. Spec => []IInv
  BY InitIsSound, NextIsSound, PTL DEF Spec
<1>2. QED
  BY <1>1, InvariantIsSound, PTL
=============================================================================
