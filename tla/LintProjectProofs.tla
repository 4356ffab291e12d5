-------------------------- MODULE LintProjectProofs --------------------------
(***************************************************************************)
(* Findings that are fixed, returned or cached belong to the text and the  *)
(* program they are used with, and linting ends: for any number of files,  *)
(* projects and rounds, any imports and any fixes.                         *)
(*                                                                         *)
(* The heart of it is that fixing a file may remove its imports, but never *)
(* those by which the program finds the files that are still to be linted. *)
(*                                                                         *)
(* The last part is about the cache of the file system files come from: it *)
(* is current, and answers are those of FileSystem, for all paths, trees   *)
(* and any number of calls.                                                *)
(***************************************************************************)
EXTENDS LintProject, CachedFileSystem, FiniteSetTheorems, WellFoundedInduction, TLAPS

Roots == projects[current].roots

AtWork == pc \in {"lint", "fix", "finish"}

\* The text a file has at this point: that on disk, or that of the fixes that are not written yet
Text(f) == IF AtWork /\ f = job.file THEN job.source ELSE disk[f].text

-----------------------------------------------------------------------------
(* The order in which files are linted                                     *)

\* A set of natural numbers has a least element.
LEMMA Least ==
    ASSUME NEW T \in SUBSET Nat, T # {}
    PROVE  \E x \in T : \A y \in T : x <= y
<1> DEFINE R == {ss \in Nat \X Nat : ss[1] < ss[2]}
<1>1. IsWellFoundedOn(R, Nat)
  BY NatLessThanWellFounded DEF OpToRel
<1>2. PICK x \in T : \A y \in T : <<y, x>> \notin R
  BY <1>1, WFMin
<1>3. \A y \in T : <<y, x>> \in Nat \X Nat /\ <<y, x>>[1] = y /\ <<y, x>>[2] = x
  BY <1>2
<1>4. \A y \in T : ~(y < x)
  BY <1>2, <1>3
<1>5. QED
  BY <1>2, <1>4

\* From position lo on, every file of an order is a root or imported by one that comes later.
Linked(order, k, lo, roots, text) ==
    \A n \in lo..k : \/ order[n] \in roots
                     \/ \E m \in n + 1..k : order[n] \in imports[order[m]][text[order[m]]]

\* The texts as a function
Texted == [f \in Files |-> TextOf(f)]

\* Such files are reached from the roots: a closed set contains the last of them, the one before, ...
LEMMA LinkedAreLoaded ==
    ASSUME NEW k \in Nat, NEW order \in [1..k -> Files], NEW lo \in Nat \ {0}, NEW roots,
           Linked(order, k, lo, roots, Texted)
    PROVE  \A n \in lo..k : order[n] \in Loaded(roots)
<1>1. SUFFICES ASSUME NEW n \in lo..k, NEW X \in SUBSET Files, roots \subseteq X,
                      \A g \in X : imports[g][TextOf(g)] \subseteq X
               PROVE  order[n] \in X
  BY DEF Loaded
<1> DEFINE missing == {p \in lo..k : order[p] \notin X}
           back    == {k - p : p \in missing}
<1>2. SUFFICES ASSUME order[n] \notin X
               PROVE  FALSE
  OBVIOUS
<1>3. back \in SUBSET Nat /\ back # {}
  BY <1>2
<1>4. PICK b \in back : \A c \in back : b <= c
  <2> HIDE DEF back
  <2> QED
    BY <1>3, Least
<1>5. PICK p \in missing : b = k - p
  BY <1>4
<1>6. ASSUME NEW q \in p + 1..k, order[q] \notin X
      PROVE  FALSE
  <2>1. p \in lo..k
    BY <1>5
  <2>2. q \in missing
    BY <2>1, <1>6
  <2>3. b <= k - q
    BY <2>2, <1>4
  <2> HIDE DEF missing, back
  <2>4. QED
    BY <2>1, <2>3, <1>5
<1>7. order[p] \notin X /\ p \in lo..k
  BY <1>5
<1>8. PICK m \in p + 1..k : order[p] \in imports[order[m]][Texted[order[m]]]
  BY <1>1, <1>7 DEF Linked
<1>9. order[m] \in X /\ Texted[order[m]] = TextOf(order[m])
  BY <1>6, <1>8 DEF Texted
<1>10. QED
  BY <1>1, <1>7, <1>8, <1>9

-----------------------------------------------------------------------------
(* The invariant                                                           *)

Findings == [text : Texts, at : Contents, view : {Undefined} \union Programs]

Jobs == [file : Files, source : Texts, content : Contents, fix : BOOLEAN, round : Nat,
         findings : {Undefined} \union Findings, cached : BOOLEAN, updated : BOOLEAN]

Types ==
    /\ imports \in ImportMaps /\ projects \in ProjectLists /\ options \in OptionSets
    /\ disk \in [Files -> Contents]
    /\ sources \in Programs /\ program \in Programs /\ known \in Programs
    /\ processed \in [Files -> {Undefined} \union ProcessedFiles]
    /\ DOMAIN stored = Files
    /\ current \in 0..Len(projects)
    /\ pending \in Seq(Files)
    /\ invalidated \in BOOLEAN
    /\ pc \in {"open", "next", "lint", "fix", "finish"}
    /\ pc # "open" => current # 0
    /\ pc = "open" => pending = <<>>

JobTypes ==
    /\ AtWork => job \in Jobs /\ job.round <= options.iterations
    /\ pc = "fix" => job.fix /\ job.round < options.iterations
    /\ pc \in {"fix", "finish"} => job.findings \in Findings

\* The host has the text of a file or reads it. A file is only changed if there were no syntax errors in it.
TextsTrue ==
    /\ \A f \in Files : sources[f] \in {Undefined, Text(f)}
    /\ AtWork =>
         /\ job.updated => /\ job.content.text = job.source /\ job.source \in Valid
                           /\ sources[job.file] = job.source /\ job.fix
         /\ ~job.updated => job.source = disk[job.file].text
         /\ job.fix => disk[job.file].text \in Valid

\* The program is what creating it now would give unless it is invalid, and has the files that are to be linted.
ProgramTrue ==
    pc # "open" =>
        /\ ~invalidated => program = NewProgram(Roots)
        /\ \A n \in DOMAIN pending : program[pending[n]] = Text(pending[n])

\* So is the program the lint cache knows, but for the file that is being fixed.
KnownTrue ==
    /\ ~options.cache => known = NoProgram
    /\ pc # "open" =>
         /\ options.cache /\ ~(AtWork /\ job.updated) => known = NewProgram(Roots)
         /\ \A f \in Files : (AtWork /\ f = job.file) \/ known[f] \in {Undefined, Text(f)}

FindingsTrue ==
    pc \in {"fix", "finish"} => /\ job.findings.text = job.source
                               /\ job.findings.view \in {Undefined, NewProgram(Roots)}

\* lo is the position of the file that is linted, or that was linted last.
Place(order, k, lo) ==
    /\ \A p, q \in 1..k : order[p] = order[q] => p = q
    /\ Linked(order, k, lo, Roots, Texted)
    /\ \A n \in DOMAIN pending : \E p \in lo..k : order[p] = pending[n]
    /\ \A m, n \in DOMAIN pending, p, q \in 1..k :
         m < n /\ order[p] = pending[m] /\ order[q] = pending[n] => p < q
    /\ AtWork => /\ lo \in 1..k /\ order[lo] = job.file
                 /\ \A n \in DOMAIN pending : pending[n] # job.file

\* The files that are left are linted in an order in which each is found without those before it.
InOrder ==
    pc # "open" => \E k \in Nat : \E order \in [1..k -> Files], lo \in Nat \ {0} : Place(order, k, lo)

LintInv == Types /\ JobTypes /\ TextsTrue /\ ProgramTrue /\ KnownTrue /\ FindingsTrue /\ InOrder

-----------------------------------------------------------------------------
(* Consequences                                                            *)

\* What TypeScript sees of a file is the text it has at this point.
SeesTexts == \A f \in Files : TextOf(f) = Text(f) /\ Text(f) \in Texts /\ Text(f) # Undefined

\* What a host reads is a text.
LEMMA TextOfIsText == Types /\ JobTypes /\ TextsTrue => SeesTexts
<1> SUFFICES ASSUME Types, JobTypes, TextsTrue
             PROVE  SeesTexts
  OBVIOUS
<1>1. ASSUME NEW f \in Files
      PROVE  Text(f) \in Texts
  <2>1. disk[f].text \in Texts
    BY DEF Types, Contents
  <2>2. AtWork => job.source \in Texts
    BY DEF JobTypes, Jobs
  <2>3. QED
    BY <2>1, <2>2 DEF Text
<1>2. \A f \in Files : Text(f) # Undefined
  BY <1>1, UndefinedAssumption
<1>3. ASSUME NEW f \in Files
      PROVE  TextOf(f) = Text(f)
  <2>1. CASE AtWork /\ f = job.file
    <3>1. CASE job.updated
      BY <1>2, <2>1, <3>1 DEF TextsTrue, TextOf, Text
    <3>2. CASE ~job.updated
      BY <2>1, <3>2 DEF TextsTrue, TextOf, Text
    <3>3. QED
      BY <3>1, <3>2
  <2>2. CASE ~(AtWork /\ f = job.file)
    BY <2>2 DEF TextsTrue, TextOf, Text
  <2>3. QED
    BY <2>1, <2>2
<1>4. QED
  BY <1>1, <1>2, <1>3 DEF SeesTexts

\* A new program has the texts of the files that are reached from the roots.
LEMMA NewProgramTexts ==
    ASSUME Types, JobTypes, TextsTrue, NEW roots
    PROVE  /\ NewProgram(roots) \in Programs
           /\ \A f \in Files : NewProgram(roots)[f] \in {Undefined, Text(f)}
           /\ \A f \in Files : f \in Loaded(roots) <=> NewProgram(roots)[f] = Text(f)
           /\ \A f \in Files : f \in Loaded(roots) <=> NewProgram(roots)[f] # Undefined
<1>1. NewProgram(roots) = [f \in Files |-> IF f \in Loaded(roots) THEN TextOf(f) ELSE Undefined]
  BY DEF NewProgram
<1>2. QED
  BY <1>1, TextOfIsText DEF Programs, SeesTexts

\* It depends on nothing but the texts.
LEMMA SameTexts ==
    ASSUME imports' = imports, \A f \in Files : TextOf(f)' = TextOf(f)
    PROVE  Texted' = Texted /\ \A roots : NewProgram(roots)' = NewProgram(roots) /\ Loaded(roots)' = Loaded(roots)
<1>1. Texted' = Texted
  BY DEF Texted
<1>2. ASSUME NEW roots
      PROVE  Loaded(roots)' = Loaded(roots)
  BY DEF Loaded
<1>3. ASSUME NEW roots
      PROVE  NewProgram(roots)' = NewProgram(roots)
  BY <1>2 DEF NewProgram
<1>4. QED
  BY <1>1, <1>2, <1>3

\* Files that are to be linted, and the one that is linted, are in the program if it is created now.
LEMMA AgendaIsLoaded ==
    ASSUME LintInv, pc # "open"
    PROVE  /\ \A n \in DOMAIN pending : pending[n] \in Loaded(Roots)
           /\ AtWork => job.file \in Loaded(Roots)
           /\ AtWork => \A n \in DOMAIN pending : pending[n] # job.file
<1>1. PICK k \in Nat : \E order \in [1..k -> Files], lo \in Nat \ {0} : Place(order, k, lo)
  BY DEF LintInv, InOrder
<1>2. PICK order \in [1..k -> Files], lo \in Nat \ {0} : Place(order, k, lo)
  BY <1>1
<1>3. \A n \in lo..k : order[n] \in Loaded(Roots)
  BY <1>2, LinkedAreLoaded DEF Place
<1>4. QED
  BY <1>2, <1>3 DEF Place

-----------------------------------------------------------------------------
(* Opening a project                                                       *)

\* order lists the k files a program with these roots loads, files some of them in this order.
Ordered(k, order, files, roots) ==
    /\ order \in [1..k -> Files]
    /\ \A n \in 1..k : order[n] \in Loaded(roots)
    /\ \A p, q \in 1..k : order[p] = order[q] => p = q
    /\ Linked(order, k, 1, roots, Texted)
    /\ \A n \in DOMAIN files : \E p \in 1..k : order[p] = files[n]
    /\ \A m, n \in DOMAIN files, p, q \in 1..k :
         m < n /\ order[p] = files[m] /\ order[q] = files[n] => p < q

\* The files that are to be linted, in the order of the program.
LEMMA OrderOfProgram ==
    ASSUME Types, NEW roots \in SUBSET Files, NEW order \in Orders(roots), NEW set, NEW files \in Selected(order, set)
    PROVE  /\ files \in Seq(Files)
           /\ \A n \in DOMAIN files : files[n] \in set
           /\ \E k \in Nat : Ordered(k, order, files, roots)
<1> DEFINE k == Cardinality(Loaded(roots))
<1>1. Loaded(roots) \in SUBSET Files
  BY DEF Loaded
<1>2. k \in Nat
  BY <1>1, TextsAssumption, FS_Subset, FS_CardinalityType
<1>3. /\ order \in SetToSeqs(Loaded(roots))
      /\ \A n \in DOMAIN order :
           order[n] \in roots \/ \E m \in n + 1..Len(order) : order[n] \in imports[order[m]][TextOf(order[m])]
  BY DEF Orders
<1>4. /\ order \in [1..k -> Loaded(roots)]
      /\ \A p, q \in 1..k : p # q => order[p] # order[q]
  BY <1>3 DEF SetToSeqs
<1> HIDE DEF k
<1>5. DOMAIN order = 1..k /\ Len(order) = k /\ order \in [1..k -> Files]
  <2>1. order \in Seq(Loaded(roots)) /\ DOMAIN order = 1..k
    BY <1>2, <1>4
  <2>2. QED
    BY <1>1, <1>2, <1>4, <2>1
<1>6. Linked(order, k, 1, roots, Texted)
  BY <1>3, <1>5 DEF Linked, Texted
<1> DEFINE chosen == {order[n] : n \in DOMAIN order} \cap set
           c      == Cardinality(chosen)
<1>7. chosen \in SUBSET Files
  BY <1>5
<1>8. c \in Nat
  BY <1>7, TextsAssumption, FS_Subset, FS_CardinalityType
<1>9. /\ files \in SetToSeqs(chosen)
      /\ \A x, y \in DOMAIN files, m, n \in DOMAIN order :
           x < y /\ order[m] = files[x] /\ order[n] = files[y] => m < n
  BY DEF Selected
<1>10. files \in [1..c -> chosen]
  BY <1>9 DEF SetToSeqs
<1>11. \A n \in DOMAIN files : files[n] \in set /\ \E p \in 1..k : order[p] = files[n]
  BY <1>5, <1>10
<1> HIDE DEF chosen, c
<1>12. files \in Seq(Files)
  BY <1>7, <1>8, <1>10
<1>13. Ordered(k, order, files, roots)
  BY <1>4, <1>5, <1>6, <1>9, <1>11 DEF Ordered
<1>14. QED
  BY <1>2, <1>11, <1>12, <1>13

\* Every file of a project that is opened is in its program, and the caches of the host agree with the disk.
LEMMA OpenProjectKeeps ==
    ASSUME LintInv, OpenProject
    PROVE  LintInv'
<1> DEFINE project == projects[current + 1]
           P       == NewProgram(project.roots)
           own     == IF project.composite THEN project.roots ELSE {f \in Files : P[f] # Undefined}
<1>1. PICK order \in Orders(project.roots) : \E files \in Selected(order, own \cap options.included) :
        /\ program' = P /\ Cached(P, previous \ own)
        /\ pending' = files
        /\ known' = IF options.cache /\ files # <<>> THEN P ELSE NoProgram
        /\ pc' = IF files = <<>> THEN "open" ELSE "next"
  BY DEF OpenProject
<1>2. PICK files \in Selected(order, own \cap options.included) :
        /\ program' = P /\ Cached(P, previous \ own)
        /\ pending' = files
        /\ known' = IF options.cache /\ files # <<>> THEN P ELSE NoProgram
        /\ pc' = IF files = <<>> THEN "open" ELSE "next"
  BY <1>1
<1>3. /\ pc = "open" /\ current < Len(projects) /\ current' = current + 1
      /\ invalidated' = FALSE /\ stored' = NoProgram
      /\ UNCHANGED <<imports, projects, options, disk, job>>
  BY DEF OpenProject
<1>4. project \in [roots : SUBSET Files, composite : BOOLEAN]
  <2> DEFINE R == [roots : SUBSET Files, composite : BOOLEAN]
  <2>1. projects \in Seq(R)
    BY ProjectsAssumption DEF LintInv, Types
  <2> HIDE DEF R
  <2>2. Len(projects) \in Nat /\ \A n \in 1..Len(projects) : projects[n] \in R
    BY <2>1
  <2>3. current + 1 \in 1..Len(projects)
    BY <1>3, <2>2 DEF LintInv, Types
  <2>4. projects[current + 1] \in R
    BY <2>2, <2>3
  <2>5. QED
    BY <2>4 DEF R
<1>5. project.roots \in SUBSET Files
  BY <1>4
<1>6a. files \in Seq(Files) /\ \E k \in Nat : Ordered(k, order, files, project.roots)
  <2> DEFINE set == own \cap options.included
  <2> HIDE DEF project, own
  <2>1. files \in Selected(order, set)
    BY <1>2
  <2>2. Types
    BY DEF LintInv
  <2> HIDE DEF set
  <2> QED
    BY <1>5, <2>1, <2>2, OrderOfProgram
<1>6b. PICK k \in Nat : Ordered(k, order, files, project.roots)
  BY <1>6a
<1>6. /\ order \in [1..k -> Files]
      /\ \A n \in 1..k : order[n] \in Loaded(project.roots)
      /\ \A p, q \in 1..k : order[p] = order[q] => p = q
      /\ Linked(order, k, 1, project.roots, Texted)
      /\ \A n \in DOMAIN files : \E p \in 1..k : order[p] = files[n]
      /\ \A m, n \in DOMAIN files, p, q \in 1..k :
           m < n /\ order[p] = files[m] /\ order[q] = files[n] => p < q
  BY <1>6b DEF Ordered
<1>7. files \in Seq(Files)
  BY <1>6a
<1>8. /\ P \in Programs
      /\ \A f \in Files : P[f] \in {Undefined, Text(f)}
      /\ \A f \in Files : f \in Loaded(project.roots) <=> P[f] = Text(f)
  <2> HIDE DEF project
  <2> QED
    BY NewProgramTexts DEF LintInv
<1> HIDE DEF P, own
<1>9. ~AtWork /\ ~AtWork' /\ \A f \in Files : Text(f) = disk[f].text /\ Text(f)' = disk[f].text
  BY <1>2, <1>3 DEF AtWork, Text
<1>10. /\ sources' \in Programs
       /\ \A f \in Files : sources'[f] \in {Undefined, Text(f)}
  <2>1. sources' = [f \in Files |-> IF f \in previous \ own THEN Undefined
                                    ELSE IF P[f] # Undefined THEN P[f] ELSE sources[f]]
    BY <1>2 DEF Cached
  <2>2. \A f \in Files : sources[f] \in {Undefined, Text(f)}
    BY DEF LintInv, TextsTrue
  <2>3. \A f \in Files : sources'[f] \in {Undefined, Text(f)}
    BY <2>1, <2>2, <1>8
  <2>4. \A f \in Files : Text(f) \in Texts
    BY TextOfIsText DEF LintInv, SeesTexts
  <2>5. QED
    BY <2>1, <2>3, <2>4 DEF Programs
<1>11. processed' \in [Files -> {Undefined} \union ProcessedFiles]
  BY <1>2 DEF Cached, LintInv, Types, ProcessedFiles
<1>12. Types'
  <2>1. NoProgram \in Programs /\ DOMAIN NoProgram = Files
    BY DEF NoProgram, Programs
  <2>2. known' \in Programs
    BY <1>2, <1>8, <2>1
  <2>3. current' \in 0..Len(projects) /\ current' # 0
    BY <1>3, ProjectsAssumption DEF LintInv, Types
  <2>4. pc' \in {"open", "next"}
    BY <1>2
  <2>5. QED
    BY <1>2, <1>3, <1>7, <1>8, <1>10, <1>11, <2>1, <2>2, <2>3, <2>4 DEF LintInv, Types
<1>13. JobTypes' /\ TextsTrue' /\ FindingsTrue'
  BY <1>2, <1>9, <1>10 DEF JobTypes, TextsTrue, FindingsTrue, AtWork
<1>14. \A f \in Files : TextOf(f)' = TextOf(f)
  <2>1. SeesTexts'
    BY <1>12, <1>13, TextOfIsText, PTL
  <2>2. QED
    BY <1>9, <2>1, TextOfIsText DEF LintInv, SeesTexts
<1>15. Texted' = Texted /\ NewProgram(Roots)' = P /\ Roots' = project.roots
  <2>1. Roots' = project.roots
    BY <1>3 DEF Roots
  <2>2. Texted' = Texted /\ \A roots : NewProgram(roots)' = NewProgram(roots)
    BY <1>3, <1>14, SameTexts
  <2>3. NewProgram(Roots)' = NewProgram(Roots')
    BY <2>2
  <2>4. QED
    BY <2>1, <2>2, <2>3 DEF P
<1>16. ProgramTrue'
  <2>1. \A n \in DOMAIN files : files[n] \in Files /\ P[files[n]] = Text(files[n])
    BY <1>6, <1>8
  <2>2. \A n \in DOMAIN pending' : program'[pending'[n]] = Text(pending[n])'
    BY <1>2, <1>9, <2>1
  <2>3. program' = NewProgram(Roots)'
    BY <1>2, <1>15
  <2>4. QED
    BY <2>2, <2>3 DEF ProgramTrue
<1>17. KnownTrue'
  <2>1. ~options.cache => known' = NoProgram
    BY <1>2
  <2>2. options.cache /\ pc' # "open" => known' = NewProgram(Roots)'
    BY <1>2, <1>15
  <2>3. \A f \in Files : known'[f] \in {Undefined, Text(f)'}
    BY <1>2, <1>8, <1>9 DEF NoProgram
  <2>4. QED
    BY <1>3, <2>1, <2>2, <2>3 DEF KnownTrue, NoProgram
<1>18. InOrder'
  <2>1. Place(order, k, 1)'
    BY <1>2, <1>3, <1>6, <1>9, <1>15 DEF Place, Linked
  <2>2. QED
    BY <1>6, <2>1 DEF InOrder
<1>19. QED
  BY <1>12, <1>13, <1>16, <1>17, <1>18 DEF LintInv

-----------------------------------------------------------------------------
(* Steps between files                                                     *)

\* What follows the first file to lint
LEMMA RestOfPending ==
    ASSUME Types, pending # <<>>
    PROVE  /\ pending[1] = Head(pending) /\ 1 \in DOMAIN pending /\ Head(pending) \in Files
           /\ Tail(pending) \in Seq(Files)
           /\ \A n \in DOMAIN Tail(pending) : n + 1 \in DOMAIN pending /\ Tail(pending)[n] = pending[n + 1]
           /\ \A n \in DOMAIN Tail(pending) : n \in Nat \ {0}
BY DEF Types

\* The state is only written, nothing else happens when a project is done.
LEMMA CloseProjectKeeps ==
    ASSUME LintInv, CloseProject
    PROVE  LintInv'
<1>1. /\ pc = "next" /\ pc' = "open" /\ pending = <<>>
      /\ UNCHANGED <<imports, projects, options, disk, sources, processed, current, previous, program,
                     invalidated, known, stored, pending, job>>
  BY DEF CloseProject
<1>2. ~AtWork /\ ~AtWork' /\ \A f \in Files : Text(f)' = Text(f)
  BY <1>1 DEF AtWork, Text
<1>3. Types' /\ JobTypes' /\ TextsTrue'
  BY <1>1, <1>2 DEF LintInv, Types, JobTypes, TextsTrue
<1>4. ProgramTrue' /\ KnownTrue' /\ FindingsTrue' /\ InOrder'
  BY <1>1 DEF LintInv, ProgramTrue, KnownTrue, FindingsTrue, InOrder, NoProgram
<1>5. QED
  BY <1>3, <1>4 DEF LintInv

\* Skipping a file keeps the invariant.
LEMMA SkipFileKeeps ==
    ASSUME LintInv, SkipFile
    PROVE  LintInv'
<1>1. /\ pc = "next" /\ pc' = "next" /\ pending # <<>> /\ pending' = Tail(pending)
      /\ UNCHANGED <<imports, projects, options, disk, sources, processed, current, previous, program,
                     invalidated, known, stored, job>>
  BY DEF SkipFile
<1>2. ~AtWork /\ ~AtWork' /\ \A f : Text(f)' = Text(f)
  BY <1>1 DEF AtWork, Text
<1>3. \A f \in Files : TextOf(f)' = TextOf(f)
  BY <1>1 DEF TextOf
<1>4. Roots' = Roots /\ Texted' = Texted /\ NewProgram(Roots)' = NewProgram(Roots)
  <2>1. Roots' = Roots
    BY <1>1 DEF Roots
  <2>2. QED
    BY <1>1, <1>3, <2>1, SameTexts
<1>5. Types' /\ JobTypes' /\ TextsTrue'
  BY <1>1, <1>2, RestOfPending DEF LintInv, Types, JobTypes, TextsTrue
<1>6. ProgramTrue' /\ KnownTrue' /\ FindingsTrue'
  BY <1>1, <1>2, <1>4, RestOfPending DEF LintInv, ProgramTrue, KnownTrue, FindingsTrue, NoProgram
<1>7. InOrder'
  <2>1. PICK k \in Nat : \E order \in [1..k -> Files], lo \in Nat \ {0} : Place(order, k, lo)
    BY <1>1 DEF LintInv, InOrder
  <2>2. PICK order \in [1..k -> Files], lo \in Nat \ {0} : Place(order, k, lo)
    BY <2>1
  <2>3. Linked(order, k, lo, Roots, Texted)'
    BY <1>1, <1>4, <2>2 DEF Place, Linked
  <2>4. \A n \in DOMAIN pending' : \E p \in lo..k : order[p] = pending'[n]
    BY <1>1, <2>2, RestOfPending DEF LintInv, Place
  <2>5. \A m, n \in DOMAIN pending', p, q \in 1..k :
           m < n /\ order[p] = pending'[m] /\ order[q] = pending'[n] => p < q
    BY <1>1, <2>2, RestOfPending DEF LintInv, Place
  <2>6. Place(order, k, lo)'
    BY <1>2, <2>2, <2>3, <2>4, <2>5 DEF Place
  <2>7. QED
    BY <2>2, <2>6 DEF InOrder
<1>8. QED
  BY <1>5, <1>6, <1>7 DEF LintInv

\* The next file is linted with the text it has in the program, and those after it are found without it.
LEMMA StartKeeps ==
    ASSUME LintInv, NEW f \in Files, NEW found \in {Undefined} \union Findings, Start(f, found),
           \/ pc' = "lint"
           \/ /\ pc' = IF job'.fix THEN "fix" ELSE "finish"
              /\ options.cache
              /\ found \in Findings /\ found.text = known[f] /\ found.view \in {Undefined, known}
    PROVE  LintInv'
<1>1. /\ pc = "next" /\ pending # <<>> /\ f = Head(pending) /\ pending' = Tail(pending)
      /\ job' = [file |-> f, source |-> program[f], content |-> Original(f), fix |-> ShouldFix(f), round |-> 0,
                 findings |-> found, cached |-> found # Undefined, updated |-> FALSE]
      /\ UNCHANGED <<imports, projects, options, disk, sources, processed, current, previous, program,
                     invalidated, known, stored>>
  BY DEF Start
<1>2. ~AtWork /\ AtWork' /\ pc' \in {"lint", "fix", "finish"}
  BY <1>1 DEF AtWork
<1>3. pending[1] = f /\ 1 \in DOMAIN pending
  BY <1>1, RestOfPending DEF LintInv
<1>4. program[f] = Text(f) /\ Text(f) = disk[f].text /\ program[f] \in Texts
  <2>1. program[f] = Text(f)
    BY <1>1, <1>3 DEF LintInv, ProgramTrue
  <2>2. QED
    BY <1>2, <2>1, TextOfIsText DEF LintInv, SeesTexts, Text
<1>5. \A g \in Files : Text(g)' = Text(g)
  BY <1>1, <1>2, <1>4 DEF Text
<1>6. \A g \in Files : TextOf(g)' = TextOf(g)
  BY <1>1 DEF TextOf
<1>7. Roots' = Roots /\ Texted' = Texted /\ NewProgram(Roots)' = NewProgram(Roots)
  <2>1. Roots' = Roots
    BY <1>1 DEF Roots
  <2>2. QED
    BY <1>1, <1>6, <2>1, SameTexts
<1>8. Types'
  BY <1>1, <1>2, RestOfPending DEF LintInv, Types
<1>9. JobTypes'
  <2>1. Original(f) \in Contents
    BY <1>4 DEF Original, LintInv, Types, Contents, ProcessedFiles
  <2>2. ShouldFix(f) \in BOOLEAN /\ options.iterations \in Nat /\ (ShouldFix(f) => 0 < options.iterations)
    BY ProjectsAssumption DEF ShouldFix, LintInv, Types
  <2>3. job' \in Jobs
    BY <1>1, <1>4, <2>1, <2>2 DEF Jobs
  <2>4. job'.round = 0 /\ job'.fix = ShouldFix(f) /\ job'.findings = found
    BY <1>1
  <2>5. pc' = "fix" => job'.fix
    OBVIOUS
  <2>6. pc' \in {"fix", "finish"} => found \in Findings
    OBVIOUS
  <2>7. QED
    BY <1>1, <2>2, <2>3, <2>4, <2>5, <2>6 DEF JobTypes
<1>10. TextsTrue'
  <2>1. \A g \in Files : sources'[g] \in {Undefined, Text(g)'}
    BY <1>1, <1>5 DEF LintInv, TextsTrue
  <2>2. ~job'.updated /\ job'.source = disk'[job'.file].text
    BY <1>1, <1>4
  <2>3. job'.fix => disk'[job'.file].text \in Valid
    BY <1>1, <1>4 DEF ShouldFix
  <2>4. QED
    BY <2>1, <2>2, <2>3 DEF TextsTrue
<1>11. ProgramTrue'
  BY <1>1, <1>2, <1>5, <1>7, RestOfPending DEF LintInv, ProgramTrue, Types
<1>12. KnownTrue'
  BY <1>1, <1>2, <1>5, <1>7 DEF LintInv, KnownTrue, NoProgram
<1>13. FindingsTrue'
  <2>1. CASE pc' = "lint"
    BY <2>1 DEF FindingsTrue
  <2>2. CASE pc' # "lint"
    <3>1. known = NewProgram(Roots)
      BY <1>1, <1>2, <2>2 DEF LintInv, KnownTrue
    <3>2. f \in Loaded(Roots)
      BY <1>1, <1>3, AgendaIsLoaded
    <3>3. known[f] = Text(f)
      BY <3>1, <3>2, NewProgramTexts DEF LintInv
    <3>4. QED
      BY <1>1, <1>4, <1>7, <2>2, <3>1, <3>3 DEF FindingsTrue
  <2>3. QED
    BY <2>1, <2>2
<1>14. InOrder'
  <2>1. PICK k \in Nat : \E order \in [1..k -> Files], lo \in Nat \ {0} : Place(order, k, lo)
    BY <1>1 DEF LintInv, InOrder
  <2>2. PICK order \in [1..k -> Files], lo \in Nat \ {0} : Place(order, k, lo)
    BY <2>1
  <2>3. PICK now \in lo..k : order[now] = f
    BY <1>3, <2>2 DEF Place
  <2>4. now \in 1..k /\ now \in Nat \ {0}
    BY <2>3
  <2>5. \A p, q \in 1..k : order[p] = order[q] => p = q
    BY <2>2 DEF Place
  <2>6. Linked(order, k, now, Roots, Texted)'
    BY <1>1, <1>7, <2>2, <2>3 DEF Place, Linked
  <2>7. ASSUME NEW n \in DOMAIN pending'
        PROVE  pending'[n] # f /\ \E p \in now..k : order[p] = pending'[n]
    <3>1. n + 1 \in DOMAIN pending /\ pending'[n] = pending[n + 1] /\ 1 < n + 1
      BY <1>1, RestOfPending DEF LintInv
    <3>2. PICK p \in lo..k : order[p] = pending[n + 1]
      BY <2>2, <3>1 DEF Place
    <3>3. p \in 1..k
      BY <3>2
    <3>4. now < p
      BY <1>3, <2>2, <2>3, <2>4, <3>1, <3>2, <3>3 DEF Place
    <3>5. pending[n + 1] # f
      BY <2>3, <2>4, <2>5, <3>2, <3>3, <3>4
    <3>6. QED
      BY <3>1, <3>2, <3>4, <3>5
  <2>8. \A m, n \in DOMAIN pending', p, q \in 1..k :
           m < n /\ order[p] = pending'[m] /\ order[q] = pending'[n] => p < q
    BY <1>1, <2>2, RestOfPending DEF LintInv, Place
  <2>9. job'.file = f
    BY <1>1
  <2>10. Place(order, k, now)'
    BY <2>3, <2>4, <2>5, <2>6, <2>7, <2>8, <2>9 DEF Place
  <2>11. QED
    BY <2>2, <2>4, <2>10 DEF InOrder
<1>15. QED
  BY <1>8, <1>9, <1>10, <1>11, <1>12, <1>13, <1>14 DEF LintInv

-----------------------------------------------------------------------------
(* Steps that work on a file                                               *)

\* While no text changes, creating the program gives the same.
LEMMA SameProgram ==
    ASSUME Types, JobTypes, TextsTrue, Types', JobTypes', TextsTrue',
           UNCHANGED <<imports, projects, current>>, \A f \in Files : Text(f)' = Text(f)
    PROVE  Roots' = Roots /\ Texted' = Texted /\ NewProgram(Roots)' = NewProgram(Roots)
<1>1. Roots' = Roots
  BY DEF Roots
<1>2. SeesTexts'
  BY TextOfIsText, PTL
<1>3. \A f \in Files : TextOf(f)' = TextOf(f)
  BY <1>2, TextOfIsText DEF SeesTexts
<1>4. QED
  BY <1>1, <1>3, SameTexts

\* Then the files that are left are found as before.
LEMMA SameOrder ==
    ASSUME InOrder, pc # "open", Roots' = Roots, Texted' = Texted,
           UNCHANGED <<imports, pending>>, AtWork' => AtWork /\ job'.file = job.file
    PROVE  InOrder'
<1>1. PICK k \in Nat : \E order \in [1..k -> Files], lo \in Nat \ {0} : Place(order, k, lo)
  BY DEF InOrder
<1>2. PICK order \in [1..k -> Files], lo \in Nat \ {0} : Place(order, k, lo)
  BY <1>1
<1>3. Linked(order, k, lo, Roots, Texted)'
  BY <1>2 DEF Place, Linked
<1>4. Place(order, k, lo)'
  BY <1>2, <1>3 DEF Place
<1>5. QED
  BY <1>2, <1>4 DEF InOrder

\* The program is up to date afterwards, and the file that is being fixed keeps its source file because it is
\* part of it.
LEMMA GetProgramUpdates ==
    ASSUME LintInv, AtWork, GetProgram, UNCHANGED <<imports, projects, current>>
    PROVE  /\ program' = NewProgram(Roots) /\ ~invalidated' /\ invalidated' \in BOOLEAN
           /\ program' \in Programs /\ sources' \in Programs
           /\ \A f \in Files : sources'[f] \in {Undefined, Text(f)}
           /\ job.updated => sources'[job.file] = job.source
           /\ processed' \in [Files -> {Undefined} \union ProcessedFiles]
           /\ \A f \in Files : f \in Loaded(Roots) => program'[f] = Text(f)
<1>1. pc # "open"
  BY DEF AtWork
<1>2. /\ NewProgram(Roots) \in Programs
      /\ \A f \in Files : NewProgram(Roots)[f] \in {Undefined, Text(f)}
      /\ \A f \in Files : f \in Loaded(Roots) => NewProgram(Roots)[f] = Text(f)
  BY NewProgramTexts DEF LintInv
<1>3. CASE ~invalidated
  BY <1>1, <1>2, <1>3 DEF GetProgram, LintInv, Types, ProgramTrue, TextsTrue
<1>4. CASE invalidated
  <2> DEFINE P == NewProgram(Roots)
             released == {f \in Files : program[f] # Undefined /\ P[f] = Undefined}
  <2>1. program' = P /\ invalidated' = FALSE /\ Cached(P, released)
    BY <1>4 DEF GetProgram, Roots
  <2>2. job.file \in Files /\ P[job.file] = job.source /\ job.source # Undefined
    <3>1. job.file \in Files /\ job.source \in Texts
      BY DEF LintInv, JobTypes, Jobs
    <3>2. P[job.file] = Text(job.file)
      BY <1>1, <1>2, <3>1, AgendaIsLoaded
    <3>3. QED
      BY <3>1, <3>2, UndefinedAssumption DEF Text
  <2>3. job.file \notin released
    BY <2>2
  <2> HIDE DEF P, released
  <2>4. sources' = [f \in Files |-> IF f \in released THEN Undefined
                                    ELSE IF P[f] # Undefined THEN P[f] ELSE sources[f]]
    BY <2>1 DEF Cached
  <2>5. sources \in Programs /\ P \in Programs
    BY <1>2 DEF LintInv, Types, P
  <2>6. \A f \in Files : sources[f] \in {Undefined, Text(f)} /\ P[f] \in {Undefined, Text(f)}
    BY <1>2 DEF LintInv, TextsTrue, P
  <2>7. sources' \in Programs
    BY <2>4, <2>5 DEF Programs
  <2>8. processed' \in [Files -> {Undefined} \union ProcessedFiles]
    BY <2>1 DEF Cached, LintInv, Types, ProcessedFiles
  <2>9. sources'[job.file] = job.source
    BY <2>2, <2>3, <2>4
  <2>10. \A f \in Files : sources'[f] \in {Undefined, Text(f)}
    BY <2>4, <2>6
  <2>11. QED
    BY <1>2, <2>1, <2>5, <2>7, <2>8, <2>9, <2>10 DEF P
<1>5. QED
  BY <1>3, <1>4

\* The findings are those in the text that is linted, and rules see the program as it is now.
LEMMA LintKeeps ==
    ASSUME LintInv, Lint
    PROVE  LintInv'
<1>1. PICK typed \in BOOLEAN :
        /\ IF typed THEN GetProgram ELSE UNCHANGED <<program, invalidated, sources, processed>>
        /\ job' = [job EXCEPT !.findings =
             [text |-> job.source, at |-> Origin, view |-> IF typed THEN program' ELSE Undefined]]
  BY DEF Lint
<1>2. /\ pc = "lint" /\ pc' = IF job.fix /\ job.round < options.iterations THEN "fix" ELSE "finish"
      /\ UNCHANGED <<imports, projects, options, disk, current, previous, known, stored, pending>>
  BY DEF Lint
<1>3. AtWork /\ AtWork' /\ pc # "open" /\ pc' \in {"fix", "finish"}
  BY <1>2 DEF AtWork
<1>4. job \in Jobs
  BY <1>3 DEF LintInv, JobTypes
<1> DEFINE found == [text |-> job.source, at |-> Origin, view |-> IF typed THEN program' ELSE Undefined]
<1>5. /\ job'.file = job.file /\ job'.source = job.source /\ job'.content = job.content /\ job'.fix = job.fix
      /\ job'.round = job.round /\ job'.cached = job.cached /\ job'.updated = job.updated
      /\ job'.findings = found
      /\ found \in Findings => job' \in Jobs
  BY <1>1, <1>4 DEF Jobs
<1>6. \A f \in Files : Text(f)' = Text(f)
  BY <1>2, <1>3, <1>5 DEF Text
<1>7. /\ program' \in Programs /\ sources' \in Programs /\ invalidated' \in BOOLEAN
      /\ \A f \in Files : sources'[f] \in {Undefined, Text(f)}
      /\ job.updated => sources'[job.file] = job.source
      /\ processed' \in [Files -> {Undefined} \union ProcessedFiles]
      /\ typed \/ ~invalidated' => program' = NewProgram(Roots)
      /\ \A n \in DOMAIN pending : program'[pending[n]] = Text(pending[n])
  <2>1. CASE typed
    <3>1. \A n \in DOMAIN pending : pending[n] \in Loaded(Roots) /\ pending[n] \in Files
      BY <1>3, AgendaIsLoaded DEF LintInv, Types
    <3>2. QED
      BY <1>1, <1>2, <1>3, <2>1, <3>1, GetProgramUpdates
  <2>2. CASE ~typed
    BY <1>1, <1>3, <2>2 DEF LintInv, Types, TextsTrue, ProgramTrue
  <2>3. QED
    BY <2>1, <2>2
<1>8. found \in Findings
  <2>1. Origin \in Contents
    <3>1. job.file \in Files /\ job.content \in Contents /\ job.source \in Texts
      BY <1>4 DEF Jobs
    <3>2. WithText(job.content, job.source) \in Contents
      BY <3>1 DEF WithText, Contents
    <3>3. QED
      BY <1>7, <3>1, <3>2 DEF Origin, ProcessedFiles
  <2>2. job.source \in Texts
    BY <1>4 DEF Jobs
  <2>3. QED
    BY <1>7, <2>1, <2>2 DEF Findings
<1> HIDE DEF found
<1>9. Types'
  BY <1>2, <1>3, <1>7 DEF LintInv, Types
<1>10. JobTypes'
  BY <1>2, <1>3, <1>5, <1>8 DEF LintInv, JobTypes
<1>11. TextsTrue'
  BY <1>2, <1>3, <1>5, <1>6, <1>7 DEF LintInv, TextsTrue
<1>12. Roots' = Roots /\ Texted' = Texted /\ NewProgram(Roots)' = NewProgram(Roots)
  BY <1>2, <1>6, <1>9, <1>10, <1>11, SameProgram DEF LintInv
<1>13. ProgramTrue'
  <2>1. \A n \in DOMAIN pending : pending[n] \in Files
    BY DEF LintInv, Types
  <2>2. QED
    BY <1>2, <1>6, <1>7, <1>12, <2>1 DEF ProgramTrue
<1>14. KnownTrue'
  BY <1>2, <1>3, <1>5, <1>6, <1>12 DEF LintInv, KnownTrue, NoProgram
<1>15. FindingsTrue'
  BY <1>5, <1>7, <1>12 DEF FindingsTrue, found
<1>16. InOrder'
  BY <1>2, <1>3, <1>5, <1>12, SameOrder DEF LintInv
<1>17. QED
  BY <1>9, <1>10, <1>11, <1>13, <1>14, <1>15, <1>16 DEF LintInv

\* Nothing changes without fixes.
LEMMA NoFixesKeeps ==
    ASSUME LintInv, NoFixes
    PROVE  LintInv'
<1>1. /\ pc = "fix" /\ pc' = "finish"
      /\ UNCHANGED <<imports, projects, options, disk, sources, processed, current, previous, program,
                     invalidated, known, stored, pending, job>>
  BY DEF NoFixes
<1>2. AtWork /\ AtWork' /\ \A f \in Files : Text(f)' = Text(f)
  BY <1>1 DEF AtWork, Text
<1>3. Types' /\ JobTypes' /\ TextsTrue'
  BY <1>1, <1>2 DEF LintInv, Types, JobTypes, TextsTrue
<1>4. Roots' = Roots /\ Texted' = Texted /\ NewProgram(Roots)' = NewProgram(Roots)
  BY <1>1, <1>2, <1>3, SameProgram DEF LintInv
<1>5. ProgramTrue' /\ KnownTrue' /\ FindingsTrue'
  <2>1. \A n \in DOMAIN pending : pending[n] \in Files
    BY DEF LintInv, Types
  <2>2. QED
    BY <1>1, <1>2, <1>4, <2>1 DEF LintInv, ProgramTrue, KnownTrue, FindingsTrue, NoProgram
<1>6. InOrder'
  BY <1>1, <1>2, <1>4, SameOrder DEF LintInv
<1>7. QED
  BY <1>3, <1>5, <1>6 DEF LintInv

\* The fixed text replaces that of the file. The imports of no file that comes later change, so that all files that
\* are left are still found.
LEMMA AcceptKeeps ==
    ASSUME LintInv, Accept
    PROVE  LintInv'
<1>1. PICK text \in Fixed \cap Valid :
        /\ sources' = [sources EXCEPT ![job.file] = text]
        /\ UpdateProcessor(WithText(job.content, text))
        /\ job' = [job EXCEPT !.source = text, !.content = WithText(job.content, text),
                              !.round = @ + 1, !.updated = TRUE]
  BY DEF Accept
<1>2. /\ pc = "fix" /\ pc' = "lint" /\ invalidated' = TRUE
      /\ UNCHANGED <<imports, projects, options, disk, current, previous, program, known, stored, pending>>
  BY DEF Accept
<1>3. AtWork /\ AtWork' /\ pc # "open"
  BY <1>2 DEF AtWork
<1>4. job \in Jobs /\ job.fix /\ job.round < options.iterations /\ options.iterations \in Nat
  BY <1>2, <1>3, ProjectsAssumption DEF LintInv, Types, JobTypes
<1>5. text \in Texts /\ text \in Valid /\ text # Undefined
  BY <1>1, TextsAssumption, UndefinedAssumption
<1>6. WithText(job.content, text) \in Contents /\ WithText(job.content, text).text = text
  BY <1>4, <1>5 DEF WithText, Contents, Jobs
<1>7. /\ job' \in Jobs /\ job'.file = job.file /\ job.file \in Files /\ job'.source = text /\ job'.fix
      /\ job'.content.text = text /\ job'.updated /\ job'.round <= options.iterations
  <2>1. job.round + 1 \in Nat /\ job.round + 1 <= options.iterations
    BY <1>4 DEF Jobs
  <2> DEFINE content == WithText(job.content, text)
             next    == [job EXCEPT !.source = text, !.content = content, !.round = @ + 1, !.updated = TRUE]
  <2>2. content \in Contents /\ content.text = text
    BY <1>6
  <2> HIDE DEF content
  <2>3. /\ next \in Jobs /\ next.file = job.file /\ job.file \in Files /\ next.source = text /\ next.fix = job.fix
        /\ next.content = content /\ next.updated /\ next.round = job.round + 1
    BY <1>4, <1>5, <2>1, <2>2 DEF Jobs
  <2>4. job' = next
    BY <1>1 DEF content
  <2> HIDE DEF next
  <2>5. QED
    BY <1>4, <2>1, <2>2, <2>3, <2>4
<1>8. \A f \in Files : f # job.file => Text(f)' = Text(f)
  BY <1>2, <1>3, <1>7 DEF Text
<1>9. Text(job.file)' = text
  BY <1>3, <1>7 DEF Text
<1>10. /\ sources' \in Programs /\ sources'[job.file] = text
       /\ \A f \in Files : f # job.file => sources'[f] = sources[f]
  BY <1>1, <1>5, <1>7 DEF LintInv, Types, Programs
<1>11. processed' \in [Files -> {Undefined} \union ProcessedFiles]
  BY <1>1, <1>6, <1>7 DEF UpdateProcessor, LintInv, Types, ProcessedFiles
<1>12. Types'
  BY <1>2, <1>10, <1>11 DEF LintInv, Types
<1>13. JobTypes'
  BY <1>2, <1>7 DEF JobTypes
<1>14. TextsTrue'
  BY <1>2, <1>3, <1>4, <1>5, <1>7, <1>8, <1>9, <1>10 DEF LintInv, TextsTrue
<1>15. SeesTexts /\ SeesTexts'
  <2>1. SeesTexts'
    BY <1>12, <1>13, <1>14, TextOfIsText, PTL
  <2>2. QED
    BY <2>1, TextOfIsText DEF LintInv
<1>16. \A f \in Files : f # job.file => Texted'[f] = Texted[f]
  BY <1>8, <1>15 DEF SeesTexts, Texted
<1>17. ProgramTrue'
  <2>1. \A n \in DOMAIN pending : pending[n] \in Files /\ pending[n] # job.file
    BY <1>3, AgendaIsLoaded DEF LintInv, Types
  <2>2. \A n \in DOMAIN pending : program[pending[n]] = Text(pending[n])'
    BY <1>2, <1>3, <1>8, <2>1 DEF LintInv, ProgramTrue
  <2>3. QED
    BY <1>2, <2>2 DEF ProgramTrue
<1>18. KnownTrue'
  BY <1>2, <1>3, <1>7, <1>8 DEF LintInv, KnownTrue, NoProgram
<1>19. FindingsTrue'
  BY <1>2 DEF FindingsTrue
<1>20. InOrder'
  <2>1. PICK k \in Nat : \E order \in [1..k -> Files], lo \in Nat \ {0} : Place(order, k, lo)
    BY <1>3 DEF LintInv, InOrder
  <2>2. PICK order \in [1..k -> Files], lo \in Nat \ {0} : Place(order, k, lo)
    BY <2>1
  <2>3. lo \in 1..k /\ order[lo] = job.file
    BY <1>3, <2>2 DEF Place
  <2>4. \A m \in lo + 1..k : order[m] \in Files /\ order[m] # job.file
    <3>1. ASSUME NEW m \in lo + 1..k
          PROVE  m \in 1..k /\ m # lo
      BY <2>3
    <3>2. QED
      BY <2>2, <2>3, <3>1 DEF Place
  <2>5. Roots' = Roots
    BY <1>2 DEF Roots
  <2>6. ASSUME NEW n \in lo..k
        PROVE  order[n] \in Roots \/ \E m \in n + 1..k : order[n] \in imports[order[m]][Texted'[order[m]]]
    <3>1. CASE order[n] \in Roots
      BY <3>1
    <3>2. CASE order[n] \notin Roots
      <4>1. PICK m \in n + 1..k : order[n] \in imports[order[m]][Texted[order[m]]]
        BY <2>2, <2>6, <3>2 DEF Place, Linked
      <4>2. m \in lo + 1..k
        BY <2>6, <4>1
      <4>3. Texted'[order[m]] = Texted[order[m]]
        BY <1>16, <2>4, <4>2
      <4>4. QED
        BY <4>1, <4>3
    <3>3. QED
      BY <3>1, <3>2
  <2>7. Linked(order, k, lo, Roots, Texted)'
    BY <1>2, <2>5, <2>6 DEF Linked
  <2>8. Place(order, k, lo)'
    BY <1>2, <1>3, <1>7, <2>2, <2>7 DEF Place
  <2>9. QED
    BY <2>2, <2>8 DEF InOrder
<1>21. QED
  BY <1>12, <1>13, <1>14, <1>17, <1>18, <1>19, <1>20 DEF LintInv

\* A rejected fix leaves all texts as they were.
LEMMA RejectKeeps ==
    ASSUME LintInv, Reject
    PROVE  LintInv'
<1>1. /\ pc = "fix" /\ pc' = "finish" /\ invalidated' = TRUE
      /\ sources' = [sources EXCEPT ![job.file] = job.source]
      /\ UpdateProcessor(job.content)
      /\ UNCHANGED <<imports, projects, options, disk, current, previous, program, known, stored, pending, job>>
  BY DEF Reject
<1>2. AtWork /\ AtWork' /\ \A f \in Files : Text(f)' = Text(f)
  BY <1>1 DEF AtWork, Text
<1>3. job.file \in Files /\ job.source \in Texts /\ job.content \in Contents
  BY <1>2 DEF LintInv, JobTypes, Jobs
<1>4. /\ sources' \in Programs /\ sources'[job.file] = job.source
      /\ \A f \in Files : f # job.file => sources'[f] = sources[f]
  BY <1>1, <1>3 DEF LintInv, Types, Programs
<1>5. processed' \in [Files -> {Undefined} \union ProcessedFiles]
  BY <1>1, <1>3 DEF UpdateProcessor, LintInv, Types, ProcessedFiles
<1>6. Types'
  BY <1>1, <1>4, <1>5 DEF LintInv, Types
<1>7. JobTypes'
  BY <1>1, <1>2 DEF LintInv, JobTypes
<1>8. \A f \in Files : sources'[f] \in {Undefined, Text(f)'}
  BY <1>1, <1>2, <1>4 DEF LintInv, TextsTrue, Text
<1>9. TextsTrue'
  BY <1>1, <1>2, <1>4, <1>8 DEF LintInv, TextsTrue
<1>10. Roots' = Roots /\ Texted' = Texted /\ NewProgram(Roots)' = NewProgram(Roots)
  BY <1>1, <1>2, <1>6, <1>7, <1>9, SameProgram DEF LintInv
<1>11. ProgramTrue' /\ KnownTrue' /\ FindingsTrue'
  <2>1. \A n \in DOMAIN pending : pending[n] \in Files
    BY DEF LintInv, Types
  <2>2. QED
    BY <1>1, <1>2, <1>10, <2>1 DEF LintInv, ProgramTrue, KnownTrue, FindingsTrue, NoProgram
<1>12. InOrder'
  BY <1>1, <1>2, <1>10, SameOrder DEF LintInv
<1>13. QED
  BY <1>6, <1>7, <1>9, <1>11, <1>12 DEF LintInv

\* The fixed file is written with the text the program has.
LEMMA FinishKeeps ==
    ASSUME LintInv, Finish
    PROVE  LintInv'
<1>1. /\ pc = "finish" /\ pc' = "next"
      /\ IF options.cache /\ job.updated THEN GetProgram /\ known' = program'
         ELSE UNCHANGED <<program, invalidated, sources, processed, known>>
      /\ stored' = IF options.cache /\ (~job.cached \/ job.updated)
                   THEN [stored EXCEPT ![job.file] = job.findings] ELSE stored
      /\ disk' = IF job.updated THEN [disk EXCEPT ![job.file] = job.content] ELSE disk
      /\ UNCHANGED <<imports, projects, options, current, previous, pending>>
  BY DEF Finish
<1>2. AtWork /\ ~AtWork' /\ pc # "open"
  BY <1>1 DEF AtWork
<1>3. job.file \in Files /\ job.source \in Texts /\ job.content \in Contents
  BY <1>2 DEF LintInv, JobTypes, Jobs
<1>4. disk' \in [Files -> Contents]
  BY <1>1, <1>3 DEF LintInv, Types
<1>5. \A f \in Files : Text(f)' = Text(f)
  <2>1. \A f \in Files : Text(f)' = disk'[f].text
    BY <1>2 DEF Text
  <2>2. CASE job.updated
    BY <1>1, <1>2, <1>3, <2>1, <2>2 DEF LintInv, Types, TextsTrue, Text
  <2>3. CASE ~job.updated
    BY <1>1, <1>2, <2>1, <2>3 DEF LintInv, TextsTrue, Text
  <2>4. QED
    BY <2>2, <2>3
<1>6. /\ program' \in Programs /\ sources' \in Programs /\ invalidated' \in BOOLEAN /\ known' \in Programs
      /\ \A f \in Files : sources'[f] \in {Undefined, Text(f)}
      /\ processed' \in [Files -> {Undefined} \union ProcessedFiles]
      /\ ~invalidated' => program' = NewProgram(Roots)
      /\ \A n \in DOMAIN pending : program'[pending[n]] = Text(pending[n])
      /\ options.cache => known' = NewProgram(Roots)
      /\ ~options.cache => known' = NoProgram
  <2>1. CASE options.cache /\ job.updated
    <3>1. \A n \in DOMAIN pending : pending[n] \in Loaded(Roots) /\ pending[n] \in Files
      BY <1>2, AgendaIsLoaded DEF LintInv, Types
    <3>2. /\ GetProgram /\ known' = program' /\ UNCHANGED <<imports, projects, current>>
      BY <1>1, <2>1
    <3>3. GetProgram /\ AtWork => /\ program' = NewProgram(Roots) /\ ~invalidated' /\ invalidated' \in BOOLEAN
                                  /\ program' \in Programs /\ sources' \in Programs
                                  /\ \A f \in Files : sources'[f] \in {Undefined, Text(f)}
                                  /\ processed' \in [Files -> {Undefined} \union ProcessedFiles]
                                  /\ \A f \in Files : f \in Loaded(Roots) => program'[f] = Text(f)
      BY <3>2, GetProgramUpdates
    <3>4. QED
      BY <1>2, <2>1, <3>1, <3>2, <3>3
  <2>2. CASE ~(options.cache /\ job.updated)
    BY <1>1, <1>2, <2>2 DEF LintInv, Types, TextsTrue, ProgramTrue, KnownTrue
  <2>3. QED
    BY <2>1, <2>2
<1>7. DOMAIN stored' = Files
  BY <1>1 DEF LintInv, Types
<1>8. Types'
  BY <1>1, <1>4, <1>6, <1>7 DEF LintInv, Types
<1>9. JobTypes' /\ TextsTrue' /\ FindingsTrue'
  BY <1>1, <1>2, <1>5, <1>6 DEF JobTypes, TextsTrue, FindingsTrue
<1>10. Roots' = Roots /\ Texted' = Texted /\ NewProgram(Roots)' = NewProgram(Roots)
  BY <1>1, <1>5, <1>8, <1>9, SameProgram DEF LintInv
<1>11. ProgramTrue'
  <2>1. \A n \in DOMAIN pending : pending[n] \in Files
    BY DEF LintInv, Types
  <2>2. QED
    BY <1>1, <1>5, <1>6, <1>10, <2>1 DEF ProgramTrue
<1>12. KnownTrue'
  <2>1. \A f \in Files : NewProgram(Roots)[f] \in {Undefined, Text(f)}
    BY NewProgramTexts DEF LintInv
  <2>2. \A f \in Files : known'[f] \in {Undefined, Text(f)'}
    BY <1>5, <1>6, <2>1 DEF NoProgram
  <2>3. known' = NewProgram(Roots)' \/ ~options.cache
    BY <1>6, <1>10
  <2>4. ~options.cache => known' = NoProgram'
    BY <1>6 DEF NoProgram
  <2>5. QED
    BY <1>1, <1>2, <2>2, <2>3, <2>4 DEF KnownTrue
<1>13. InOrder'
  BY <1>1, <1>2, <1>10, SameOrder DEF LintInv
<1>14. QED
  BY <1>8, <1>9, <1>11, <1>12, <1>13 DEF LintInv

-----------------------------------------------------------------------------
(* The invariant holds                                                     *)

\* The invariant holds before the first project.
LEMMA LintInitially == LintInit => LintInv
<1> SUFFICES ASSUME LintInit
             PROVE  LintInv
  OBVIOUS
<1>1. /\ imports \in ImportMaps /\ projects \in ProjectLists /\ options \in OptionSets
      /\ sources = NoProgram /\ processed = NoProgram /\ current = 0 /\ program = NoProgram /\ invalidated = FALSE
      /\ known = NoProgram /\ stored = NoProgram /\ pending = <<>> /\ pc = "open"
  BY DEF LintInit
<1>2. disk \in [Files -> Contents]
  <2>1. PICK texts \in Disks : disk = [f \in Files |-> [frame |-> CHOOSE x \in Frames : TRUE, text |-> texts[f]]]
    BY DEF LintInit
  <2>2. (CHOOSE x \in Frames : TRUE) \in Frames
    BY TextsAssumption
  <2>3. texts \in [Files -> Texts]
    BY TextsAssumption
  <2>4. QED
    BY <2>1, <2>2, <2>3 DEF Contents
<1>3. NoProgram \in Programs /\ DOMAIN NoProgram = Files /\ \A f \in Files : NoProgram[f] = Undefined
  BY DEF NoProgram, Programs
<1>4. processed \in [Files -> {Undefined} \union ProcessedFiles]
  BY <1>1 DEF NoProgram
<1>5. current \in 0..Len(projects)
  <2> DEFINE R == [roots : SUBSET Files, composite : BOOLEAN]
  <2>1. projects \in Seq(R)
    BY <1>1, ProjectsAssumption
  <2> HIDE DEF R
  <2>2. QED
    BY <1>1, <2>1
<1>6. Types
  <2>1. pending \in Seq(Files) /\ invalidated \in BOOLEAN /\ DOMAIN stored = Files
    <3>1. pending = <<>> /\ invalidated = FALSE /\ stored = NoProgram
      BY <1>1
    <3>2. pending \in Seq(Files)
      BY <3>1
    <3>3. QED
      BY <1>3, <3>1, <3>2
  <2>2. QED
    BY <1>1, <1>2, <1>3, <1>4, <1>5, <2>1 DEF Types
<1>7. ~AtWork
  BY <1>1 DEF AtWork
<1>8. QED
  BY <1>1, <1>3, <1>6, <1>7 DEF LintInv, JobTypes, TextsTrue, ProgramTrue, KnownTrue, FindingsTrue, InOrder

\* A file that is found in the cache has the findings of the text it has in the program.
LEMMA StartCachedKeeps ==
    ASSUME LintInv, NEW f \in Files, StartCached(f)
    PROVE  LintInv'
<1>1. PICK frame \in (IF f \in Processed THEN Frames ELSE {disk[f].frame}), view \in {Undefined, known} :
        Start(f, [text |-> known[f], at |-> [frame |-> frame, text |-> known[f]], view |-> view])
  BY DEF StartCached
<1> DEFINE found == [text |-> known[f], at |-> [frame |-> frame, text |-> known[f]], view |-> view]
<1>2. options.cache /\ pc' = (IF job'.fix THEN "fix" ELSE "finish")
  BY DEF StartCached
<1>3. pc = "next" /\ pending # <<>> /\ f = Head(pending)
  BY <1>1 DEF Start
<1>4. f \in Loaded(Roots)
  BY <1>3, RestOfPending, AgendaIsLoaded DEF LintInv
<1>5. known = NewProgram(Roots)
  BY <1>2, <1>3 DEF LintInv, KnownTrue, AtWork
<1>6. known[f] \in Texts
  BY <1>4, <1>5, NewProgramTexts, TextOfIsText DEF LintInv, SeesTexts
<1>7. frame \in Frames
  BY DEF LintInv, Types, Contents
<1>8. known \in Programs
  BY DEF LintInv, Types
<1>9. found \in Findings /\ found.text = known[f] /\ found.view \in {Undefined, known}
  <2> QED
    BY <1>6, <1>7, <1>8 DEF Findings, Contents
<1>10. Start(f, found)
  BY <1>1
<1> HIDE DEF found
<1>11. QED
  BY <1>2, <1>9, <1>10, StartKeeps

\* Nothing depends on anything but the state.
LEMMA StutterKeeps ==
    ASSUME LintInv, UNCHANGED lintVars
    PROVE  LintInv'
<1>1. UNCHANGED <<imports, projects, options, disk, sources, processed, current, previous, program,
                  invalidated, known, stored, pending, pc, job>>
  BY DEF lintVars
<1>2. (AtWork <=> AtWork') /\ \A f \in Files : Text(f)' = Text(f)
  BY <1>1 DEF AtWork, Text
<1>3. Types' /\ JobTypes' /\ TextsTrue'
  BY <1>1, <1>2 DEF LintInv, Types, JobTypes, TextsTrue
<1>4. Roots' = Roots /\ Texted' = Texted /\ NewProgram(Roots)' = NewProgram(Roots)
  BY <1>1, <1>2, <1>3, SameProgram DEF LintInv
<1>5. ProgramTrue' /\ KnownTrue' /\ FindingsTrue'
  <2>1. \A n \in DOMAIN pending : pending[n] \in Files
    BY DEF LintInv, Types
  <2>2. QED
    BY <1>1, <1>2, <1>4, <2>1 DEF LintInv, ProgramTrue, KnownTrue, FindingsTrue, NoProgram
<1>6. InOrder'
  <2>1. CASE pc = "open"
    BY <1>1, <2>1 DEF InOrder
  <2>2. CASE pc # "open"
    BY <1>1, <1>2, <1>4, <2>2, SameOrder DEF LintInv
  <2>3. QED
    BY <2>1, <2>2
<1>7. QED
  BY <1>3, <1>5, <1>6 DEF LintInv

\* Every step of linting keeps the invariant.
LEMMA LintStep == LintInv /\ [LintNext]_lintVars => LintInv'
<1> SUFFICES ASSUME LintInv, [LintNext]_lintVars
             PROVE  LintInv'
  OBVIOUS
<1>1. CASE OpenProject
  BY <1>1, OpenProjectKeeps
<1>2. CASE CloseProject
  BY <1>2, CloseProjectKeeps
<1>3. CASE SkipFile
  BY <1>3, SkipFileKeeps
<1>4. ASSUME NEW f \in Files, StartFile(f)
      PROVE  LintInv'
  BY <1>4, StartKeeps DEF StartFile
<1>5. ASSUME NEW f \in Files, StartCached(f)
      PROVE  LintInv'
  BY <1>5, StartCachedKeeps
<1>6. CASE Lint
  BY <1>6, LintKeeps
<1>7. CASE NoFixes
  BY <1>7, NoFixesKeeps
<1>8. CASE Accept
  BY <1>8, AcceptKeeps
<1>9. CASE Reject
  BY <1>9, RejectKeeps
<1>10. CASE Finish
  BY <1>10, FinishKeeps
<1>11. CASE UNCHANGED lintVars
  BY <1>11, StutterKeeps
<1>12. QED
  BY <1>1, <1>2, <1>3, <1>4, <1>5, <1>6, <1>7, <1>8, <1>9, <1>10, <1>11 DEF LintNext

\* At any time the programs, the lint cache and the findings in hand belong to the texts they are used with
\* (lintProject and lintAndFix).
THEOREM LintInvariance == LintSpec => []LintInv
BY LintInitially, LintStep, PTL DEF LintSpec

-----------------------------------------------------------------------------
(* The host, the processors and the disk                                   *)

\* Fixes of the file that is linted are not written yet.
Writing(f) == AtWork /\ f = job.file /\ job.updated

\* The content a file has at this point
ContentOf(f) == IF Writing(f) THEN job.content ELSE disk[f]

Several == Len(projects) > 1

\* Files whose fixes have to be at the right positions
Safe(f) == f \notin Processed \/ (~options.cache /\ ~Several)

\* The file that is linted and those that are to be linted
OnAgenda(f) == \/ AtWork /\ f = job.file
               \/ pc # "open" /\ \E n \in DOMAIN pending : f = pending[n]

HostTypes ==
    /\ previous \subseteq Files
    /\ ~AtWork => job = Undefined
    /\ current = 0 => \A f \in Files : processed[f] = Undefined

\* Source files of processed files are kept with their processors. These have the content of the file, or that of
\* an earlier project.
ProcessorsTrue ==
    \A f \in Files :
        /\ processed[f] # Undefined <=> f \in Processed /\ sources[f] # Undefined
        /\ processed[f] # Undefined =>
             \/ processed[f].source = ContentOf(f)
             \/ Several /\ ~Writing(f) /\ processed[f].source = processed[f].original

\* Files are not released before they are linted. In a single project none is changed before.
AgendaTrue ==
    \A f \in Files : OnAgenda(f) =>
        /\ sources[f] # Undefined
        /\ ~Several /\ f \in Processed => processed[f].original = disk[f]

\* The first fixes are applied to the original content.
ContentTrue ==
    AtWork /\ ~job.updated =>
        job.content = IF job.file \in Processed THEN processed[job.file].original
                      ELSE [frame |-> disk[job.file].frame, text |-> job.source]

UndamagedTrue ==
    /\ \A f \in Files : Safe(f) => Text(f) \notin Damaged /\ disk[f].text \notin Damaged
    /\ pc = "fix" /\ Safe(job.file) => Fitting

HostInv == HostTypes /\ ProcessorsTrue /\ AgendaTrue /\ ContentTrue /\ UndamagedTrue

\* What no step that updates the program changes
HostKept ==
    \A f \in Files :
        /\ processed'[f] # Undefined <=> f \in Processed /\ sources'[f] # Undefined
        /\ processed'[f] # Undefined =>
             \/ processed'[f].source = ContentOf(f)
             \/ Several /\ ~Writing(f) /\ processed'[f].source = processed'[f].original
        /\ OnAgenda(f) => sources'[f] # Undefined /\ processed'[f] = processed[f]

\* A new program reads files and processors that the host does not have.
LEMMA CachedKeepsProcessors ==
    ASSUME LintInv, ProcessorsTrue, NEW P, NEW released, Cached(P, released),
           \A f \in Files : P[f] \in {Undefined, Text(f)}
    PROVE  \A f \in Files :
             /\ processed'[f] # Undefined <=> f \in Processed /\ sources'[f] # Undefined
             /\ processed'[f] # Undefined =>
                  \/ processed'[f].source = ContentOf(f)
                  \/ Several /\ ~Writing(f) /\ processed'[f].source = processed'[f].original
             /\ f \notin released /\ sources[f] # Undefined =>
                  sources'[f] # Undefined /\ processed'[f] = processed[f]
             /\ f \notin released /\ P[f] # Undefined => sources'[f] # Undefined
             /\ processed[f] = Undefined /\ processed'[f] # Undefined => processed'[f].original = disk[f]
<1> SUFFICES ASSUME NEW f \in Files
             PROVE  /\ processed'[f] # Undefined <=> f \in Processed /\ sources'[f] # Undefined
                    /\ processed'[f] # Undefined =>
                         \/ processed'[f].source = ContentOf(f)
                         \/ Several /\ ~Writing(f) /\ processed'[f].source = processed'[f].original
                    /\ f \notin released /\ sources[f] # Undefined =>
                         sources'[f] # Undefined /\ processed'[f] = processed[f]
                    /\ f \notin released /\ P[f] # Undefined => sources'[f] # Undefined
                    /\ processed[f] = Undefined /\ processed'[f] # Undefined => processed'[f].original = disk[f]
  OBVIOUS
<1>1. /\ sources'[f] = IF f \in released THEN Undefined ELSE IF P[f] # Undefined THEN P[f] ELSE sources[f]
      /\ processed'[f] = IF f \in released THEN Undefined
                         ELSE IF P[f] # Undefined /\ sources[f] = Undefined /\ f \in Processed
                              THEN [original |-> disk[f], source |-> disk[f]] ELSE processed[f]
  BY DEF Cached
<1>2. [original |-> disk[f], source |-> disk[f]] # Undefined
  <2>1. [original |-> disk[f], source |-> disk[f]] \in ProcessedFiles
    BY DEF LintInv, Types, ProcessedFiles
  <2>2. QED
    BY <2>1, UndefinedAssumption
<1>3. sources[f] = Undefined => ~Writing(f)
  <2>1. AtWork => job.source # Undefined
    BY UndefinedAssumption DEF LintInv, JobTypes, Jobs
  <2>2. QED
    BY <2>1 DEF Writing, LintInv, TextsTrue
<1>4. /\ processed[f] # Undefined <=> f \in Processed /\ sources[f] # Undefined
      /\ processed[f] # Undefined =>
           \/ processed[f].source = ContentOf(f)
           \/ Several /\ ~Writing(f) /\ processed[f].source = processed[f].original
  BY DEF ProcessorsTrue
<1>5. CASE f \in released
  BY <1>1, <1>5
<1>6. CASE f \notin released /\ P[f] # Undefined /\ sources[f] = Undefined /\ f \in Processed
  BY <1>1, <1>2, <1>3, <1>4, <1>6 DEF ContentOf
<1>7. CASE f \notin released /\ ~(P[f] # Undefined /\ sources[f] = Undefined /\ f \in Processed)
  BY <1>1, <1>4, <1>7
<1>8. QED
  BY <1>5, <1>6, <1>7

\* Files that are linted or will be are part of the program: they are not released.
LEMMA GetProgramKeepsHost ==
    ASSUME LintInv, HostInv, AtWork, GetProgram \/ UNCHANGED host
    PROVE  HostKept
<1>1. CASE UNCHANGED host
  BY <1>1 DEF host, HostInv, HostKept, ProcessorsTrue, AgendaTrue
<1>2. CASE GetProgram /\ ~invalidated
  <2>1. UNCHANGED host
    BY <1>2 DEF GetProgram, host
  <2>2. QED
    BY <1>1, <2>1
<1>3. CASE GetProgram /\ invalidated
  <2> DEFINE P == NewProgram(Roots)
             released == {f \in Files : program[f] # Undefined /\ P[f] = Undefined}
  <2>1. Cached(P, released)
    BY <1>3 DEF GetProgram, Roots
  <2>2. \A f \in Files : P[f] \in {Undefined, Text(f)}
    BY NewProgramTexts DEF LintInv
  <2>3. ASSUME NEW f \in Files, OnAgenda(f)
        PROVE  f \notin released /\ sources[f] # Undefined
    <3>1. pc # "open"
      BY DEF AtWork
    <3>2. f \in Loaded(Roots)
      BY <2>3, <3>1, AgendaIsLoaded DEF OnAgenda
    <3>3. P[f] # Undefined
      BY <3>2, NewProgramTexts DEF LintInv
    <3>4. QED
      BY <2>3, <3>3 DEF HostInv, AgendaTrue
  <2> HIDE DEF P, released
  <2>4. QED
    BY <2>1, <2>2, <2>3, CachedKeepsProcessors DEF HostInv, HostKept
<1>4. QED
  BY <1>1, <1>2, <1>3

\* A content is its frame and its text.
LEMMA SameContent ==
    ASSUME NEW c \in Contents
    PROVE  WithText(c, c.text) = c
BY DEF WithText, Contents

\* Files of the new project are kept if they were part of the previous one, or read.
LEMMA OpenProjectKeepsHost ==
    ASSUME LintInv, LintInv', HostInv, OpenProject
    PROVE  HostInv'
<1> DEFINE project == projects[current + 1]
           P       == NewProgram(project.roots)
           own     == IF project.composite THEN project.roots ELSE {f \in Files : P[f] # Undefined}
<1>1. PICK order \in Orders(project.roots) : \E files \in Selected(order, own \cap options.included) :
        /\ Cached(P, previous \ own) /\ previous' = own /\ pending' = files
        /\ pc' = IF files = <<>> THEN "open" ELSE "next"
  BY DEF OpenProject
<1>2. PICK files \in Selected(order, own \cap options.included) :
        /\ Cached(P, previous \ own) /\ previous' = own /\ pending' = files
        /\ pc' = IF files = <<>> THEN "open" ELSE "next"
  BY <1>1
<1>3. /\ pc = "open" /\ current < Len(projects) /\ current' = current + 1
      /\ UNCHANGED <<imports, projects, options, disk, job>>
  BY DEF OpenProject
<1>4. project.roots \in SUBSET Files /\ Len(projects) \in Nat
  <2> DEFINE R == [roots : SUBSET Files, composite : BOOLEAN]
  <2>1. projects \in Seq(R)
    BY ProjectsAssumption DEF LintInv, Types
  <2> HIDE DEF R
  <2>2. Len(projects) \in Nat /\ \A n \in 1..Len(projects) : projects[n] \in R
    BY <2>1
  <2>3. current + 1 \in 1..Len(projects)
    BY <1>3, <2>2 DEF LintInv, Types
  <2>4. projects[current + 1] \in R
    BY <2>2, <2>3
  <2>5. QED
    BY <2>2, <2>4 DEF R
<1>5. /\ \A f \in Files : P[f] \in {Undefined, Text(f)}
      /\ \A f \in Files : f \in Loaded(project.roots) => P[f] # Undefined
  <2> HIDE DEF project
  <2> QED
    BY NewProgramTexts DEF LintInv
<1>6. own \subseteq Files
  BY <1>4
<1>7. \A n \in DOMAIN files : files[n] \in Files /\ files[n] \in own /\ P[files[n]] # Undefined
  <2> HIDE DEF project
  <2> DEFINE set == own \cap options.included
  <2> HIDE DEF own
  <2>1. files \in Selected(order, set)
    BY <1>2
  <2> HIDE DEF set
  <2>1a. Types
    BY DEF LintInv
  <2>1b. /\ files \in Seq(Files) /\ \A n \in DOMAIN files : files[n] \in set
         /\ \E k \in Nat : Ordered(k, order, files, project.roots)
    BY <1>4, <2>1, <2>1a, OrderOfProgram
  <2>2. /\ files \in Seq(Files) /\ \A n \in DOMAIN files : files[n] \in set
        /\ \E k \in Nat : /\ order \in [1..k -> Files]
                          /\ \A n \in 1..k : order[n] \in Loaded(project.roots)
                          /\ \A n \in DOMAIN files : \E p \in 1..k : order[p] = files[n]
    BY <2>1b DEF Ordered
  <2>3. \A n \in DOMAIN files : files[n] \in Files /\ files[n] \in Loaded(project.roots)
    BY <2>2
  <2>4. QED
    BY <1>5, <2>2, <2>3 DEF set
<1> HIDE DEF P, own, project
<1>8. \A f \in Files :
        /\ processed'[f] # Undefined <=> f \in Processed /\ sources'[f] # Undefined
        /\ processed'[f] # Undefined =>
             \/ processed'[f].source = ContentOf(f)
             \/ Several /\ ~Writing(f) /\ processed'[f].source = processed'[f].original
        /\ f \notin previous \ own /\ P[f] # Undefined => sources'[f] # Undefined
        /\ processed[f] = Undefined /\ processed'[f] # Undefined => processed'[f].original = disk[f]
  BY <1>2, <1>5, CachedKeepsProcessors DEF HostInv
<1>9. ~AtWork /\ ~AtWork'
  BY <1>2, <1>3 DEF AtWork
<1>10. /\ \A f \in Files : ~Writing(f) /\ ~Writing(f)' /\ ContentOf(f) = disk[f] /\ ContentOf(f)' = disk[f]
       /\ \A f \in Files : Text(f) = disk[f].text /\ Text(f)' = disk[f].text
       /\ (Several <=> Several') /\ \A f \in Files : Safe(f) <=> Safe(f)'
  BY <1>3, <1>9 DEF Writing, ContentOf, Text, Several, Safe
<1>11. HostTypes'
  <2>1. current' # 0
    BY <1>3 DEF LintInv, Types
  <2>2. QED
    BY <1>2, <1>3, <1>6, <1>9, <2>1 DEF HostInv, HostTypes
<1>12. ProcessorsTrue'
  BY <1>8, <1>10 DEF ProcessorsTrue
<1>13. AgendaTrue'
  <2> SUFFICES ASSUME NEW f \in Files, OnAgenda(f)'
               PROVE  /\ sources'[f] # Undefined
                      /\ ~Several /\ f \in Processed => processed'[f].original = disk[f]
    BY <1>3, <1>10 DEF AgendaTrue
  <2>1. f \in own /\ P[f] # Undefined
    BY <1>2, <1>7, <1>9 DEF OnAgenda
  <2>2. sources'[f] # Undefined
    BY <1>8, <2>1
  <2>3. ASSUME ~Several, f \in Processed
        PROVE  processed'[f].original = disk[f]
    <3>1. current = 0
      BY <1>3, <1>4, <2>3 DEF LintInv, Types, Several
    <3>2. processed[f] = Undefined
      BY <3>1 DEF HostInv, HostTypes
    <3>3. QED
      BY <1>8, <2>2, <2>3, <3>2
  <2>4. QED
    BY <2>2, <2>3
<1>14. ContentTrue' /\ UndamagedTrue'
  BY <1>2, <1>3, <1>9, <1>10 DEF ContentTrue, UndamagedTrue, HostInv
<1>15. QED
  BY <1>11, <1>12, <1>13, <1>14 DEF HostInv

\* Nothing about the host changes.
LEMMA IdleKeepsHost ==
    ASSUME LintInv, LintInv', HostInv, CloseProject \/ SkipFile \/ NoFixes \/ UNCHANGED lintVars
    PROVE  HostInv'
<1>1. /\ UNCHANGED <<projects, options, disk, sources, processed, current, previous, job>>
      /\ AtWork <=> AtWork'
      /\ pc' = "fix" => pc = "fix"
      /\ pc' # "open" => pc # "open"
      /\ \A f \in Files : OnAgenda(f)' => OnAgenda(f)
  <2>1. CASE CloseProject
    BY <2>1 DEF CloseProject, AtWork, OnAgenda
  <2>2. CASE SkipFile
    <3>1. pending # <<>> /\ pending' = Tail(pending) /\ pc = "next" /\ pc' = "next"
      BY <2>2 DEF SkipFile
    <3>2. \A n \in DOMAIN Tail(pending) : n + 1 \in DOMAIN pending /\ Tail(pending)[n] = pending[n + 1]
      BY <3>1, RestOfPending DEF LintInv
    <3>3. \A f \in Files : OnAgenda(f)' => OnAgenda(f)
      BY <3>1, <3>2 DEF OnAgenda, AtWork
    <3>4. QED
      BY <2>2, <3>3 DEF SkipFile, AtWork
  <2>3. CASE NoFixes
    BY <2>3 DEF NoFixes, AtWork, OnAgenda
  <2>4. CASE UNCHANGED lintVars
    BY <2>4 DEF lintVars, AtWork, OnAgenda
  <2>5. QED
    BY <2>1, <2>2, <2>3, <2>4
<1>2. /\ \A f \in Files : (Writing(f) <=> Writing(f)') /\ ContentOf(f)' = ContentOf(f) /\ Text(f)' = Text(f)
      /\ (Several <=> Several') /\ \A f : Safe(f) <=> Safe(f)'
      /\ Fitting <=> Fitting'
  BY <1>1 DEF Writing, ContentOf, Text, Several, Safe, Fitting
<1>3. HostTypes'
  BY <1>1 DEF HostInv, HostTypes
<1>4. ProcessorsTrue'
  BY <1>1, <1>2 DEF HostInv, ProcessorsTrue
<1>5. AgendaTrue'
  BY <1>1, <1>2 DEF HostInv, AgendaTrue
<1>6. ContentTrue' /\ UndamagedTrue'
  BY <1>1, <1>2 DEF HostInv, ContentTrue, UndamagedTrue
<1>7. QED
  BY <1>3, <1>4, <1>5, <1>6 DEF HostInv

\* A file is linted as the host has it. Cached findings of a file without processor fit, they do not come from
\* another content.
LEMMA StartKeepsHost ==
    ASSUME LintInv, LintInv', HostInv, NEW f \in Files, StartFile(f) \/ StartCached(f)
    PROVE  HostInv'
<1>1. PICK found : Start(f, found)
  BY DEF StartFile, StartCached
<1>2. /\ pc = "next" /\ pending # <<>> /\ f = Head(pending) /\ pending' = Tail(pending)
      /\ job' = [file |-> f, source |-> program[f], content |-> Original(f), fix |-> ShouldFix(f), round |-> 0,
                 findings |-> found, cached |-> found # Undefined, updated |-> FALSE]
      /\ UNCHANGED <<projects, options, disk, sources, processed, current, previous>>
  BY <1>1 DEF Start
<1>3. ~AtWork /\ AtWork'
  BY <1>2 DEF AtWork, StartFile, StartCached
<1>4. job'.file = f /\ job'.source = program[f] /\ job'.content = Original(f) /\ ~job'.updated
  BY <1>2
<1>5. pending[1] = f /\ 1 \in DOMAIN pending
  BY <1>2, RestOfPending DEF LintInv
<1>6. program[f] = disk[f].text
  <2>1. program[f] = Text(f)
    BY <1>2, <1>5 DEF LintInv, ProgramTrue
  <2>2. QED
    BY <1>3, <2>1 DEF Text
<1>7. /\ \A g \in Files : ~Writing(g) /\ ~Writing(g)' /\ ContentOf(g)' = disk[g] /\ ContentOf(g) = disk[g]
      /\ \A g \in Files : Text(g)' = Text(g)
      /\ (Several <=> Several') /\ \A g : Safe(g) <=> Safe(g)'
  BY <1>2, <1>3, <1>4, <1>6 DEF Writing, ContentOf, Text, Several, Safe
<1>8. \A g \in Files : OnAgenda(g)' => OnAgenda(g)
  <2>1. \A n \in DOMAIN Tail(pending) : n + 1 \in DOMAIN pending /\ Tail(pending)[n] = pending[n + 1]
    BY <1>2, RestOfPending DEF LintInv
  <2>2. QED
    BY <1>2, <1>3, <1>4, <1>5, <2>1 DEF OnAgenda
<1>9. HostTypes'
  BY <1>2, <1>3 DEF HostInv, HostTypes
<1>10. ProcessorsTrue'
  BY <1>2, <1>7 DEF HostInv, ProcessorsTrue
<1>11. AgendaTrue'
  BY <1>2, <1>7, <1>8 DEF HostInv, AgendaTrue
<1>12. OnAgenda(f)
  BY <1>2, <1>5 DEF OnAgenda
<1>13. processed[f] # Undefined <=> f \in Processed
  BY <1>12 DEF HostInv, AgendaTrue, ProcessorsTrue
<1>14. ContentTrue'
  BY <1>2, <1>4, <1>13 DEF ContentTrue, Original
<1>15. UndamagedTrue'
  <2>1. ASSUME pc' = "fix", Safe(f)
        PROVE  Fitting'
    <3>1. StartCached(f)
      BY <2>1 DEF StartFile
    <3>2. PICK frame \in (IF f \in Processed THEN Frames ELSE {disk[f].frame}), view \in {Undefined, known} :
            Start(f, [text |-> known[f], at |-> [frame |-> frame, text |-> known[f]], view |-> view])
      BY <3>1 DEF StartCached
    <3>3. options.cache /\ f \notin Processed
      BY <2>1, <3>1 DEF StartCached, Safe
    <3>4. job'.findings = [text |-> known[f], at |-> [frame |-> disk[f].frame, text |-> known[f]], view |-> view]
      BY <3>2, <3>3 DEF Start
    <3>5. known = NewProgram(Roots)
      BY <1>2, <1>3, <3>3 DEF LintInv, KnownTrue
    <3>6. known[f] = disk[f].text
      <4>1. f \in Loaded(Roots)
        BY <1>2, <1>5, AgendaIsLoaded
      <4>2. known[f] = Text(f)
        BY <3>5, <4>1, NewProgramTexts DEF LintInv
      <4>3. QED
        BY <1>3, <4>2 DEF Text
    <3>7. Original(f) = [frame |-> disk[f].frame, text |-> disk[f].text]
      BY <1>6, <1>13, <3>3 DEF Original
    <3>8. job'.findings.text = known[f] /\ job'.findings.at = [frame |-> disk[f].frame, text |-> known[f]]
      BY <3>4
    <3>9. QED
      BY <1>4, <3>6, <3>7, <3>8 DEF Fitting
  <2>2. QED
    BY <1>2, <1>4, <1>7, <2>1 DEF HostInv, UndamagedTrue
<1>16. QED
  BY <1>9, <1>10, <1>11, <1>14, <1>15 DEF HostInv

\* The processor maps findings to the content they are applied to, unless they come from another project.
LEMMA LintKeepsHost ==
    ASSUME LintInv, LintInv', HostInv, Lint
    PROVE  HostInv'
<1>1. PICK typed \in BOOLEAN :
        /\ IF typed THEN GetProgram ELSE UNCHANGED <<program, invalidated, sources, processed>>
        /\ job' = [job EXCEPT !.findings =
             [text |-> job.source, at |-> Origin, view |-> IF typed THEN program' ELSE Undefined]]
  BY DEF Lint
<1>2. /\ pc = "lint" /\ pc' \in {"fix", "finish"}
      /\ UNCHANGED <<projects, options, disk, current, previous, pending>>
  BY DEF Lint
<1>3. AtWork /\ AtWork' /\ job \in Jobs
  BY <1>2 DEF AtWork, LintInv, JobTypes
<1>4. /\ job'.file = job.file /\ job'.source = job.source /\ job'.content = job.content /\ job'.updated = job.updated
      /\ job'.findings.text = job.source /\ job'.findings.at = Origin
  BY <1>1, <1>3 DEF Jobs
<1>5. job.file \in Files /\ job.content \in Contents
  BY <1>3 DEF Jobs
<1>6. HostKept
  <2>1. GetProgram \/ UNCHANGED host
    BY <1>1 DEF host
  <2>2. QED
    BY <1>3, <2>1, GetProgramKeepsHost
<1>7. /\ \A f \in Files : (Writing(f) <=> Writing(f)') /\ ContentOf(f)' = ContentOf(f) /\ Text(f)' = Text(f)
      /\ (Several <=> Several') /\ (\A f : Safe(f) <=> Safe(f)') /\ \A f \in Files : OnAgenda(f)' <=> OnAgenda(f)
  BY <1>2, <1>3, <1>4 DEF Writing, ContentOf, Text, Several, Safe, OnAgenda
<1>8. HostTypes'
  <2>1. current # 0
    BY <1>2 DEF LintInv, Types
  <2>2. QED
    BY <1>2, <1>3, <2>1 DEF HostInv, HostTypes
<1>9. ProcessorsTrue'
  BY <1>6, <1>7 DEF HostKept, ProcessorsTrue
<1>10. AgendaTrue'
  BY <1>2, <1>6, <1>7 DEF HostInv, HostKept, AgendaTrue
<1>11. OnAgenda(job.file)
  BY <1>3 DEF OnAgenda
<1>12. ContentTrue'
  BY <1>2, <1>3, <1>4, <1>5, <1>6, <1>11 DEF HostInv, HostKept, ContentTrue
<1>13. ASSUME Safe(job.file)
       PROVE  Fitting'
  <2>1. job.updated => job.content.text = job.source
    BY <1>3 DEF LintInv, TextsTrue
  <2>2. ~job.updated => job.source = disk[job.file].text
    BY <1>3 DEF LintInv, TextsTrue
  <2>3. CASE job.file \notin Processed
    <3>1. job.content.text = job.source
      BY <1>3, <2>1, <2>3 DEF HostInv, ContentTrue
    <3>2. processed'[job.file] = Undefined
      BY <1>5, <1>6, <2>3 DEF HostKept
    <3>3. Origin = job.content
      BY <1>5, <3>1, <3>2, SameContent DEF Origin
    <3>4. QED
      BY <1>4, <3>1, <3>3 DEF Fitting
  <2>4. CASE job.file \in Processed
    <3>1. ~Several
      BY <1>13, <2>4 DEF Safe
    <3>2. processed'[job.file] # Undefined /\ processed'[job.file].source = ContentOf(job.file)
      BY <1>5, <1>6, <1>11, <2>4, <3>1 DEF HostKept
    <3>3. Origin = ContentOf(job.file)
      BY <3>2 DEF Origin
    <3>4. CASE job.updated
      BY <1>3, <1>4, <2>1, <3>3, <3>4 DEF Fitting, ContentOf, Writing
    <3>5. CASE ~job.updated
      <4>1. job.content = disk[job.file]
        BY <1>3, <1>5, <1>11, <2>4, <3>1, <3>5 DEF HostInv, ContentTrue, AgendaTrue
      <4>2. QED
        BY <1>4, <2>2, <3>3, <3>5, <4>1 DEF Fitting, ContentOf, Writing
    <3>6. QED
      BY <3>4, <3>5
  <2>5. QED
    BY <2>3, <2>4
<1>14. UndamagedTrue'
  BY <1>2, <1>4, <1>7, <1>13 DEF HostInv, UndamagedTrue
<1>15. QED
  BY <1>8, <1>9, <1>10, <1>12, <1>14 DEF HostInv

\* Fixes that fit do not damage the file, and the processor gets the fixed content.
LEMMA AcceptKeepsHost ==
    ASSUME LintInv, LintInv', HostInv, Accept
    PROVE  HostInv'
<1>1. PICK text \in Fixed \cap Valid :
        /\ sources' = [sources EXCEPT ![job.file] = text]
        /\ UpdateProcessor(WithText(job.content, text))
        /\ job' = [job EXCEPT !.source = text, !.content = WithText(job.content, text),
                              !.round = @ + 1, !.updated = TRUE]
  BY DEF Accept
<1>2. /\ pc = "fix" /\ pc' = "lint"
      /\ UNCHANGED <<projects, options, disk, current, previous, pending>>
  BY DEF Accept
<1>3. AtWork /\ AtWork' /\ job \in Jobs /\ job.findings \in Findings
  BY <1>2 DEF AtWork, LintInv, JobTypes
<1>4. text \in Texts /\ text # Undefined
  BY <1>1, TextsAssumption, UndefinedAssumption
<1>5. /\ job'.file = job.file /\ job'.source = text /\ job'.updated
      /\ job'.content = WithText(job.content, text)
      /\ job.file \in Files
  <2> DEFINE content == WithText(job.content, text)
             next    == [job EXCEPT !.source = text, !.content = content, !.round = @ + 1, !.updated = TRUE]
  <2>1. job' = next
    BY <1>1
  <2> HIDE DEF content
  <2>2. next.file = job.file /\ next.source = text /\ next.updated /\ next.content = content /\ job.file \in Files
    BY <1>3 DEF Jobs
  <2> HIDE DEF next
  <2>3. QED
    BY <2>1, <2>2 DEF content
<1>6. /\ sources'[job.file] = text
      /\ \A f \in Files : f # job.file => sources'[f] = sources[f]
  BY <1>1, <1>5 DEF LintInv, Types, Programs
<1>7. /\ \A f \in Files : f # job.file => processed'[f] = processed[f]
      /\ processed[job.file] = Undefined => processed'[job.file] = Undefined
      /\ processed[job.file] # Undefined => /\ processed'[job.file] # Undefined
                                            /\ processed'[job.file].source = job'.content
                                            /\ processed'[job.file].original = processed[job.file].original
  <2>1. CASE processed[job.file] = Undefined
    BY <1>1, <2>1 DEF UpdateProcessor
  <2>2. CASE processed[job.file] # Undefined
    <3>1. processed' = [processed EXCEPT ![job.file].source = job'.content]
      BY <1>1, <1>5, <2>2 DEF UpdateProcessor
    <3>2. processed \in [Files -> {Undefined} \union ProcessedFiles]
      BY DEF LintInv, Types
    <3>3. processed[job.file] \in ProcessedFiles
      BY <1>5, <2>2, <3>2
    <3>4. \A f \in Files : f # job.file => processed'[f] = processed[f]
      BY <3>1, <3>2
    <3>5. processed'[job.file] = [processed[job.file] EXCEPT !.source = job'.content]
      BY <1>5, <3>1, <3>2
    <3>6. /\ processed'[job.file].source = job'.content
          /\ processed'[job.file].original = processed[job.file].original
      BY <3>3, <3>5 DEF ProcessedFiles
    <3>7. processed'[job.file] # Undefined
      <4>1. job'.content \in Contents
        BY <1>3 DEF LintInv, JobTypes, Jobs
      <4>2. processed'[job.file] \in ProcessedFiles
        BY <3>3, <3>5, <4>1 DEF ProcessedFiles
      <4>3. QED
        BY <4>2, UndefinedAssumption
    <3>8. QED
      BY <2>2, <3>4, <3>6, <3>7
  <2>3. QED
    BY <2>1, <2>2
<1>8. /\ \A f \in Files : f # job.file =>
           (Writing(f) <=> Writing(f)') /\ ContentOf(f)' = ContentOf(f) /\ Text(f)' = Text(f)
      /\ \A f \in Files : f = job.file =>
           Writing(f)' /\ ContentOf(f)' = job'.content /\ Text(f)' = text /\ Text(f) = job.source
      /\ (Several <=> Several') /\ (\A f : Safe(f) <=> Safe(f)') /\ \A f \in Files : OnAgenda(f)' <=> OnAgenda(f)
  BY <1>2, <1>3, <1>5 DEF Writing, ContentOf, Text, Several, Safe, OnAgenda
<1>9. HostTypes'
  <2>1. current # 0
    BY <1>2 DEF LintInv, Types
  <2>2. QED
    BY <1>2, <1>3, <2>1 DEF HostInv, HostTypes
<1>10. OnAgenda(job.file) /\ sources[job.file] # Undefined
  BY <1>3, <1>5 DEF OnAgenda, HostInv, AgendaTrue
<1>11. ProcessorsTrue'
  <2> SUFFICES ASSUME NEW f \in Files
               PROVE  /\ processed'[f] # Undefined <=> f \in Processed /\ sources'[f] # Undefined
                      /\ processed'[f] # Undefined =>
                           \/ processed'[f].source = ContentOf(f)'
                           \/ Several' /\ ~Writing(f)' /\ processed'[f].source = processed'[f].original
    BY DEF ProcessorsTrue
  <2>1. CASE f # job.file
    BY <1>6, <1>7, <1>8, <2>1 DEF HostInv, ProcessorsTrue
  <2>2. CASE f = job.file
    <3>1. processed[f] # Undefined <=> f \in Processed
      BY <1>10, <2>2 DEF HostInv, ProcessorsTrue
    <3>2. QED
      BY <1>4, <1>6, <1>7, <1>8, <2>2, <3>1
  <2>3. QED
    BY <2>1, <2>2
<1>12. AgendaTrue'
  <2> SUFFICES ASSUME NEW f \in Files, OnAgenda(f)
               PROVE  /\ sources'[f] # Undefined
                      /\ ~Several /\ f \in Processed => processed'[f].original = disk[f]
    BY <1>2, <1>8 DEF AgendaTrue
  <2>1. sources[f] # Undefined /\ (~Several /\ f \in Processed => processed[f].original = disk[f])
    BY DEF HostInv, AgendaTrue
  <2>2. f \in Processed => processed[f] # Undefined
    BY <2>1 DEF HostInv, ProcessorsTrue
  <2>3. QED
    BY <1>4, <1>6, <1>7, <2>1, <2>2
<1>13. ContentTrue'
  BY <1>5 DEF ContentTrue
<1>14. ASSUME Safe(job.file)
       PROVE  text \notin Damaged
  <2>1. Fitting
    BY <1>2, <1>14 DEF HostInv, UndamagedTrue
  <2>2. text \in FixesOf[job.findings.text]
    BY <1>1, <2>1 DEF Fixed
  <2>3. job.findings.text = job.source /\ job.source \in Texts
    BY <1>2, <1>3 DEF LintInv, FindingsTrue, Jobs
  <2>4. job.source \notin Damaged
    BY <1>5, <1>8, <1>14 DEF HostInv, UndamagedTrue
  <2>5. QED
    BY <2>2, <2>3, <2>4, TextsAssumption
<1>15. UndamagedTrue'
  <2>1. pc' # "fix" /\ disk' = disk
    BY <1>2
  <2>2. \A f \in Files : Safe(f)' => Text(f)' \notin Damaged /\ disk[f].text \notin Damaged
    BY <1>8, <1>14 DEF HostInv, UndamagedTrue
  <2>3. QED
    BY <2>1, <2>2 DEF UndamagedTrue
<1>16. QED
  BY <1>9, <1>11, <1>12, <1>13, <1>15 DEF HostInv

\* The processor gets the content back that the file has, or had in an earlier project.
LEMMA RejectKeepsHost ==
    ASSUME LintInv, LintInv', HostInv, Reject
    PROVE  HostInv'
<1>1. /\ pc = "fix" /\ pc' = "finish"
      /\ sources' = [sources EXCEPT ![job.file] = job.source]
      /\ UpdateProcessor(job.content)
      /\ UNCHANGED <<projects, options, disk, current, previous, pending, job>>
  BY DEF Reject
<1>2. AtWork /\ AtWork' /\ job.file \in Files /\ job.source # Undefined /\ job.content \in Contents
  BY <1>1, UndefinedAssumption DEF AtWork, LintInv, JobTypes, Jobs
<1>3. /\ sources'[job.file] = job.source
      /\ \A f \in Files : f # job.file => sources'[f] = sources[f]
  BY <1>1, <1>2 DEF LintInv, Types, Programs
<1>4. /\ \A f \in Files : f # job.file => processed'[f] = processed[f]
      /\ processed[job.file] = Undefined => processed'[job.file] = Undefined
      /\ processed[job.file] # Undefined => /\ processed'[job.file] # Undefined
                                            /\ processed'[job.file].source = job.content
                                            /\ processed'[job.file].original = processed[job.file].original
  <2>1. CASE processed[job.file] = Undefined
    BY <1>1, <2>1 DEF UpdateProcessor
  <2>2. CASE processed[job.file] # Undefined
    <3>1. processed' = [processed EXCEPT ![job.file].source = job.content]
      BY <1>1, <2>2 DEF UpdateProcessor
    <3>2. processed \in [Files -> {Undefined} \union ProcessedFiles]
      BY DEF LintInv, Types
    <3>3. processed[job.file] \in ProcessedFiles
      BY <1>2, <2>2, <3>2
    <3>4. \A f \in Files : f # job.file => processed'[f] = processed[f]
      BY <3>1, <3>2
    <3>5. processed'[job.file] = [processed[job.file] EXCEPT !.source = job.content]
      BY <1>2, <3>1, <3>2
    <3>6. /\ processed'[job.file] \in ProcessedFiles
          /\ processed'[job.file].source = job.content
          /\ processed'[job.file].original = processed[job.file].original
      BY <1>2, <3>3, <3>5 DEF ProcessedFiles
    <3>7. QED
      BY <2>2, <3>4, <3>6, UndefinedAssumption
  <2>3. QED
    BY <2>1, <2>2
<1>5. /\ \A f \in Files : (Writing(f) <=> Writing(f)') /\ ContentOf(f)' = ContentOf(f) /\ Text(f)' = Text(f)
      /\ (Several <=> Several') /\ (\A f : Safe(f) <=> Safe(f)') /\ \A f \in Files : OnAgenda(f)' <=> OnAgenda(f)
  BY <1>1, <1>2 DEF Writing, ContentOf, Text, Several, Safe, OnAgenda
<1>6. HostTypes'
  <2>1. current # 0
    BY <1>1 DEF LintInv, Types
  <2>2. QED
    BY <1>1, <1>2, <2>1 DEF HostInv, HostTypes
<1>7. OnAgenda(job.file) /\ sources[job.file] # Undefined
  BY <1>2 DEF OnAgenda, HostInv, AgendaTrue
<1>8. processed[job.file] # Undefined <=> job.file \in Processed
  BY <1>2, <1>7 DEF HostInv, ProcessorsTrue
<1>9. processed[job.file] # Undefined =>
        \/ processed'[job.file].source = ContentOf(job.file)
        \/ Several /\ ~Writing(job.file) /\ processed'[job.file].source = processed'[job.file].original
  <2>1. CASE job.updated
    BY <1>2, <1>4, <2>1 DEF ContentOf, Writing
  <2>2. CASE ~job.updated
    <3>1. processed[job.file] # Undefined => job.content = processed[job.file].original
      BY <1>2, <1>8, <2>2 DEF HostInv, ContentTrue
    <3>2. processed[job.file] # Undefined /\ ~Several => processed[job.file].original = disk[job.file]
      BY <1>2, <1>7, <1>8 DEF HostInv, AgendaTrue
    <3>3. QED
      BY <1>4, <2>2, <3>1, <3>2 DEF ContentOf, Writing
  <2>3. QED
    BY <2>1, <2>2
<1>10. ProcessorsTrue'
  <2> SUFFICES ASSUME NEW f \in Files
               PROVE  /\ processed'[f] # Undefined <=> f \in Processed /\ sources'[f] # Undefined
                      /\ processed'[f] # Undefined =>
                           \/ processed'[f].source = ContentOf(f)
                           \/ Several /\ ~Writing(f) /\ processed'[f].source = processed'[f].original
    BY <1>5 DEF ProcessorsTrue
  <2>1. CASE f # job.file
    BY <1>3, <1>4, <2>1 DEF HostInv, ProcessorsTrue
  <2>2. CASE f = job.file
    BY <1>2, <1>3, <1>4, <1>8, <1>9, <2>2
  <2>3. QED
    BY <2>1, <2>2
<1>11. AgendaTrue'
  <2> SUFFICES ASSUME NEW f \in Files, OnAgenda(f)
               PROVE  /\ sources'[f] # Undefined
                      /\ ~Several /\ f \in Processed => processed'[f].original = disk[f]
    BY <1>1, <1>5 DEF AgendaTrue
  <2>1. sources[f] # Undefined /\ (~Several /\ f \in Processed => processed[f].original = disk[f])
    BY DEF HostInv, AgendaTrue
  <2>2. QED
    BY <1>2, <1>3, <1>4, <1>8, <2>1
<1>12. ContentTrue'
  BY <1>1, <1>2, <1>4, <1>8 DEF HostInv, ContentTrue
<1>13. UndamagedTrue'
  BY <1>1, <1>5 DEF HostInv, UndamagedTrue
<1>14. QED
  BY <1>6, <1>10, <1>11, <1>12, <1>13 DEF HostInv

\* The file on disk gets the content its processor has.
LEMMA FinishKeepsHost ==
    ASSUME LintInv, LintInv', HostInv, Finish
    PROVE  HostInv'
<1>1. /\ pc = "finish" /\ pc' = "next" /\ job' = Undefined
      /\ disk' = IF job.updated THEN [disk EXCEPT ![job.file] = job.content] ELSE disk
      /\ UNCHANGED <<projects, options, current, previous, pending>>
  BY DEF Finish
<1>2. AtWork /\ ~AtWork' /\ job.file \in Files
  BY <1>1 DEF AtWork, LintInv, JobTypes, Jobs
<1>3. HostKept
  <2>1. GetProgram \/ UNCHANGED host
    BY DEF Finish, host
  <2>2. QED
    BY <1>2, <2>1, GetProgramKeepsHost
<1>4. \A f \in Files : disk'[f] = ContentOf(f)
  BY <1>1, <1>2 DEF ContentOf, Writing, LintInv, Types
<1>5. \A f \in Files : ~Writing(f)' /\ ContentOf(f)' = ContentOf(f) /\ Text(f)' = disk'[f].text
  BY <1>2, <1>4 DEF Writing, ContentOf, Text
<1>6. \A f \in Files : ContentOf(f).text = Text(f)
  BY <1>2 DEF ContentOf, Writing, Text, LintInv, TextsTrue
<1>7. (Several <=> Several') /\ (\A f : Safe(f) <=> Safe(f)')
  BY <1>1 DEF Several, Safe
<1>8. ASSUME NEW f \in Files, OnAgenda(f)'
      PROVE  OnAgenda(f) /\ f # job.file /\ disk'[f] = disk[f]
  <2>1. pc # "open" /\ \A n \in DOMAIN pending : pending[n] # job.file
    BY <1>2, AgendaIsLoaded DEF AtWork
  <2>2. OnAgenda(f) /\ f # job.file
    BY <1>1, <1>2, <1>8, <2>1 DEF OnAgenda
  <2>3. QED
    BY <1>1, <2>2 DEF LintInv, Types
<1>9. HostTypes'
  <2>1. current # 0
    BY <1>1 DEF LintInv, Types
  <2>2. QED
    BY <1>1, <2>1 DEF HostInv, HostTypes
<1>10. ProcessorsTrue'
  <2> SUFFICES ASSUME NEW f \in Files
               PROVE  /\ processed'[f] # Undefined <=> f \in Processed /\ sources'[f] # Undefined
                      /\ processed'[f] # Undefined =>
                           \/ processed'[f].source = ContentOf(f)
                           \/ Several /\ processed'[f].source = processed'[f].original
    BY <1>5, <1>7 DEF ProcessorsTrue
  <2>1. QED
    BY <1>3 DEF HostKept
<1>11. AgendaTrue'
  <2> SUFFICES ASSUME NEW f \in Files, OnAgenda(f)'
               PROVE  /\ sources'[f] # Undefined
                      /\ ~Several /\ f \in Processed => processed'[f].original = disk'[f]
    BY <1>7 DEF AgendaTrue
  <2>1. OnAgenda(f) /\ disk'[f] = disk[f]
    BY <1>8
  <2>2. QED
    BY <1>3, <2>1 DEF HostInv, HostKept, AgendaTrue
<1>12. ContentTrue' /\ UndamagedTrue'
  BY <1>1, <1>2, <1>4, <1>5, <1>6, <1>7 DEF HostInv, ContentTrue, UndamagedTrue
<1>13. QED
  BY <1>9, <1>10, <1>11, <1>12 DEF HostInv

\* Before the first project the host has nothing.
LEMMA HostInitially == LintInit => HostInv
<1> SUFFICES ASSUME LintInit
             PROVE  HostInv
  OBVIOUS
<1>1. /\ \A f \in Files : sources[f] = Undefined /\ processed[f] = Undefined
      /\ previous = {} /\ pending = <<>> /\ pc = "open" /\ job = Undefined
  BY DEF LintInit, NoProgram
<1>2. ~AtWork /\ \A f \in Files : ~OnAgenda(f) /\ Text(f) = disk[f].text
  BY <1>1 DEF AtWork, OnAgenda, Text
<1>3. \A f \in Files : disk[f].text \notin Damaged
  <2>1. PICK texts \in Disks : disk = [f \in Files |-> [frame |-> CHOOSE x \in Frames : TRUE, text |-> texts[f]]]
    BY DEF LintInit
  <2>2. texts \in [Files -> Texts \ Damaged]
    BY TextsAssumption
  <2>3. QED
    BY <2>1, <2>2
<1>4. QED
  BY <1>1, <1>2, <1>3 DEF HostInv, HostTypes, ProcessorsTrue, AgendaTrue, ContentTrue, UndamagedTrue

\* Every step of linting keeps the copies of the host in sync.
LEMMA HostStep == LintInv /\ LintInv' /\ HostInv /\ [LintNext]_lintVars => HostInv'
<1> SUFFICES ASSUME LintInv, LintInv', HostInv, [LintNext]_lintVars
             PROVE  HostInv'
  OBVIOUS
<1>1. CASE OpenProject
  BY <1>1, OpenProjectKeepsHost
<1>2. CASE CloseProject \/ SkipFile \/ NoFixes \/ UNCHANGED lintVars
  BY <1>2, IdleKeepsHost
<1>3. ASSUME NEW f \in Files, StartFile(f) \/ StartCached(f)
      PROVE  HostInv'
  BY <1>3, StartKeepsHost
<1>4. CASE Lint
  BY <1>4, LintKeepsHost
<1>5. CASE Accept
  BY <1>5, AcceptKeepsHost
<1>6. CASE Reject
  BY <1>6, RejectKeepsHost
<1>7. CASE Finish
  BY <1>7, FinishKeepsHost
<1>8. QED
  BY <1>1, <1>2, <1>3, <1>4, <1>5, <1>6, <1>7 DEF LintNext

\* The files that are left have the texts they have in the program.
LEMMA AgendaInProgram == LintInv => NeverMissing
<1> SUFFICES ASSUME LintInv, NEW n \in DOMAIN pending
             PROVE  program[pending[n]] # Undefined
  BY DEF NeverMissing
<1>1. pc # "open" /\ pending[n] \in Files
  BY DEF LintInv, Types
<1>2. program[pending[n]] = Text(pending[n])
  BY <1>1 DEF LintInv, ProgramTrue
<1>3. QED
  BY <1>1, <1>2, TextOfIsText DEF LintInv, SeesTexts

\* What the runner, the host and the disk have agrees because both invariants hold.
LEMMA InSync == LintInv /\ HostInv => HostInSync
<1> SUFFICES ASSUME LintInv, HostInv
             PROVE  HostInSync
  OBVIOUS
<1>1. LintTypeOK
  <2>1. pc \in {"open", "next"} => job = Undefined
    BY DEF HostInv, HostTypes, AtWork
  <2>2. ASSUME AtWork
        PROVE  job.source \in Texts /\ job.content \in Contents /\ job.round \in 0..options.iterations
    BY <2>2, ProjectsAssumption DEF LintInv, Types, JobTypes, Jobs
  <2>3. pc \in {"fix", "finish"} => job.findings.text \in Texts /\ job.findings.at \in Contents
    BY DEF LintInv, JobTypes, Findings
  <2>4. QED
    BY <2>1, <2>2, <2>3 DEF LintTypeOK, LintInv, Types, HostInv, HostTypes, AtWork
<1>2. CachesInSync
  <2> SUFFICES ASSUME pc \in {"next", "open"}, NEW f \in Files
               PROVE  /\ sources[f] # Undefined => sources[f] = disk[f].text
                      /\ processed[f] # Undefined =>
                           \/ processed[f].source = disk[f]
                           \/ Len(projects) > 1 /\ processed[f].source = processed[f].original
    BY DEF CachesInSync
  <2>1. ~AtWork
    BY DEF AtWork
  <2>2. Text(f) = disk[f].text /\ ContentOf(f) = disk[f]
    BY <2>1 DEF Text, ContentOf, Writing
  <2>3. QED
    BY <2>2 DEF LintInv, TextsTrue, HostInv, ProcessorsTrue, Several
<1>3. NeverDamaged
  <2> SUFFICES ASSUME NEW f \in Files, disk[f].text \in Damaged
               PROVE  f \in Processed /\ (options.cache \/ Len(projects) > 1)
    BY DEF NeverDamaged
  <2> QED
    BY DEF HostInv, UndamagedTrue, Safe, Several
<1>4. NeverMissing
  BY AgendaInProgram
<1>5. QED
  BY <1>1, <1>2, <1>3, <1>4 DEF HostInSync

\* The source files and processors of the host agree with the disk between files, and fixes are never applied at wrong
\* positions, except for those of processed files that were cached or belong to several projects.
THEOREM HostStaysInSync == LintSpec => []HostInSync
<1>1. LintSpec => []HostInv
  BY LintInvariance, HostInitially, HostStep, PTL DEF LintSpec
<1>2. QED
  BY <1>1, LintInvariance, InSync, PTL

-----------------------------------------------------------------------------
(* What follows from it                                                    *)

\* The one that is linted is part of the program.
LEMMA FindingsCurrentHolds == LintInv => FindingsCurrent
<1> SUFFICES ASSUME LintInv, pc \in {"fix", "finish"}
             PROVE  /\ job.findings.text = job.source
                    /\ job.findings.view # Undefined =>
                         /\ job.findings.view[job.file] = job.source
                         /\ \A f \in Files : job.findings.view[f] \in {Undefined, TextOf(f)}
  BY DEF FindingsCurrent
<1>1. AtWork /\ pc # "open" /\ job.file \in Files
  BY DEF AtWork, LintInv, JobTypes, Jobs
<1>2. job.findings.text = job.source /\ job.findings.view \in {Undefined, NewProgram(Roots)}
  BY DEF LintInv, FindingsTrue
<1>3. job.file \in Loaded(Roots)
  BY <1>1, AgendaIsLoaded
<1>4. NewProgram(Roots)[job.file] = job.source
  BY <1>1, <1>3, NewProgramTexts DEF LintInv, Text
<1>5. \A f \in Files : NewProgram(Roots)[f] \in {Undefined, TextOf(f)}
  BY NewProgramTexts, TextOfIsText DEF LintInv, SeesTexts
<1>6. QED
  BY <1>2, <1>4, <1>5

\* A file that is still to be linted is part of the program although fixes remove imports (the ! in runner.ts:118).
THEOREM NoFileIsMissing == LintSpec => []NeverMissing
BY LintInvariance, AgendaInProgram, PTL

\* Findings that are fixed, returned or cached belong to the text they are fixed in and returned with, and rules that
\* use types saw the current text of all files.
THEOREM FindingsAreCurrent == LintSpec => []FindingsCurrent
BY LintInvariance, FindingsCurrentHolds, PTL

\* What is passed to the lint cache fits the program it is told about.
LEMMA FinishFits ==
    ASSUME LintInv, [LintNext]_lintVars
    PROVE  /\ stored' # stored /\ pc = "finish" =>
                LET x == stored'[job.file] IN x.text = known'[job.file] /\ x.view \in {Undefined, known'}
           /\ pc = "finish" => \A f \in Files \ {job.file} :
                known'[f] = known[f] \/ Undefined \in {known[f], known'[f]}
           /\ \A f \in Files : disk'[f] # disk[f] => disk[f].text \in Valid /\ disk'[f].text \in Valid
<1>1. CASE Finish
  <2>1. /\ pc = "finish"
        /\ IF options.cache /\ job.updated THEN GetProgram /\ known' = program'
           ELSE UNCHANGED <<program, invalidated, sources, processed, known>>
        /\ stored' = IF options.cache /\ (~job.cached \/ job.updated)
                     THEN [stored EXCEPT ![job.file] = job.findings] ELSE stored
        /\ disk' = IF job.updated THEN [disk EXCEPT ![job.file] = job.content] ELSE disk
        /\ UNCHANGED <<imports, projects, options, current, previous, pending>>
    BY <1>1 DEF Finish
  <2>2. AtWork /\ pc # "open" /\ job.file \in Files
    BY <2>1 DEF AtWork, LintInv, JobTypes, Jobs
  <2>3. options.cache => known' = NewProgram(Roots)
    BY <2>1, <2>2, GetProgramUpdates DEF LintInv, KnownTrue
  <2>4. /\ NewProgram(Roots)[job.file] = job.source
        /\ \A f \in Files : NewProgram(Roots)[f] \in {Undefined, Text(f)}
    BY <2>2, AgendaIsLoaded, NewProgramTexts DEF LintInv, Text
  <2>5. job.findings.text = job.source /\ job.findings.view \in {Undefined, NewProgram(Roots)}
    BY <2>1 DEF LintInv, FindingsTrue
  <2>6. stored' # stored => options.cache /\ stored'[job.file] = job.findings
    BY <2>1, <2>2 DEF LintInv, Types
  <2>7. \A f \in Files \ {job.file} : known'[f] = known[f] \/ Undefined \in {known[f], known'[f]}
    <3>1. CASE options.cache
      BY <2>2, <2>3, <2>4, <3>1 DEF LintInv, KnownTrue
    <3>2. CASE ~options.cache
      BY <2>1, <3>2
    <3>3. QED
      BY <3>1, <3>2
  <2>8. ASSUME NEW f \in Files, disk'[f] # disk[f]
        PROVE  disk[f].text \in Valid /\ disk'[f].text \in Valid
    <3>1. job.updated /\ f = job.file /\ disk'[f] = job.content
      BY <2>1, <2>8 DEF LintInv, Types
    <3>2. QED
      BY <2>2, <3>1 DEF LintInv, TextsTrue
  <2>9. QED
    BY <2>3, <2>4, <2>5, <2>6, <2>7, <2>8
<1>2. CASE ~Finish
  <2>1. (UNCHANGED disk /\ pc # "finish") \/ UNCHANGED <<disk, stored, known>>
    BY <1>2 DEF LintNext, lintVars, OpenProject, CloseProject, SkipFile, StartFile, StartCached, Start, Lint, NoFixes,
                Accept, Reject
  <2>2. QED
    BY <2>1
<1>3. QED
  BY <1>1, <1>2

\* What is passed to the lint cache was computed from the program it is told about, of which nothing but the fixed file
\* changed. Only files without syntax errors are written, and they have none afterwards.
THEOREM ResultsFit == LintSpec => ResultsFitProgram
<1>1. /\ LintInv /\ [LintNext]_lintVars =>
           [stored' # stored /\ pc = "finish" =>
              LET x == stored'[job.file] IN x.text = known'[job.file] /\ x.view \in {Undefined, known'}]_lintVars
      /\ LintInv /\ [LintNext]_lintVars =>
           [pc = "finish" => \A f \in Files \ {job.file} :
              known'[f] = known[f] \/ Undefined \in {known[f], known'[f]}]_lintVars
      /\ LintInv /\ [LintNext]_lintVars =>
           [\A f \in Files : disk'[f] # disk[f] => disk[f].text \in Valid /\ disk'[f].text \in Valid]_lintVars
  BY FinishFits
<1>2. QED
  BY <1>1, LintInvariance, PTL DEF LintSpec, ResultsFitProgram

\* Every step leaves less to do.
LEMMA LessToDo ==
    ASSUME LintInv, LintNext
    PROVE  LeavesLess
<1> DEFINE left(n) == Remaining'[n] \in 0..Remaining[n] - 1
           same(n) == Remaining'[n] = Remaining[n]
<1>1. SUFFICES \/ left(1)
               \/ same(1) /\ left(2)
               \/ same(1) /\ same(2) /\ left(3)
               \/ same(1) /\ same(2) /\ same(3) /\ left(4)
  <2>1. left(1) => \A m \in 1..1 - 1 : same(m)
    OBVIOUS
  <2>2. same(1) => \A m \in 1..2 - 1 : same(m)
    OBVIOUS
  <2>3. same(1) /\ same(2) => \A m \in 1..3 - 1 : same(m)
    OBVIOUS
  <2>4. same(1) /\ same(2) /\ same(3) => \A m \in 1..4 - 1 : same(m)
    OBVIOUS
  <2> HIDE DEF left, same
  <2>5. \E n \in 1..4 : left(n) /\ \A m \in 1..n - 1 : same(m)
    BY <1>1, <2>1, <2>2, <2>3, <2>4
  <2>6. QED
    BY <2>5 DEF left, same, LeavesLess
<1>2. /\ Remaining[1] = Len(projects) - current
      /\ Remaining[2] = Len(pending)
      /\ pc \in {"open", "next"} => Remaining[3] = 0
      /\ AtWork => Remaining[3] = options.iterations - job.round
      /\ pc = "open" => Remaining[4] = 1
      /\ pc = "next" => Remaining[4] = 2
      /\ pc = "finish" => Remaining[4] = 3
      /\ pc = "fix" => Remaining[4] = 4
      /\ pc = "lint" => Remaining[4] = 5
  BY DEF Remaining, AtWork
<1>3. /\ Remaining'[1] = Len(projects') - current'
      /\ Remaining'[2] = Len(pending')
      /\ pc' \in {"open", "next"} => Remaining'[3] = 0
      /\ AtWork' => Remaining'[3] = options'.iterations - job'.round
      /\ pc' = "open" => Remaining'[4] = 1
      /\ pc' = "next" => Remaining'[4] = 2
      /\ pc' = "finish" => Remaining'[4] = 3
      /\ pc' = "fix" => Remaining'[4] = 4
      /\ pc' = "lint" => Remaining'[4] = 5
  BY DEF Remaining, AtWork
<1>4. Len(projects) \in Nat /\ current \in Nat /\ current <= Len(projects) /\ options.iterations \in Nat
  <2> DEFINE R == [roots : SUBSET Files, composite : BOOLEAN]
  <2>1. projects \in Seq(R) /\ options.iterations \in Nat
    BY ProjectsAssumption DEF LintInv, Types
  <2> HIDE DEF R
  <2>2. Len(projects) \in Nat
    BY <2>1
  <2>3. QED
    BY <2>1, <2>2 DEF LintInv, Types
<1>5. AtWork => job.round \in Nat /\ job.round <= options.iterations
  BY DEF LintInv, JobTypes, Jobs
<1>6. pending \in Seq(Files)
  BY DEF LintInv, Types
<1>7. CASE OpenProject
  <2>1. UNCHANGED projects /\ current' = current + 1 /\ current < Len(projects)
    BY <1>7 DEF OpenProject
  <2>2. left(1)
    BY <1>2, <1>3, <1>4, <2>1
  <2>3. QED
    BY <2>2
<1>8. CASE CloseProject
  <2>1. UNCHANGED <<projects, current, pending>> /\ pc = "next" /\ pc' = "open"
    BY <1>8 DEF CloseProject
  <2>2. same(1) /\ same(2) /\ same(3)
    BY <1>2, <1>3, <2>1
  <2>3. left(4)
    BY <1>2, <1>3, <2>1
  <2>4. QED
    BY <2>2, <2>3
<1>9. ASSUME UNCHANGED <<projects, current>>, pending # <<>>, pending' = Tail(pending)
      PROVE  same(1) /\ left(2)
  <2>1. Len(pending') = Len(pending) - 1 /\ Len(pending) \in Nat \ {0}
    BY <1>6, <1>9
  <2>2. QED
    BY <1>2, <1>3, <1>9, <2>1
<1>10. CASE SkipFile
  BY <1>9, <1>10 DEF SkipFile
<1>11. ASSUME NEW f \in Files, NEW found, Start(f, found)
       PROVE  same(1) /\ left(2)
  BY <1>9, <1>11 DEF Start
<1>12. ASSUME NEW f \in Files, StartFile(f) \/ StartCached(f)
       PROVE  same(1) /\ left(2)
  BY <1>11, <1>12 DEF StartFile, StartCached
<1>13. CASE Lint
  <2>1. /\ UNCHANGED <<projects, current, pending, options>> /\ pc = "lint" /\ pc' \in {"fix", "finish"}
        /\ job'.round = job.round
    <3>1. \E x : job' = [job EXCEPT !.findings = x]
      BY <1>13 DEF Lint
    <3>2. job \in Jobs
      BY <1>13 DEF Lint, LintInv, JobTypes, AtWork
    <3>3. QED
      BY <1>13, <3>1, <3>2 DEF Lint, Jobs
  <2>2. AtWork /\ AtWork'
    BY <2>1 DEF AtWork
  <2>3. same(1) /\ same(2) /\ same(3)
    BY <1>2, <1>3, <2>1, <2>2
  <2>4. left(4)
    BY <1>2, <1>3, <2>1
  <2>5. QED
    BY <2>3, <2>4
<1>14. CASE NoFixes \/ Reject
  <2>1. UNCHANGED <<projects, current, pending, options, job>> /\ pc = "fix" /\ pc' = "finish"
    BY <1>14 DEF NoFixes, Reject
  <2>2. AtWork /\ AtWork'
    BY <2>1 DEF AtWork
  <2>3. same(1) /\ same(2) /\ same(3)
    BY <1>2, <1>3, <2>1, <2>2
  <2>4. left(4)
    BY <1>2, <1>3, <2>1
  <2>5. QED
    BY <2>3, <2>4
<1>15. CASE Accept
  <2>1. UNCHANGED <<projects, current, pending, options>> /\ pc = "fix" /\ pc' = "lint"
    BY <1>15 DEF Accept
  <2>2. AtWork /\ AtWork' /\ job \in Jobs
    BY <2>1 DEF AtWork, LintInv, JobTypes
  <2>3. \E x, y : job' = [job EXCEPT !.source = x, !.content = y, !.round = @ + 1, !.updated = TRUE]
    BY <1>15 DEF Accept
  <2>4. job'.round = job.round + 1
    BY <2>2, <2>3 DEF Jobs
  <2>5. job.round < options.iterations
    BY <2>1 DEF LintInv, JobTypes
  <2>6. Remaining[3] = options.iterations - job.round /\ Remaining'[3] = options.iterations - (job.round + 1)
    BY <1>2, <1>3, <2>1, <2>2, <2>4
  <2>7. left(3)
    BY <1>4, <1>5, <2>2, <2>5, <2>6
  <2>8. same(1) /\ same(2)
    BY <1>2, <1>3, <2>1
  <2>9. QED
    BY <2>7, <2>8
<1>16. CASE Finish
  <2>1. UNCHANGED <<projects, current, pending, options>> /\ pc = "finish" /\ pc' = "next"
    BY <1>16 DEF Finish
  <2>2. AtWork
    BY <2>1 DEF AtWork
  <2>3. same(1) /\ same(2) /\ Remaining'[3] = 0 /\ Remaining[3] \in Nat
    BY <1>2, <1>3, <1>4, <1>5, <2>1, <2>2
  <2>4. left(4)
    BY <1>2, <1>3, <2>1
  <2>5. CASE Remaining[3] = 0
    BY <2>3, <2>4, <2>5
  <2>6. CASE Remaining[3] # 0
    BY <2>3, <2>6
  <2>7. QED
    BY <2>5, <2>6
<1>17. QED
  BY <1>7, <1>8, <1>10, <1>12, <1>13, <1>14, <1>15, <1>16 DEF LintNext

\* Linting comes to an end although rules may undo each others fixes: there are fewer projects, files, rounds or steps
\* left after each step.
THEOREM LintingComesToAnEnd == LintSpec => LintingEnds
<1>1. LintInv /\ [LintNext]_lintVars => [LeavesLess]_lintVars
  BY LessToDo
<1>2. QED
  BY <1>1, LintInvariance, PTL DEF LintSpec, LintingEnds

-----------------------------------------------------------------------------
(* The caches agree with the file system                                   *)

\* remove: the real path is only kept if it cannot be known.
LEMMA RemoveEffect ==
    ASSUME NEW p \in Paths, CRemove(p)
    PROVE  realpaths'[p] = None \/ (kinds[p] = "NonExistent" /\ realpaths'[p] = realpaths[p])
BY DEF CRemove, UpdateCache

\* What doCreateDirectory does: made are the new directories, told those the cache knows.
Creates(made, told) ==
    /\ made \subseteq Paths /\ told \subseteq Paths
    /\ \A q \in made : ~Present(q)
    /\ tree' = [q \in Paths |-> IF q \in made THEN [kind |-> "Directory", link |-> FALSE] ELSE tree[q]]
    /\ \A q \in told : tree'[q].kind = "Directory"
    /\ unseen' = unseen \union (made \ told)
    /\ kinds' = [q \in Paths |-> IF q \in told THEN "Directory" ELSE kinds[q]]
    /\ dirents' \in [Paths -> {None} \union {dirents[d] : d \in Paths}]
    /\ \A d \in Paths : dirents'[d] # None =>
         dirents'[d] = dirents[d] /\ \A q \in told : Parent[q] = d => kinds[q] = "Directory"
    /\ realpaths' = [q \in Paths |-> realpaths[q]]

\* What creating a directory does to the caches.
LEMMA CreateEffect ==
    ASSUME NEW p \in Paths, DoCreateDirectory(p)
    PROVE  \E denied \in SUBSET (Up[p] \ {p}), told \in SUBSET Paths :
             /\ Creates(Made(p, denied), told)
             /\ Made(p, denied) \subseteq told \/ TRUE \in Recursive
<1>1. PICK denied \in SUBSET (Up[p] \ {p}), recursive \in Recursive :
        LET made == Made(p, denied)
            after == [q \in Paths |-> IF q \in made THEN [kind |-> "Directory", link |-> FALSE] ELSE tree[q]]
            told == Nearest(after, p) \union (IF recursive THEN {} ELSE made)
        IN  tree' = after /\ unseen' = unseen \union (made \ told) /\ UpdateCache(told, "Directory")
    BY DEF DoCreateDirectory
<1> DEFINE made == Made(p, denied)
           told == Nearest(tree', p) \union (IF recursive THEN {} ELSE made)
<1>2. made \subseteq Paths /\ \A q \in made : ~Present(q)
    BY PathsAssumption DEF Made
<1>3. told \in SUBSET Paths /\ \A q \in told : tree'[q].kind = "Directory"
    BY <1>1, <1>2, PathsAssumption DEF Nearest
<1>4. made \subseteq told \/ TRUE \in Recursive
    BY PathsAssumption
<1>5. /\ kinds' = [q \in Paths |-> IF q \in told THEN "Directory" ELSE kinds[q]]
      /\ dirents' \in [Paths -> {None} \union {dirents[d] : d \in Paths}]
      /\ \A d \in Paths : dirents'[d] # None =>
           dirents'[d] = dirents[d] /\ \A q \in told : Parent[q] = d => kinds[q] = "Directory"
      /\ realpaths' = [q \in Paths |-> realpaths[q]]
    BY <1>1, <1>3 DEF UpdateCache
<1>6. /\ tree' = [q \in Paths |-> IF q \in made THEN [kind |-> "Directory", link |-> FALSE] ELSE tree[q]]
      /\ unseen' = unseen \union (made \ told)
    BY <1>1
<1> HIDE DEF made, told
<1> QED
    BY <1>2, <1>3, <1>4, <1>5, <1>6 DEF made, Creates

\* Nothing is cached at the start.
LEMMA InitCorrect == CInit => CachesCurrent
BY PathsAssumption, ValuesAssumption DEF CInit, Init, CachesCurrent, TypeOK, KindsCurrent, ListingsCurrent,
   RealPathsCurrent, Empty

\* The caches only hold kinds, entries and paths.
LEMMA TypePreserved == CachesCurrent /\ [CNext]_cvars => TypeOK'
<1> SUFFICES ASSUME CachesCurrent, [CNext]_cvars PROVE TypeOK'
    OBVIOUS
<1> USE PathsAssumption, ValuesAssumption DEF CachesCurrent, TypeOK
<1>1. ASSUME NEW p \in Paths, CGetKind(p) PROVE TypeOK'
    BY <1>1 DEF CGetKind, Kind, Nodes
<1>2. ASSUME NEW p \in Paths, ListCached(p) \/ ListFails(p) \/ CRemoveFails(p) \/ CreateKnown(p) PROVE TypeOK'
    BY <1>2 DEF ListCached, ListFails, CRemoveFails, RemoveFails, CreateKnown, caches
<1>3. ASSUME NEW p \in Paths, List(p) PROVE TypeOK'
    BY <1>3 DEF List, Kind, Nodes, Children
<1>4. ASSUME NEW p \in Paths, CRealPath(p) PROVE TypeOK'
    BY <1>4 DEF CRealPath, RealPath
<1>5. ASSUME NEW p \in Paths, CWriteFile(p) PROVE TypeOK'
    <2>1. tree' \in [Paths -> Nodes]
        BY <1>5 DEF CWriteFile, WriteFile, Nodes, Kinds
    <2> QED
        BY <1>5, <2>1 DEF CWriteFile, WriteFile, UpdateCache, Kinds
<1>6. ASSUME NEW p \in Paths, CWriteFails(p) PROVE TypeOK'
    BY <1>6 DEF CWriteFails, WriteFails, caches, Nodes, Kinds
<1>7. ASSUME NEW p \in Paths, CRemove(p) PROVE TypeOK'
    BY <1>7 DEF CRemove, RemovePath, UpdateCache, Nodes, Kinds
<1>8. ASSUME NEW p \in Paths, DoCreateDirectory(p) PROVE TypeOK'
    <2>1. PICK made, told : Creates(made, told)
        BY <1>8, CreateEffect
    <2> QED
        BY <2>1 DEF Creates, Nodes, Kinds
<1>9. CASE UNCHANGED cvars
    BY <1>9 DEF cvars
<1> QED
    BY <1>1, <1>2, <1>3, <1>4, <1>5, <1>6, <1>7, <1>8, <1>9 DEF CNext

\* A cached kind is told to be Directory or File only if that is what the path is now.
LEMMA KindsPreserved == CachesCurrent /\ [CNext]_cvars => KindsCurrent'
<1> SUFFICES ASSUME CachesCurrent, [CNext]_cvars, NEW q \in Paths, kinds'[q] # None
             PROVE kinds'[q] \in KindAnswers(q)'
    BY DEF KindsCurrent
<1> USE PathsAssumption, ValuesAssumption DEF CachesCurrent, TypeOK, KindsCurrent, KindAnswers
<1>1. ASSUME NEW p \in Paths, CGetKind(p) PROVE kinds'[q] \in KindAnswers(q)'
    BY <1>1 DEF CGetKind, Kind
<1>2. ASSUME NEW p \in Paths, ListCached(p) \/ ListFails(p) \/ CRemoveFails(p) \/ CreateKnown(p) \/ CRealPath(p)
      PROVE kinds'[q] \in KindAnswers(q)'
    BY <1>2 DEF ListCached, ListFails, CRemoveFails, RemoveFails, CreateKnown, CRealPath, caches
<1>3. ASSUME NEW p \in Paths, List(p) PROVE kinds'[q] \in KindAnswers(q)'
    BY <1>3 DEF List, Kind
<1>4. ASSUME NEW p \in Paths, CWriteFile(p) PROVE kinds'[q] \in KindAnswers(q)'
    BY <1>4 DEF CWriteFile, WriteFile, UpdateCache, Nodes
<1>5. ASSUME NEW p \in Paths, CWriteFails(p) PROVE kinds'[q] \in KindAnswers(q)'
    BY <1>5 DEF CWriteFails, WriteFails, Writable, caches, Nodes
<1>6. ASSUME NEW p \in Paths, CRemove(p) PROVE kinds'[q] \in KindAnswers(q)'
    BY <1>6 DEF CRemove, RemovePath, UpdateCache, Nodes
<1>7. ASSUME NEW p \in Paths, DoCreateDirectory(p) PROVE kinds'[q] \in KindAnswers(q)'
    <2>1. PICK made, told : Creates(made, told)
        BY <1>7, CreateEffect
    <2> QED
        BY <2>1 DEF Creates, Present
<1>8. CASE UNCHANGED cvars
    BY <1>8 DEF cvars
<1> QED
    BY <1>1, <1>2, <1>3, <1>4, <1>5, <1>6, <1>7, <1>8 DEF CNext

\* Listings: whoever adds or removes an entry tells the cache, or the entry is unseen.
LEMMA ListingsPreserved == CachesCurrent /\ [CNext]_cvars => ListingsCurrent'
<1> SUFFICES ASSUME CachesCurrent, [CNext]_cvars, NEW d \in Paths, dirents'[d] # None
             PROVE  /\ IsDirectory(d)'
                    /\ Children(d)' \ unseen' \subseteq dirents'[d]
                    /\ \A q \in dirents'[d] : Parent[q] = d /\ q # Root
                    /\ \A q \in dirents'[d] : kinds'[q] # None
                    /\ \A q \in dirents'[d] \ Children(d)' : kinds'[q] = "NonExistent"
    BY DEF ListingsCurrent
<1> DEFINE Goal == /\ IsDirectory(d)'
                   /\ Children(d)' \ unseen' \subseteq dirents'[d]
                   /\ \A q \in dirents'[d] : Parent[q] = d /\ q # Root
                   /\ \A q \in dirents'[d] : kinds'[q] # None
                   /\ \A q \in dirents'[d] \ Children(d)' : kinds'[q] = "NonExistent"
<1> USE PathsAssumption, ValuesAssumption
        DEF CachesCurrent, TypeOK, KindsCurrent, KindAnswers, ListingsCurrent, IsDirectory, Children, Present
<1>1. ASSUME NEW p \in Paths, CGetKind(p) PROVE Goal
    BY <1>1 DEF CGetKind, Kind
<1>2. ASSUME NEW p \in Paths, ListCached(p) \/ ListFails(p) \/ CRemoveFails(p) \/ CreateKnown(p) \/ CRealPath(p)
      PROVE Goal
    BY <1>2 DEF ListCached, ListFails, CRemoveFails, RemoveFails, CreateKnown, CRealPath, caches
<1>3. ASSUME NEW p \in Paths, List(p) PROVE Goal
    BY <1>3 DEF List, Kind, Nodes, Kinds
<1>4. ASSUME NEW p \in Paths, CWriteFile(p) PROVE Goal
    <2>1. p # Root /\ tree'[p].kind = "File" /\ \A q \in Paths \ {p} : tree'[q] = tree[q]
        BY <1>4 DEF CWriteFile, WriteFile, Writable, Nodes
    <2>2. dirents'[d] = dirents[d] /\ (Parent[p] = d => kinds[p] = "File")
        BY <1>4 DEF CWriteFile, UpdateCache
    <2>3. Parent[p] = d => tree[p].kind = "File"
        BY <2>2 DEF Kinds
    <2>6. Children(d)' = Children(d)
        BY <2>1, <2>3
    <2>4. kinds'[p] = "File" /\ (\A q \in Paths \ {p} : kinds'[q] = kinds[q]) /\ unseen' = unseen
        BY <1>4 DEF CWriteFile, WriteFile, UpdateCache
    <2>5. IsDirectory(d)'
        BY <1>4, <2>1, <2>2 DEF CWriteFile, WriteFile, Writable
    <2> QED
        BY <2>2, <2>4, <2>5, <2>6 DEF Kinds
<1>5. ASSUME NEW p \in Paths, CWriteFails(p) PROVE Goal
    <2>1. CASE UNCHANGED <<tree, unseen>>
        BY <1>5, <2>1 DEF CWriteFails, caches
    <2>2. CASE ~UNCHANGED <<tree, unseen>>
        <3>1. /\ p # Root /\ tree'[p].kind = "File" /\ \A q \in Paths \ {p} : tree'[q] = tree[q]
              /\ ~IsDirectory(p) /\ unseen \subseteq unseen' /\ (Present(p) \/ p \in unseen')
            BY <1>5, <2>2 DEF CWriteFails, WriteFails, Writable, Nodes
        <3>2. UNCHANGED <<kinds, dirents>>
            BY <1>5 DEF CWriteFails, caches
        <3> QED
            BY <3>1, <3>2
    <2> QED
        BY <2>1, <2>2
<1>6. ASSUME NEW p \in Paths, CRemove(p) PROVE Goal
    BY <1>6 DEF CRemove, RemovePath, UpdateCache, Nodes
<1>7. ASSUME NEW p \in Paths, DoCreateDirectory(p) PROVE Goal
    <2>1. PICK made, told : Creates(made, told)
        BY <1>7, CreateEffect
    <2>2. dirents'[d] = dirents[d] /\ \A q \in told : Parent[q] = d => kinds[q] = "Directory"
        BY <2>1 DEF Creates
    <2>3. \A q \in made : Parent[q] = d => q \in unseen'
        BY <2>1, <2>2 DEF Creates, Kinds
    <2>4. Children(d) \subseteq Children(d)' /\ Children(d)' \subseteq Children(d) \union (made \cap unseen')
        BY <2>1, <2>3 DEF Creates
    <2>5. \A q \in Paths : kinds'[q] # kinds[q] => q \in told /\ kinds'[q] = "Directory"
        BY <2>1 DEF Creates
    <2>6. \A q \in dirents[d] \ Children(d)' : q \notin told
        BY <2>1, <2>2 DEF Creates
    <2> QED
        BY <2>1, <2>2, <2>4, <2>5, <2>6 DEF Creates, Kinds
<1>8. CASE UNCHANGED cvars
    BY <1>8 DEF cvars
<1> QED
    BY <1>1, <1>2, <1>3, <1>4, <1>5, <1>6, <1>7, <1>8 DEF CNext

\* The path of a link is forgotten when the link is removed.
LEMMA RealPathsPreserved == CachesCurrent /\ [CNext]_cvars => RealPathsCurrent'
<1> SUFFICES ASSUME CachesCurrent, [CNext]_cvars, NEW q \in Paths \ unseen', realpaths'[q] # None
             PROVE realpaths'[q] = RealPath(q)'
    BY DEF RealPathsCurrent
<1> USE PathsAssumption, ValuesAssumption
        DEF CachesCurrent, TypeOK, KindsCurrent, KindAnswers, RealPathsCurrent, RealPath
<1>1. ASSUME NEW p \in Paths, CGetKind(p) PROVE realpaths'[q] = RealPath(q)'
    BY <1>1 DEF CGetKind
<1>2. ASSUME NEW p \in Paths, ListCached(p) \/ ListFails(p) \/ CRemoveFails(p) \/ CreateKnown(p)
      PROVE realpaths'[q] = RealPath(q)'
    BY <1>2 DEF ListCached, ListFails, CRemoveFails, RemoveFails, CreateKnown, caches
<1>3. ASSUME NEW p \in Paths, List(p) PROVE realpaths'[q] = RealPath(q)'
    BY <1>3 DEF List
<1>4. ASSUME NEW p \in Paths, CRealPath(p) PROVE realpaths'[q] = RealPath(q)'
    BY <1>4 DEF CRealPath
<1>5. ASSUME NEW p \in Paths, CWriteFile(p) PROVE realpaths'[q] = RealPath(q)'
    BY <1>5 DEF CWriteFile, WriteFile, Writable, UpdateCache, Nodes
<1>6. ASSUME NEW p \in Paths, CWriteFails(p) PROVE realpaths'[q] = RealPath(q)'
    BY <1>6 DEF CWriteFails, WriteFails, Writable, caches, Nodes
<1>7. ASSUME NEW p \in Paths, CRemove(p) PROVE realpaths'[q] = RealPath(q)'
    <2>1. CASE q = p
        <3>1. kinds[p] = "NonExistent" /\ realpaths'[p] = realpaths[p] /\ p \notin unseen
            <4>1. realpaths'[p] = None \/ (kinds[p] = "NonExistent" /\ realpaths'[p] = realpaths[p])
                BY <1>7, RemoveEffect
            <4>2. p \notin unseen
                BY <1>7, <2>1 DEF CRemove, RemovePath
            <4> QED
                BY <2>1, <4>1, <4>2
        <3>2. tree[p].kind = "NonExistent"
            BY <3>1 DEF Kinds
        <3> QED
            BY <3>1, <3>2, <2>1
    <2>2. CASE q # p
        BY <1>7, <2>2 DEF CRemove, RemovePath, UpdateCache
    <2> QED
        BY <2>1, <2>2
<1>8. ASSUME NEW p \in Paths, DoCreateDirectory(p) PROVE realpaths'[q] = RealPath(q)'
    <2>1. PICK made, told : Creates(made, told)
        BY <1>8, CreateEffect
    <2> QED
        BY <2>1 DEF Creates, Present
<1>9. CASE UNCHANGED cvars
    BY <1>9 DEF cvars
<1> QED
    BY <1>1, <1>2, <1>3, <1>4, <1>5, <1>6, <1>7, <1>8, <1>9 DEF CNext

\* The caches agree with the file system after any calls (updateCache and
\* resolveCachedResult keep CachesCurrent, which is inductive).
THEOREM CacheInvariant == CSpec => []CachesCurrent
<1>1. CInit => CachesCurrent
    BY InitCorrect
<1>2. CachesCurrent /\ [CNext]_cvars => CachesCurrent'
    BY TypePreserved, KindsPreserved, ListingsPreserved, RealPathsPreserved DEF CachesCurrent
<1> QED
    BY <1>1, <1>2, PTL DEF CSpec

-----------------------------------------------------------------------------
(* The answers are those of the file system                                *)

\* A listing of the entries in listed answers a call of readDirectory
LEMMA ListingAnswers ==
    ASSUME CachesCurrent, NEW d \in Paths, IsDirectory(d), NEW listed \in SUBSET Paths,
           NEW kindOf, \A p \in listed : kindOf[p] \in KindAnswers(p) /\ kindOf[p] \in Kinds,
           Children(d) \ unseen \subseteq listed,
           \A p \in listed \ Children(d) : kindOf[p] = "NonExistent"
    PROVE  {e \in {<<p, kindOf[p]>> : p \in listed} : e[2] # "NonExistent"} \in ListAnswers(d)
<1> DEFINE shown == {p \in listed : kindOf[p] # "NonExistent"}
           existing == {p \in Children(d) : tree[p].kind # "NonExistent"}
<1>1. \A p \in shown : kindOf[p] = tree[p].kind /\ p \in existing
    BY DEF KindAnswers
<1>2. existing \ unseen \subseteq shown
    BY DEF KindAnswers
<1>3. {e \in {<<p, kindOf[p]>> : p \in listed} : e[2] # "NonExistent"} = {<<p, tree[p].kind>> : p \in shown}
    BY <1>1
<1>4. shown \in {l \in SUBSET existing : existing \ unseen \subseteq l}
    BY <1>1, <1>2
<1> HIDE DEF shown
<1> QED
    BY <1>3, <1>4 DEF ListAnswers

\* reply does not matter to what the file system answers.
LEMMA SameFileSystem ==
    /\ \A p \in Paths : Uncached!KindAnswers(p) = KindAnswers(p)
    /\ \A d \in Paths : Uncached!ListAnswers(d) = ListAnswers(d)
    /\ \A p \in Paths : Uncached!RealPathAnswers(p) = RealPathAnswers(p)
BY DEF Uncached!KindAnswers, KindAnswers, Uncached!ListAnswers, ListAnswers, Uncached!RealPathAnswers, RealPathAnswers,
       Uncached!RealPath, RealPath, Uncached!IsDirectory, IsDirectory, Uncached!Children, Children, Uncached!Present, Present

\* readDirectory answers what the file system does, whether from the cache or not.
LEMMA ListRefines ==
    ASSUME CachesCurrent, CachesCurrent', NEW d \in Paths, ListCached(d) \/ List(d)
    PROVE  Uncached!ReadDirectory(d)
<1> DEFINE listed == IF dirents[d] = None THEN Children(d) ELSE dirents[d]
           entries == {<<p, kinds'[p]>> : p \in listed}
           shown == {e \in entries : e[2] # "NonExistent"}
<1>1. IsDirectory(d) /\ UNCHANGED <<tree, unseen>> /\ reply' = <<"list", d, entries>>
    BY DEF ListCached, List, CachesCurrent, ListingsCurrent
<1>2. listed \in SUBSET Paths /\ Children(d) \ unseen \subseteq listed
    BY DEF CachesCurrent, TypeOK, ListingsCurrent, Children
<1>3. \A p \in listed : kinds'[p] # None
    <2>1. CASE dirents[d] # None
        BY <2>1 DEF ListCached, List, CachesCurrent, ListingsCurrent
    <2>2. CASE dirents[d] = None
        BY <2>2, <1>2, ValuesAssumption DEF ListCached, List, CachesCurrent, TypeOK, Kind, Nodes
    <2> QED
        BY <2>1, <2>2
<1>4. \A p \in listed : kinds'[p] \in KindAnswers(p) /\ kinds'[p] \in Kinds
    BY <1>1, <1>2, <1>3 DEF CachesCurrent, TypeOK, KindsCurrent, KindAnswers
<1>5. \A p \in listed \ Children(d) : kinds'[p] = "NonExistent"
    BY DEF ListCached, List, CachesCurrent, ListingsCurrent
<1>6. shown \in ListAnswers(d)
    <2> HIDE DEF listed
    <2> QED
        BY <1>1, <1>2, <1>4, <1>5, ListingAnswers
<1>7. entries # Error
    BY <1>2, <1>4, ValuesAssumption
<1> HIDE DEF shown, entries, listed
<1>8. Visible' = <<"list", d, shown>>
    BY <1>1, <1>7 DEF Visible, shown
<1> QED
    BY <1>1, <1>6, <1>8, SameFileSystem DEF Uncached!ReadDirectory

\* createDirectory of the file system itself: some of the new directories may be hidden.
LEMMA CreateAnswers ==
    ASSUME NEW p \in Paths, NEW denied \in SUBSET (Up[p] \ {p}), NEW told,
           tree' = [q \in Paths |-> IF q \in Made(p, denied) THEN [kind |-> "Directory", link |-> FALSE] ELSE tree[q]],
           unseen' = unseen \union (Made(p, denied) \ told),
           Made(p, denied) \subseteq told \/ TRUE \in Recursive,
           Visible' = <<"create", p, IF tree'[p].kind = "Directory" THEN "done" ELSE Error>>
    PROVE  Uncached!CreateDirectory(p)
<1> DEFINE answer == IF tree'[p].kind = "Directory" THEN "done" ELSE Error
<1>1. Uncached!Made(p, denied) = Made(p, denied)
    BY DEF Uncached!Made, Made, Uncached!Present, Present, Uncached!IsDirectory, IsDirectory
<1>2. answer \in {"done", Error} /\ (answer = "done" <=> tree'[p].kind = "Directory")
    BY ValuesAssumption
<1>3. \E hidden \in SUBSET Made(p, denied) :
        (TRUE \in Recursive \/ hidden = {}) /\ unseen' = unseen \union hidden
    OBVIOUS
<1> QED
    BY <1>1, <1>2, <1>3 DEF Uncached!CreateDirectory

\* Every call is one of the file system itself, or changes nothing.
LEMMA StepRefines ==
    ASSUME CachesCurrent, CachesCurrent', [CNext]_cvars
    PROVE  [Uncached!Next]_<<tree, unseen, Visible>>
<1> USE DEF Uncached!Next
<1>1. ASSUME NEW p \in Paths, CGetKind(p) PROVE Uncached!GetKind(p)
    <2>1. Kind(p) \in KindAnswers(p)
        BY DEF CachesCurrent, KindsCurrent, Kind, KindAnswers
    <2> QED
        BY <1>1, <2>1, SameFileSystem DEF CGetKind, Uncached!GetKind, Visible
<1>2. ASSUME NEW d \in Paths, ListCached(d) \/ List(d) PROVE Uncached!ReadDirectory(d)
    BY <1>2, ListRefines
<1>3. ASSUME NEW d \in Paths, ListFails(d) PROVE Uncached!ReadDirectory(d)
    BY <1>3, SameFileSystem DEF ListFails, Uncached!ReadDirectory, Visible, ListAnswers
<1>4. ASSUME NEW p \in Paths, CRealPath(p) PROVE Uncached!RealPathOf(p)
    <2>1. /\ UNCHANGED <<tree, unseen>>
          /\ reply' = <<"realpath", p, IF realpaths[p] # None THEN realpaths[p] ELSE RealPath(p)>>
        BY <1>4 DEF CRealPath
    <2>2. (IF realpaths[p] # None THEN realpaths[p] ELSE RealPath(p)) \in RealPathAnswers(p)
        BY DEF CachesCurrent, TypeOK, RealPathsCurrent, RealPathAnswers, RealPath
    <2> QED
        BY <2>1, <2>2, SameFileSystem DEF Uncached!RealPathOf, Visible
<1>5. ASSUME NEW p \in Paths, CWriteFile(p) PROVE Uncached!WriteFile(p)
    BY <1>5 DEF CWriteFile, WriteFile, Uncached!WriteFile, Writable, Uncached!Writable, IsDirectory,
                Uncached!IsDirectory, Visible
<1>6. ASSUME NEW p \in Paths, CWriteFails(p) PROVE Uncached!WriteFails(p)
    BY <1>6 DEF CWriteFails, WriteFails, Uncached!WriteFails, Writable, Uncached!Writable, IsDirectory,
                Uncached!IsDirectory, Visible
<1>7. ASSUME NEW p \in Paths, CRemove(p) PROVE Uncached!RemovePath(p)
    BY <1>7 DEF CRemove, RemovePath, Uncached!RemovePath, Present, Uncached!Present, IsDirectory,
                Uncached!IsDirectory, Visible
<1>8. ASSUME NEW p \in Paths, CRemoveFails(p) PROVE Uncached!RemoveFails(p)
    BY <1>8 DEF CRemoveFails, RemoveFails, Uncached!RemoveFails, IsDirectory, Uncached!IsDirectory, Visible
<1>9. ASSUME NEW p \in Paths, CreateKnown(p) PROVE Uncached!CreateDirectory(p)
    <2>1. tree[p].kind = "Directory"
        BY <1>9, ValuesAssumption DEF CreateKnown, CachesCurrent, KindsCurrent, KindAnswers, Kinds
    <2>2. UNCHANGED <<tree, unseen>> /\ Visible' = <<"create", p, "done">>
        BY <1>9 DEF CreateKnown, Visible
    <2> DEFINE denied == Up[p] \ {p}
    <2>3. Made(p, denied) = {}
        <3> SUFFICES ASSUME NEW q \in Up[p], ~Present(q) PROVE q \in Up[q] /\ Parent[q] \in denied
            BY DEF Made
        <3>1. q \in Paths /\ q # p
            BY <2>1, PathsAssumption, UpAssumption DEF Present
        <3>2. CASE q = Root
            BY <3>1, <3>2, PathsAssumption, UpAssumption
        <3>3. CASE q # Root
            <4>1. Up[q] = {q} \union Up[Parent[q]] /\ q \notin Up[Parent[q]] /\ Parent[q] \in Paths
                BY <3>1, <3>3, PathsAssumption, UpAssumption
            <4> QED
                BY <3>1, <4>1, PathsAssumption, UpAssumption
        <3> QED
            BY <3>2, <3>3
    <2>4. tree = [q \in Paths |-> IF q \in Made(p, denied) THEN [kind |-> "Directory", link |-> FALSE] ELSE tree[q]]
        BY <2>3 DEF CachesCurrent, TypeOK
    <2> QED
        BY <2>1, <2>2, <2>3, <2>4, CreateAnswers
<1>10. ASSUME NEW p \in Paths, DoCreateDirectory(p) PROVE Uncached!CreateDirectory(p)
    <2>1. PICK denied \in SUBSET (Up[p] \ {p}), told \in SUBSET Paths :
            Creates(Made(p, denied), told) /\ (Made(p, denied) \subseteq told \/ TRUE \in Recursive)
        BY <1>10, CreateEffect
    <2>2. reply' = <<"create", p, IF tree'[p].kind = "Directory" THEN "done" ELSE Error>>
        BY <1>10 DEF DoCreateDirectory
    <2>3. Visible' = reply'
        BY <2>2 DEF Visible
    <2> QED
        BY <2>1, <2>2, <2>3, CreateAnswers DEF Creates
<1>11. CASE UNCHANGED cvars
    BY <1>11 DEF cvars, Visible
<1> QED
    BY <1>1, <1>2, <1>3, <1>4, <1>5, <1>6, <1>7, <1>8, <1>9, <1>10, <1>11 DEF CNext

\* A caller cannot tell CachedFileSystem from the file system it wraps, but for paths the
\* cache is not told about: every behaviour of the cache is one of FileSystem.
THEOREM Implements == CSpec => ImplementsFileSystem
<1>1. CInit => Uncached!Init
    BY DEF CInit, Init, Uncached!Init, Visible
<1>2. CachesCurrent /\ CachesCurrent' /\ [CNext]_cvars => [Uncached!Next]_<<tree, unseen, Visible>>
    BY StepRefines
<1> QED
    BY <1>1, <1>2, CacheInvariant, PTL DEF CSpec, ImplementsFileSystem, Uncached!Spec
=============================================================================
