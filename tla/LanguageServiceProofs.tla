------------------------ MODULE LanguageServiceProofs ------------------------
(***************************************************************************)
(* What the editor is shown is current, and answers in the same version of *)
(* the project fit each other: for any number of files and versions, any   *)
(* configurations and any sequence of requests and changes.                *)
(***************************************************************************)
EXTENDS LanguageService, FiniteSetTheorems, TLAPS

Views == UNION {[files -> 1..MaxVersion] : files \in SUBSET OpenFiles}

\* What linting a file can result in: the findings in the text that its view shows
IsResult(x, f) ==
    \E w \in Views, any \in Setups :
        f \in DOMAIN w /\ x = [view |-> w, config |-> any.config[f], list |-> Findings(any.config[f], w[f])]

ServiceTypes ==
    /\ version \in [OpenFiles -> 1..MaxVersion]
    /\ projectVersion \in Nat
    /\ lastProjectVersion \in Nat /\ lastProjectVersion <= projectVersion
    /\ programFiles \subseteq OpenFiles
    /\ setup \in setups /\ setups \subseteq Setups
    /\ DOMAIN served = OpenFiles

\* The state of the lint cache holds what some configuration finds in the text its view shows.
StateTrue == \A f \in DOMAIN oldState : f \in OpenFiles /\ IsResult(oldState[f], f)

\* As long as the version of the project is the one they were computed for, findings are those of a
\* configuration since the last change of the project.
FindingsTrue ==
    \A f \in programFiles : Hit(f) => \E any \in setups : findingsForFile[Key(f)] = Fresh(f, any)

\* What was served is still what the next answer comes from.
ServedTrue ==
    \A f \in OpenFiles : served[f] # Nothing =>
        IF f \in programFiles THEN Hit(f) /\ served[f] = findingsForFile[Key(f)] ELSE served[f] = NoFindings

\* What is offered can still be done: there are two findings of the rule that can be fixed.
Fixes(f, rule) == {i \in DOMAIN findingsForFile[Key(f)].list :
                      findingsForFile[Key(f)].list[i].rule = rule /\ findingsForFile[Key(f)].list[i].fixable}

CanBeDone(offer) ==
    \E f \in programFiles : /\ offer = <<f, offer[2]>>
                       /\ Hit(f)
                       /\ \E m, n \in Fixes(f, offer[2]) : m # n

OffersTrue == \A offer \in offered : CanBeDone(offer)

ResponseTrue ==
    response \notin {Nothing, Throwing} => (response.offer \in offered => Cardinality(response.applied) > 1)

ServiceInv == ServiceTypes /\ StateTrue /\ FindingsTrue /\ ServedTrue /\ OffersTrue /\ ResponseTrue

-----------------------------------------------------------------------------
\* The results of linting a file are findings, and they are a list.
LEMMA ResultsAreFindings ==
    ASSUME NEW f \in OpenFiles, NEW x, IsResult(x, f)
    PROVE  x \notin {Nothing, Throwing} /\ IsFiniteSet(DOMAIN x.list)
<1>1. PICK w \in Views, any \in Setups :
        f \in DOMAIN w /\ x = [view |-> w, config |-> any.config[f], list |-> Findings(any.config[f], w[f])]
  BY DEF IsResult
<1>2. PICK files \in SUBSET OpenFiles : w \in [files -> 1..MaxVersion]
  BY DEF Views
<1>3. w[f] \in 1..MaxVersion
  BY <1>1, <1>2
<1>4. IsFiniteSet(DOMAIN Findings(any.config[f], w[f]))
  BY <1>3, ServiceAssumption
<1>5. [view |-> w, config |-> any.config[f], list |-> Findings(any.config[f], w[f])] \notin {Nothing, Throwing}
  BY <1>2, <1>3, NothingAssumption
<1>6. QED
  BY <1>1, <1>4, <1>5

\* What a file depends on contains the file itself, in its current version.
LEMMA ViewShowsFile ==
    ASSUME ServiceTypes, NEW f \in programFiles
    PROVE  View(f) \in Views /\ f \in DOMAIN View(f) /\ View(f)[f] = version[f]
<1>1. f \in Imported[f] \intersect programFiles
  BY ServiceAssumption DEF ServiceTypes
<1>2. Imported[f] \intersect programFiles \in SUBSET OpenFiles
  BY DEF ServiceTypes
<1>3. View(f) \in [Imported[f] \intersect programFiles -> 1..MaxVersion]
  BY DEF View, ServiceTypes
<1>4. QED
  BY <1>1, <1>2, <1>3 DEF View, Views

\* Linting a file, or reusing the result for the same view, yields what linting it now would find.
LEMMA WorkerIsFresh ==
    ASSUME ServiceTypes, StateTrue, NEW f \in programFiles, NEW any \in Setups, ~WorkerThrows(f, any)
    PROVE  /\ Worker(f, any) = Fresh(f, any)
           /\ ~Skipped(f, any) => IsResult(Worker(f, any), f)
           /\ Worker(f, any) \notin {Nothing, Throwing}
           /\ IsFiniteSet(DOMAIN Worker(f, any).list)
<1> f \in OpenFiles
  BY DEF ServiceTypes
<1>1. CASE Skipped(f, any)
  <2>1. Worker(f, any) = NoFindings /\ Fresh(f, any) = NoFindings
    BY <1>1 DEF Worker, Fresh
  <2>2. DOMAIN NoFindings.list = {}
    BY DEF NoFindings
  <2>3. QED
    BY <1>1, <2>1, <2>2, NothingAssumption, FS_EmptySet
<1>2. CASE ~Skipped(f, any)
  <2> DEFINE now == [view |-> View(f), config |-> any.config[f], list |-> Findings(any.config[f], version[f])]
  <2>1. Fresh(f, any) = now
    BY <1>2 DEF Fresh
  <2>2. IsResult(now, f)
    <3>1. now = [view |-> View(f), config |-> any.config[f], list |-> Findings(any.config[f], View(f)[f])]
      BY ViewShowsFile
    <3>2. View(f) \in Views /\ f \in DOMAIN View(f)
      BY ViewShowsFile
    <3> HIDE DEF now
    <3>3. QED
      BY <3>1, <3>2 DEF IsResult
  <2>3. Worker(f, any) = now
    <3>1. CASE UpToDateResult(f, any)
      <4>1. PICK w \in Views, s \in Setups :
              oldState[f] = [view |-> w, config |-> s.config[f], list |-> Findings(s.config[f], w[f])]
        BY <3>1 DEF StateTrue, IsResult, UpToDateResult
      <4>2. w = View(f) /\ s.config[f] = any.config[f]
        BY <3>1, <4>1 DEF UpToDateResult
      <4>3. oldState[f] = now
        BY <4>1, <4>2, ViewShowsFile
      <4>4. QED
        BY <1>2, <3>1, <4>3 DEF Worker
    <3>2. CASE ~UpToDateResult(f, any)
      BY <1>2, <3>2 DEF Worker
    <3>3. QED
      BY <3>1, <3>2
  <2> HIDE DEF now
  <2>4. QED
    BY <1>2, <2>1, <2>2, <2>3, ResultsAreFindings
<1>3. QED
  BY <1>1, <1>2

\* What linting a file would find are findings, whatever goes wrong.
LEMMA FreshAreFindings ==
    ASSUME ServiceTypes, StateTrue, NEW f \in programFiles, NEW any \in Setups
    PROVE  Fresh(f, any) \notin {Nothing, Throwing} /\ IsFiniteSet(DOMAIN Fresh(f, any).list)
<1>1. CASE WorkerThrows(f, any)
  <2>1. Fresh(f, any) = NoFindings
    BY <1>1 DEF Fresh
  <2>2. DOMAIN NoFindings.list = {}
    BY DEF NoFindings
  <2>3. QED
    BY <2>1, <2>2, NothingAssumption, FS_EmptySet
<1>2. CASE ~WorkerThrows(f, any)
  <2>1. Worker(f, any) = Fresh(f, any)
    BY <1>2, WorkerIsFresh
  <2>2. QED
    BY <1>2, <2>1, WorkerIsFresh
<1>3. QED
  BY <1>1, <1>2

-----------------------------------------------------------------------------
\* Remembering the findings for a file forgets nothing as long as the version of the project is the same.
LEMMA RememberEffect ==
    ASSUME NEW f, NEW result, Remember(f, result), lastProjectVersion' = projectVersion,
           UNCHANGED <<version, projectVersion>>
    PROVE  /\ Hit(f)' /\ findingsForFile'[Key(f)'] = result
           /\ \A g : Hit(g) /\ g # f => Hit(g)' /\ findingsForFile'[Key(g)'] = findingsForFile[Key(g)]
           /\ \A g : Hit(g)' /\ g # f => Hit(g)
<1> DEFINE before == IF UpToDate THEN DOMAIN findingsForFile ELSE {}
<1>1. /\ DOMAIN findingsForFile' = {Key(f)} \union before
      /\ findingsForFile'[Key(f)] = result
      /\ \A x \in before : x # Key(f) => findingsForFile'[x] = findingsForFile[x]
  BY DEF Remember
<1>2. UpToDate' /\ \A g : Key(g)' = Key(g)
  BY DEF UpToDate, Key
<1>3. \A g : g # f => Key(g) # Key(f)
  BY DEF Key
<1>4. \A g : Hit(g) => Key(g) \in before
  BY DEF Hit
<1>5. \A g : Key(g) \in before => Hit(g)
  BY DEF Hit
<1> HIDE DEF before
<1>6. Hit(f)' /\ findingsForFile'[Key(f)'] = result
  BY <1>1, <1>2 DEF Hit
<1>7. \A g : Hit(g) /\ g # f => Hit(g)' /\ findingsForFile'[Key(g)'] = findingsForFile[Key(g)]
  BY <1>1, <1>2, <1>3, <1>4 DEF Hit
<1>8. \A g : Hit(g)' /\ g # f => Hit(g)
  BY <1>1, <1>2, <1>3, <1>5 DEF Hit
<1>9. QED
  BY <1>6, <1>7, <1>8

\* What a request serves for a file
Serves(f) == IF FindingsForFile(f) = Nothing THEN NoFindings ELSE FindingsForFile(f)

\* A request of the editor leaves what is known about other files alone, and the findings it answers with, or that
\* there are none, are remembered for the next request.
LEMMA RequestEffect ==
    ASSUME ServiceInv, NEW f \in OpenFiles, GetFindingsForFile(f), UNCHANGED <<environment, setups>>
    PROVE  /\ lastProjectVersion' \in {lastProjectVersion, projectVersion}
           /\ \A g : Hit(g) => Hit(g)' /\ findingsForFile'[Key(g)'] = findingsForFile[Key(g)]
           /\ f \in programFiles => Hit(f)' /\ findingsForFile'[Key(f)'] = Serves(f)
           /\ f \notin programFiles => Serves(f) = NoFindings
           /\ StateTrue'
           /\ FindingsTrue'
<1> UNCHANGED <<version, projectVersion, programFiles, setup, setups>>
  BY DEF environment
<1>0. /\ \A g : Key(g)' = Key(g)
      /\ \A g, any : Fresh(g, any)' = Fresh(g, any)
  BY DEF Key, Fresh, View
<1>1. CASE f \notin programFiles
  <2>1. UNCHANGED serviceCaches /\ FindingsForFile(f) = Nothing
    BY <1>1 DEF GetFindingsForFile, FindingsForFile
  <2>2. \A g : Hit(g)' <=> Hit(g)
    BY <2>1, <1>0 DEF serviceCaches, Hit, UpToDate
  <2>3. QED
    BY <1>0, <1>1, <2>1, <2>2 DEF serviceCaches, Serves, ServiceInv, StateTrue, FindingsTrue
<1>2. CASE f \in programFiles /\ Hit(f)
  <2>1. UNCHANGED serviceCaches
    BY <1>2 DEF GetFindingsForFile
  <2>2. \A g : Hit(g)' <=> Hit(g)
    BY <2>1, <1>0 DEF serviceCaches, Hit, UpToDate
  <2>3. PICK any \in setups : findingsForFile[Key(f)] = Fresh(f, any)
    BY <1>2 DEF ServiceInv, FindingsTrue
  <2>4. any \in Setups
    BY DEF ServiceInv, ServiceTypes
  <2>5. FindingsForFile(f) = findingsForFile[Key(f)] /\ FindingsForFile(f) # Nothing
    BY <1>2, <2>3, <2>4, FreshAreFindings DEF FindingsForFile, ServiceInv
  <2>6. QED
    BY <1>0, <1>2, <2>1, <2>2, <2>5 DEF serviceCaches, Serves, ServiceInv, StateTrue, FindingsTrue
<1>3. CASE f \in programFiles /\ ~Hit(f)
  <2> DEFINE result == Worker(f, setup)
             findings == IF result = Throwing THEN NoFindings ELSE result
  <2>1. /\ lastProjectVersion' = projectVersion
        /\ Remember(f, findings)
        /\ oldState' = IF result = Throwing \/ Skipped(f, setup) \/ UpToDateResult(f, setup) THEN oldState ELSE Saved(f, result)
    BY <1>3 DEF GetFindingsForFile
  <2>2. setup \in Setups
    BY DEF ServiceInv, ServiceTypes
  <2>3. result = Throwing <=> WorkerThrows(f, setup)
    BY <1>3, <2>2, WorkerIsFresh DEF ServiceInv, Worker
  <2>4. findings = Fresh(f, setup)
    BY <1>3, <2>2, <2>3, WorkerIsFresh DEF ServiceInv, Fresh
  <2>5. Serves(f) = findings
    BY <1>3, <2>2, <2>3, WorkerIsFresh DEF ServiceInv, Serves, FindingsForFile
  <2>6. result # Throwing /\ ~Skipped(f, setup) => IsResult(result, f)
    BY <1>3, <2>2, <2>3, WorkerIsFresh DEF ServiceInv
  <2> HIDE DEF result, findings
  <2>7. /\ Hit(f)' /\ findingsForFile'[Key(f)'] = findings
        /\ \A g : Hit(g) /\ g # f => Hit(g)' /\ findingsForFile'[Key(g)'] = findingsForFile[Key(g)]
        /\ \A g : Hit(g)' /\ g # f => Hit(g)
    BY <2>1, RememberEffect
  <2>8. StateTrue'
    <3>1. CASE result = Throwing \/ Skipped(f, setup) \/ UpToDateResult(f, setup)
      BY <2>1, <3>1 DEF ServiceInv, StateTrue
    <3>2. CASE ~(result = Throwing \/ Skipped(f, setup) \/ UpToDateResult(f, setup))
      <4>1. oldState' = Saved(f, result)
        BY <2>1, <3>2
      <4>2. \A g \in DOMAIN Saved(f, result) :
               /\ g = f \/ g \in DOMAIN oldState
               /\ Saved(f, result)[g] = IF g = f THEN result ELSE oldState[g]
        BY DEF Saved
      <4>3. QED
        BY <2>6, <3>2, <4>1, <4>2 DEF ServiceInv, StateTrue
    <3>3. QED
      BY <3>1, <3>2
  <2>9. FindingsTrue'
    <3>1. SUFFICES ASSUME NEW g \in programFiles, Hit(g)'
                   PROVE  \E any \in setups : findingsForFile'[Key(g)'] = Fresh(g, any)
      BY <1>0 DEF FindingsTrue
    <3>2. CASE g = f
      BY <2>4, <2>7, <3>2 DEF ServiceInv, ServiceTypes
    <3>3. CASE g # f
      BY <2>7, <3>1, <3>3 DEF ServiceInv, FindingsTrue
    <3>4. QED
      BY <3>2, <3>3
  <2>10. QED
    BY <1>3, <2>1, <2>5, <2>7, <2>8, <2>9
<1>4. QED
  BY <1>1, <1>2, <1>3

\* Whatever a request is for: the caches stay true, it serves what is remembered, and offers can still be done.
LEMMA AnswerKeeps ==
    ASSUME ServiceInv, NEW f \in OpenFiles, NEW answer, Answer(f, answer)
    PROVE  /\ ServiceTypes' /\ StateTrue' /\ FindingsTrue' /\ ServedTrue'
           /\ \A offer \in offered : CanBeDone(offer)'
           /\ response' = answer
<1> UNCHANGED <<version, projectVersion, programFiles, setup, setups>>
  BY DEF Answer, environment
<1>1. /\ GetFindingsForFile(f)
      /\ response' = answer
      /\ served' = [served EXCEPT ![f] = Serves(f)]
      /\ UNCHANGED <<environment, setups>>
  BY DEF Answer, Serves
<1>2. /\ lastProjectVersion' \in {lastProjectVersion, projectVersion}
      /\ \A g : Hit(g) => Hit(g)' /\ findingsForFile'[Key(g)'] = findingsForFile[Key(g)]
      /\ f \in programFiles => Hit(f)' /\ findingsForFile'[Key(f)'] = Serves(f)
      /\ f \notin programFiles => Serves(f) = NoFindings
      /\ StateTrue'
      /\ FindingsTrue'
  BY <1>1, RequestEffect
<1>3. ServiceTypes'
  BY <1>1, <1>2 DEF ServiceInv, ServiceTypes
<1>4. ServedTrue'
  <2>1. served'[f] = Serves(f) /\ \A g \in OpenFiles \ {f} : served'[g] = served[g]
    BY <1>1 DEF ServiceInv, ServiceTypes
  <2>2. SUFFICES ASSUME NEW g \in OpenFiles, served'[g] # Nothing
                 PROVE  IF g \in programFiles THEN Hit(g)' /\ served'[g] = findingsForFile'[Key(g)'] ELSE served'[g] = NoFindings
    BY DEF ServedTrue
  <2>3. CASE g = f
    BY <1>2, <2>1, <2>3
  <2>4. CASE g # f
    BY <1>2, <2>1, <2>2, <2>4 DEF ServiceInv, ServedTrue
  <2>5. QED
    BY <2>3, <2>4
<1>5. ASSUME NEW offer \in offered
      PROVE  CanBeDone(offer)'
  <2>1. PICK g \in programFiles : /\ offer = <<g, offer[2]>>
                            /\ Hit(g)
                            /\ \E m, n \in Fixes(g, offer[2]) : m # n
    BY DEF ServiceInv, OffersTrue, CanBeDone
  <2>2. Hit(g)' /\ findingsForFile'[Key(g)'] = findingsForFile[Key(g)]
    BY <1>2, <2>1
  <2>3. Fixes(g, offer[2])' = Fixes(g, offer[2])
    BY <2>2 DEF Fixes
  <2>4. QED
    BY <2>1, <2>2, <2>3 DEF CanBeDone
<1>6. QED
  BY <1>1, <1>2, <1>3, <1>4, <1>5

\* Diagnostics offer nothing.
LEMMA DiagnosticsKeep ==
    ASSUME ServiceInv, NEW f \in OpenFiles, GetDiagnostics(f)
    PROVE  ServiceInv'
<1>1. Answer(f, Nothing) /\ offered' = offered
  BY DEF GetDiagnostics
<1>2. QED
  BY <1>1, AnswerKeeps DEF ServiceInv, OffersTrue, ResponseTrue

\* A fix of all findings of a rule is only offered if there is another one that can be fixed.
LEMMA CodeFixesKeep ==
    ASSUME ServiceInv, NEW f \in OpenFiles, NEW position, GetCodeFixesAtPosition(f, position)
    PROVE  ServiceInv'
<1> DEFINE list == FindingsForFile(f).list
<1>1. /\ Answer(f, Nothing)
      /\ offered' = IF FindingsForFile(f) = Nothing THEN offered
                    ELSE offered \union {<<f, rule>> : rule \in CodeFixes(list, position).all}
  BY DEF GetCodeFixesAtPosition
<1>2. /\ ServiceTypes' /\ StateTrue' /\ FindingsTrue' /\ ServedTrue'
      /\ \A offer \in offered : CanBeDone(offer)'
      /\ response' = Nothing
  BY <1>1, AnswerKeeps
<1>3. ASSUME FindingsForFile(f) # Nothing, NEW rule \in CodeFixes(list, position).all
      PROVE  CanBeDone(<<f, rule>>)'
  <2>1. f \in programFiles /\ programFiles' = programFiles
    BY <1>1, <1>3 DEF FindingsForFile, Answer, environment
  <2>2. Hit(f)' /\ findingsForFile'[Key(f)'] = FindingsForFile(f)
    BY <1>1, <1>3, <2>1, RequestEffect DEF Answer, Serves
  <2>3. PICK m \in DOMAIN list : /\ list[m].fixable /\ list[m].rule = rule
                                 /\ \E n \in DOMAIN list : n # m /\ list[n].fixable /\ list[n].rule = list[m].rule
    BY DEF CodeFixes
  <2>4. \E k, n \in Fixes(f, rule)' : k # n
    BY <2>2, <2>3 DEF Fixes
  <2>5. <<f, rule>>[2] = rule
    OBVIOUS
  <2>6. QED
    BY <2>1, <2>2, <2>4, <2>5 DEF CanBeDone
<1>4. OffersTrue'
  BY <1>1, <1>2, <1>3 DEF OffersTrue
<1>5. QED
  BY <1>2, <1>4 DEF ServiceInv, ResponseTrue

\* What was offered is done, and fixes more than one finding.
LEMMA CombinedFixKeeps ==
    ASSUME ServiceInv, NEW f \in OpenFiles, NEW rule, GetCombinedCodeFix(f, rule)
    PROVE  ServiceInv'
<1> DEFINE list    == FindingsForFile(f).list
           applied == {n \in DOMAIN list : list[n].rule = rule /\ list[n].fixable}
           answer  == IF FindingsForFile(f) = Nothing THEN Throwing ELSE [offer |-> <<f, rule>>, applied |-> applied]
<1>1. Answer(f, answer) /\ offered' = offered
  BY DEF GetCombinedCodeFix
<1>2. /\ ServiceTypes' /\ StateTrue' /\ FindingsTrue' /\ ServedTrue'
      /\ \A offer \in offered : CanBeDone(offer)'
      /\ response' = answer
  <2> HIDE DEF answer
  <2> QED
    BY <1>1, AnswerKeeps
<1>3. ASSUME FindingsForFile(f) # Nothing, <<f, rule>> \in offered
      PROVE  Cardinality(applied) > 1
  <2>1. CanBeDone(<<f, rule>>)
    BY <1>3 DEF ServiceInv, OffersTrue
  <2>2. f \in programFiles /\ Hit(f) /\ \E m, n \in Fixes(f, rule) : m # n
    BY <2>1 DEF CanBeDone
  <2>3. FindingsForFile(f) = findingsForFile[Key(f)]
    BY <2>2 DEF FindingsForFile
  <2>4. applied = Fixes(f, rule)
    BY <2>3 DEF Fixes
  <2>5. PICK any \in setups : findingsForFile[Key(f)] = Fresh(f, any)
    BY <2>2 DEF ServiceInv, FindingsTrue
  <2>6. IsFiniteSet(DOMAIN list)
    BY <2>2, <2>3, <2>5, FreshAreFindings DEF ServiceInv, ServiceTypes
  <2>7. IsFiniteSet(applied)
    BY <2>6, FS_Subset
  <2>8. PICK m, n \in applied : m # n
    BY <2>2, <2>4
  <2> HIDE DEF applied, list
  <2>9. Cardinality(applied) \in Nat /\ Cardinality(applied) # 0 /\ Cardinality(applied) # 1
    BY <2>7, <2>8, FS_CardinalityType, FS_EmptySet, FS_Singleton
  <2>10. QED
    BY <2>9
<1>4. ResponseTrue'
  <2>1. CASE FindingsForFile(f) = Nothing
    BY <1>2, <2>1 DEF ResponseTrue
  <2>2. CASE FindingsForFile(f) # Nothing
    <3>1. response' = [offer |-> <<f, rule>>, applied |-> applied]
      BY <1>2, <2>2
    <3> HIDE DEF applied
    <3>2. QED
      BY <1>1, <1>3, <2>2, <3>1 DEF ResponseTrue
  <2>3. QED
    BY <2>1, <2>2
<1>5. QED
  BY <1>1, <1>2, <1>4 DEF ServiceInv, OffersTrue

-----------------------------------------------------------------------------
\* A new version of the project: nothing that was remembered is used for it, but what the lint cache holds remains true.
LEMMA ProgramChangesKeep ==
    ASSUME ServiceInv, NEW v \in [OpenFiles -> 1..MaxVersion], NEW files \in SUBSET OpenFiles, ProgramChanges(v, files)
    PROVE  ServiceInv'
<1>1. /\ projectVersion' = projectVersion + 1
      /\ version' = v /\ programFiles' = files
      /\ offered' = {} /\ response' = Nothing
      /\ served' = [f \in OpenFiles |-> Nothing]
      /\ setups' = {setup} /\ setup' = setup
      /\ UNCHANGED <<lastProjectVersion, findingsForFile, oldState>>
  BY DEF ProgramChanges, serviceCaches
<1>2. ServiceTypes'
  BY <1>1 DEF ServiceInv, ServiceTypes
<1>3. ~UpToDate'
  BY <1>1 DEF ServiceInv, ServiceTypes, UpToDate
<1>4. StateTrue' /\ FindingsTrue'
  BY <1>1, <1>3 DEF ServiceInv, StateTrue, FindingsTrue, Hit
<1>5. ServedTrue' /\ OffersTrue' /\ ResponseTrue'
  BY <1>1 DEF ServedTrue, OffersTrue, ResponseTrue
<1>6. QED
  BY <1>2, <1>4, <1>5 DEF ServiceInv

\* The user edits a file.
LEMMA EditKeeps ==
    ASSUME ServiceInv, NEW f \in OpenFiles, Edit(f)
    PROVE  ServiceInv'
<1>1. [version EXCEPT ![f] = @ + 1] \in [OpenFiles -> 1..MaxVersion]
  BY ServiceAssumption DEF Edit, ServiceInv, ServiceTypes
<1>2. ProgramChanges([version EXCEPT ![f] = @ + 1], programFiles) /\ programFiles \in SUBSET OpenFiles
  BY DEF Edit, ServiceInv, ServiceTypes
<1>3. QED
  BY <1>1, <1>2, ProgramChangesKeep

\* A file enters or leaves the program.
LEMMA ChangeFilesKeeps ==
    ASSUME ServiceInv, ChangeFiles
    PROVE  ServiceInv'
<1>1. PICK files \in SUBSET OpenFiles : ProgramChanges(version, files)
  BY DEF ChangeFiles
<1>2. version \in [OpenFiles -> 1..MaxVersion]
  BY DEF ServiceInv, ServiceTypes
<1>3. QED
  BY <1>1, <1>2, ProgramChangesKeep

\* Another configuration: what is remembered remains that of a configuration since the last change of the project.
LEMMA ChangeSetupKeeps ==
    ASSUME ServiceInv, ChangeSetup
    PROVE  ServiceInv'
<1>1. /\ setup' \in Setups /\ setups' = setups \union {setup'} /\ response' = Nothing
      /\ UNCHANGED <<version, projectVersion, programFiles, lastProjectVersion, findingsForFile, oldState, offered, served>>
  BY DEF ChangeSetup, serviceCaches
<1>2. /\ \A g : Key(g)' = Key(g)
      /\ \A g, any : Fresh(g, any)' = Fresh(g, any)
  BY <1>1 DEF Key, Fresh, View
<1>3. \A g : Hit(g)' <=> Hit(g)
  BY <1>1, <1>2 DEF Hit, UpToDate
<1>4. ServiceTypes' /\ StateTrue'
  BY <1>1 DEF ServiceInv, ServiceTypes, StateTrue
<1>5. FindingsTrue'
  BY <1>1, <1>2, <1>3 DEF ServiceInv, FindingsTrue
<1>6. ServedTrue'
  BY <1>1, <1>2, <1>3 DEF ServiceInv, ServedTrue
<1>7. OffersTrue'
  <2>1. \A g, rule : Fixes(g, rule)' = Fixes(g, rule)
    BY <1>1, <1>2 DEF Fixes
  <2>2. QED
    BY <1>1, <1>3, <2>1 DEF ServiceInv, OffersTrue, CanBeDone
<1>8. ResponseTrue'
  BY <1>1 DEF ResponseTrue
<1>9. QED
  BY <1>4, <1>5, <1>6, <1>7, <1>8 DEF ServiceInv

\* Nothing is remembered after the caches were cleared, also not for the current version of the project.
LEMMA CleanupKeeps ==
    ASSUME ServiceInv, CleanupSemanticCache
    PROVE  ServiceInv'
<1>1. /\ DOMAIN findingsForFile' = {} /\ DOMAIN oldState' = {}
      /\ offered' = {} /\ response' = Nothing
      /\ served' = [f \in OpenFiles |-> Nothing]
      /\ setups' = {setup}
      /\ UNCHANGED <<version, projectVersion, programFiles, setup, lastProjectVersion>>
  BY DEF CleanupSemanticCache, environment
<1>2. ServiceTypes'
  BY <1>1 DEF ServiceInv, ServiceTypes
<1>3. StateTrue' /\ FindingsTrue'
  BY <1>1 DEF StateTrue, FindingsTrue, Hit
<1>4. ServedTrue' /\ OffersTrue' /\ ResponseTrue'
  BY <1>1 DEF ServedTrue, OffersTrue, ResponseTrue
<1>5. QED
  BY <1>2, <1>3, <1>4 DEF ServiceInv

-----------------------------------------------------------------------------
\* Nothing is remembered at the start.
LEMMA ServiceInitially == ServiceInit => ServiceInv
<1>1. SUFFICES ASSUME ServiceInit
               PROVE  ServiceInv
  OBVIOUS
<1>2. ServiceTypes
  BY <1>1, ServiceAssumption DEF ServiceInit, ServiceTypes
<1>3. DOMAIN findingsForFile = {} /\ DOMAIN oldState = {}
  BY <1>1 DEF ServiceInit
<1>4. StateTrue /\ FindingsTrue
  BY <1>3 DEF StateTrue, FindingsTrue, Hit
<1>5. ServedTrue /\ OffersTrue /\ ResponseTrue
  BY <1>1 DEF ServiceInit, ServedTrue, OffersTrue, ResponseTrue
<1>6. QED
  BY <1>2, <1>4, <1>5 DEF ServiceInv

\* Every step of the service and of the editor.
LEMMA ServiceStep == ServiceInv /\ [ServiceNext]_serviceVars => ServiceInv'
<1> SUFFICES ASSUME ServiceInv, [ServiceNext]_serviceVars
             PROVE  ServiceInv'
  OBVIOUS
<1>1. ASSUME NEW f \in OpenFiles, GetDiagnostics(f)
      PROVE  ServiceInv'
  BY <1>1, DiagnosticsKeep
<1>2. ASSUME NEW f \in OpenFiles, NEW position \in FixPositions, GetCodeFixesAtPosition(f, position)
      PROVE  ServiceInv'
  BY <1>2, CodeFixesKeep
<1>3. ASSUME NEW f \in OpenFiles, NEW rule \in Rules, GetCombinedCodeFix(f, rule)
      PROVE  ServiceInv'
  BY <1>3, CombinedFixKeeps
<1>4. ASSUME NEW f \in OpenFiles, Edit(f)
      PROVE  ServiceInv'
  BY <1>4, EditKeeps
<1>5. CASE ChangeFiles
  BY <1>5, ChangeFilesKeeps
<1>6. CASE ChangeSetup
  BY <1>6, ChangeSetupKeeps
<1>7. CASE CleanupSemanticCache
  BY <1>7, CleanupKeeps
<1>8. CASE UNCHANGED serviceVars
  <2>1. UNCHANGED <<version, projectVersion, programFiles, setup, lastProjectVersion, findingsForFile, oldState,
                    response, offered, served, setups>>
    BY <1>8 DEF serviceVars, environment, serviceCaches, history
  <2>2. /\ \A g : Key(g)' = Key(g)
        /\ \A g, any : Fresh(g, any)' = Fresh(g, any)
        /\ \A g : Hit(g)' <=> Hit(g)
    BY <2>1 DEF Key, Fresh, View, Hit, UpToDate
  <2>3. \A g, rule : Fixes(g, rule)' = Fixes(g, rule)
    BY <2>1, <2>2 DEF Fixes
  <2>4. ServiceTypes' /\ StateTrue' /\ FindingsTrue' /\ ServedTrue'
    BY <2>1, <2>2 DEF ServiceInv, ServiceTypes, StateTrue, FindingsTrue, ServedTrue
  <2>5. OffersTrue' /\ ResponseTrue'
    BY <2>1, <2>2, <2>3 DEF ServiceInv, OffersTrue, CanBeDone, ResponseTrue
  <2>6. QED
    BY <2>4, <2>5 DEF ServiceInv
<1>9. QED
  BY <1>1, <1>2, <1>3, <1>4, <1>5, <1>6, <1>7, <1>8 DEF ServiceNext

\* The invariant holds in every state of every run.
LEMMA ServiceInvariance == ServiceSpec => []ServiceInv
BY ServiceInitially, ServiceStep, PTL DEF ServiceSpec

\* What the editor is shown for a file is what linting it now would find, with a configuration that was in force
\* since the last change of the project; what it is offered can be done as long as the project stays the same.
THEOREM EditorSeesFresh == ServiceSpec => []ServesFresh
<1>1. ServiceInv => ServesFresh
  <2> SUFFICES ASSUME ServiceInv
               PROVE  ServesFresh
    OBVIOUS
  <2>1. ASSUME NEW f \in OpenFiles, served[f] # Nothing
        PROVE  \E any \in setups : served[f] = Fresh(f, any)
    <3>1. CASE f \in programFiles
      BY <2>1, <3>1 DEF ServiceInv, ServedTrue, FindingsTrue
    <3>2. CASE f \notin programFiles
      <4>1. served[f] = NoFindings /\ Fresh(f, setup) = NoFindings
        BY <2>1, <3>2 DEF ServiceInv, ServedTrue, Fresh
      <4>2. QED
        BY <4>1 DEF ServiceInv, ServiceTypes
    <3>3. QED
      BY <3>1, <3>2
  <2>2. ASSUME NEW offer \in offered
        PROVE  FindingsForFile(offer[1]) # Nothing
    <3>1. PICK f \in programFiles : offer = <<f, offer[2]>> /\ Hit(f)
      BY DEF ServiceInv, OffersTrue, CanBeDone
    <3>2. PICK any \in setups : findingsForFile[Key(f)] = Fresh(f, any)
      BY <3>1 DEF ServiceInv, FindingsTrue
    <3>3. FindingsForFile(f) # Nothing
      BY <3>1, <3>2, FreshAreFindings DEF FindingsForFile, ServiceInv, ServiceTypes
    <3>4. offer[1] = f
      BY <3>1
    <3>5. QED
      BY <3>3, <3>4
  <2>3. QED
    BY <2>1, <2>2 DEF ServesFresh, OffersHold, ServiceInv, ResponseTrue
<1>2. QED
  BY <1>1, ServiceInvariance, PTL

\* All answers about a file in one version of the project come from the same findings, whichever requests come
\* in between and however the configuration changes.
THEOREM AnswersFitEachOther == ServiceSpec => SameFindings
<1>1. ServiceInv /\ [ServiceNext]_serviceVars
        => [\A f \in OpenFiles : served[f] # Nothing /\ served'[f] # Nothing => served'[f] = served[f]]_serviceVars
  <2> SUFFICES ASSUME ServiceInv, ServiceNext, NEW f \in OpenFiles, served[f] # Nothing, served'[f] # Nothing
               PROVE  served'[f] = served[f]
    OBVIOUS
  <2>1. ASSUME NEW g \in OpenFiles, NEW answer, Answer(g, answer)
        PROVE  served'[f] = served[f]
    <3>1. /\ served'[g] = Serves(g) /\ \A h \in OpenFiles \ {g} : served'[h] = served[h]
      BY <2>1 DEF Answer, Serves, ServiceInv, ServiceTypes
    <3>2. CASE f = g
      <4>1. CASE f \in programFiles
        <5>1. Hit(f) /\ served[f] = findingsForFile[Key(f)]
          BY <4>1 DEF ServiceInv, ServedTrue
        <5>2. FindingsForFile(f) = served[f]
          BY <4>1, <5>1 DEF FindingsForFile
        <5>3. QED
          BY <3>1, <3>2, <5>2 DEF Serves
      <4>2. CASE f \notin programFiles
        <5>1. served[f] = NoFindings /\ FindingsForFile(f) = Nothing
          BY <4>2 DEF ServiceInv, ServedTrue, FindingsForFile
        <5>2. QED
          BY <3>1, <3>2, <5>1 DEF Serves
      <4>3. QED
        BY <4>1, <4>2
    <3>3. CASE f # g
      BY <3>1, <3>3
    <3>4. QED
      BY <3>2, <3>3
  <2>2. ASSUME NEW g \in OpenFiles, GetDiagnostics(g)
        PROVE  served'[f] = served[f]
    BY <2>1, <2>2 DEF GetDiagnostics
  <2>3. ASSUME NEW g \in OpenFiles, NEW position \in FixPositions, GetCodeFixesAtPosition(g, position)
        PROVE  served'[f] = served[f]
    BY <2>1, <2>3 DEF GetCodeFixesAtPosition
  <2>4. ASSUME NEW g \in OpenFiles, NEW rule \in Rules, GetCombinedCodeFix(g, rule)
        PROVE  served'[f] = served[f]
    BY <2>1, <2>4 DEF GetCombinedCodeFix
  <2>5. ASSUME NEW g \in OpenFiles, Edit(g)
        PROVE  served'[f] = served[f]
    BY <2>5 DEF Edit, ProgramChanges
  <2>6. CASE ChangeFiles
    BY <2>6 DEF ChangeFiles, ProgramChanges
  <2>7. CASE ChangeSetup
    BY <2>7 DEF ChangeSetup
  <2>8. CASE CleanupSemanticCache
    BY <2>8 DEF CleanupSemanticCache
  <2>9. QED
    BY <2>2, <2>3, <2>4, <2>5, <2>6, <2>7, <2>8 DEF ServiceNext
<1>2. QED
  BY <1>1, ServiceInvariance, PTL DEF ServiceSpec, SameFindings
=============================================================================
