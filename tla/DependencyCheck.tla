--------------------------- MODULE DependencyCheck ---------------------------
(***************************************************************************)
(* The steps of fileDependenciesUpToDate in                                *)
(* packages/wotan/src/services/program-state.ts: a depth-first search over *)
(* the dependencies of a file, without recursion, that compares the        *)
(* content ids of old and new dependencies and keeps the status of files   *)
(* in a dependency cycle open until the whole cycle has been looked at.    *)
(*                                                                         *)
(* A file is processed as a pair of its name in the program and its index  *)
(* in the old state: dependencies are paired by content id, not by name.   *)
(* An index is written as the name it had in the old state. Positions in   *)
(* parents count from 1, Infinity stands for Number.MAX_SAFE_INTEGER.      *)
(***************************************************************************)
EXTENDS ProgramGraph, Sequences, SequencesExt

CONSTANTS
    Instances, \* pairs of an old program and the current one
    None       \* undefined

\* An old state is only used for a program in the same environment.
ASSUME InstancesAssumption ==
    /\ Instances \subseteq Programs \X Programs
    /\ \A I \in Instances : SameEnvironment(I[1], I[2])

VARIABLES
    old,           \* the snapshot of oldState
    new,           \* the current program
    status,        \* this.dependenciesUpToDate
    queue,         \* fileNameQueue and indexQueue
    parents,
    childCounts,
    circular,      \* circularDependenciesQueue
    cycles,
    pc,            \* "idle", or what the loop does next
    root,          \* the file the call was made for
    known,         \* status when the last call returned
    answer         \* file and result of the last call

local == <<queue, parents, childCounts, circular, cycles>>
vars == <<old, new, status, queue, parents, childCounts, circular, cycles, pc, root, known, answer>>

Infinity == 2 * Cardinality(Files) + 2

Init ==
    /\ \E I \in Instances : old = I[1] /\ new = I[2]
    /\ status = [f \in Files |-> "Unknown"]
    /\ known = status
    /\ queue = <<>> /\ parents = <<>> /\ childCounts = <<>>
    /\ circular = <<>> /\ cycles = <<>>
    /\ pc = "idle" /\ root = None /\ answer = None

\* Callers compare the content of the file itself before they ask.
Ask(f) ==
    /\ pc = "idle"
    /\ f \in new.files
    /\ Id(old, f) = Id(new, f)
    /\ pc' = "process"
    /\ root' = f
    /\ queue' = <<[name |-> f, index |-> f]>>
    /\ UNCHANGED <<old, new, status, parents, childCounts, circular, cycles, known, answer>>

Return(result) ==
    /\ pc' = "idle"
    /\ answer' = [file |-> root, result |-> result]
    /\ known' = status'
    /\ root' = None
    /\ queue' = <<>> /\ parents' = <<>> /\ childCounts' = <<>>
    /\ circular' = <<>> /\ cycles' = <<>>
    /\ UNCHANGED <<old, new>>

\* Mutant: files that have not been looked at are marked, too.
MarkQueueAsOutdated(index) ==
    /\ status' = [f \in Files |->
                    IF f = index \/ f \in ToSet(parents) \/ \E c \in ToSet(cycles) : f \in c
                       \/ \E q \in ToSet(queue) : q.index = f /\ status[f] = "Unknown"
                    THEN "Outdated" ELSE status[f]]
    /\ Return(FALSE)

\* markAsOutdated: everything that waits for this file is outdated, too.
MarkAsOutdated(index) ==
    /\ status' = [f \in Files |->
                    IF f = index \/ f \in ToSet(parents) \/ \E c \in ToSet(cycles) : f \in c
                    THEN "Outdated" ELSE status[f]]
    /\ Return(FALSE)

\* Mutant: a cycle is not extended to the cycles it shares parents with.
NewCycleOnly(self, earliest) ==
    [first |-> earliest,
     cycles |-> Append(cycles, {self} \union {parents[i] : i \in earliest..Len(parents)}),
     circular |-> [i \in DOMAIN circular |-> IF i >= earliest THEN earliest ELSE circular[i]]]

\* setCircularDependency: self depends on the parent at position earliest. All
\* cycles that share a parent with the new one are merged.
SetCircularDependency(self, earliest) ==
    LET top == Len(circular)
        reaching == {i \in earliest..top : circular[i] < i /\ circular[i] <= earliest}
        stop == IF reaching = {} THEN earliest ELSE Max(reaching)
        first == IF reaching = {} THEN earliest ELSE circular[stop]
        merged == Cardinality({i \in stop..top :
                     /\ circular[i] # Infinity
                     /\ i = top \/ circular[i + 1] \in {Infinity, i + 1}})
        kept == IF merged = 0 THEN Len(cycles) ELSE Len(cycles) - merged
        members == {self} \union {parents[i] : i \in first..top}
                     \union UNION {cycles[j] : j \in kept + 1..Len(cycles)}
    IN  [first |-> first,
         cycles |-> Append(SubSeq(cycles, 1, kept), members),
         circular |-> [i \in 1..top |-> IF i >= first THEN first ELSE circular[i]]]

Current == Last(queue)

InCycle(index) == \E j \in DOMAIN cycles : index \in cycles[j]

CycleOf(index) == cycles[CHOOSE j \in DOMAIN cycles :
                            index \in cycles[j] /\ \A i \in 1..j - 1 : index \notin cycles[i]]

\* The positions findCircularDependencyOfCycle looks for.
CyclePositions(cycle) ==
    {i \in DOMAIN parents : circular[i] # Infinity /\ parents[i] \in cycle}

\* Pairs of new and old dependencies with the same id, for one specifier.
Pairings(file, k) ==
    LET before == Resolved(old, file.index, k)
        after == Resolved(new, file.name, k)
    IN  {{[name |-> m[i], index |-> i, key |-> k] : i \in before} :
            m \in {m \in [before -> after] : /\ IsInjective(m)
                                             /\ \A i \in before : Id(old, i) = Id(new, m[i])}}

\* Every way the loop over the specifiers may pair the dependencies.
Dependencies(file) ==
    IF Direct(new) THEN {{}}
    ELSE {{d \in UNION {c[k] : k \in Specs} : d.name # file.name} :
            c \in {c \in [Specs -> UNION {Pairings(file, k) : k \in Specs}] :
                     \A k \in Specs : c[k] \in Pairings(file, k)}}

Unchanged(file) == DepIds(old, file.index) = DepIds(new, file.name)

KnownOutdated ==
    /\ pc = "process"
    /\ status[Current.index] = "Outdated"
    /\ MarkAsOutdated(Current.index)

KnownOk ==
    /\ pc = "process"
    /\ status[Current.index] = "Ok"
    /\ queue' = Front(queue)
    /\ pc' = "unwind"
    /\ UNCHANGED <<old, new, status, parents, childCounts, circular, cycles, root, known, answer>>

\* The file is already part of a cycle: its current parent belongs to it as well.
KnownCycle ==
    /\ pc = "process"
    /\ status[Current.index] = "Unknown"
    /\ InCycle(Current.index)
    /\ LET positions == CyclePositions(CycleOf(Current.index))
           r == SetCircularDependency(Current.index, circular[Min(positions)])
       IN  /\ positions # {}
           /\ cycles' = r.cycles
           /\ circular' = r.circular
    /\ queue' = Front(queue)
    /\ pc' = "unwind"
    /\ UNCHANGED <<old, new, status, parents, childCounts, root, known, answer>>

Changed ==
    /\ pc = "process"
    /\ status[Current.index] = "Unknown"
    /\ ~InCycle(Current.index)
    /\ ~Unchanged(Current)
    /\ MarkAsOutdated(Current.index)

\* Dependencies that are parents close a cycle, the others are processed next.
Expand ==
    /\ pc = "process"
    /\ status[Current.index] = "Unknown"
    /\ ~InCycle(Current.index)
    /\ Unchanged(Current)
    /\ \E deps \in Dependencies(Current) :
       LET self == Current.index
           closing == {i \in DOMAIN parents : \E d \in deps : parents[i] = d.index}
           children == {d \in deps : d.index \notin ToSet(parents)}
           r == IF closing = {}
                THEN [first |-> Infinity, cycles |-> cycles, circular |-> circular]
                ELSE SetCircularDependency(self, Min(closing))
       IN  /\ cycles' = r.cycles
           /\ status' = IF closing = {} /\ children = {}
                        THEN [status EXCEPT ![self] = "Ok"] ELSE status
           /\ \/ /\ children = {}
                 /\ queue' = Front(queue)
                 /\ pc' = "unwind"
                 /\ circular' = r.circular
                 /\ UNCHANGED <<parents, childCounts>>
              \/ /\ children # {}
                 /\ \E order \in SetToSeqs(children) :
                      queue' = Front(queue) \o
                        [i \in DOMAIN order |-> [name |-> order[i].name, index |-> order[i].index]]
                 /\ parents' = Append(parents, self)
                 /\ childCounts' = Append(childCounts, Cardinality(children))
                 /\ circular' = Append(r.circular, r.first)
                 /\ pc' = "process"
    /\ UNCHANGED <<old, new, root, known, answer>>

\* Mutant: the parent is not removed.
CloseKeepsParent ==
    /\ pc = "unwind"
    /\ parents # <<>>
    /\ Last(childCounts) = 1
    /\ status' = [status EXCEPT ![Last(parents)] = "Ok"]
    /\ UNCHANGED <<old, new, parents, childCounts, circular, cycles, queue, pc, root, known, answer>>

\* Mutant: a parent in a cycle is Ok before the cycle ends.
CloseInCycle ==
    /\ pc = "unwind"
    /\ parents # <<>>
    /\ Last(childCounts) = 1
    /\ status' = [status EXCEPT ![Last(parents)] = "Ok"]
    /\ cycles' = IF Last(circular) # Infinity /\ cycles # <<>> THEN Front(cycles) ELSE cycles
    /\ parents' = Front(parents)
    /\ childCounts' = Front(childCounts)
    /\ circular' = Front(circular)
    /\ UNCHANGED <<old, new, queue, pc, root, known, answer>>

\* The last child of the innermost parent is done: the parent is Ok unless it depends
\* on one of its own parents. A cycle ends with its first parent.
Close ==
    /\ pc = "unwind"
    /\ parents # <<>>
    /\ Last(childCounts) = 1
    /\ LET first == Last(circular)
           ends == first >= Len(parents)
           done == IF ends /\ first # Infinity THEN Last(cycles) ELSE {}
       IN  /\ ends /\ first # Infinity => cycles # <<>>
           /\ status' = [f \in Files |-> IF ends /\ (f = Last(parents) \/ f \in done)
                                         THEN "Ok" ELSE status[f]]
           /\ cycles' = IF ends /\ first # Infinity THEN Front(cycles) ELSE cycles
    /\ parents' = Front(parents)
    /\ childCounts' = Front(childCounts)
    /\ circular' = Front(circular)
    /\ UNCHANGED <<old, new, queue, pc, root, known, answer>>

\* The innermost parent has more children.
NextChild ==
    /\ pc = "unwind"
    /\ parents # <<>>
    /\ Last(childCounts) > 1
    /\ childCounts' = [childCounts EXCEPT ![Len(childCounts)] = @ - 1]
    /\ pc' = "process"
    /\ UNCHANGED <<old, new, status, queue, parents, circular, cycles, root, known, answer>>

Finish ==
    /\ pc = "unwind"
    /\ parents = <<>>
    /\ UNCHANGED status
    /\ Return(TRUE)

Step ==
    \/ KnownOutdated \/ KnownOk \/ KnownCycle \/ Changed \/ Expand
    \/ Close \/ NextChild \/ Finish

Next == Step \/ \E f \in Files : Ask(f)

\* The loop runs until it returns.
Spec == Init /\ [][Next]_vars /\ WF_vars(Step)

-----------------------------------------------------------------------------
(* Properties                                                              *)

TypeOK ==
    /\ status \in [Files -> DependencyState]
    /\ known \in [Files -> DependencyState]
    /\ queue \in Seq([name : Files, index : Files])
    /\ parents \in Seq(Files)
    /\ Len(parents) = Len(childCounts) /\ Len(parents) = Len(circular)
    /\ childCounts \in Seq(1..Cardinality(Files) * Cardinality(Specs))
    /\ circular \in Seq(1..Len(parents) \union {Infinity})
    /\ cycles \in Seq(SUBSET Files)
    /\ pc \in {"idle", "process", "unwind"}
    /\ root \in {None} \union Files
    /\ answer \in {None} \union [file : Files, result : BOOLEAN]

\* At no point of a walk a status is wrong, although the walk goes through cycles
\* whose members cannot be decided one by one.
StatusesTrue ==
    \A f \in old.files :
        /\ status[f] = "Ok" => UpToDate(old, new, f)
        /\ status[f] = "Outdated" => ~UpToDate(old, new, f)

\* The error "should never happen" (line 415) does not happen, and a cycle that ends
\* has been recorded (the ! in line 293).
NeverThrows ==
    /\ pc = "process" /\ status[Current.index] = "Unknown" /\ InCycle(Current.index)
         => CyclePositions(CycleOf(Current.index)) # {}
    /\ pc = "unwind" /\ parents # <<>> /\ Last(childCounts) = 1
         /\ Last(circular) >= Len(parents) /\ Last(circular) # Infinity
         => cycles # <<>> /\ Last(parents) \in Last(cycles)

\* A file is in one cycle at most, and in none once it is decided.
CyclesSeparate ==
    \A i, j \in DOMAIN cycles : \A f \in cycles[i] :
        status[f] = "Unknown" /\ (i # j => f \notin cycles[j])

\* The stacks the loop keeps instead of recursion stay aligned whatever cycles there are: no cycle is
\* closed early, shared or lost, and nothing is read from an empty stack.
StacksAligned == TypeOK /\ CyclesSeparate /\ NeverThrows

\* Every call returns, whatever cycles there are.
Terminates == pc # "idle" ~> pc = "idle"

\* Every file has its own content, except that an edited one got a new one. Without it
\* a dependency may be compared with a different file of the same content.
ContentsDiffer ==
    \A I \in Instances : \A f \in I[1].files, g \in I[2].files : I[1].ver[f] = I[2].ver[g] => f = g

\* A call does what its callers rely on.
Walk == INSTANCE DependencyWalk
RefinesWalk == Walk!Spec

\* A file that is found to be up to date has the dependencies it had: "A file is
\* treated as outdated [if a] dependency is outdated" (packages/wotan/README.md:244-257).
UpToDateHasSameDeps ==
    pc = "idle" /\ answer # None /\ answer.result => SameDeps(old, new, answer.file)
=============================================================================
