----------------------------- MODULE FileSystem -----------------------------
(***************************************************************************)
(* A file system that only this process changes, and what callers of       *)
(* CachedFileSystem (packages/wotan/src/services/cached-file-system.ts)    *)
(* may rely on: answers are as if there was no cache.                      *)
(*                                                                         *)
(* The exception are paths the cache is not told about although a call     *)
(* creates them: they may be taken for nonexistent.                        *)
(***************************************************************************)
EXTENDS FiniteSets

CONSTANTS
    Paths, Root,
    Parent,       \* the directory of a path, Root is its own parent
    Up,           \* a path and all directories it is in
    Recursive,    \* whether createDirectory creates parents, too: the interface says no,
                  \* NodeFileSystem does
    Trees,        \* what the file system may contain at the start
    Error         \* the call throws

VARIABLES
    tree,         \* the kind of every path; whether it is a symbolic link
    unseen,       \* paths that were created without telling the cache
    reply         \* function, argument and result of the last call

Kinds == {"NonExistent", "File", "Directory", "Other"}

Nodes == [kind : Kinds, link : BOOLEAN]

ASSUME PathsAssumption ==
    /\ Root \in Paths /\ Parent \in [Paths -> Paths] /\ Parent[Root] = Root
    /\ Up \in [Paths -> SUBSET Paths] /\ Up[Root] = {Root}
    /\ \A p \in Paths \ {Root} : Up[p] = {p} \union Up[Parent[p]] /\ p \notin Up[Parent[p]]
    /\ Recursive \subseteq BOOLEAN
    /\ Trees \subseteq [Paths -> Nodes]
    /\ \A t \in Trees : \A p \in Paths :
         t[p].kind # "NonExistent" \/ t[p].link => t[Parent[p]].kind = "Directory"

ASSUME UpAssumption == \A p \in Paths : p \in Up[p] /\ \A q \in Up[p] : Up[q] \subseteq Up[p]

-----------------------------------------------------------------------------
Present(p) == tree[p].kind # "NonExistent" \/ tree[p].link

IsDirectory(p) == tree[p].kind = "Directory"

Children(d) == {p \in Paths \ {Root} : Parent[p] = d /\ Present(p)}

\* stat follows symbolic links
RealPath(p) == IF tree[p].kind = "NonExistent" THEN Error
               ELSE IF tree[p].link THEN "target" ELSE "itself"

KindAnswers(p) == {tree[p].kind} \union (IF p \in unseen THEN {"NonExistent"} ELSE {})

\* Entries that exist
ListAnswers(d) ==
    IF ~IsDirectory(d) THEN {Error}
    ELSE LET existing == {p \in Children(d) : tree[p].kind # "NonExistent"} IN
         {{<<p, tree[p].kind>> : p \in listed} :
            listed \in {l \in SUBSET existing : existing \ unseen \subseteq l}}

RealPathAnswers(p) == IF p \in unseen THEN {Error, "target", "itself"} ELSE {RealPath(p)}

-----------------------------------------------------------------------------
Init ==
    /\ tree \in Trees
    /\ unseen = {}
    /\ reply = <<"start", Root, Error>>

\* isFile, isDirectory, getKind
GetKind(p) ==
    /\ \E answer \in KindAnswers(p) : reply' = <<"kind", p, answer>>
    /\ UNCHANGED <<tree, unseen>>

ReadDirectory(d) ==
    /\ \E answer \in ListAnswers(d) : reply' = <<"list", d, answer>>
    /\ UNCHANGED <<tree, unseen>>

RealPathOf(p) ==
    /\ \E answer \in RealPathAnswers(p) : reply' = <<"realpath", p, answer>>
    /\ UNCHANGED <<tree, unseen>>

\* Nobody writes to devices.
Writable(p) == tree[p].kind \in {"NonExistent", "File"} /\ IsDirectory(Parent[p])

WriteFile(p) ==
    /\ reply' = <<"write", p, "done">>
    /\ Writable(p)
    /\ tree' = [tree EXCEPT ![p].kind = "File"]
    /\ UNCHANGED unseen

\* A write may fail after the file was created.
WriteFails(p) ==
    /\ reply' = <<"write", p, Error>>
    /\ tree[p].kind # "Other"
    /\ \/ UNCHANGED <<tree, unseen>>
       \/ /\ Writable(p)
          /\ tree' = [tree EXCEPT ![p].kind = "File"]
          /\ unseen' = IF tree[p].kind = "File" THEN unseen ELSE unseen \union {p}

\* Only files are removed.
RemovePath(p) ==
    /\ reply' = <<"remove", p, "done">>
    /\ Present(p) /\ ~IsDirectory(p)
    /\ tree' = [tree EXCEPT ![p] = [kind |-> "NonExistent", link |-> FALSE]]
    /\ UNCHANGED unseen

RemoveFails(p) ==
    /\ reply' = <<"remove", p, Error>>
    /\ ~IsDirectory(p)
    /\ UNCHANGED <<tree, unseen>>

\* The directories that are created on the way to p if nothing can be created in denied
Made(p, denied) ==
    LET missing == {q \in Up[p] : ~Present(q)} IN
    {q \in missing : \A r \in Up[q] \cap missing :
        Parent[r] \notin denied /\ (Parent[r] \in missing \/ IsDirectory(Parent[r]))}

CreateDirectory(p) ==
    \E answer \in {"done", Error} :
        /\ reply' = <<"create", p, answer>>
        /\ \E denied \in SUBSET (Up[p] \ {p}) :
             LET made == Made(p, denied) IN
             /\ tree' = [q \in Paths |-> IF q \in made THEN [kind |-> "Directory", link |-> FALSE]
                                         ELSE tree[q]]
             /\ \E hidden \in SUBSET made :
                  /\ TRUE \in Recursive \/ hidden = {}
                  /\ unseen' = unseen \union hidden
        /\ answer = "done" <=> tree'[p].kind = "Directory"

Next ==
    \E p \in Paths :
        \/ GetKind(p) \/ ReadDirectory(p) \/ RealPathOf(p)
        \/ WriteFile(p) \/ WriteFails(p)
        \/ RemovePath(p) \/ RemoveFails(p)
        \/ CreateDirectory(p)

Spec == Init /\ [][Next]_<<tree, unseen, reply>>
=============================================================================
