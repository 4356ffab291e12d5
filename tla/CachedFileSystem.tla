-------------------------- MODULE CachedFileSystem --------------------------
(***************************************************************************)
(* packages/wotan/src/services/cached-file-system.ts. The file system      *)
(* behind the cache is that of FileSystem.                                 *)
(***************************************************************************)
EXTENDS FileSystem

CONSTANT None  \* undefined

ASSUME ValuesAssumption ==
    /\ None \notin Kinds /\ None \notin {"target", "itself"} /\ \A X \in SUBSET Paths : None # X
    /\ Error \notin {"target", "itself", "done"} /\ \A X \in SUBSET (Paths \X Kinds) : Error # X

VARIABLES
    kinds,     \* fileKindCache
    dirents,   \* direntCache
    realpaths  \* realpathCache

caches == <<kinds, dirents, realpaths>>
cvars == <<tree, unseen, reply, kinds, dirents, realpaths>>

Empty == [p \in Paths |-> None]

\* resolveCachedResult(fileKindCache, p, doGetKind)
Kind(p) == IF kinds[p] # None THEN kinds[p] ELSE tree[p].kind

-----------------------------------------------------------------------------
CInit ==
    /\ Init
    /\ kinds = Empty /\ dirents = Empty /\ realpaths = Empty

CGetKind(p) ==
    /\ kinds' = [kinds EXCEPT ![p] = Kind(p)]
    /\ reply' = <<"kind", p, Kind(p)>>
    /\ UNCHANGED <<tree, unseen, dirents, realpaths>>

\* readDirectory with an entry in the cache
ListCached(d) ==
    /\ dirents[d] # None
    /\ reply' = <<"list", d, {<<p, kinds[p]>> : p \in dirents[d]}>>
    /\ UNCHANGED <<tree, unseen, kinds, dirents, realpaths>>

\* Mutant: the kind of a link is that of its entry.
ListWithoutStat(d) ==
    /\ dirents[d] = None /\ IsDirectory(d)
    /\ \E names \in SUBSET Children(d) :
         kinds' = [p \in Paths |->
             IF p \notin Children(d) THEN kinds[p]
             ELSE IF p \in names THEN Kind(p)
             ELSE IF tree[p].link THEN "Other" ELSE tree[p].kind]
    /\ dirents' = [dirents EXCEPT ![d] = Children(d)]
    /\ reply' = <<"list", d, {<<p, kinds'[p]>> : p \in Children(d)}>>
    /\ UNCHANGED <<tree, unseen, realpaths>>

\* The FileSystem returns names, or entries that know their kind unless they are links.
List(d) ==
    /\ dirents[d] = None /\ IsDirectory(d)
    /\ \E names \in SUBSET Children(d) :
         kinds' = [p \in Paths |->
             IF p \notin Children(d) THEN kinds[p]
             ELSE IF p \in names \/ tree[p].link THEN Kind(p) ELSE tree[p].kind]
    /\ dirents' = [dirents EXCEPT ![d] = Children(d)]
    /\ reply' = <<"list", d, {<<p, kinds'[p]>> : p \in Children(d)}>>
    /\ UNCHANGED <<tree, unseen, realpaths>>

ListFails(d) ==
    /\ dirents[d] = None /\ ~IsDirectory(d)
    /\ reply' = <<"list", d, Error>>
    /\ UNCHANGED <<tree, unseen, kinds, dirents, realpaths>>

CRealPath(p) ==
    /\ LET path == IF realpaths[p] # None THEN realpaths[p] ELSE RealPath(p) IN
       /\ reply' = <<"realpath", p, path>>
       /\ realpaths' = IF path = Error THEN realpaths ELSE [realpaths EXCEPT ![p] = path]
    /\ UNCHANGED <<tree, unseen, kinds, dirents>>

\* Mutant: the listing of the directory is kept.
UpdateKinds(told, kind) ==
    /\ kinds' = [p \in Paths |-> IF p \in told THEN kind ELSE kinds[p]]
    /\ realpaths' = [p \in Paths |-> IF p \in told /\ kind = "NonExistent" THEN None ELSE realpaths[p]]
    /\ UNCHANGED dirents

\* updateCache for all paths in told
UpdateCache(told, kind) ==
    LET changed == {p \in told : kinds[p] # kind} IN
    /\ kinds' = [p \in Paths |-> IF p \in told THEN kind ELSE kinds[p]]
    /\ dirents' = [d \in Paths |-> IF \E p \in changed : Parent[p] = d THEN None ELSE dirents[d]]
    /\ realpaths' = [p \in Paths |-> IF p \in changed /\ kind = "NonExistent" THEN None ELSE realpaths[p]]

CWriteFile(p) == WriteFile(p) /\ UpdateCache({p}, "File")

CWriteFails(p) == WriteFails(p) /\ UNCHANGED caches

CRemove(p) == RemovePath(p) /\ UpdateCache({p}, "NonExistent")

CRemoveFails(p) == RemoveFails(p) /\ UNCHANGED caches

CreateKnown(p) ==
    /\ kinds[p] = "Directory"
    /\ reply' = <<"create", p, "done">>
    /\ UNCHANGED <<tree, unseen, kinds, dirents, realpaths>>

\* The directory nearest to p, p itself if it was created: doCreateDirectory tries
\* every path up to this one.
Nearest(t, p) == {q \in Up[p] : /\ t[q].kind = "Directory"
                                /\ \A r \in Up[p] : t[r].kind = "Directory" => r \in Up[q]}

\* doCreateDirectory: if creating p fails, its parent is created before the second
\* attempt. With a FileSystem that creates parents only one of them is told.
DoCreateDirectory(p) ==
    /\ kinds[p] # "Directory"
    /\ \E denied \in SUBSET (Up[p] \ {p}), recursive \in Recursive :
         LET made == Made(p, denied)
             after == [q \in Paths |-> IF q \in made THEN [kind |-> "Directory", link |-> FALSE] ELSE tree[q]]
             told == Nearest(after, p) \union (IF recursive THEN {} ELSE made)
         IN  /\ tree' = after
             /\ unseen' = unseen \union (made \ told)
             /\ UpdateCache(told, "Directory")
    /\ reply' = <<"create", p, IF tree'[p].kind = "Directory" THEN "done" ELSE Error>>

CNext ==
    \E p \in Paths :
        \/ CGetKind(p)
        \/ ListCached(p) \/ List(p) \/ ListFails(p)
        \/ CRealPath(p)
        \/ CWriteFile(p) \/ CWriteFails(p)
        \/ CRemove(p) \/ CRemoveFails(p)
        \/ CreateKnown(p) \/ DoCreateDirectory(p)

CSpec == CInit /\ [][CNext]_cvars

-----------------------------------------------------------------------------
(* Properties                                                              *)

TypeOK ==
    /\ tree \in [Paths -> Nodes] /\ unseen \subseteq Paths
    /\ kinds \in [Paths -> Kinds \union {None}]
    /\ dirents \in [Paths -> (SUBSET Paths) \union {None}]
    /\ realpaths \in [Paths -> {None, "target", "itself"}]

\* A cached kind is the kind the path has now.
KindsCurrent == \A p \in Paths : kinds[p] # None => kinds[p] \in KindAnswers(p)

\* A cached listing has the entries the directory has now, all with a cached kind (the !
\* in line 56). Entries that do not exist (removed links to nowhere) may be left.
ListingsCurrent ==
    \A d \in Paths : dirents[d] # None =>
        /\ IsDirectory(d)
        /\ Children(d) \ unseen \subseteq dirents[d]
        /\ \A p \in dirents[d] : Parent[p] = d /\ p # Root
        /\ \A p \in dirents[d] : kinds[p] # None
        /\ \A p \in dirents[d] \ Children(d) : kinds[p] = "NonExistent"

\* A cached real path is the real path the file has now.
RealPathsCurrent == \A p \in Paths \ unseen : realpaths[p] # None => realpaths[p] = RealPath(p)

\* The caches agree with the file system after whatever calls succeed or fail, as far as
\* the cache is told (updateCache, line 127).
CachesCurrent == TypeOK /\ KindsCurrent /\ ListingsCurrent /\ RealPathsCurrent

\* A directory is never taken for nonexistent: whatever createDirectory creates, one
\* directory per call of FileSystem.createDirectory, the cache is told (line 124).
DirectoriesKnown == \A p \in Paths : tree[p].kind = "Directory" => kinds[p] # "NonExistent"

\* Callers do not see entries that do not exist.
Visible == IF reply[1] = "list" /\ reply[3] # Error
           THEN <<reply[1], reply[2], {e \in reply[3] : e[2] # "NonExistent"}>>
           ELSE reply

Uncached == INSTANCE FileSystem WITH reply <- Visible

\* Whatever is called, the answers are those of the file system itself.
ImplementsFileSystem == Uncached!Spec
=============================================================================
