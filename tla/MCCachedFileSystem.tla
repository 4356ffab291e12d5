------------------------- MODULE MCCachedFileSystem -------------------------
(***************************************************************************)
(* Instances of CachedFileSystem for TLC.                                  *)
(***************************************************************************)
EXTENDS CachedFileSystem, TLC

CONSTANTS root, dir, entry

MCParent == root :> root @@ dir :> root @@ entry :> dir

MCUp == root :> {root} @@ dir :> {root, dir} @@ entry :> {root, dir, entry}

Node(kind) == [kind |-> kind, link |-> FALSE]
Link(kind) == [kind |-> kind, link |-> TRUE]
Missing == Node("NonExistent")

\* nothing; a directory with a link to nothing; a link to a directory with a device in it
MCTrees ==
    {root :> Node("Directory") @@ dir :> x[1] @@ entry :> x[2] : x \in {
        <<Missing, Missing>>,
        <<Node("Directory"), Link("NonExistent")>>,
        <<Link("Directory"), Node("Other")>>}}
=============================================================================
