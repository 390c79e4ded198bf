--------------------------- MODULE ForkTreeGrowth ---------------------------
(***************************************************************************)
(* The fork tree on its own, as the two writers of writers/fork_tree.rs    *)
(* grow it and its pruning shortens it.                                    *)
(***************************************************************************)
EXTENDS ForkTree

VARIABLE tree

TreeInit == tree = EmptyTree

\* The main chain grows: the block follows the head (chainable in
\* check_and_apply_block), or it is the first one stored.  The block may
\* already hang in the tree as a fork of that same head.
InsertHead(b) ==
    /\ HeadParentExists(tree, b)
    /\ LiveNodes(tree) # {} =>
          /\ Previous[b] = MainBlock(tree, Number[b] - 1)
          /\ Number[b] \notin DOMAIN tree.main_branch
    /\ tree' = InsertNewHeadBlock(tree, b)

\* A block that is not yet stored and whose predecessor is.
InsertFork(b) ==
    /\ b \notin StoredBlocks(tree)
    /\ ForkParentExists(tree, b)
    /\ tree' = InsertNewForkBlock(tree, b)

TreeNext == \E b \in Block : InsertHead(b) \/ InsertFork(b)

TreeSpec == TreeInit /\ [][TreeNext]_tree

-----------------------------------------------------------------------------
(* Properties.                                                             *)

\* Every node occupies an allocated slot, and so on (see WellFormed).
TreeTypeOK == WellFormed(tree)

\* The main branch is one unbroken chain of stored blocks that starts at the
\* root, kept twice (parent links and the main_branch map) and pruned twice.
MainBranchIsChain == MainChain(tree)

\* The tree never keeps a main branch longer than the fork window.
WindowBound == Cardinality(DOMAIN tree.main_branch) <= FORK_WINDOW_SIZE

\* In the part of the tree that hangs under the root, the sheets are exactly
\* the leaves: fork resolution looks at the sheets only, so a leaf that is
\* not a sheet would be a branch that can never be chosen.
Attached == {tree.root} \cup Descendants(tree, tree.root)
SheetsAreLeaves ==
    LiveNodes(tree) # {} =>
       \A id \in Attached : id \in tree.sheets <=> Children(tree, id) = {}

\* A step that frees nodes reports exactly their blocks in
\* removed_blockstamps; the writers delete these blocks, and no others, from
\* the fork blocks database.
RemovalsReported ==
    [][tree'.removed_blockstamps =
          {DataOf(tree, id) : id \in LiveNodes(tree) \ LiveNodes(tree')}]_tree

\* Pruning only gives up branches that left the main branch at the old root:
\* whatever hangs under the new root survives the step that moved the root.
WindowBranchesKept ==
    [][tree'.root # tree.root /\ LiveNodes(tree) # {} =>
          {tree'.root} \cup Descendants(tree, tree'.root) \subseteq LiveNodes(tree')]_tree

\* Fork resolution walks from every sheet but the current block up to the main
\* branch.  Each node on the way is still stored: get_ref_node says "get unexist
\* or removed node" and aborts the process otherwise.
SheetsReachMainBranch ==
    \A id \in tree.sheets :
        \/ NumberOf(tree, id) \in DOMAIN tree.main_branch
           /\ NumberOf(tree, id) + 1 \notin DOMAIN tree.main_branch
           /\ OnMainBranch(tree, id)
        \/ ~WalkAborts(tree, id)
=============================================================================
