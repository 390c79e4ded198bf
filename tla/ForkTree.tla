------------------------------ MODULE ForkTree ------------------------------
(***************************************************************************)
(* The fork tree of the block-chain storage layer: every block the node    *)
(* keeps inside the fork window, the main branch and the forks alike, each *)
(* hanging under the block it follows.                                     *)
(*                                                                         *)
(* The tree is a record and its operations are functions from a tree to a  *)
(* tree: ForkTreeGrowth is the tree on its own, driven by the two writers  *)
(* that grow it, and Blockchain uses them inside larger steps.             *)
(*                                                                         *)
(* A blockstamp (number, hash) is an element of Block; Number and Previous *)
(* give its height and the block whose hash it carries as previous_hash.   *)
(***************************************************************************)
EXTENDS Integers, FiniteSets, Sequences, Functions, SequencesExt

CONSTANTS
    Block,              \* the blockstamps that exist
    NoBlock,            \* what the genesis block names as its predecessor
    Number,             \* Number[b]: height of block b
    Previous,           \* Previous[b]: the block (Number[b]-1, previous_hash of b)
    FORK_WINDOW_SIZE,   \* longest main branch the tree keeps
    NoNode              \* None, for an Option<TreeNodeId>

ASSUME BlockAssumption ==
    /\ NoBlock \notin Block
    /\ Number \in [Block -> Nat]
    /\ Previous \in [Block -> Block \cup {NoBlock}]
    /\ \A b \in Block : Previous[b] \in Block => Number[b] = Number[Previous[b]] + 1

ASSUME WindowAssumption ==
    /\ FORK_WINDOW_SIZE \in Nat \ {0}
    /\ NoNode \notin Nat

-----------------------------------------------------------------------------
(* Reading the tree.                                                       *)

\* A node: its parent and the block it carries.  The children vector of the
\* code is read back from the parents (see Children).
TreeNode == [parent : Nat \cup {NoNode}, data : Block]

\* nodes holds the occupied slots only; allocated is nodes.len().  The code's
\* search for a free slot compares a slot inside the vector with None instead
\* of its content, so it never finds one: identifiers are never reused.
EmptyTree ==
    [root |-> NoNode, nodes |-> [i \in {} |-> NoNode], allocated |-> 0,
     main_branch |-> [n \in {} |-> NoNode], sheets |-> {},
     removed_blockstamps |-> {}]

LiveNodes(t) == DOMAIN t.nodes
DataOf(t, id) == t.nodes[id].data
NumberOf(t, id) == Number[DataOf(t, id)]
StoredBlocks(t) == {DataOf(t, id) : id \in LiveNodes(t)}

\* A node that is still in the tree has all its children in the tree as well,
\* unless it was itself left behind by a pruning; the pruning never visits
\* such a node, so the stale entries of its vector are never read.
Children(t, id) == {c \in LiveNodes(t) : t.nodes[c].parent = id}

\* Every node below id: the least set that holds the children of id and the
\* children of its own members.
Descendants(t, id) ==
    LET kids == [x \in LiveNodes(t) |-> Children(t, x)]
        closed == {S \in SUBSET LiveNodes(t) :
                      Children(t, id) \subseteq S /\ \A x \in S : kids[x] \subseteq S}
    IN  {d \in LiveNodes(t) : \A S \in closed : d \in S}

\* A block is found in the first slot that carries it.
NodesWithBlockstamp(t, b) == {id \in LiveNodes(t) : DataOf(t, id) = b}
FindNodeWithBlockstamp(t, b) ==
    CHOOSE id \in NodesWithBlockstamp(t, b) :
        \A other \in NodesWithBlockstamp(t, b) : id <= other

MainBlock(t, n) == DataOf(t, t.main_branch[n])

\* The walks up the tree stop at the first node the main branch also has:
\* same height, same hash (not necessarily the same node).
OnMainBranch(t, id) ==
    /\ NumberOf(t, id) \in DOMAIN t.main_branch
    /\ MainBlock(t, NumberOf(t, id)) = DataOf(t, id)

\* The walk from a node up to the main branch, top first.  A NoNode in front
\* says that it came to a freed slot, where the code aborts the process.
ForkWalk(t, from) ==
    LET up[id \in LiveNodes(t)] ==
            LET parent == t.nodes[id].parent
            IN  IF parent = NoNode THEN <<id>>
                ELSE IF parent \notin LiveNodes(t) THEN <<NoNode, id>>
                ELSE IF OnMainBranch(t, parent) THEN <<id>>
                ELSE Append(up[parent], id)
    IN  up[from]

WalkAborts(t, from) == Head(ForkWalk(t, from)) = NoNode

\* get_fork_branch: the node and its ancestors that are off the main branch.
ForkBranch(t, from) ==
    LET walk == ForkWalk(t, from) IN [i \in DOMAIN walk |-> DataOf(t, walk[i])]

-----------------------------------------------------------------------------
(* Changing the tree.                                                      *)

\* remove_node_children(c) walks down while the node has one child and frees
\* what it walks over.  At a node with several children it calls itself on
\* each of them and frees nothing of them: a call frees the descendants of
\* its argument, never the argument.
RemovedNodeChildren(t, c) ==
    {d \in Descendants(t, c) : Cardinality(Children(t, t.nodes[d].parent)) = 1}

\* Mutant: the root moves to its first child, whichever branch that is.
RootFirstChild(t) ==
    CHOOSE c \in Children(t, t.root) : \A other \in Children(t, t.root) : c <= other

RootMainChild(t) == t.main_branch[NumberOf(t, t.root) + 1]

\* Mutant: a pruning frees every node that is off the main branch.
AllForksPruned(t) == {t.root} \cup (LiveNodes(t) \ Range(t.main_branch))

PrunedNodes(t) ==
    LET cut == Children(t, t.root) \ {RootMainChild(t)}
    IN  {t.root} \cup cut \cup UNION {RemovedNodeChildren(t, c) : c \in cut}

\* Shift the tree one step: the root goes, with the branches that leave it.
Pruning(t) ==
    LET gone == PrunedNodes(t)
    IN  [root |-> RootMainChild(t),
         nodes |-> Restrict(t.nodes, LiveNodes(t) \ gone),
         allocated |-> t.allocated,
         main_branch |-> Restrict(t.main_branch,
                                  DOMAIN t.main_branch \ {NumberOf(t, t.root)}),
         sheets |-> t.sheets \ (gone \ {t.root}),
         removed_blockstamps |-> t.removed_blockstamps \cup {DataOf(t, id) : id \in gone}]

\* HashMap::insert
Put(f, k, v) == [x \in DOMAIN f \cup {k} |-> IF x = k THEN v ELSE f[x]]

\* The new node takes the next slot and its place under its parent.  (The code
\* makes it a sheet after the pruning, which never frees a main branch node
\* but the root.)
AddNode(t, b, parent, main_branch) ==
    [root |-> IF parent = NoNode THEN t.allocated ELSE t.root,
     nodes |-> Put(t.nodes, t.allocated, [parent |-> parent, data |-> b]),
     allocated |-> t.allocated + 1,
     main_branch |-> IF main_branch THEN Put(t.main_branch, Number[b], t.allocated)
                                    ELSE t.main_branch,
     sheets |-> (t.sheets \ {parent}) \cup {t.allocated},
     removed_blockstamps |-> {}]

PruneToWindow(t) ==
    IF Cardinality(DOMAIN t.main_branch) > FORK_WINDOW_SIZE THEN Pruning(t) ELSE t

\* Mutant: the parent of the new node stays a sheet.
InsertKeepsSheet(t, b, parent, main_branch) ==
    LET grown == [AddNode(t, b, parent, main_branch) EXCEPT
                     !.sheets = @ \cup (t.sheets \cap {parent})]
    IN  IF main_branch THEN PruneToWindow(grown) ELSE grown

\* Mutant: the report of the previous pruning is not cleared.
InsertKeepsReport(t, b, parent, main_branch) ==
    LET grown == [AddNode(t, b, parent, main_branch) EXCEPT
                     !.removed_blockstamps = t.removed_blockstamps]
    IN  IF main_branch THEN PruneToWindow(grown) ELSE grown

\* insert_new_node
InsertNewNode(t, b, parent, main_branch) ==
    IF main_branch THEN PruneToWindow(AddNode(t, b, parent, TRUE))
                   ELSE AddNode(t, b, parent, FALSE)

\* change_main_branch, for a new current block that is in the tree: the off-main
\* nodes from it down become the main branch, replacing what was there and
\* above; the root moves once per block above the old current one.
OffMainNodes(t, id) ==
    IF OnMainBranch(t, id) THEN Front(ForkWalk(t, id)) ELSE ForkWalk(t, id)

ChangeMainBranch(t, old, new) ==
    LET fork == Range(OffMainNodes(t, FindNodeWithBlockstamp(t, new)))
        heights == {NumberOf(t, id) : id \in fork}
        dropped == {n \in DOMAIN t.main_branch :
                       \/ \E h \in heights : h <= n /\ n <= Number[new]
                       \/ Number[new] < n /\ n <= Number[old]}
        adopt(tree, id) ==
            LET on == [tree EXCEPT !.main_branch = Put(@, NumberOf(tree, id), id)]
            IN  IF NumberOf(tree, id) > Number[old] THEN Pruning(on) ELSE on
    IN  FoldLeft(adopt,
                 [t EXCEPT !.main_branch = Restrict(@, DOMAIN @ \ dropped)],
                 OffMainNodes(t, FindNodeWithBlockstamp(t, new)))

-----------------------------------------------------------------------------
(* The writers of writers/fork_tree.rs.                                    *)

\* The new head hangs under the main branch node of the height below; the
\* first block of an empty tree is its root.
HeadParentExists(t, b) ==
    \/ t.nodes = EmptyTree.nodes
    \/ Number[b] > 0 /\ Number[b] - 1 \in DOMAIN t.main_branch

InsertNewHeadBlock(t, b) ==
    InsertNewNode(t, b,
        IF Number[b] > 0 /\ t.nodes # EmptyTree.nodes
        THEN t.main_branch[Number[b] - 1] ELSE NoNode,
        TRUE)

\* A fork block needs its predecessor in the tree.
ForkParentExists(t, b) == NodesWithBlockstamp(t, Previous[b]) # {}

InsertNewForkBlock(t, b) ==
    InsertNewNode(t, b, FindNodeWithBlockstamp(t, Previous[b]), FALSE)

-----------------------------------------------------------------------------
(* The shape of a tree.                                                    *)

\* Shape of the record: every node occupies an allocated slot, names an older
\* slot as its parent, and the sheets are occupied slots (get_sheets aborts
\* the process on a freed one).
WellFormed(t) ==
    /\ t.allocated \in Nat
    /\ t.root \in Nat \cup {NoNode}
    /\ LiveNodes(t) \subseteq 0 .. (t.allocated - 1)
    /\ t.nodes \in [LiveNodes(t) -> TreeNode]
    /\ \A id \in LiveNodes(t) : t.nodes[id].parent \in Nat => t.nodes[id].parent < id
    /\ DOMAIN t.main_branch \subseteq Nat
    /\ t.main_branch \in [DOMAIN t.main_branch -> LiveNodes(t)]
    /\ t.sheets \subseteq LiveNodes(t)
    /\ t.removed_blockstamps \subseteq Block

\* The main branch is one unbroken chain of stored blocks that starts at the
\* root: heights are consecutive, and each node hangs under the node of the
\* height below, whose block is its block's predecessor.  The code keeps the
\* chain twice (parent links and the main_branch map) and prunes both.
RootNumber(t) == NumberOf(t, t.root)
MainChain(t) ==
    LiveNodes(t) # {} =>
       /\ t.root \in LiveNodes(t)
       /\ \E top \in DOMAIN t.main_branch : DOMAIN t.main_branch = RootNumber(t) .. top
       /\ t.main_branch[RootNumber(t)] = t.root
       /\ \A n \in DOMAIN t.main_branch :
             /\ NumberOf(t, t.main_branch[n]) = n
             /\ n # RootNumber(t) =>
                   /\ t.nodes[t.main_branch[n]].parent = t.main_branch[n - 1]
                   /\ Previous[MainBlock(t, n)] = MainBlock(t, n - 1)
=============================================================================
