--------------------------- MODULE BlockchainProofs ---------------------------
(***************************************************************************)
(* What the fork tree keeps true for every set of blocks and every window  *)
(* size, then what the block-chain module keeps true for every set of      *)
(* blocks, every grouping of them into messages, every verdict on them and *)
(* any number of crashes.                                                  *)
(*                                                                         *)
(* The theorems on the tree alone are about the variable tree of           *)
(* ForkTreeGrowth, which plays no part in those on the block-chain module. *)
(***************************************************************************)
EXTENDS Blockchain, ForkTreeGrowth, SequenceLemmas, SequenceTheorems, FiniteSetTheorems, TLAPS

-----------------------------------------------------------------------------
(* The fork tree.                                                          *)

\* The inductive invariant: the shape, the main chain, the fact that the root's
\* own parent is gone (without it the main branch could hang below one of the
\* branches that pruning cuts), and that no sheet has a child (without it a
\* pruned root could stay among the sheets).
RootDetached(t) ==
    LiveNodes(t) # {} => t.nodes[t.root].parent \notin LiveNodes(t)

SheetsChildless(t) == \A id \in t.sheets : Children(t, id) = {}

TreeInv(t) == WellFormed(t) /\ MainChain(t) /\ RootDetached(t) /\ SheetsChildless(t)

GrowthInv == TreeInv(tree) /\ WindowBound

\* The main chain, spelled out: its heights, its nodes and its links.
LEMMA MainChainFacts ==
    ASSUME NEW t, WellFormed(t), MainChain(t), LiveNodes(t) # {}
    PROVE  /\ t.root \in LiveNodes(t)
           /\ RootNumber(t) \in Nat
           /\ RootNumber(t) \in DOMAIN t.main_branch
           /\ t.main_branch[RootNumber(t)] = t.root
           /\ \A n \in DOMAIN t.main_branch :
                 /\ n \in Nat /\ n >= RootNumber(t)
                 /\ t.main_branch[n] \in LiveNodes(t)
                 /\ NumberOf(t, t.main_branch[n]) = n
                 /\ n # RootNumber(t) =>
                       /\ n - 1 \in DOMAIN t.main_branch
                       /\ t.nodes[t.main_branch[n]].parent = t.main_branch[n - 1]
                       /\ Previous[MainBlock(t, n)] = MainBlock(t, n - 1)
<1>1. t.root \in LiveNodes(t) /\ DataOf(t, t.root) \in Block
  BY DEF WellFormed, MainChain, DataOf, TreeNode
<1>2. RootNumber(t) \in Nat
  BY <1>1, BlockAssumption DEF RootNumber, NumberOf
<1>3. \A n \in DOMAIN t.main_branch : n \in Nat /\ t.main_branch[n] \in LiveNodes(t)
  BY DEF WellFormed
<1>4. PICK top \in DOMAIN t.main_branch : DOMAIN t.main_branch = RootNumber(t) .. top
  BY DEF MainChain
<1>5. RootNumber(t) \in DOMAIN t.main_branch
  BY <1>2, <1>3, <1>4
<1>6. \A n \in DOMAIN t.main_branch :
         n >= RootNumber(t) /\ (n # RootNumber(t) => n - 1 \in DOMAIN t.main_branch)
  BY <1>2, <1>3, <1>4
<1> QED BY <1>1, <1>2, <1>3, <1>5, <1>6 DEF MainChain

-----------------------------------------------------------------------------
(* Descendants.                                                            *)

\* A set of nodes whose parents are neither c nor nodes outside the set holds
\* no descendant of c.
LEMMA DescendantsAvoid ==
    ASSUME NEW t, NEW c \in LiveNodes(t), NEW M,
           \A m \in M \cap LiveNodes(t) :
              /\ t.nodes[m].parent # c
              /\ t.nodes[m].parent \notin LiveNodes(t) \ M
    PROVE  Descendants(t, c) \cap M = {}
<1> DEFINE kids == [x \in LiveNodes(t) |-> Children(t, x)]
           S == LiveNodes(t) \ M
<1>1. Children(t, c) \subseteq S
  BY DEF Children
<1>2. \A x \in S : kids[x] \subseteq S
  BY DEF Children
<1> QED BY <1>1, <1>2 DEF Descendants

\* A descendant of c hangs under c or under another descendant of c.
LEMMA DescendantsParent ==
    ASSUME NEW t, NEW c \in LiveNodes(t), NEW d \in Descendants(t, c)
    PROVE  t.nodes[d].parent = c \/ t.nodes[d].parent \in Descendants(t, c)
<1> DEFINE kids == [x \in LiveNodes(t) |-> Children(t, x)]
           IsClosed(S) == /\ S \subseteq LiveNodes(t)
                          /\ Children(t, c) \subseteq S
                          /\ \A x \in S : kids[x] \subseteq S
           D == Descendants(t, c)
<1>1. D = {x \in LiveNodes(t) : \A S : IsClosed(S) => x \in S}
  BY DEF Descendants
<1>2. SUFFICES ASSUME t.nodes[d].parent # c, t.nodes[d].parent \notin D PROVE FALSE
  OBVIOUS
<1>3. \A x \in LiveNodes(t) : kids[x] = Children(t, x)
  OBVIOUS
<1> HIDE DEF kids, D
<1>4. Children(t, c) \subseteq D \ {d}
  <2>1. \A k \in Children(t, c) : k \in LiveNodes(t) /\ t.nodes[k].parent = c
    BY DEF Children
  <2> QED BY <1>1, <1>2, <2>1
<1>5. ASSUME NEW x \in D PROVE kids[x] \subseteq D \ {d}
  <2>1. x \in LiveNodes(t) /\ \A k \in kids[x] : k \in LiveNodes(t) /\ t.nodes[k].parent = x
    BY <1>1, <1>3 DEF Children
  <2>2. \A k \in kids[x] : k \in D
    BY <1>1, <2>1
  <2> QED BY <1>2, <2>1, <2>2
<1>6. IsClosed(D \ {d})
  BY <1>1, <1>4, <1>5
<1> QED BY <1>1, <1>6 DEF D

\* Descendants are occupied slots.
LEMMA DescendantsLive ==
    ASSUME NEW t, NEW c
    PROVE  Descendants(t, c) \subseteq LiveNodes(t)
BY DEF Descendants

-----------------------------------------------------------------------------
(* Pruning.                                                                *)

\* The root and everything that hangs under it off the main branch.
CutOff(t) ==
    LET cut == Children(t, t.root) \ {RootMainChild(t)}
    IN  {t.root} \cup cut \cup UNION {Descendants(t, c) : c \in cut}

\* A pruning frees nothing but the old root and what its other children carry.
LEMMA PrunedCutOff ==
    ASSUME NEW t
    PROVE  PrunedNodes(t) \subseteq CutOff(t)
BY DEF PrunedNodes, CutOff, RemovedNodeChildren

\* The main branch above the root is not cut off.
LEMMA CutOffMain ==
    ASSUME NEW t, TreeInv(t), LiveNodes(t) # {},
           NEW n \in DOMAIN t.main_branch, n # RootNumber(t)
    PROVE  t.main_branch[n] \notin CutOff(t)
<1> DEFINE main == {t.main_branch[i] : i \in DOMAIN t.main_branch}
           low == RootNumber(t)
           m == t.main_branch[n]
<1>1. /\ t.root \in LiveNodes(t)
      /\ low \in Nat
      /\ \A i \in DOMAIN t.main_branch : /\ i \in Nat /\ i >= low
                                         /\ t.main_branch[i] \in LiveNodes(t)
                                         /\ NumberOf(t, t.main_branch[i]) = i
  BY MainChainFacts DEF TreeInv
<1>2. \A i \in DOMAIN t.main_branch : i # low =>
         /\ i - 1 \in DOMAIN t.main_branch
         /\ t.nodes[t.main_branch[i]].parent = t.main_branch[i - 1]
  BY MainChainFacts DEF TreeInv
<1>3. t.main_branch[low] = t.root /\ low \in DOMAIN t.main_branch
  BY MainChainFacts DEF TreeInv
<1>4. t.nodes[t.root].parent \notin LiveNodes(t)
  BY DEF TreeInv, RootDetached
<1>5. m # t.root
  BY <1>1, <1>3
<1>6. ASSUME NEW c \in Children(t, t.root), c # RootMainChild(t)
      PROVE  c \notin main
  <2>1. SUFFICES ASSUME NEW i \in DOMAIN t.main_branch, c = t.main_branch[i] PROVE FALSE
    OBVIOUS
  <2>2. i # low
    BY <1>1, <1>3, <1>4, <2>1 DEF Children
  <2>3. t.main_branch[i - 1] = t.root
    BY <1>2, <2>1, <2>2 DEF Children
  <2>4. i - 1 = low
    BY <1>1, <1>2, <2>2, <2>3 DEF RootNumber
  <2> QED BY <1>1, <1>6, <2>1, <2>4 DEF RootMainChild, RootNumber
<1>7. ASSUME NEW c \in Children(t, t.root), c # RootMainChild(t)
      PROVE  Descendants(t, c) \cap main = {}
  <2>1. c \in LiveNodes(t) /\ c \notin main
    BY <1>6, <1>7 DEF Children
  <2>2. ASSUME NEW x \in main \cap LiveNodes(t)
        PROVE  t.nodes[x].parent # c /\ t.nodes[x].parent \notin LiveNodes(t) \ main
    <3>1. PICK i \in DOMAIN t.main_branch : x = t.main_branch[i]
      BY <2>2
    <3>2. CASE i = low
      BY <1>3, <1>4, <2>1, <3>1, <3>2
    <3>3. CASE i # low
      BY <1>2, <2>1, <3>1, <3>3
    <3> QED BY <3>2, <3>3
  <2> HIDE DEF main
  <2> QED BY <2>1, <2>2, DescendantsAvoid
<1>8. m \in main
  OBVIOUS
<1> HIDE DEF main, m
<1>9. m \notin Children(t, t.root) \ {RootMainChild(t)}
  BY <1>6, <1>8
<1>10. \A c \in Children(t, t.root) \ {RootMainChild(t)} : m \notin Descendants(t, c)
  BY <1>7, <1>8
<1> QED BY <1>5, <1>9, <1>10 DEF CutOff, m

\* The main branch above the root is not touched by a pruning.
LEMMA PrunedOffMain ==
    ASSUME NEW t, TreeInv(t), LiveNodes(t) # {},
           NEW n \in DOMAIN t.main_branch, n # RootNumber(t)
    PROVE  t.main_branch[n] \notin PrunedNodes(t)
BY CutOffMain, PrunedCutOff

\* Every pruned slot was occupied.
LEMMA PrunedLive ==
    ASSUME NEW t, TreeInv(t), LiveNodes(t) # {}
    PROVE  PrunedNodes(t) \subseteq LiveNodes(t)
BY DescendantsLive
   DEF PrunedNodes, RemovedNodeChildren, Children, TreeInv, MainChain

\* Pruning a tree whose main branch has at least two blocks gives a tree that
\* starts one height above.
LEMMA PruningKeepsInv ==
    ASSUME NEW t, TreeInv(t), LiveNodes(t) # {},
           RootNumber(t) + 1 \in DOMAIN t.main_branch
    PROVE  /\ TreeInv(Pruning(t))
           /\ LiveNodes(Pruning(t)) = LiveNodes(t) \ PrunedNodes(t)
           /\ DOMAIN Pruning(t).main_branch = DOMAIN t.main_branch \ {RootNumber(t)}
<1> DEFINE p == Pruning(t)
           gone == PrunedNodes(t)
           low == RootNumber(t)
<1>1. /\ p.root = t.main_branch[low + 1]
      /\ p.nodes = [id \in LiveNodes(t) \ gone |-> t.nodes[id]]
      /\ p.allocated = t.allocated
      /\ p.main_branch = [n \in DOMAIN t.main_branch \ {low} |-> t.main_branch[n]]
      /\ p.sheets = t.sheets \ (gone \ {t.root})
      /\ p.removed_blockstamps = t.removed_blockstamps \cup {DataOf(t, id) : id \in gone}
  BY DEF Pruning, Restrict, RootMainChild, RootNumber
<1>2. LiveNodes(p) = LiveNodes(t) \ gone
  BY <1>1 DEF LiveNodes
<1>3. \A id \in LiveNodes(p) : p.nodes[id] = t.nodes[id] /\ DataOf(p, id) = DataOf(t, id)
                                /\ NumberOf(p, id) = NumberOf(t, id)
  BY <1>1, <1>2 DEF DataOf, NumberOf
<1> HIDE DEF p
<1>4. t.root \in gone /\ gone \subseteq LiveNodes(t)
  BY PrunedLive DEF PrunedNodes
<1>5. \A n \in DOMAIN t.main_branch : n # low => t.main_branch[n] \in LiveNodes(p)
  BY <1>2, PrunedOffMain DEF TreeInv, WellFormed
<1>6. /\ t.root \in LiveNodes(t)
      /\ low \in Nat /\ low \in DOMAIN t.main_branch
      /\ t.main_branch[low] = t.root
      /\ \A n \in DOMAIN t.main_branch :
            /\ NumberOf(t, t.main_branch[n]) = n
            /\ n # low => /\ t.nodes[t.main_branch[n]].parent = t.main_branch[n - 1]
                          /\ Previous[MainBlock(t, n)] = MainBlock(t, n - 1)
  BY MainChainFacts DEF TreeInv
<1> HIDE DEF low
<1>7. /\ low + 1 \in DOMAIN t.main_branch
      /\ p.root \in LiveNodes(p)
      /\ RootNumber(p) = low + 1
  <2>1. low + 1 \in DOMAIN t.main_branch /\ low + 1 # low
    BY <1>6 DEF low
  <2>2. p.root \in LiveNodes(p) /\ NumberOf(p, p.root) = low + 1
    BY <1>1, <1>3, <1>5, <1>6, <2>1
  <2> QED BY <2>1, <2>2 DEF RootNumber
<1>mainChild. /\ t.main_branch[low + 1] \in LiveNodes(t) \cap LiveNodes(p)
       /\ t.nodes[t.main_branch[low + 1]].parent = t.root
  BY <1>1, <1>2, <1>6, <1>7
<1>8. WellFormed(p)
  <2>1. p.sheets \subseteq LiveNodes(p)
    <3>1. t.main_branch[low + 1] \in Children(t, t.root)
      BY <1>5, <1>mainChild DEF Children
    <3>2. t.root \notin t.sheets
      BY <3>1 DEF TreeInv, SheetsChildless
    <3> QED BY <1>1, <1>2, <3>2 DEF TreeInv, WellFormed
  <2>2. /\ p.nodes \in [LiveNodes(p) -> TreeNode]
        /\ LiveNodes(p) \subseteq 0 .. (p.allocated - 1)
        /\ \A id \in LiveNodes(p) : p.nodes[id].parent \in Nat => p.nodes[id].parent < id
    BY <1>1, <1>2, <1>3 DEF TreeInv, WellFormed
  <2>3. /\ DOMAIN p.main_branch \subseteq Nat
        /\ p.main_branch \in [DOMAIN p.main_branch -> LiveNodes(p)]
    BY <1>1, <1>5 DEF TreeInv, WellFormed
  <2>4. p.allocated \in Nat /\ p.root \in Nat \cup {NoNode}
    BY <1>1, <1>7, <2>2 DEF TreeInv, WellFormed
  <2>5. p.removed_blockstamps \subseteq Block
    <3>1. \A id \in gone : DataOf(t, id) \in Block
      BY <1>4 DEF TreeInv, WellFormed, DataOf, TreeNode
    <3> QED BY <1>1, <3>1 DEF TreeInv, WellFormed
  <2> QED BY <2>1, <2>2, <2>3, <2>4, <2>5 DEF WellFormed
<1>9. MainChain(p)
  <2>1. PICK top \in DOMAIN t.main_branch : DOMAIN t.main_branch = low .. top
    BY <1>6 DEF TreeInv, MainChain, low
  <2>2. top \in Nat /\ top >= low + 1
    BY <1>6, <1>7, <2>1
  <2>3. top \in DOMAIN p.main_branch /\ DOMAIN p.main_branch = (low + 1) .. top
    BY <1>1, <1>6, <2>1, <2>2
  <2>4. ASSUME NEW n \in DOMAIN p.main_branch
        PROVE  /\ n \in DOMAIN t.main_branch /\ n # low
               /\ p.main_branch[n] = t.main_branch[n]
               /\ p.main_branch[n] \in LiveNodes(p)
    BY <1>1, <1>5, <2>4
  <2>5. ASSUME NEW n \in DOMAIN p.main_branch, n # low + 1
        PROVE  n - 1 \in DOMAIN p.main_branch
    BY <1>6, <2>2, <2>3, <2>5
  <2>6. ASSUME NEW n \in DOMAIN p.main_branch
        PROVE  MainBlock(p, n) = MainBlock(t, n)
    BY <1>3, <2>4 DEF MainBlock
  <2>7. p.root \in LiveNodes(p) /\ p.main_branch[low + 1] = p.root
    BY <1>1, <1>6, <1>7
  <2>8. ASSUME NEW n \in DOMAIN p.main_branch
        PROVE  NumberOf(p, p.main_branch[n]) = n
    BY <1>3, <1>6, <2>4
  <2>9. ASSUME NEW n \in DOMAIN p.main_branch, n # low + 1
        PROVE  /\ p.nodes[p.main_branch[n]].parent = p.main_branch[n - 1]
               /\ Previous[MainBlock(p, n)] = MainBlock(p, n - 1)
    BY <1>3, <1>6, <2>4, <2>5, <2>6, <2>9
  <2> QED BY <1>7, <2>3, <2>7, <2>8, <2>9 DEF MainChain
<1>10. RootDetached(p)
  BY <1>1, <1>2, <1>3, <1>4, <1>mainChild DEF RootDetached
<1>11. SheetsChildless(p)
  BY <1>1, <1>2, <1>3 DEF SheetsChildless, Children, TreeInv
<1>12. DOMAIN p.main_branch = DOMAIN t.main_branch \ {low}
  BY <1>1
<1> QED BY <1>2, <1>8, <1>9, <1>10, <1>11, <1>12 DEF TreeInv, p, gone, low

-----------------------------------------------------------------------------
(* Adding a node.                                                          *)

\* What adding a node leaves alone, whatever its place.
LEMMA AddNodeFrame ==
    ASSUME NEW t, WellFormed(t), SheetsChildless(t),
           NEW b \in Block, NEW parent \in LiveNodes(t) \cup {NoNode},
           NEW main_branch \in BOOLEAN
    PROVE  LET a == AddNode(t, b, parent, main_branch)
           IN  /\ t.allocated \notin LiveNodes(t)
               /\ LiveNodes(a) = LiveNodes(t) \cup {t.allocated}
               /\ a.nodes[t.allocated] = [parent |-> parent, data |-> b]
               /\ \A id \in LiveNodes(t) : /\ a.nodes[id] = t.nodes[id]
                                           /\ NumberOf(a, id) = NumberOf(t, id)
               /\ WellFormed(a)
               /\ SheetsChildless(a)
<1> DEFINE a == AddNode(t, b, parent, main_branch)
           node == [parent |-> parent, data |-> b]
<1>1. /\ a.root = IF parent = NoNode THEN t.allocated ELSE t.root
      /\ a.nodes = [id \in LiveNodes(t) \cup {t.allocated} |->
                      IF id = t.allocated THEN node ELSE t.nodes[id]]
      /\ a.allocated = t.allocated + 1
      /\ a.main_branch = IF main_branch THEN Put(t.main_branch, Number[b], t.allocated)
                                         ELSE t.main_branch
      /\ a.sheets = (t.sheets \ {parent}) \cup {t.allocated}
      /\ a.removed_blockstamps = {}
  BY DEF AddNode, Put, LiveNodes
<1>2. t.allocated \in Nat /\ t.allocated \notin LiveNodes(t)
  BY DEF WellFormed
<1>3. LiveNodes(a) = LiveNodes(t) \cup {t.allocated}
  BY <1>1 DEF LiveNodes
<1> HIDE DEF a
<1>4. /\ a.nodes[t.allocated] = node
      /\ \A id \in LiveNodes(t) : a.nodes[id] = t.nodes[id]
  BY <1>1, <1>2
<1>5. \A id \in LiveNodes(t) : NumberOf(a, id) = NumberOf(t, id)
  BY <1>4 DEF NumberOf, DataOf
<1>6. WellFormed(a)
  <2>1. LiveNodes(t) \subseteq 0 .. (t.allocated - 1)
    BY DEF WellFormed
  <2>2. node \in TreeNode /\ (node.parent \in Nat => node.parent < t.allocated)
    BY <1>2, <2>1, WindowAssumption DEF TreeNode
  <2>3. a.nodes \in [LiveNodes(a) -> TreeNode]
    BY <1>1, <1>3, <2>2 DEF WellFormed
  <2>4. \A id \in LiveNodes(a) : a.nodes[id].parent \in Nat => a.nodes[id].parent < id
    BY <1>3, <1>4, <2>2 DEF WellFormed
  <2>5. /\ DOMAIN a.main_branch \subseteq Nat
        /\ a.main_branch \in [DOMAIN a.main_branch -> LiveNodes(a)]
    BY <1>1, <1>3, BlockAssumption DEF WellFormed, Put
  <2>6. LiveNodes(a) \subseteq 0 .. (a.allocated - 1)
    BY <1>1, <1>2, <1>3, <2>1
  <2>7. a.root \in Nat \cup {NoNode} /\ a.allocated \in Nat
    BY <1>1, <1>2 DEF WellFormed
  <2>8. a.sheets \subseteq LiveNodes(a) /\ a.removed_blockstamps \subseteq Block
    BY <1>1, <1>3 DEF WellFormed
  <2> QED BY <2>3, <2>4, <2>5, <2>6, <2>7, <2>8 DEF WellFormed
<1>7. SheetsChildless(a)
  <2>1. SUFFICES ASSUME NEW s \in a.sheets, NEW c \in Children(a, s) PROVE FALSE
    BY DEF SheetsChildless
  <2>2. c \in LiveNodes(a) /\ a.nodes[c].parent = s
    BY DEF Children
  <2>3. CASE c = t.allocated
    <3>1. s = parent /\ s \in LiveNodes(a) /\ s # t.allocated
      BY <1>2, <1>4, <1>6, <2>2, <2>3, WindowAssumption DEF WellFormed
    <3> QED BY <1>1, <3>1
  <2>4. CASE c # t.allocated
    <3>1. c \in LiveNodes(t) /\ t.nodes[c].parent = s
      BY <1>3, <1>4, <2>2, <2>4
    <3>2. CASE s = t.allocated
      BY <1>2, <3>1, <3>2 DEF WellFormed
    <3>3. CASE s # t.allocated
      BY <1>1, <3>1, <3>3 DEF SheetsChildless, Children
    <3> QED BY <3>2, <3>3
  <2> QED BY <2>3, <2>4
<1> QED BY <1>2, <1>3, <1>4, <1>5, <1>6, <1>7 DEF a

\* A fork block added under any stored node keeps the invariant.
LEMMA AddForkNodeKeepsInv ==
    ASSUME NEW t, TreeInv(t), NEW b \in Block, NEW parent \in LiveNodes(t)
    PROVE  /\ TreeInv(AddNode(t, b, parent, FALSE))
           /\ AddNode(t, b, parent, FALSE).main_branch = t.main_branch
<1> DEFINE a == AddNode(t, b, parent, FALSE)
<1>1. /\ LiveNodes(a) = LiveNodes(t) \cup {t.allocated}
      /\ t.allocated \notin LiveNodes(t)
      /\ \A id \in LiveNodes(t) : a.nodes[id] = t.nodes[id] /\ NumberOf(a, id) = NumberOf(t, id)
      /\ WellFormed(a)
      /\ SheetsChildless(a)
  BY AddNodeFrame DEF TreeInv
<1>2. a.main_branch = t.main_branch /\ a.root = t.root
  BY WindowAssumption DEF AddNode, TreeInv, WellFormed
<1> HIDE DEF a
<1>3. LiveNodes(t) # {}
  OBVIOUS
<1>4. RootNumber(a) = RootNumber(t)
  BY <1>1, <1>2, <1>3, MainChainFacts DEF RootNumber, TreeInv
<1>5. \A n \in DOMAIN t.main_branch : MainBlock(a, n) = MainBlock(t, n)
  BY <1>1, <1>2, <1>3, MainChainFacts DEF MainBlock, DataOf, TreeInv
<1>6. MainChain(a)
  <2>1. ASSUME NEW n \in DOMAIN t.main_branch
        PROVE  /\ NumberOf(a, t.main_branch[n]) = n
               /\ n # RootNumber(t) =>
                     /\ a.nodes[t.main_branch[n]].parent = t.main_branch[n - 1]
                     /\ Previous[MainBlock(a, n)] = MainBlock(a, n - 1)
    BY <1>1, <1>3, <1>5, <2>1, MainChainFacts DEF TreeInv
  <2>2. t.root \in LiveNodes(a)
    BY <1>1, <1>3, MainChainFacts DEF TreeInv
  <2>3. \E top \in DOMAIN t.main_branch : DOMAIN t.main_branch = RootNumber(t) .. top
    BY <1>3 DEF TreeInv, MainChain
  <2>4. t.main_branch[RootNumber(t)] = t.root
    BY <1>3, MainChainFacts DEF TreeInv
  <2> QED BY <1>2, <1>4, <2>1, <2>2, <2>3, <2>4 DEF MainChain
<1>7. RootDetached(a)
  <2>1. t.root \in LiveNodes(t) /\ t.nodes[t.root].parent \notin LiveNodes(t)
    BY <1>3, MainChainFacts DEF TreeInv, RootDetached
  <2>2. t.nodes[t.root].parent # t.allocated
    BY <2>1 DEF TreeInv, WellFormed
  <2> QED BY <1>1, <1>2, <2>1, <2>2 DEF RootDetached
<1> QED BY <1>1, <1>2, <1>6, <1>7 DEF TreeInv, a

\* The first block of a tree is its root and its whole main branch.
LEMMA AddRootNodeKeepsInv ==
    ASSUME NEW t, TreeInv(t), DOMAIN t.nodes = {}, NEW b \in Block
    PROVE  /\ TreeInv(AddNode(t, b, NoNode, TRUE))
           /\ DOMAIN AddNode(t, b, NoNode, TRUE).main_branch = Number[b] .. Number[b]
<1> DEFINE a == AddNode(t, b, NoNode, TRUE)
<1>1. /\ LiveNodes(a) = {t.allocated}
      /\ a.nodes[t.allocated] = [parent |-> NoNode, data |-> b]
      /\ WellFormed(a)
      /\ SheetsChildless(a)
  <2>1. WellFormed(t) /\ SheetsChildless(t) /\ NoNode \in LiveNodes(t) \cup {NoNode}
    BY DEF TreeInv
  <2>2. LiveNodes(a) = LiveNodes(t) \cup {t.allocated}
    BY <2>1, AddNodeFrame
  <2>3. a.nodes[t.allocated] = [parent |-> NoNode, data |-> b]
    BY DEF AddNode, Put
  <2>4. WellFormed(a)
    BY <2>1, AddNodeFrame
  <2>5. SheetsChildless(a)
    BY <2>1, AddNodeFrame
  <2> HIDE DEF a
  <2> QED BY <2>2, <2>3, <2>4, <2>5 DEF LiveNodes
<1>2. Number[b] \in Nat /\ t.allocated \in Nat
  BY BlockAssumption DEF TreeInv, WellFormed
<1>3. DOMAIN t.main_branch = {}
  BY DEF TreeInv, WellFormed, LiveNodes
<1>4. /\ a.root = t.allocated
      /\ DOMAIN a.main_branch = {Number[b]}
      /\ a.main_branch[Number[b]] = t.allocated
  BY <1>3 DEF AddNode, Put
<1> HIDE DEF a
<1>5. NumberOf(a, t.allocated) = Number[b] /\ RootNumber(a) = Number[b]
  BY <1>1, <1>4 DEF NumberOf, DataOf, RootNumber
<1>6. {Number[b]} = Number[b] .. Number[b]
  BY <1>2
<1>7. MainChain(a)
  BY <1>1, <1>4, <1>5, <1>6 DEF MainChain
<1>8. RootDetached(a)
  BY <1>1, <1>2, <1>4, WindowAssumption DEF RootDetached
<1> QED BY <1>1, <1>4, <1>6, <1>7, <1>8 DEF TreeInv, a

\* A block that follows the head of the main branch lengthens it by one.
LEMMA AddHeadNodeKeepsInv ==
    ASSUME NEW t, TreeInv(t), LiveNodes(t) # {}, NEW b \in Block,
           Number[b] > 0, Number[b] - 1 \in DOMAIN t.main_branch,
           Previous[b] = MainBlock(t, Number[b] - 1),
           Number[b] \notin DOMAIN t.main_branch
    PROVE  LET a == AddNode(t, b, t.main_branch[Number[b] - 1], TRUE)
           IN  /\ TreeInv(a)
               /\ LiveNodes(a) # {}
               /\ DOMAIN a.main_branch = RootNumber(t) .. Number[b]
               /\ RootNumber(a) = RootNumber(t)
               /\ RootNumber(t) < Number[b]
<1> DEFINE parent == t.main_branch[Number[b] - 1]
           a == AddNode(t, b, parent, TRUE)
<1>1. parent \in LiveNodes(t) /\ parent # NoNode
  BY MainChainFacts, WindowAssumption DEF TreeInv, WellFormed
<1>2. /\ t.allocated \notin LiveNodes(t)
      /\ LiveNodes(a) = LiveNodes(t) \cup {t.allocated}
      /\ a.nodes[t.allocated] = [parent |-> parent, data |-> b]
      /\ \A id \in LiveNodes(t) : a.nodes[id] = t.nodes[id] /\ NumberOf(a, id) = NumberOf(t, id)
      /\ WellFormed(a)
      /\ SheetsChildless(a)
  BY <1>1, AddNodeFrame DEF TreeInv
<1>3. /\ a.root = t.root
      /\ DOMAIN a.main_branch = DOMAIN t.main_branch \cup {Number[b]}
      /\ a.main_branch[Number[b]] = t.allocated
      /\ \A n \in DOMAIN t.main_branch : a.main_branch[n] = t.main_branch[n]
  BY <1>1 DEF AddNode, Put
<1> HIDE DEF a
<1>4. PICK top \in DOMAIN t.main_branch : DOMAIN t.main_branch = RootNumber(t) .. top
  BY DEF TreeInv, MainChain
<1>5. /\ RootNumber(t) \in Nat /\ top \in Nat /\ Number[b] \in Nat
      /\ Number[b] = top + 1 /\ RootNumber(t) < Number[b]
  BY <1>4, MainChainFacts, BlockAssumption DEF TreeInv
<1>6. RootNumber(a) = RootNumber(t)
  BY <1>2, <1>3, MainChainFacts DEF RootNumber, TreeInv
<1>7. DOMAIN a.main_branch = RootNumber(t) .. Number[b]
  BY <1>3, <1>4, <1>5
<1>8. /\ NumberOf(a, t.allocated) = Number[b]
      /\ MainBlock(a, Number[b]) = b
      /\ \A n \in DOMAIN t.main_branch : MainBlock(a, n) = MainBlock(t, n)
  <2>1. \A n \in DOMAIN t.main_branch : t.main_branch[n] \in LiveNodes(t)
    BY MainChainFacts DEF TreeInv
  <2> QED BY <1>2, <1>3, <2>1 DEF NumberOf, DataOf, MainBlock
<1>9. MainChain(a)
  <2>1. ASSUME NEW n \in DOMAIN t.main_branch
        PROVE  /\ NumberOf(a, a.main_branch[n]) = n
               /\ n # RootNumber(a) =>
                     /\ a.nodes[a.main_branch[n]].parent = a.main_branch[n - 1]
                     /\ Previous[MainBlock(a, n)] = MainBlock(a, n - 1)
    BY <1>2, <1>3, <1>6, <1>8, <2>1, MainChainFacts DEF TreeInv
  <2>2. /\ NumberOf(a, a.main_branch[Number[b]]) = Number[b]
        /\ a.nodes[a.main_branch[Number[b]]].parent = a.main_branch[Number[b] - 1]
        /\ Previous[MainBlock(a, Number[b])] = MainBlock(a, Number[b] - 1)
    BY <1>2, <1>3, <1>8
  <2>3. a.root \in LiveNodes(a) /\ a.main_branch[RootNumber(a)] = a.root
    BY <1>2, <1>3, <1>6, MainChainFacts DEF TreeInv
  <2> QED BY <1>3, <1>6, <1>7, <2>1, <2>2, <2>3 DEF MainChain
<1>10. RootDetached(a)
  <2>1. t.root \in LiveNodes(t) /\ t.nodes[t.root].parent \notin LiveNodes(t)
    BY MainChainFacts DEF TreeInv, RootDetached
  <2>2. t.nodes[t.root].parent # t.allocated
    BY <2>1 DEF TreeInv, WellFormed
  <2> QED BY <1>2, <1>3, <2>1, <2>2 DEF RootDetached
<1> QED BY <1>2, <1>5, <1>6, <1>7, <1>9, <1>10 DEF TreeInv, a

-----------------------------------------------------------------------------
(* The writers.                                                            *)

\* A set of slots has a first one.
LEMMA LeastNumber ==
    ASSUME NEW S, S \subseteq Nat, S # {}
    PROVE  \E m \in S : \A n \in S : m <= n
<1>1. PICK m \in S : \A n \in S : ~(<<n, m>> \in OpToRel(<, Nat))
  BY NatLessThanWellFounded, WFMin
<1>2. \A n \in S : ~(n < m)
  BY <1>1 DEF OpToRel
<1> QED BY <1>2

\* What a new head needs of a tree: its predecessor is the head of the main
\* branch, or the tree is empty.
Follows(t, b) ==
    LiveNodes(t) # {} => /\ Previous[b] = MainBlock(t, Number[b] - 1)
                         /\ Number[b] \notin DOMAIN t.main_branch

\* A head put on a tree that is not empty: the longer tree, before it is cut
\* down to the window.
LEMMA InsertHeadStep ==
    ASSUME NEW t, TreeInv(t), LiveNodes(t) # {},
           NEW b \in Block, HeadParentExists(t, b), Follows(t, b)
    PROVE  LET a == AddNode(t, b, t.main_branch[Number[b] - 1], TRUE)
           IN  /\ InsertNewHeadBlock(t, b) = PruneToWindow(a)
               /\ t.main_branch[Number[b] - 1] \in LiveNodes(t)
               /\ TreeInv(a) /\ LiveNodes(a) # {}
               /\ DOMAIN a.main_branch = RootNumber(t) .. Number[b]
               /\ RootNumber(a) = RootNumber(t)
               /\ RootNumber(t) < Number[b]
               /\ RootNumber(t) \in Nat /\ Number[b] \in Nat
               /\ DOMAIN t.main_branch = RootNumber(t) .. (Number[b] - 1)
<1> DEFINE a == AddNode(t, b, t.main_branch[Number[b] - 1], TRUE)
           low == RootNumber(t)
<1>1. t.nodes # EmptyTree.nodes
  BY DEF LiveNodes, EmptyTree
<1>2. /\ Number[b] > 0 /\ Number[b] - 1 \in DOMAIN t.main_branch
      /\ Previous[b] = MainBlock(t, Number[b] - 1)
      /\ Number[b] \notin DOMAIN t.main_branch
      /\ InsertNewHeadBlock(t, b) = PruneToWindow(a)
  BY <1>1 DEF Follows, HeadParentExists, InsertNewHeadBlock, InsertNewNode
<1>3. /\ TreeInv(a) /\ LiveNodes(a) # {}
      /\ DOMAIN a.main_branch = low .. Number[b]
      /\ RootNumber(a) = low /\ low < Number[b]
  BY <1>2, AddHeadNodeKeepsInv
<1>4. low \in Nat /\ Number[b] \in Nat
  BY MainChainFacts, BlockAssumption DEF TreeInv
<1>5. t.main_branch[Number[b] - 1] \in LiveNodes(t)
  BY <1>2 DEF TreeInv, WellFormed
<1>6. DOMAIN t.main_branch = low .. (Number[b] - 1)
  <2>1. PICK top \in DOMAIN t.main_branch : DOMAIN t.main_branch = low .. top
    BY DEF TreeInv, MainChain
  <2>2. top \in Nat
    BY DEF TreeInv, WellFormed
  <2>3. top = Number[b] - 1
    BY <1>2, <1>4, <2>1, <2>2
  <2> QED BY <2>1, <2>3
<1> QED BY <1>2, <1>3, <1>4, <1>5, <1>6

\* A head put on an empty tree: nothing to cut.
LEMMA InsertRootStep ==
    ASSUME NEW t, TreeInv(t), LiveNodes(t) = {}, NEW b \in Block
    PROVE  LET a == AddNode(t, b, NoNode, TRUE)
           IN  /\ InsertNewHeadBlock(t, b) = a
               /\ TreeInv(a)
               /\ DOMAIN a.main_branch = {Number[b]}
<1> DEFINE a == AddNode(t, b, NoNode, TRUE)
<1>1. t.nodes = EmptyTree.nodes
  BY DEF TreeInv, WellFormed, LiveNodes, EmptyTree
<1>2. InsertNewHeadBlock(t, b) = PruneToWindow(a)
  BY <1>1 DEF InsertNewHeadBlock, InsertNewNode
<1>3. TreeInv(a) /\ DOMAIN a.main_branch = Number[b] .. Number[b]
  BY AddRootNodeKeepsInv DEF LiveNodes
<1> HIDE DEF a
<1>4. DOMAIN a.main_branch = {Number[b]}
  BY <1>3, BlockAssumption
<1>5. Cardinality(DOMAIN a.main_branch) = 1
  BY <1>4, FS_Singleton
<1>6. PruneToWindow(a) = a
  BY <1>5, WindowAssumption DEF PruneToWindow
<1> QED BY <1>2, <1>3, <1>4, <1>6 DEF a

\* How many numbers an interval has.
LEMMA IntervalSize ==
    ASSUME NEW low \in Nat, NEW high \in Nat, low <= high + 1
    PROVE  Cardinality(low .. high) = high - low + 1
<1>1. Cardinality(low .. high) = IF low > high THEN 0 ELSE high - low + 1
  BY FS_Interval
<1> QED BY <1>1

\* The new head: the tree stays sound and within the window.
LEMMA InsertHeadKeepsInv ==
    ASSUME GrowthInv, NEW b \in Block, InsertHead(b)
    PROVE  GrowthInv'
<1>1. CASE LiveNodes(tree) = {}
  <2>1. TreeInv(tree') /\ DOMAIN tree'.main_branch = {Number[b]}
    BY <1>1, InsertRootStep DEF GrowthInv, InsertHead
  <2>2. Cardinality(DOMAIN tree'.main_branch) = 1
    BY <2>1, FS_Singleton
  <2> QED BY <2>1, <2>2, WindowAssumption DEF GrowthInv, WindowBound
<1>2. CASE LiveNodes(tree) # {}
  <2> DEFINE a == AddNode(tree, b, tree.main_branch[Number[b] - 1], TRUE)
             low == RootNumber(tree)
  <2>1. TreeInv(tree) /\ HeadParentExists(tree, b) /\ Follows(tree, b)
    BY DEF GrowthInv, InsertHead, Follows
  <2>2. tree' = PruneToWindow(a)
    BY <1>2, <2>1, InsertHeadStep DEF InsertHead
  <2>3. /\ TreeInv(a) /\ LiveNodes(a) # {}
        /\ DOMAIN a.main_branch = low .. Number[b]
        /\ RootNumber(a) = low /\ low < Number[b]
    BY <1>2, <2>1, InsertHeadStep
  <2>4. low \in Nat /\ Number[b] \in Nat
    BY <1>2, <2>1, InsertHeadStep
  <2>5. DOMAIN tree.main_branch = low .. (Number[b] - 1)
    BY <1>2, <2>1, InsertHeadStep
  <2> HIDE DEF a, low
  <2>6. Number[b] - low <= FORK_WINDOW_SIZE
    <3>1. Number[b] - 1 \in Nat /\ low <= (Number[b] - 1) + 1
      BY <2>3, <2>4
    <3>2. Cardinality(low .. (Number[b] - 1)) = (Number[b] - 1) - low + 1
      BY <2>4, <3>1, IntervalSize
    <3>3. Cardinality(low .. (Number[b] - 1)) <= FORK_WINDOW_SIZE
      BY <2>5 DEF GrowthInv, WindowBound
    <3> QED BY <2>4, <3>2, <3>3
  <2>7. Cardinality(DOMAIN a.main_branch) = Number[b] - low + 1
    <3>1. low <= Number[b] + 1
      BY <2>3, <2>4
    <3>2. Cardinality(low .. Number[b]) = Number[b] - low + 1
      BY <2>4, <3>1, IntervalSize
    <3> QED BY <2>3, <3>2
  <2>8. CASE Cardinality(DOMAIN a.main_branch) <= FORK_WINDOW_SIZE
    <3>1. tree' = a
      BY <2>2, <2>7, <2>8, <2>4, WindowAssumption DEF PruneToWindow
    <3> QED BY <2>3, <2>8, <3>1 DEF GrowthInv, WindowBound
  <2>9. CASE ~(Cardinality(DOMAIN a.main_branch) <= FORK_WINDOW_SIZE)
    <3>1. tree' = Pruning(a)
      BY <2>2, <2>4, <2>7, <2>9, WindowAssumption DEF PruneToWindow
    <3>2. RootNumber(a) + 1 \in DOMAIN a.main_branch
      BY <2>3, <2>4
    <3>3. /\ TreeInv(Pruning(a))
          /\ DOMAIN Pruning(a).main_branch = DOMAIN a.main_branch \ {RootNumber(a)}
      BY <2>3, <3>2, PruningKeepsInv
    <3>4. DOMAIN tree'.main_branch = (low + 1) .. Number[b]
      BY <2>3, <2>4, <3>1, <3>3
    <3>5. Cardinality(DOMAIN tree'.main_branch) = Number[b] - low
      <4>1. low + 1 \in Nat /\ low + 1 <= Number[b] + 1
        BY <2>3, <2>4
      <4>2. Cardinality((low + 1) .. Number[b]) = Number[b] - (low + 1) + 1
        BY <2>4, <4>1, IntervalSize
      <4> QED BY <2>4, <3>4, <4>2
    <3> QED BY <2>6, <3>1, <3>3, <3>5 DEF GrowthInv, WindowBound
  <2> QED BY <2>8, <2>9
<1> QED BY <1>1, <1>2

\* The predecessor of a fork block is found in an occupied slot.
LEMMA InsertForkParent ==
    ASSUME NEW t, WellFormed(t), NEW b, ForkParentExists(t, b)
    PROVE  FindNodeWithBlockstamp(t, Previous[b]) \in NodesWithBlockstamp(t, Previous[b])
<1> DEFINE found == NodesWithBlockstamp(t, Previous[b])
<1>1. found # {} /\ found \subseteq Nat
  BY DEF ForkParentExists, NodesWithBlockstamp, WellFormed
<1> HIDE DEF found
<1>2. \E id \in found : \A other \in found : id <= other
  BY <1>1, LeastNumber
<1> QED BY <1>2 DEF FindNodeWithBlockstamp, found

\* A fork block: the main branch does not move.
LEMMA InsertForkKeepsInv ==
    ASSUME GrowthInv, NEW b \in Block, InsertFork(b)
    PROVE  GrowthInv'
<1> DEFINE parent == FindNodeWithBlockstamp(tree, Previous[b])
<1>1. parent \in LiveNodes(tree)
  BY InsertForkParent DEF InsertFork, GrowthInv, TreeInv, NodesWithBlockstamp
<1>2. tree' = AddNode(tree, b, parent, FALSE)
  BY DEF InsertFork, InsertNewForkBlock, InsertNewNode
<1> HIDE DEF parent
<1> QED BY <1>1, <1>2, AddForkNodeKeepsInv DEF GrowthInv, WindowBound

-----------------------------------------------------------------------------
(* The theorems.                                                           *)

\* The invariant holds in every reachable state: initially, and after a head or
\* a fork block.
LEMMA GrowthInvAlways == TreeSpec => []GrowthInv
<1>1. TreeInit => GrowthInv
  <2>1. SUFFICES ASSUME TreeInit PROVE GrowthInv
    OBVIOUS
  <2>2. LiveNodes(tree) = {} /\ DOMAIN tree.main_branch = {}
    BY <2>1 DEF TreeInit, EmptyTree, LiveNodes
  <2>3. TreeInv(tree)
    BY <2>1, <2>2 DEF TreeInit, EmptyTree, TreeInv, WellFormed, MainChain, RootDetached,
                      SheetsChildless
  <2> QED BY <2>2, <2>3, FS_EmptySet, WindowAssumption DEF GrowthInv, WindowBound
<1>2. GrowthInv /\ [TreeNext]_tree => GrowthInv'
  <2> SUFFICES ASSUME GrowthInv, [TreeNext]_tree PROVE GrowthInv'
    OBVIOUS
  <2>1. CASE UNCHANGED tree
    BY <2>1 DEF GrowthInv, WindowBound
  <2>2. ASSUME NEW b \in Block, InsertHead(b) PROVE GrowthInv'
    BY <2>2, InsertHeadKeepsInv
  <2>3. ASSUME NEW b \in Block, InsertFork(b) PROVE GrowthInv'
    BY <2>3, InsertForkKeepsInv
  <2> QED BY <2>1, <2>2, <2>3 DEF TreeNext
<1> QED BY <1>1, <1>2, PTL DEF TreeSpec

\* Every operation keeps the record well formed: no sheet and no entry of the
\* main branch names a freed slot.
THEOREM TypeCorrect == TreeSpec => []TreeTypeOK
<1>1. GrowthInv => TreeTypeOK
  BY DEF GrowthInv, TreeInv, TreeTypeOK
<1> QED BY <1>1, GrowthInvAlways, PTL

\* The map of the main branch and the parent links always describe the same
\* unbroken chain from the root to the head, however often it was pruned.
THEOREM MainBranchChained == TreeSpec => []MainBranchIsChain
<1>1. GrowthInv => MainBranchIsChain
  BY DEF GrowthInv, TreeInv, MainBranchIsChain
<1> QED BY <1>1, GrowthInvAlways, PTL

\* The main branch never outgrows the fork window.
THEOREM WindowRespected == TreeSpec => []WindowBound
<1>1. GrowthInv => WindowBound
  BY DEF GrowthInv
<1> QED BY <1>1, GrowthInvAlways, PTL

-----------------------------------------------------------------------------
(* What a step may remove.                                                 *)

\* Nothing that hangs under the new root is cut off with the old one.
LEMMA NewRootBranchKept ==
    ASSUME NEW t, TreeInv(t), LiveNodes(t) # {},
           RootNumber(t) + 1 \in DOMAIN t.main_branch
    PROVE  ({RootMainChild(t)} \cup Descendants(t, RootMainChild(t))) \cap CutOff(t) = {}
<1> DEFINE r == RootMainChild(t)
           cut == Children(t, t.root) \ {r}
           G == CutOff(t)
<1>1. G = {t.root} \cup cut \cup UNION {Descendants(t, c) : c \in cut}
  BY DEF CutOff
<1>2. r = t.main_branch[RootNumber(t) + 1] /\ r \in LiveNodes(t)
  BY MainChainFacts DEF RootMainChild, RootNumber, TreeInv
<1>3. RootNumber(t) + 1 # RootNumber(t)
  BY MainChainFacts DEF TreeInv
<1>4. r \notin G
  BY <1>2, <1>3, CutOffMain
<1> HIDE DEF r, G
<1>5. ASSUME NEW m \in G \cap LiveNodes(t)
      PROVE  t.nodes[m].parent # r /\ t.nodes[m].parent \notin LiveNodes(t) \ G
  <2>1. CASE m = t.root
    BY <1>2, <2>1 DEF TreeInv, RootDetached
  <2>2. CASE m \in cut
    <3>1. t.nodes[m].parent = t.root
      BY <2>2 DEF Children
    <3> QED BY <1>1, <1>4, <3>1
  <2>3. CASE \E c \in cut : m \in Descendants(t, c)
    <3>1. PICK c \in cut : m \in Descendants(t, c)
      BY <2>3
    <3>2. c \in LiveNodes(t)
      BY DEF Children
    <3>3. t.nodes[m].parent = c \/ t.nodes[m].parent \in Descendants(t, c)
      BY <3>1, <3>2, DescendantsParent
    <3>4. t.nodes[m].parent \in G
      BY <1>1, <3>3
    <3> QED BY <1>4, <3>4
  <2> HIDE DEF cut
  <2> QED BY <1>1, <2>1, <2>2, <2>3
<1>6. Descendants(t, r) \cap G = {}
  BY <1>2, <1>5, DescendantsAvoid
<1> QED BY <1>4, <1>6 DEF r, G

\* The nodes of a tree that grew.
LEMMA AddNodeLive ==
    ASSUME NEW t, WellFormed(t), NEW b, NEW parent, NEW main_branch \in BOOLEAN
    PROVE  /\ t.allocated \notin LiveNodes(t)
           /\ LiveNodes(AddNode(t, b, parent, main_branch)) = LiveNodes(t) \cup {t.allocated}
           /\ \A id \in LiveNodes(t) :
                 AddNode(t, b, parent, main_branch).nodes[id] = t.nodes[id]
<1>1. t.allocated \notin LiveNodes(t)
  BY DEF WellFormed
<1>2. AddNode(t, b, parent, main_branch).nodes =
         [id \in LiveNodes(t) \cup {t.allocated} |->
            IF id = t.allocated THEN [parent |-> parent, data |-> b] ELSE t.nodes[id]]
  BY DEF AddNode, Put, LiveNodes
<1> QED BY <1>1, <1>2 DEF LiveNodes

\* A node added to the tree takes no descendant away from another node.
LEMMA AddNodeKeepsDescendants ==
    ASSUME NEW t, WellFormed(t), NEW b \in Block, NEW parent \in LiveNodes(t), NEW id
    PROVE  Descendants(t, id) \subseteq Descendants(AddNode(t, b, parent, TRUE), id)
<1> DEFINE a == AddNode(t, b, parent, TRUE)
<1>1. /\ LiveNodes(t) \subseteq LiveNodes(a)
      /\ \A x \in LiveNodes(t) : a.nodes[x] = t.nodes[x]
  <2>1. LiveNodes(a) = LiveNodes(t) \cup {t.allocated}
    BY AddNodeLive
  <2>2. \A x \in LiveNodes(t) : a.nodes[x] = t.nodes[x]
    BY AddNodeLive
  <2> QED BY <2>1, <2>2
<1> HIDE DEF a
<1>2. \A x : Children(t, x) = Children(a, x) \cap LiveNodes(t)
  BY <1>1 DEF Children
<1>3. SUFFICES ASSUME NEW d \in Descendants(t, id),
                      NEW S, S \subseteq LiveNodes(a), Children(a, id) \subseteq S,
                      \A x \in S : Children(a, x) \subseteq S
               PROVE  d \in S
  <2>1. Descendants(t, id) \subseteq LiveNodes(a)
    BY <1>1, DescendantsLive
  <2> QED BY <2>1 DEF Descendants, a
<1>4. /\ S \cap LiveNodes(t) \subseteq LiveNodes(t)
      /\ Children(t, id) \subseteq S \cap LiveNodes(t)
      /\ \A x \in S \cap LiveNodes(t) : Children(t, x) \subseteq S \cap LiveNodes(t)
  BY <1>2, <1>3
<1> QED BY <1>4 DEF Descendants

\* The step relation behind the two action properties.
LEMMA RemovalStep ==
    ASSUME GrowthInv, TreeNext
    PROVE  /\ tree'.removed_blockstamps =
                {DataOf(tree, id) : id \in LiveNodes(tree) \ LiveNodes(tree')}
           /\ tree'.root # tree.root /\ LiveNodes(tree) # {} =>
                {tree'.root} \cup Descendants(tree, tree'.root) \subseteq LiveNodes(tree')
<1>1. CASE \E b \in Block : InsertHead(b) /\ LiveNodes(tree) = {}
  <2>1. PICK b \in Block : InsertHead(b)
    BY <1>1
  <2>2. tree' = AddNode(tree, b, NoNode, TRUE)
    BY <1>1, <2>1, InsertRootStep DEF GrowthInv, InsertHead
  <2>3. AddNode(tree, b, NoNode, TRUE).removed_blockstamps = {}
    BY DEF AddNode
  <2> QED BY <1>1, <2>2, <2>3
<1>2. CASE \E b \in Block : InsertHead(b) /\ LiveNodes(tree) # {}
  <2>1. PICK b \in Block : InsertHead(b)
    BY <1>2
  <2> DEFINE parent == tree.main_branch[Number[b] - 1]
             a == AddNode(tree, b, parent, TRUE)
  <2>2. /\ tree' = PruneToWindow(a)
        /\ parent \in LiveNodes(tree)
        /\ TreeInv(a) /\ LiveNodes(a) # {}
        /\ DOMAIN a.main_branch = RootNumber(a) .. Number[b]
        /\ RootNumber(a) < Number[b]
        /\ RootNumber(a) \in Nat /\ Number[b] \in Nat
    <3>1. TreeInv(tree) /\ HeadParentExists(tree, b) /\ Follows(tree, b)
      BY <2>1 DEF GrowthInv, InsertHead, Follows
    <3>2. tree' = InsertNewHeadBlock(tree, b)
      BY <2>1 DEF InsertHead
    <3> HIDE DEF a, parent
    <3> QED BY <1>2, <3>1, <3>2, InsertHeadStep DEF a, parent
  <2>3. /\ LiveNodes(a) = LiveNodes(tree) \cup {tree.allocated}
        /\ tree.allocated \notin LiveNodes(tree)
        /\ \A id \in LiveNodes(tree) : DataOf(a, id) = DataOf(tree, id)
    <3>1. WellFormed(tree)
      BY DEF GrowthInv, TreeInv
    <3>2. LiveNodes(a) = LiveNodes(tree) \cup {tree.allocated}
      BY <3>1, AddNodeLive
    <3>3. tree.allocated \notin LiveNodes(tree)
      BY <3>1, AddNodeLive
    <3>4. \A id \in LiveNodes(tree) : a.nodes[id] = tree.nodes[id]
      BY <3>1, AddNodeLive
    <3> HIDE DEF a
    <3>5. \A id \in LiveNodes(tree) : DataOf(a, id) = DataOf(tree, id)
      BY <3>4 DEF DataOf
    <3> QED BY <3>2, <3>3, <3>5
  <2>4. /\ a.root = tree.root
        /\ a.removed_blockstamps = {}
        /\ a.main_branch[Number[b]] = tree.allocated
    <3> HIDE DEF parent
    <3>1. LiveNodes(tree) \subseteq 0 .. tree.allocated - 1
      BY DEF GrowthInv, TreeInv, WellFormed
    <3>2. parent # NoNode
      BY <2>2, <3>1, WindowAssumption
    <3> QED BY <3>2 DEF AddNode, Put
  <2>5. \A id : Descendants(tree, id) \subseteq Descendants(a, id)
    BY <2>2, AddNodeKeepsDescendants DEF GrowthInv, TreeInv
  <2> HIDE DEF a, parent
  <2>6. CASE tree' = a
    BY <2>3, <2>4, <2>6
  <2>7. CASE tree' = Pruning(a)
    <3>1. RootNumber(a) + 1 \in DOMAIN a.main_branch /\ Number[b] \in DOMAIN a.main_branch
      BY <2>2
    <3>2. LiveNodes(tree') = LiveNodes(a) \ PrunedNodes(a)
      BY <2>2, <2>7, <3>1, PruningKeepsInv
    <3>3. tree.allocated \notin PrunedNodes(a) /\ PrunedNodes(a) \subseteq LiveNodes(tree)
      BY <2>2, <2>3, <2>4, <3>1, PrunedOffMain, PrunedLive
    <3>4. tree'.removed_blockstamps = {DataOf(a, id) : id \in PrunedNodes(a)}
      BY <2>4, <2>7 DEF Pruning
    <3>5. LiveNodes(tree) \ LiveNodes(tree') = PrunedNodes(a)
      BY <2>3, <3>2, <3>3
    <3>6. tree'.root = RootMainChild(a) /\ RootMainChild(a) \in LiveNodes(a)
      BY <2>2, <2>7, <3>1, MainChainFacts DEF Pruning, RootMainChild, RootNumber, TreeInv
    <3>7. {tree'.root} \cup Descendants(a, tree'.root) \subseteq LiveNodes(a) \ PrunedNodes(a)
      BY <2>2, <3>1, <3>6, NewRootBranchKept, PrunedCutOff, DescendantsLive
    <3>8. {DataOf(a, id) : id \in PrunedNodes(a)} = {DataOf(tree, id) : id \in PrunedNodes(a)}
      BY <2>3, <3>3
    <3> QED BY <2>5, <3>2, <3>4, <3>5, <3>7, <3>8
  <2> QED BY <2>2, <2>6, <2>7 DEF PruneToWindow
<1>3. CASE \E b \in Block : InsertFork(b)
  <2>1. PICK b \in Block : InsertFork(b)
    BY <1>3
  <2> DEFINE parent == FindNodeWithBlockstamp(tree, Previous[b])
             a == AddNode(tree, b, parent, FALSE)
  <2>2. parent \in LiveNodes(tree) /\ tree' = a
    BY <2>1, InsertForkParent
       DEF InsertFork, InsertNewForkBlock, InsertNewNode, GrowthInv, TreeInv, NodesWithBlockstamp
  <2>3. LiveNodes(tree) \subseteq LiveNodes(a)
    BY AddNodeLive DEF GrowthInv, TreeInv
  <2>4. a.removed_blockstamps = {} /\ a.root = tree.root
    BY <2>2, WindowAssumption DEF AddNode, GrowthInv, TreeInv, WellFormed
  <2> QED BY <2>2, <2>3, <2>4
<1> QED BY <1>1, <1>2, <1>3 DEF TreeNext

\* The blocks a step reports as removed are exactly those whose node it freed:
\* the fork blocks database, which deletes what is reported, follows the tree.
THEOREM RemovalsAreReported == TreeSpec => RemovalsReported
<1>1. GrowthInv /\ [TreeNext]_tree =>
         [tree'.removed_blockstamps =
             {DataOf(tree, id) : id \in LiveNodes(tree) \ LiveNodes(tree')}]_tree
  BY RemovalStep
<1> QED BY <1>1, GrowthInvAlways, PTL DEF TreeSpec, RemovalsReported

\* A pruning never takes a branch that still starts inside the window.
THEOREM WindowBranchesAreKept == TreeSpec => WindowBranchesKept
<1>1. GrowthInv /\ [TreeNext]_tree =>
         [tree'.root # tree.root /\ LiveNodes(tree) # {} =>
             {tree'.root} \cup Descendants(tree, tree'.root) \subseteq LiveNodes(tree')]_tree
  BY RemovalStep
<1> QED BY <1>1, GrowthInvAlways, PTL DEF TreeSpec, WindowBranchesKept

-----------------------------------------------------------------------------
(* Sheets and leaves.                                                      *)

\* What is below the root and has no child is a sheet; with SheetsChildless, the
\* two are the same there.
LeavesAreSheets(t) ==
    LiveNodes(t) # {} =>
       \A id \in {t.root} \cup Descendants(t, t.root) : Children(t, id) = {} => id \in t.sheets

\* A child of c, or of a descendant of c, is a descendant of c.
LEMMA DescendantsClosed ==
    ASSUME NEW t, NEW c \in LiveNodes(t), NEW d \in LiveNodes(t),
           t.nodes[d].parent = c \/ t.nodes[d].parent \in Descendants(t, c)
    PROVE  d \in Descendants(t, c)
<1> SUFFICES ASSUME NEW S, S \subseteq LiveNodes(t), Children(t, c) \subseteq S,
                    \A x \in S : Children(t, x) \subseteq S
             PROVE  d \in S
  BY DEF Descendants
<1>1. Descendants(t, c) \subseteq S
  BY DEF Descendants
<1> QED BY <1>1 DEF Children

\* A tree with fewer nodes has fewer descendants.
LEMMA FewerDescendants ==
    ASSUME NEW t, NEW p, LiveNodes(p) \subseteq LiveNodes(t),
           \A id \in LiveNodes(p) : p.nodes[id] = t.nodes[id], NEW c
    PROVE  Descendants(p, c) \subseteq Descendants(t, c)
<1>1. \A x : Children(p, x) = Children(t, x) \cap LiveNodes(p)
  BY DEF Children
<1> SUFFICES ASSUME NEW d \in Descendants(p, c),
                    NEW S, S \subseteq LiveNodes(t), Children(t, c) \subseteq S,
                    \A x \in S : Children(t, x) \subseteq S
             PROVE  d \in S
  <2>1. Descendants(p, c) \subseteq LiveNodes(t)
    BY DescendantsLive
  <2> QED BY <2>1 DEF Descendants
<1>2. /\ S \cap LiveNodes(p) \subseteq LiveNodes(p)
      /\ Children(p, c) \subseteq S \cap LiveNodes(p)
      /\ \A x \in S \cap LiveNodes(p) : Children(p, x) \subseteq S \cap LiveNodes(p)
  BY <1>1
<1> QED BY <1>2 DEF Descendants

\* The new node is a leaf and a sheet; its parent is neither any more.
LEMMA AddNodeKeepsLeaves ==
    ASSUME NEW t, TreeInv(t), LiveNodes(t) # {}, LeavesAreSheets(t),
           NEW b \in Block, NEW parent \in LiveNodes(t), NEW main_branch \in BOOLEAN
    PROVE  LeavesAreSheets(AddNode(t, b, parent, main_branch))
<1> DEFINE a == AddNode(t, b, parent, main_branch)
           M == LiveNodes(t) \ Descendants(t, t.root)
<1>1. /\ LiveNodes(a) = LiveNodes(t) \cup {t.allocated} /\ t.allocated \notin LiveNodes(t)
      /\ \A id \in LiveNodes(t) : a.nodes[id] = t.nodes[id]
  BY AddNodeLive DEF TreeInv
<1>2. /\ a.nodes[t.allocated].parent = parent /\ parent # NoNode
      /\ a.root = t.root /\ a.sheets = (t.sheets \ {parent}) \cup {t.allocated}
  BY WindowAssumption DEF AddNode, Put, TreeInv, WellFormed
<1> HIDE DEF a
<1>3. t.root \in LiveNodes(t)
  BY MainChainFacts DEF TreeInv
<1>4. Descendants(a, t.root) \cap M = {}
  <2> SUFFICES ASSUME NEW m \in LiveNodes(t), m \notin Descendants(t, t.root)
               PROVE  /\ a.nodes[m].parent # t.root
                      /\ a.nodes[m].parent \notin LiveNodes(a) \ M
    <3>1. t.root \in LiveNodes(a) /\ \A m \in M \cap LiveNodes(a) : m \in LiveNodes(t) /\ m \notin Descendants(t, t.root)
      BY <1>1, <1>3
    <3> HIDE DEF M
    <3> QED BY <3>1, DescendantsAvoid
  <2>1. t.nodes[m].parent # t.root /\ t.nodes[m].parent \notin Descendants(t, t.root)
    BY <1>3, DescendantsClosed
  <2>2. t.nodes[m].parent # t.allocated
    BY DEF TreeInv, WellFormed
  <2> QED BY <1>1, <2>1, <2>2
<1>5. Descendants(a, t.root) \subseteq Descendants(t, t.root) \cup {t.allocated}
  BY <1>1, <1>4, DescendantsLive
<1>6. ASSUME NEW id \in LiveNodes(t), Children(a, id) = {}
      PROVE  Children(t, id) = {} /\ id # parent
  BY <1>1, <1>2, <1>6 DEF Children
<1>7. ASSUME NEW id \in {t.root} \cup Descendants(a, t.root), Children(a, id) = {}
      PROVE  id \in a.sheets
  <2>1. CASE id = t.allocated
    BY <1>2, <2>1
  <2>2. CASE id \in {t.root} \cup Descendants(t, t.root)
    <3>1. id \in LiveNodes(t)
      BY <1>3, <2>2, DescendantsLive
    <3> QED BY <1>2, <1>6, <1>7, <2>2, <3>1 DEF LeavesAreSheets
  <2> QED BY <1>5, <1>7, <2>1, <2>2
<1> QED BY <1>2, <1>7 DEF LeavesAreSheets, a

\* A pruning leaves below the new root what was there, children and sheets alike.
LEMMA PruningKeepsLeaves ==
    ASSUME NEW t, TreeInv(t), LiveNodes(t) # {}, LeavesAreSheets(t),
           RootNumber(t) + 1 \in DOMAIN t.main_branch
    PROVE  LeavesAreSheets(Pruning(t))
<1> DEFINE p == Pruning(t)
           r == RootMainChild(t)
<1>1. LiveNodes(p) = LiveNodes(t) \ PrunedNodes(t)
  BY PruningKeepsInv
<1>2. /\ p.root = r /\ \A id \in LiveNodes(p) : p.nodes[id] = t.nodes[id]
      /\ t.sheets \ PrunedNodes(t) \subseteq p.sheets
  BY DEF Pruning, Restrict, LiveNodes
<1> HIDE DEF p
<1>3. r \in LiveNodes(t) /\ t.root \in LiveNodes(t) /\ t.nodes[r].parent = t.root
  BY MainChainFacts DEF RootMainChild, RootNumber, TreeInv
<1> HIDE DEF r
<1>4. r \in Descendants(t, t.root)
  BY <1>3, DescendantsClosed
<1>5. Descendants(p, r) \subseteq Descendants(t, r)
  BY <1>1, <1>2, FewerDescendants
<1>6. Descendants(t, r) \subseteq Descendants(t, t.root)
  <2> DEFINE M == LiveNodes(t) \ Descendants(t, t.root)
  <2>1. ASSUME NEW m \in M \cap LiveNodes(t)
        PROVE  t.nodes[m].parent # r /\ t.nodes[m].parent \notin LiveNodes(t) \ M
    BY <1>3, <1>4, DescendantsClosed
  <2>2. \A d \in Descendants(t, r) : d \in M \/ d \in Descendants(t, t.root)
    BY <1>3, DescendantsLive
  <2> HIDE DEF M
  <2>3. Descendants(t, r) \cap M = {}
    <3>1. \A m \in M \cap LiveNodes(t) :
             /\ t.nodes[m].parent # r
             /\ t.nodes[m].parent \notin LiveNodes(t) \ M
      BY <2>1
    <3> QED BY <1>3, <3>1, DescendantsAvoid
  <2> QED BY <2>2, <2>3
<1>7. ({r} \cup Descendants(t, r)) \cap PrunedNodes(t) = {}
  BY NewRootBranchKept, PrunedCutOff DEF r
<1>8. ASSUME NEW id \in {r} \cup Descendants(p, r), Children(p, id) = {}
      PROVE  id \in p.sheets
  <2>1. id \in {r} \cup Descendants(t, r) /\ id \in Descendants(t, t.root)
    BY <1>4, <1>5, <1>6
  <2>2. Children(t, id) = {}
    <3> SUFFICES ASSUME NEW k \in Children(t, id) PROVE FALSE
      OBVIOUS
    <3>1. k \in LiveNodes(t) /\ t.nodes[k].parent = id
      BY DEF Children
    <3>2. k \in Descendants(t, r)
      BY <1>3, <2>1, <3>1, DescendantsClosed
    <3>3. k \in LiveNodes(p) /\ p.nodes[k].parent = id
      BY <1>1, <1>2, <1>7, <3>1, <3>2
    <3> QED BY <1>8, <3>3 DEF Children
  <2>3. id \in t.sheets \ PrunedNodes(t)
    BY <1>7, <2>1, <2>2 DEF LeavesAreSheets
  <2> QED BY <1>2, <2>3
<1> QED BY <1>2, <1>8 DEF LeavesAreSheets, p

\* Each step of the tree keeps it.
LEMMA LeavesStep ==
    ASSUME GrowthInv, LeavesAreSheets(tree), TreeNext
    PROVE  LeavesAreSheets(tree')
<1>1. ASSUME NEW b \in Block, InsertHead(b), LiveNodes(tree) = {}
      PROVE  LeavesAreSheets(tree')
  <2> DEFINE a == AddNode(tree, b, NoNode, TRUE)
  <2>1. TreeInv(tree) /\ tree' = a
    BY <1>1, InsertRootStep DEF GrowthInv, InsertHead
  <2>2. LiveNodes(a) = {tree.allocated}
    BY <1>1, <2>1, AddNodeLive DEF TreeInv
  <2>3. a.root = tree.allocated /\ tree.allocated \in a.sheets
    BY DEF AddNode
  <2> HIDE DEF a
  <2> QED BY <2>1, <2>2, <2>3, DescendantsLive DEF LeavesAreSheets
<1>2. ASSUME NEW b \in Block, InsertHead(b), LiveNodes(tree) # {}
      PROVE  LeavesAreSheets(tree')
  <2> DEFINE parent == tree.main_branch[Number[b] - 1]
             a == AddNode(tree, b, parent, TRUE)
  <2>1. /\ tree' = PruneToWindow(a) /\ parent \in LiveNodes(tree)
        /\ TreeInv(a) /\ LiveNodes(a) # {}
        /\ DOMAIN a.main_branch = RootNumber(a) .. Number[b]
        /\ RootNumber(a) < Number[b] /\ RootNumber(a) \in Nat /\ Number[b] \in Nat
    <3>1. TreeInv(tree) /\ HeadParentExists(tree, b) /\ Follows(tree, b)
      BY <1>2 DEF GrowthInv, InsertHead, Follows
    <3>2. tree' = InsertNewHeadBlock(tree, b)
      BY <1>2 DEF InsertHead
    <3> HIDE DEF a, parent
    <3> QED BY <1>2, <3>1, <3>2, InsertHeadStep DEF a, parent
  <2>2. LeavesAreSheets(a)
    BY <1>2, <2>1, AddNodeKeepsLeaves DEF GrowthInv
  <2> HIDE DEF a
  <2>3. LeavesAreSheets(Pruning(a))
    BY <2>1, <2>2, PruningKeepsLeaves
  <2> QED BY <2>1, <2>2, <2>3 DEF PruneToWindow
<1>3. ASSUME NEW b \in Block, InsertFork(b)
      PROVE  LeavesAreSheets(tree')
  <2> DEFINE parent == FindNodeWithBlockstamp(tree, Previous[b])
  <2>1. /\ parent \in LiveNodes(tree)
        /\ tree' = AddNode(tree, b, parent, FALSE)
    BY <1>3, InsertForkParent
       DEF InsertFork, InsertNewForkBlock, InsertNewNode, GrowthInv, TreeInv, NodesWithBlockstamp
  <2>2. LiveNodes(tree) # {} /\ TreeInv(tree)
    BY <2>1 DEF GrowthInv
  <2> HIDE DEF parent
  <2> QED BY <2>1, <2>2, AddNodeKeepsLeaves
<1> QED BY <1>1, <1>2, <1>3 DEF TreeNext

\* Below the root the sheets are exactly the leaves, however often the tree was
\* pruned: fork resolution, which starts at the sheets, overlooks no branch.
THEOREM SheetsAreTheLeaves == TreeSpec => []SheetsAreLeaves
<1>1. TreeInit => LeavesAreSheets(tree)
  BY DEF TreeInit, EmptyTree, LeavesAreSheets, LiveNodes
<1>2. GrowthInv /\ LeavesAreSheets(tree) /\ [TreeNext]_tree => LeavesAreSheets(tree)'
  <2> SUFFICES ASSUME GrowthInv, LeavesAreSheets(tree), [TreeNext]_tree PROVE LeavesAreSheets(tree')
    OBVIOUS
  <2>1. CASE UNCHANGED tree
    BY <2>1
  <2> QED BY <2>1, LeavesStep
<1>3. GrowthInv /\ LeavesAreSheets(tree) => SheetsAreLeaves
  BY DEF GrowthInv, TreeInv, SheetsChildless, LeavesAreSheets, SheetsAreLeaves, Attached
<1> QED BY <1>1, <1>2, <1>3, GrowthInvAlways, PTL DEF TreeSpec

-----------------------------------------------------------------------------
(* A tree whose nodes hang under the blocks they follow.                   *)

Hung(t) ==
    \A id \in LiveNodes(t) : t.nodes[id].parent \in LiveNodes(t) =>
        DataOf(t, t.nodes[id].parent) = Previous[DataOf(t, id)]

\* A new node carries the new block, the others what they carried.
LEMMA AddNodeData ==
    ASSUME NEW t, WellFormed(t), NEW b, NEW parent, NEW a,
           a.nodes = Put(t.nodes, t.allocated, [parent |-> parent, data |-> b])
    PROVE  /\ DataOf(a, t.allocated) = b
           /\ \A id \in LiveNodes(t) : DataOf(a, id) = DataOf(t, id)
<1>1. t.allocated \notin LiveNodes(t)
  BY DEF WellFormed
<1> QED BY <1>1 DEF Put, DataOf, LiveNodes

\* A node added under the block it follows.
LEMMA AddNodeHung ==
    ASSUME NEW t, WellFormed(t), SheetsChildless(t), Hung(t),
           NEW b \in Block, NEW parent \in LiveNodes(t) \cup {NoNode},
           NEW main_branch \in BOOLEAN,
           parent \in LiveNodes(t) => DataOf(t, parent) = Previous[b]
    PROVE  Hung(AddNode(t, b, parent, main_branch))
<1> DEFINE a == AddNode(t, b, parent, main_branch)
<1>1. /\ LiveNodes(a) = LiveNodes(t) \cup {t.allocated}
      /\ t.allocated \notin LiveNodes(t)
      /\ a.nodes[t.allocated] = [parent |-> parent, data |-> b]
      /\ \A id \in LiveNodes(t) : a.nodes[id] = t.nodes[id]
  BY AddNodeFrame
<1> HIDE DEF a
<1>2. DataOf(a, t.allocated) = b /\ \A id \in LiveNodes(t) : DataOf(a, id) = DataOf(t, id)
  BY <1>1 DEF DataOf
<1>3. ASSUME NEW id \in LiveNodes(a), a.nodes[id].parent \in LiveNodes(a)
      PROVE  DataOf(a, a.nodes[id].parent) = Previous[DataOf(a, id)]
  <2>1. CASE id = t.allocated
    <3>1. a.nodes[id].parent = parent /\ parent # t.allocated
      BY <1>1, <2>1, WindowAssumption DEF WellFormed
    <3>2. parent \in LiveNodes(t)
      BY <1>1, <1>3, <3>1
    <3> QED BY <1>2, <2>1, <3>1, <3>2
  <2>2. CASE id # t.allocated
    <3>1. id \in LiveNodes(t) /\ a.nodes[id].parent = t.nodes[id].parent
      BY <1>1, <2>2
    <3>2. t.nodes[id].parent # t.allocated
      BY <3>1 DEF WellFormed
    <3>3. t.nodes[id].parent \in LiveNodes(t)
      BY <1>1, <1>3, <3>1, <3>2
    <3> QED BY <1>2, <3>1, <3>3 DEF Hung
  <2> QED BY <2>1, <2>2
<1> QED BY <1>3 DEF Hung, a

\* Pruning only takes nodes away.
LEMMA PruningHung ==
    ASSUME NEW t, Hung(t)
    PROVE  /\ Hung(Pruning(t))
           /\ \A id \in LiveNodes(Pruning(t)) : DataOf(Pruning(t), id) = DataOf(t, id)
<1> DEFINE p == Pruning(t)
<1>1. p.nodes = [id \in LiveNodes(t) \ PrunedNodes(t) |-> t.nodes[id]]
  BY DEF Pruning, Restrict
<1> HIDE DEF p
<1>2. LiveNodes(p) \subseteq LiveNodes(t) /\ \A id \in LiveNodes(p) : p.nodes[id] = t.nodes[id]
  BY <1>1 DEF LiveNodes
<1>3. \A id \in LiveNodes(p) : DataOf(p, id) = DataOf(t, id)
  BY <1>2 DEF DataOf
<1> QED BY <1>2, <1>3 DEF Hung, p

\* A new head: it tops the main branch, nothing else of the main branch changes
\* but what leaves the window, and that is never the block below the head.
LEMMA HeadInserted ==
    ASSUME NEW t, TreeInv(t), Hung(t),
           NEW b \in Block, HeadParentExists(t, b), Follows(t, b)
    PROVE  LET u == InsertNewHeadBlock(t, b)
           IN  /\ TreeInv(u) /\ Hung(u) /\ DOMAIN u = DOMAIN EmptyTree
               /\ Number[b] \in DOMAIN u.main_branch
               /\ MainBlock(u, Number[b]) = b
               /\ \A n \in DOMAIN u.main_branch :
                     n # Number[b] => n \in DOMAIN t.main_branch /\ MainBlock(u, n) = MainBlock(t, n)
               /\ LiveNodes(t) # {} => Number[b] - 1 \in DOMAIN u.main_branch
<1> DEFINE u == InsertNewHeadBlock(t, b)
<1>0. DOMAIN AddNode(t, b, NoNode, TRUE) = DOMAIN EmptyTree
  BY DEF AddNode, EmptyTree
<1>1. CASE LiveNodes(t) = {}
  <2> DEFINE a == AddNode(t, b, NoNode, TRUE)
  <2>1. u = a /\ TreeInv(a) /\ DOMAIN a.main_branch = {Number[b]}
    BY <1>1, InsertRootStep
  <2>2. Hung(a) /\ DataOf(a, t.allocated) = b
    <3>1. WellFormed(t) /\ SheetsChildless(t) /\ NoNode \notin LiveNodes(t)
      BY <1>1 DEF TreeInv
    <3>2. Hung(a)
      BY <3>1, AddNodeHung
    <3>3. DataOf(a, t.allocated) = b
      BY <3>1, AddNodeData DEF AddNode
    <3> QED BY <3>2, <3>3
  <2>3. a.main_branch[Number[b]] = t.allocated
    BY DEF AddNode, Put
  <2> HIDE DEF a, u
  <2>4. MainBlock(a, Number[b]) = b
    BY <2>2, <2>3 DEF MainBlock
  <2> QED BY <1>0, <1>1, <2>1, <2>2, <2>4 DEF u, a
<1>2. CASE LiveNodes(t) # {}
  <2> DEFINE parent == t.main_branch[Number[b] - 1]
             a == AddNode(t, b, parent, TRUE)
             low == RootNumber(t)
  <2>1. /\ u = PruneToWindow(a)
        /\ parent \in LiveNodes(t)
        /\ TreeInv(a) /\ LiveNodes(a) # {}
        /\ DOMAIN a.main_branch = low .. Number[b]
        /\ RootNumber(a) = low /\ low < Number[b] /\ low \in Nat /\ Number[b] \in Nat
        /\ DOMAIN t.main_branch = low .. (Number[b] - 1)
    BY <1>2, InsertHeadStep
  <2>2. DataOf(t, parent) = Previous[b]
    BY <1>2 DEF Follows, MainBlock
  <2>3. /\ Hung(a) /\ DataOf(a, t.allocated) = b
        /\ \A id \in LiveNodes(t) : DataOf(a, id) = DataOf(t, id)
    <3>1. WellFormed(t) /\ SheetsChildless(t)
      BY DEF TreeInv
    <3> HIDE DEF parent
    <3>2. Hung(a)
      BY <2>1, <2>2, <3>1, AddNodeHung
    <3>3. DataOf(a, t.allocated) = b /\ \A id \in LiveNodes(t) : DataOf(a, id) = DataOf(t, id)
      BY <3>1, AddNodeData DEF AddNode
    <3> QED BY <3>2, <3>3
  <2>4. /\ a.main_branch[Number[b]] = t.allocated
        /\ \A n \in DOMAIN t.main_branch : a.main_branch[n] = t.main_branch[n] \/ n = Number[b]
    BY DEF AddNode, Put
  <2>5. DOMAIN a = DOMAIN EmptyTree /\ DOMAIN Pruning(a) = DOMAIN EmptyTree
    BY DEF AddNode, Pruning, EmptyTree
  <2>6. \A n \in DOMAIN t.main_branch : t.main_branch[n] \in LiveNodes(t)
    BY DEF TreeInv, WellFormed
  <2> HIDE DEF a, u, low, parent
  <2>7. /\ MainBlock(a, Number[b]) = b
        /\ \A n \in DOMAIN a.main_branch :
              n # Number[b] => n \in DOMAIN t.main_branch /\ MainBlock(a, n) = MainBlock(t, n)
    <3>1. MainBlock(a, Number[b]) = b
      BY <2>3, <2>4 DEF MainBlock
    <3>2. ASSUME NEW n \in DOMAIN a.main_branch, n # Number[b]
          PROVE  n \in DOMAIN t.main_branch /\ MainBlock(a, n) = MainBlock(t, n)
      <4>1. n \in DOMAIN t.main_branch
        BY <2>1, <3>2
      <4> QED BY <2>3, <2>4, <2>6, <3>2, <4>1 DEF MainBlock
    <3> QED BY <3>1, <3>2
  <2>8. CASE Cardinality(DOMAIN a.main_branch) > FORK_WINDOW_SIZE
    <3> DEFINE p == Pruning(a)
    <3>1. u = p
      BY <2>1, <2>8 DEF PruneToWindow
    <3>2. low + 1 \in low .. Number[b]
      BY <2>1
    <3>3. TreeInv(p) /\ DOMAIN p.main_branch = (low .. Number[b]) \ {low}
      BY <2>1, <3>2, PruningKeepsInv
    <3>4. Hung(p) /\ \A id \in LiveNodes(p) : DataOf(p, id) = DataOf(a, id)
      BY <2>3, PruningHung
    <3>5. \A n \in DOMAIN p.main_branch : p.main_branch[n] = a.main_branch[n]
      BY DEF Pruning, Restrict
    <3> HIDE DEF p
    <3>6. \A n \in DOMAIN p.main_branch : MainBlock(p, n) = MainBlock(a, n)
      BY <3>3, <3>4, <3>5 DEF MainBlock, TreeInv, WellFormed
    <3>7. Cardinality(DOMAIN a.main_branch) = Number[b] - low + 1
      BY <2>1, FS_Interval
    <3>8. Number[b] \in DOMAIN p.main_branch /\ Number[b] - 1 \in DOMAIN p.main_branch
      BY <2>1, <2>8, <3>3, <3>7, WindowAssumption, ThreadAssumption
    <3>9. DOMAIN p.main_branch \subseteq DOMAIN a.main_branch
      BY <2>1, <3>3
    <3>10. DOMAIN p = DOMAIN EmptyTree
      BY <2>5 DEF p
    <3> QED BY <2>7, <3>1, <3>3, <3>4, <3>6, <3>8, <3>9, <3>10 DEF u
  <2>9. CASE ~(Cardinality(DOMAIN a.main_branch) > FORK_WINDOW_SIZE)
    <3>1. u = a
      BY <2>1, <2>9 DEF PruneToWindow
    <3>2. Number[b] \in low .. Number[b] /\ Number[b] - 1 \in low .. Number[b]
      BY <2>1
    <3> QED BY <2>1, <2>3, <2>5, <2>7, <3>1, <3>2 DEF u
  <2> QED BY <2>8, <2>9
<1> QED BY <1>1, <1>2

\* A fork block: it is stored and the main branch does not move.
LEMMA ForkInserted ==
    ASSUME NEW t, TreeInv(t), Hung(t), NEW b \in Block, ForkParentExists(t, b)
    PROVE  LET u == InsertNewForkBlock(t, b)
           IN  /\ TreeInv(u) /\ Hung(u)
               /\ StoredBlocks(t) \cup {b} \subseteq StoredBlocks(u)
               /\ DOMAIN u.main_branch = DOMAIN t.main_branch
               /\ \A n \in DOMAIN t.main_branch : MainBlock(u, n) = MainBlock(t, n)
<1> DEFINE parent == FindNodeWithBlockstamp(t, Previous[b])
           u == AddNode(t, b, parent, FALSE)
<1>1. parent \in LiveNodes(t) /\ DataOf(t, parent) = Previous[b]
  BY InsertForkParent DEF TreeInv, NodesWithBlockstamp
<1>2. InsertNewForkBlock(t, b) = u
  BY DEF InsertNewForkBlock, InsertNewNode
<1> HIDE DEF parent
<1>3. TreeInv(u) /\ u.main_branch = t.main_branch
  BY <1>1, AddForkNodeKeepsInv
<1>4. /\ Hung(u) /\ DataOf(u, t.allocated) = b
      /\ \A id \in LiveNodes(t) : DataOf(u, id) = DataOf(t, id)
  <2>1. WellFormed(t) /\ SheetsChildless(t)
    BY DEF TreeInv
  <2>2. Hung(u)
    BY <1>1, <2>1, AddNodeHung
  <2>3. DataOf(u, t.allocated) = b /\ \A id \in LiveNodes(t) : DataOf(u, id) = DataOf(t, id)
    BY <2>1, AddNodeData DEF AddNode
  <2> QED BY <2>2, <2>3
<1>5. LiveNodes(u) = LiveNodes(t) \cup {t.allocated}
  BY <1>1, AddNodeFrame DEF TreeInv
<1> HIDE DEF u
<1>6. StoredBlocks(t) \cup {b} \subseteq StoredBlocks(u)
  BY <1>4, <1>5 DEF StoredBlocks
<1>7. \A n \in DOMAIN t.main_branch : MainBlock(u, n) = MainBlock(t, n)
  BY <1>3, <1>4 DEF MainBlock, TreeInv, WellFormed
<1> QED BY <1>2, <1>3, <1>4, <1>6, <1>7

-----------------------------------------------------------------------------
(* Folds.                                                                  *)

\* The fork blocks of a sequence are inserted one by one.
LEMMA ForkSteps ==
    ASSUME NEW r, NEW s \in Seq(Block)
    PROVE  \E at : /\ at[0] = r /\ at[Len(s)] = InsertForkBlocks(r, s)
                   /\ \A k \in 1 .. Len(s) : at[k] = InsertNewForkBlock(at[k - 1], s[k])
<1> DEFINE Step(f, S) == IF S = {} THEN r ELSE InsertNewForkBlock(f[S \ {Max(S)}], s[Max(S)])
           Folds(f, n) == f = [S \in SUBSET (1 .. n) |-> Step(f, S)]
           X == {n \in Nat : \E f : Folds(f, n)}
           iter == CHOOSE f : f = [S \in SUBSET DOMAIN s |-> Step(f, S)]
<1>1. 0 \in X
  <2> DEFINE f == [S \in SUBSET (1 .. 0) |-> r]
  <2>1. \A S \in SUBSET (1 .. 0) : S = {}
    OBVIOUS
  <2>2. \A S \in SUBSET (1 .. 0) : Step(f, S) = r
    BY <2>1
  <2>3. [S \in SUBSET (1 .. 0) |-> Step(f, S)] = f
    <3> HIDE DEF Step
    <3> QED BY <2>2
  <2> HIDE DEF f, Step
  <2> QED BY <2>3
<1>2. ASSUME NEW n \in Nat, n \in X PROVE n + 1 \in X
  <2>1. PICK f : Folds(f, n)
    BY <1>2
  <2> DEFINE g == [S \in SUBSET (1 .. n + 1) |-> Step(f, S)]
  <2>2. \A S \in SUBSET (1 .. n) : g[S] = f[S]
    <3> HIDE DEF Step
    <3>1. SUBSET (1 .. n) \subseteq SUBSET (1 .. n + 1)
      OBVIOUS
    <3> QED BY <2>1, <3>1
  <2>3. \A S \in SUBSET (1 .. n + 1) : Step(g, S) = Step(f, S)
    <3> HIDE DEF g
    <3> SUFFICES ASSUME NEW S \in SUBSET (1 .. n + 1), S # {} PROVE Step(g, S) = Step(f, S)
      OBVIOUS
    <3>1. S \ {Max(S)} \in SUBSET (1 .. n)
      BY LastPosition
    <3>2. g[S \ {Max(S)}] = f[S \ {Max(S)}]
      BY <2>2, <3>1
    <3> QED BY <3>2
  <2>4. g = [S \in SUBSET (1 .. n + 1) |-> Step(g, S)]
    <3>1. [S \in SUBSET (1 .. n + 1) |-> Step(f, S)] = [S \in SUBSET (1 .. n + 1) |-> Step(g, S)]
      <4> HIDE DEF Step, g
      <4> QED BY <2>3
    <3>2. g = [S \in SUBSET (1 .. n + 1) |-> Step(f, S)]
      OBVIOUS
    <3> HIDE DEF Step, g
    <3> QED BY <3>1, <3>2
  <2> HIDE DEF g, Step
  <2> QED BY <2>4
<1>3. DOMAIN s = 1 .. Len(s) /\ Len(s) \in Nat
  OBVIOUS
<1>4. iter = [S \in SUBSET (1 .. Len(s)) |-> Step(iter, S)]
  <2>1. Nat \subseteq X
    <3> HIDE DEF X
    <3> QED BY <1>1, <1>2, Induction
  <2>2. \E f : f = [S \in SUBSET (1 .. Len(s)) |-> Step(f, S)]
    <3> HIDE DEF Step
    <3> QED BY <1>3, <2>1
  <2> HIDE DEF Step
  <2> QED BY <1>3, <2>2
<1>5. InsertForkBlocks(r, s) = iter[DOMAIN s]
  BY DEF InsertForkBlocks, FoldLeft, MapThenFoldSet
<1> HIDE DEF iter
<1> DEFINE at == [k \in 0 .. Len(s) |-> iter[1 .. k]]
<1>6. at[0] = r
  <2>1. 1 .. 0 = {} /\ {} \in SUBSET (1 .. Len(s)) /\ 0 \in 0 .. Len(s)
    BY <1>3
  <2>2. iter[{}] = Step(iter, {})
    <3> HIDE DEF Step
    <3> QED BY <1>4, <2>1
  <2> QED BY <2>1, <2>2
<1>7. at[Len(s)] = iter[DOMAIN s]
  <2>1. Len(s) \in 0 .. Len(s)
    BY <1>3
  <2> QED BY <1>3, <2>1
<1>8. ASSUME NEW k \in 1 .. Len(s) PROVE at[k] = InsertNewForkBlock(at[k - 1], s[k])
  <2>1. /\ k - 1 \in Nat /\ (k - 1) + 1 = k /\ k - 1 \in 0 .. Len(s) /\ k \in 0 .. Len(s)
        /\ 1 .. k \in SUBSET (1 .. Len(s)) /\ 1 .. k # {}
    <3>1. k - 1 \in Nat /\ (k - 1) + 1 = k /\ k - 1 \in 0 .. Len(s) /\ k \in 0 .. Len(s)
      BY <1>3
    <3>2. \A i \in 1 .. k : i \in 1 .. Len(s)
      BY <1>3
    <3>3. k \in 1 .. k
      OBVIOUS
    <3> QED BY <3>1, <3>2, <3>3
  <2>2. Max(1 .. k) = k /\ (1 .. k) \ {k} = 1 .. (k - 1)
    BY <2>1, LastPosition
  <2>3. iter[1 .. k] = Step(iter, 1 .. k)
    <3> HIDE DEF Step
    <3> QED BY <1>4, <2>1
  <2> QED BY <2>1, <2>2, <2>3
<1> HIDE DEF at
<1> QED BY <1>5, <1>6, <1>7, <1>8

\* The blocks of a branch are applied one by one.
LEMMA BranchSteps ==
    ASSUME NEW r, NEW s \in Seq(Block)
    PROVE  \E at : /\ at[0] = r /\ at[Len(s)] = ApplyBlocks(r, s)
                   /\ \A k \in 1 .. Len(s) : at[k] = ApplyBlock(at[k - 1], s[k])
<1> DEFINE Step(f, S) == IF S = {} THEN r ELSE ApplyBlock(f[S \ {Max(S)}], s[Max(S)])
           Folds(f, n) == f = [S \in SUBSET (1 .. n) |-> Step(f, S)]
           X == {n \in Nat : \E f : Folds(f, n)}
           iter == CHOOSE f : f = [S \in SUBSET DOMAIN s |-> Step(f, S)]
<1>1. 0 \in X
  <2> DEFINE f == [S \in SUBSET (1 .. 0) |-> r]
  <2>1. \A S \in SUBSET (1 .. 0) : S = {}
    OBVIOUS
  <2>2. \A S \in SUBSET (1 .. 0) : Step(f, S) = r
    BY <2>1
  <2>3. [S \in SUBSET (1 .. 0) |-> Step(f, S)] = f
    <3> HIDE DEF Step
    <3> QED BY <2>2
  <2> HIDE DEF f, Step
  <2> QED BY <2>3
<1>2. ASSUME NEW n \in Nat, n \in X PROVE n + 1 \in X
  <2>1. PICK f : Folds(f, n)
    BY <1>2
  <2> DEFINE g == [S \in SUBSET (1 .. n + 1) |-> Step(f, S)]
  <2>2. \A S \in SUBSET (1 .. n) : g[S] = f[S]
    <3> HIDE DEF Step
    <3>1. SUBSET (1 .. n) \subseteq SUBSET (1 .. n + 1)
      OBVIOUS
    <3> QED BY <2>1, <3>1
  <2>3. \A S \in SUBSET (1 .. n + 1) : Step(g, S) = Step(f, S)
    <3> HIDE DEF g
    <3> SUFFICES ASSUME NEW S \in SUBSET (1 .. n + 1), S # {} PROVE Step(g, S) = Step(f, S)
      OBVIOUS
    <3>1. S \ {Max(S)} \in SUBSET (1 .. n)
      BY LastPosition
    <3>2. g[S \ {Max(S)}] = f[S \ {Max(S)}]
      BY <2>2, <3>1
    <3> QED BY <3>2
  <2>4. g = [S \in SUBSET (1 .. n + 1) |-> Step(g, S)]
    <3>1. [S \in SUBSET (1 .. n + 1) |-> Step(f, S)] = [S \in SUBSET (1 .. n + 1) |-> Step(g, S)]
      <4> HIDE DEF Step, g
      <4> QED BY <2>3
    <3>2. g = [S \in SUBSET (1 .. n + 1) |-> Step(f, S)]
      OBVIOUS
    <3> HIDE DEF Step, g
    <3> QED BY <3>1, <3>2
  <2> HIDE DEF g, Step
  <2> QED BY <2>4
<1>3. DOMAIN s = 1 .. Len(s) /\ Len(s) \in Nat
  OBVIOUS
<1>4. iter = [S \in SUBSET (1 .. Len(s)) |-> Step(iter, S)]
  <2>1. Nat \subseteq X
    <3> HIDE DEF X
    <3> QED BY <1>1, <1>2, Induction
  <2>2. \E f : f = [S \in SUBSET (1 .. Len(s)) |-> Step(f, S)]
    <3> HIDE DEF Step
    <3> QED BY <1>3, <2>1
  <2> HIDE DEF Step
  <2> QED BY <1>3, <2>2
<1>5. ApplyBlocks(r, s) = iter[DOMAIN s]
  BY DEF ApplyBlocks, FoldLeft, MapThenFoldSet
<1> HIDE DEF iter
<1> DEFINE at == [k \in 0 .. Len(s) |-> iter[1 .. k]]
<1>6. at[0] = r
  <2>1. 1 .. 0 = {} /\ {} \in SUBSET (1 .. Len(s)) /\ 0 \in 0 .. Len(s)
    BY <1>3
  <2>2. iter[{}] = Step(iter, {})
    <3> HIDE DEF Step
    <3> QED BY <1>4, <2>1
  <2> QED BY <2>1, <2>2
<1>7. at[Len(s)] = iter[DOMAIN s]
  <2>1. Len(s) \in 0 .. Len(s)
    BY <1>3
  <2> QED BY <1>3, <2>1
<1>8. ASSUME NEW k \in 1 .. Len(s) PROVE at[k] = ApplyBlock(at[k - 1], s[k])
  <2>1. /\ k - 1 \in Nat /\ (k - 1) + 1 = k /\ k - 1 \in 0 .. Len(s) /\ k \in 0 .. Len(s)
        /\ 1 .. k \in SUBSET (1 .. Len(s)) /\ 1 .. k # {}
    <3>1. k - 1 \in Nat /\ (k - 1) + 1 = k /\ k - 1 \in 0 .. Len(s) /\ k \in 0 .. Len(s)
      BY <1>3
    <3>2. \A i \in 1 .. k : i \in 1 .. Len(s)
      BY <1>3
    <3>3. k \in 1 .. k
      OBVIOUS
    <3> QED BY <3>1, <3>2, <3>3
  <2>2. Max(1 .. k) = k /\ (1 .. k) \ {k} = 1 .. (k - 1)
    BY <2>1, LastPosition
  <2>3. iter[1 .. k] = Step(iter, 1 .. k)
    <3> HIDE DEF Step
    <3> QED BY <1>4, <2>1
  <2> QED BY <2>1, <2>2, <2>3
<1> HIDE DEF at
<1> QED BY <1>5, <1>6, <1>7, <1>8

-----------------------------------------------------------------------------
(* The orphans that follow a block.                                        *)

\* The lists of waiting blocks: under each missing block those that name it as
\* their predecessor, each once.
Waits(o) ==
    \A b \in DOMAIN o : IsInjective(o[b]) /\ \A i \in DOMAIN o[b] : Previous[o[b][i]] = b

\* Sequences in which every block comes after its predecessor, unless that one
\* is in P.
Grows(P) ==
    {s \in Seq(Block) : \A j \in DOMAIN s :
        Previous[s[j]] \in P \/ \E i \in DOMAIN s : i < j /\ s[i] = Previous[s[j]]}

\* What grows on P and the blocks of s can be put behind s.
LEMMA GrowsOn ==
    ASSUME NEW P, NEW s \in Grows(P), NEW t \in Grows(P \cup Range(s))
    PROVE  s \o t \in Grows(P)
<1> DEFINE u == s \o t
<1>1. s \in Seq(Block) /\ t \in Seq(Block) /\ u \in Seq(Block) /\ Len(u) = Len(s) + Len(t)
  BY DEF Grows
<1>2. /\ \A i \in 1 .. Len(s) : u[i] = s[i]
      /\ \A i \in 1 .. Len(t) : u[Len(s) + i] = t[i]
  BY <1>1
<1>3. /\ DOMAIN s = 1 .. Len(s) /\ DOMAIN t = 1 .. Len(t) /\ DOMAIN u = 1 .. (Len(s) + Len(t))
      /\ Len(s) \in Nat /\ Len(t) \in Nat
  BY <1>1
<1> HIDE DEF u
<1>4. ASSUME NEW j \in DOMAIN u
      PROVE  Previous[u[j]] \in P \/ \E i \in DOMAIN u : i < j /\ u[i] = Previous[u[j]]
  <2>1. CASE j \in 1 .. Len(s)
    <3>1. Previous[s[j]] \in P \/ \E i \in DOMAIN s : i < j /\ s[i] = Previous[s[j]]
      BY <1>3, <2>1 DEF Grows
    <3>2. \A i \in DOMAIN s : i \in DOMAIN u
      BY <1>3
    <3> QED BY <1>2, <1>3, <2>1, <3>1, <3>2
  <2>2. CASE j \notin 1 .. Len(s)
    <3>1. j - Len(s) \in 1 .. Len(t) /\ Len(s) + (j - Len(s)) = j
      BY <1>3, <2>2
    <3> DEFINE k == j - Len(s)
    <3>2. u[j] = t[k]
      BY <1>2, <3>1
    <3>3. \/ Previous[t[k]] \in P \cup Range(s)
          \/ \E i \in DOMAIN t : i < k /\ t[i] = Previous[t[k]]
      BY <1>3, <3>1 DEF Grows
    <3>4. CASE Previous[t[k]] \in Range(s)
      <4>1. PICK i \in DOMAIN s : s[i] = Previous[t[k]]
        BY <3>4 DEF Range
      <4>2. i \in DOMAIN u /\ i < j /\ u[i] = s[i]
        BY <1>2, <1>3, <2>2
      <4> QED BY <3>2, <4>1, <4>2
    <3>5. CASE \E i \in DOMAIN t : i < k /\ t[i] = Previous[t[k]]
      <4>1. PICK i \in DOMAIN t : i < k /\ t[i] = Previous[t[k]]
        BY <3>5
      <4>2. Len(s) + i \in DOMAIN u /\ Len(s) + i < j /\ u[Len(s) + i] = t[i]
        BY <1>2, <1>3, <4>1
      <4> QED BY <3>2, <4>1, <4>2
    <3> QED BY <3>2, <3>3, <3>4, <3>5
  <2> QED BY <2>1, <2>2
<1> QED BY <1>1, <1>4 DEF Grows, u

\* A longer list of predecessors does no harm.
LEMMA GrowsMore ==
    ASSUME NEW P, NEW Q, P \subseteq Q
    PROVE  Grows(P) \subseteq Grows(Q)
BY DEF Grows

\* There are finitely many blocks, so one is the highest.
LEMMA HighestBlock ==
    \E top \in Nat : \A b \in Block : Number[b] <= top
<1> DEFINE n == Cardinality(Block)
<1>1. n \in Nat /\ ExistsBijection(1 .. n, Block)
  BY ThreadAssumption, FS_CardinalityType
<1>2. PICK f \in [1 .. n -> Block] : \A b \in Block : \E i \in 1 .. n : f[i] = b
  BY <1>1 DEF ExistsBijection, Bijection, Surjection
<1> HIDE DEF n
<1> DEFINE X == {k \in Nat : \E top \in Nat : \A i \in 1 .. k : i <= n => Number[f[i]] <= top}
<1>3. 0 \in X
  OBVIOUS
<1>4. ASSUME NEW k \in Nat, k \in X PROVE k + 1 \in X
  <2>1. PICK top \in Nat : \A i \in 1 .. k : i <= n => Number[f[i]] <= top
    BY <1>4
  <2>2. CASE k + 1 <= n
    <3> DEFINE high == Number[f[k + 1]]
               more == IF high > top THEN high ELSE top
    <3>1. k + 1 \in 1 .. n
      BY <1>1, <2>2
    <3>2. high \in Nat /\ more \in Nat /\ high <= more /\ top <= more
      BY <3>1, BlockAssumption
    <3>3. ASSUME NEW i \in 1 .. k + 1, i <= n PROVE Number[f[i]] <= more
      <4>1. CASE i = k + 1
        BY <3>2, <4>1
      <4>2. CASE i # k + 1
        <5>1. i \in 1 .. k /\ i \in 1 .. n
          BY <1>1, <3>3, <4>2
        <5>2. Number[f[i]] \in Nat /\ Number[f[i]] <= top
          BY <2>1, <3>3, <5>1, BlockAssumption
        <5> HIDE DEF more
        <5> QED BY <3>2, <5>2
      <4> QED BY <4>1, <4>2
    <3> HIDE DEF more, high
    <3>4. \E higher \in Nat : \A i \in 1 .. k + 1 : i <= n => Number[f[i]] <= higher
      BY <3>2, <3>3
    <3> QED BY <3>4
  <2>3. CASE ~(k + 1 <= n)
    <3>1. \A i \in 1 .. k + 1 : i <= n => i \in 1 .. k
      BY <1>1, <2>3
    <3> QED BY <2>1, <3>1
  <2> QED BY <2>2, <2>3
<1>5. n \in X
  <2> HIDE DEF X
  <2> QED BY <1>1, <1>3, <1>4, Induction
<1>6. PICK top \in Nat : \A i \in 1 .. n : i <= n => Number[f[i]] <= top
  BY <1>5
<1>7. \A i \in 1 .. n : i <= n
  BY <1>1
<1> QED BY <1>2, <1>6, <1>7

\* The blocks that wait for x are one higher than x.
LEMMA WaitingFollow ==
    ASSUME NEW d, DOMAIN d.orphan_blocks_db \subseteq Block \cup {NoBlock},
           d.orphan_blocks_db \in [DOMAIN d.orphan_blocks_db -> Seq(Block)],
           Waits(d.orphan_blocks_db), NEW x \in Block \cup {NoBlock}
    PROVE  /\ WaitingFor(d, x) \in Seq(Block)
           /\ IsInjective(WaitingFor(d, x))
           /\ \A i \in DOMAIN WaitingFor(d, x) :
                 /\ WaitingFor(d, x)[i] \in Block
                 /\ Previous[WaitingFor(d, x)[i]] = x
                 /\ x \in Block => Number[WaitingFor(d, x)[i]] = Number[x] + 1
<1>1. CASE x \in DOMAIN d.orphan_blocks_db
  <2>1. WaitingFor(d, x) = d.orphan_blocks_db[x] /\ d.orphan_blocks_db[x] \in Seq(Block)
    BY <1>1 DEF WaitingFor
  <2>2. IsInjective(d.orphan_blocks_db[x])
        /\ \A i \in DOMAIN d.orphan_blocks_db[x] : Previous[d.orphan_blocks_db[x][i]] = x
    BY <1>1 DEF Waits
  <2>3. \A i \in DOMAIN d.orphan_blocks_db[x] : d.orphan_blocks_db[x][i] \in Block
    BY <2>1
  <2> QED BY <2>1, <2>2, <2>3, BlockAssumption
<1>2. CASE x \notin DOMAIN d.orphan_blocks_db
  <2>1. WaitingFor(d, x) = <<>>
    BY <1>2 DEF WaitingFor
  <2> QED BY <2>1 DEF IsInjective
<1> QED BY <1>1, <1>2

\* Induction over the blocks, from the highest down.
LEMMA FromTheTop ==
    ASSUME NEW X, \A x \in Block : (\A y \in Block : Number[y] = Number[x] + 1 => y \in X) => x \in X
    PROVE  Block \subseteq X
<1>1. PICK top \in Nat : \A x \in Block : Number[x] <= top
  BY HighestBlock
<1> DEFINE Y == {k \in Nat : \A x \in Block : Number[x] + k > top => x \in X}
<1>2. 0 \in Y
  BY <1>1, BlockAssumption
<1>3. ASSUME NEW k \in Nat, k \in Y PROVE k + 1 \in Y
  <2> SUFFICES ASSUME NEW x \in Block, Number[x] + (k + 1) > top PROVE x \in X
    OBVIOUS
  <2>1. ASSUME NEW y \in Block, Number[y] = Number[x] + 1 PROVE y \in X
    <3>1. Number[y] + k > top
      BY <1>1, <2>1, BlockAssumption
    <3> QED BY <1>3, <3>1
  <2> QED BY <2>1
<1>4. top + 1 \in Y
  <2> HIDE DEF Y
  <2> QED BY <1>1, <1>2, <1>3, Induction
<1> QED BY <1>1, <1>4, BlockAssumption

\* Followers: a block, then the families of those that wait for it.
LEMMA Families ==
    ASSUME NEW d, DOMAIN d.orphan_blocks_db \subseteq Block \cup {NoBlock},
           d.orphan_blocks_db \in [DOMAIN d.orphan_blocks_db -> Seq(Block)],
           Waits(d.orphan_blocks_db)
    PROVE  \A x \in Block :
              Followers(d, x) =
                 <<x>> \o FlattenSeq([i \in DOMAIN WaitingFor(d, x) |-> Followers(d, WaitingFor(d, x)[i])])
<1> DEFINE Kids(f, x) == [i \in DOMAIN WaitingFor(d, x) |-> f[WaitingFor(d, x)[i]]]
           Step(f, x) == <<x>> \o FlattenSeq(Kids(f, x))
           family == CHOOSE f : f = [x \in Block |-> Step(f, x)]
<1>1. PICK top \in Nat : \A x \in Block : Number[x] <= top
  BY HighestBlock
<1> DEFINE High(k) == {x \in Block : Number[x] + k > top}
           X == {k \in Nat : \E f : f = [x \in High(k) |-> Step(f, x)]}
<1>2. High(0) = {} /\ High(top + 1) = Block
  BY <1>1, BlockAssumption
<1>3. \A x \in Block : /\ WaitingFor(d, x) \in Seq(Block)
                       /\ \A i \in DOMAIN WaitingFor(d, x) :
                             /\ WaitingFor(d, x)[i] \in Block
                             /\ Previous[WaitingFor(d, x)[i]] = x
                             /\ Number[WaitingFor(d, x)[i]] = Number[x] + 1
  BY WaitingFollow
<1>4. ASSUME NEW k \in Nat
      PROVE  /\ High(k) \subseteq High(k + 1)
             /\ \A x \in High(k + 1) : \A i \in DOMAIN WaitingFor(d, x) : WaitingFor(d, x)[i] \in High(k)
  <2>1. \A x \in Block : Number[x] \in Nat
    BY BlockAssumption
  <2>2. High(k) \subseteq High(k + 1)
    BY <1>1, <2>1
  <2>3. ASSUME NEW x \in High(k + 1), NEW i \in DOMAIN WaitingFor(d, x)
        PROVE  WaitingFor(d, x)[i] \in High(k)
    <3>1. /\ WaitingFor(d, x)[i] \in Block /\ Number[WaitingFor(d, x)[i]] = Number[x] + 1
          /\ x \in Block /\ Number[x] + (k + 1) > top
      BY <1>3
    <3> QED BY <1>1, <2>1, <3>1
  <2> QED BY <2>2, <2>3
<1>5. \A k \in Nat : High(k) \subseteq Block
  OBVIOUS
<1> HIDE DEF High
<1>6. 0 \in X
  <2> DEFINE f == [x \in {} |-> {}]
  <2>1. f = [x \in {} |-> Step(f, x)]
    OBVIOUS
  <2> HIDE DEF Step, f
  <2> QED BY <1>2, <2>1
<1>7. ASSUME NEW k \in Nat, k \in X PROVE k + 1 \in X
  <2>1. PICK f : f = [x \in High(k) |-> Step(f, x)]
    BY <1>7
  <2> DEFINE g == [x \in High(k + 1) |-> Step(f, x)]
  <2>2. \A x \in High(k) : g[x] = f[x]
    <3> HIDE DEF Step
    <3> QED BY <1>4, <2>1
  <2>3. ASSUME NEW x \in High(k + 1) PROVE Step(g, x) = Step(f, x)
    <3> HIDE DEF g
    <3>1. \A i \in DOMAIN WaitingFor(d, x) : g[WaitingFor(d, x)[i]] = f[WaitingFor(d, x)[i]]
      BY <1>4, <2>2
    <3>2. Kids(g, x) = Kids(f, x)
      BY <3>1
    <3> HIDE DEF Kids
    <3> QED BY <3>2
  <2>4. g = [x \in High(k + 1) |-> Step(g, x)]
    <3>1. [x \in High(k + 1) |-> Step(f, x)] = [x \in High(k + 1) |-> Step(g, x)]
      <4> HIDE DEF Step, g
      <4> QED BY <2>3
    <3>2. g = [x \in High(k + 1) |-> Step(f, x)]
      OBVIOUS
    <3> HIDE DEF Step, g
    <3> QED BY <3>1, <3>2
  <2> HIDE DEF g, Step
  <2> QED BY <2>4
<1>8. family = [x \in Block |-> Step(family, x)]
  <2>1. top + 1 \in X
    <3> HIDE DEF X
    <3> QED BY <1>6, <1>7, Induction
  <2>2. \E f : f = [x \in Block |-> Step(f, x)]
    <3> HIDE DEF Step
    <3> QED BY <1>2, <2>1
  <2> HIDE DEF Step
  <2> QED BY <2>2
<1>9. \A x \in Block : Followers(d, x) = family[x]
  BY DEF Followers
<1>10. \A x \in Block : family[x] = Step(family, x)
  <2> HIDE DEF Step, family
  <2> QED BY <1>8
<1> HIDE DEF family
<1>11. ASSUME NEW x \in Block
       PROVE  Kids(family, x) = [i \in DOMAIN WaitingFor(d, x) |-> Followers(d, WaitingFor(d, x)[i])]
  BY <1>3, <1>9
<1> QED BY <1>9, <1>10, <1>11

\* Followers: every block of the family comes after the one it follows.
LEMMA FollowersGrow ==
    ASSUME NEW d, DOMAIN d.orphan_blocks_db \subseteq Block \cup {NoBlock},
           d.orphan_blocks_db \in [DOMAIN d.orphan_blocks_db -> Seq(Block)],
           Waits(d.orphan_blocks_db), NEW b \in Block
    PROVE  Followers(d, b) \in Grows({Previous[b]})
<1> DEFINE X == {x \in Block : Followers(d, x) \in Grows({Previous[x]})}
<1>1. ASSUME NEW x \in Block, \A y \in Block : Number[y] = Number[x] + 1 => y \in X
      PROVE  x \in X
  <2> DEFINE w == WaitingFor(d, x)
             kids == [i \in DOMAIN w |-> Followers(d, w[i])]
  <2>1. /\ w \in Seq(Block)
        /\ \A i \in DOMAIN w :
              w[i] \in Block /\ Previous[w[i]] = x /\ Number[w[i]] = Number[x] + 1
    BY WaitingFollow
  <2>2. Followers(d, x) = <<x>> \o FlattenSeq(kids)
    BY Families
  <2> HIDE DEF w
  <2>3. \A i \in DOMAIN w : Followers(d, w[i]) \in Grows({x})
    BY <1>1, <2>1
  <2>4. kids \in Seq(Grows({x}))
    <3>1. DOMAIN w = 1 .. Len(w) /\ Len(w) \in Nat
      BY <2>1
    <3>2. kids \in [1 .. Len(w) -> Grows({x})]
      BY <2>3, <3>1
    <3> HIDE DEF kids
    <3> QED BY <3>1, <3>2, SequenceOf
  <2> HIDE DEF kids
  <2>5. FlattenSeq(kids) \in Grows({x})
    <3>1. Grows({x}) \in SUBSET Seq(Block) /\ <<>> \in Grows({x})
      BY DEF Grows
    <3>2. \A s, t \in Grows({x}) : s \o t \in Grows({x})
      BY GrowsOn, GrowsMore
    <3> QED BY <2>4, <3>1, <3>2, FlattenStays
  <2>6. <<x>> \in Grows({Previous[x]}) /\ Range(<<x>>) = {x}
    BY DEF Grows, Range
  <2>7. FlattenSeq(kids) \in Grows({Previous[x]} \cup Range(<<x>>))
    <3>1. Grows({x}) \subseteq Grows({Previous[x]} \cup {x})
      BY GrowsMore
    <3> QED BY <2>5, <2>6, <3>1
  <2>8. <<x>> \o FlattenSeq(kids) \in Grows({Previous[x]})
    BY <2>6, <2>7, GrowsOn
  <2> QED BY <2>2, <2>8
<1>2. Block \subseteq X
  <2> HIDE DEF X
  <2> QED BY <1>1, FromTheTop
<1> QED BY <1>2

-----------------------------------------------------------------------------
(* Storing a fork block with its orphans, and walking up from a sheet.      *)

\* Blocks that grow on stored ones are stored one after the other, each below
\* its predecessor; the main branch does not move.
LEMMA ForksInserted ==
    ASSUME NEW t, TreeInv(t), Hung(t), NEW P \in SUBSET StoredBlocks(t), NEW s \in Grows(P)
    PROVE  LET u == InsertForkBlocks(t, s)
           IN  /\ TreeInv(u) /\ Hung(u)
               /\ DOMAIN u.main_branch = DOMAIN t.main_branch
               /\ \A n \in DOMAIN t.main_branch : MainBlock(u, n) = MainBlock(t, n)
<1> DEFINE Kept(u) == /\ TreeInv(u) /\ Hung(u) /\ StoredBlocks(t) \subseteq StoredBlocks(u)
                      /\ DOMAIN u.main_branch = DOMAIN t.main_branch
                      /\ \A n \in DOMAIN t.main_branch : MainBlock(u, n) = MainBlock(t, n)
<1>1. s \in Seq(Block) /\ DOMAIN s = 1 .. Len(s) /\ Len(s) \in Nat
  BY DEF Grows
<1>2. PICK at : /\ at[0] = t /\ at[Len(s)] = InsertForkBlocks(t, s)
                /\ \A k \in 1 .. Len(s) : at[k] = InsertNewForkBlock(at[k - 1], s[k])
  BY <1>1, ForkSteps
<1> DEFINE Y == {k \in Nat : k <= Len(s) =>
                    Kept(at[k]) /\ \A i \in 1 .. k : s[i] \in StoredBlocks(at[k])}
<1>3. 0 \in Y
  BY <1>2
<1>4. ASSUME NEW k \in Nat, k \in Y PROVE k + 1 \in Y
  <2> SUFFICES ASSUME k + 1 <= Len(s)
               PROVE  Kept(at[k + 1]) /\ \A i \in 1 .. k + 1 : s[i] \in StoredBlocks(at[k + 1])
    OBVIOUS
  <2>1. k + 1 \in 1 .. Len(s) /\ (k + 1) - 1 = k /\ k <= Len(s)
    BY <1>1
  <2>2. Kept(at[k]) /\ \A i \in 1 .. k : s[i] \in StoredBlocks(at[k])
    BY <1>4, <2>1
  <2>3. at[k + 1] = InsertNewForkBlock(at[k], s[k + 1]) /\ s[k + 1] \in Block
    BY <1>1, <1>2, <2>1
  <2>4. ForkParentExists(at[k], s[k + 1])
    <3>1. \/ Previous[s[k + 1]] \in P
          \/ \E i \in DOMAIN s : i < k + 1 /\ s[i] = Previous[s[k + 1]]
      BY <1>1, <2>1 DEF Grows
    <3>2. Previous[s[k + 1]] \in StoredBlocks(at[k])
      <4>1. CASE Previous[s[k + 1]] \in P
        BY <2>2, <4>1
      <4>2. CASE \E i \in DOMAIN s : i < k + 1 /\ s[i] = Previous[s[k + 1]]
        <5>1. PICK i \in DOMAIN s : i < k + 1 /\ s[i] = Previous[s[k + 1]]
          BY <4>2
        <5>2. i \in 1 .. k
          BY <1>1, <5>1
        <5> QED BY <2>2, <5>1, <5>2
      <4> QED BY <3>1, <4>1, <4>2
    <3> QED BY <3>2 DEF ForkParentExists, NodesWithBlockstamp, StoredBlocks
  <2>5. /\ TreeInv(at[k + 1]) /\ Hung(at[k + 1])
        /\ StoredBlocks(at[k]) \cup {s[k + 1]} \subseteq StoredBlocks(at[k + 1])
        /\ DOMAIN at[k + 1].main_branch = DOMAIN at[k].main_branch
        /\ \A n \in DOMAIN at[k].main_branch : MainBlock(at[k + 1], n) = MainBlock(at[k], n)
    BY <2>2, <2>3, <2>4, ForkInserted
  <2>6. Kept(at[k + 1])
    BY <2>2, <2>5
  <2>7. \A i \in 1 .. k + 1 : i \in 1 .. k \/ i = k + 1
    OBVIOUS
  <2> QED BY <2>2, <2>5, <2>6, <2>7
<1>5. Len(s) \in Y
  <2> HIDE DEF Y
  <2> QED BY <1>1, <1>3, <1>4, Induction
<1>6. Kept(at[Len(s)])
  BY <1>1, <1>5
<1> QED BY <1>2, <1>6

\* The walks up: stored nodes, below a first one that may be missing.
Walks(t) ==
    {w \in Seq(LiveNodes(t) \cup {NoNode}) :
        w # <<>> /\ \A i \in DOMAIN w : i > 1 => w[i] \in LiveNodes(t)}

\* One step of the walk.
WalkStep(t, up, id) ==
    LET parent == t.nodes[id].parent
    IN  IF parent = NoNode THEN <<id>>
        ELSE IF parent \notin LiveNodes(t) THEN <<NoNode, id>>
        ELSE IF OnMainBranch(t, parent) THEN <<id>>
        ELSE Append(up[parent], id)

\* Every node hangs below an older slot: the walk up ends.
LEMMA WalkUp ==
    ASSUME NEW t, WellFormed(t)
    PROVE  \E up : /\ \A id \in LiveNodes(t) : ForkWalk(t, id) = up[id] /\ up[id] \in Walks(t)
                   /\ \A id \in LiveNodes(t) : up[id] = WalkStep(t, up, id)
<1> DEFINE L == LiveNodes(t)
           Old(k) == {id \in L : id < k}
           X == {k \in Nat : \E f : f = [id \in Old(k) |-> WalkStep(t, f, id)]}
           up == CHOOSE f : f = [id \in L |-> WalkStep(t, f, id)]
<1>1. /\ t.allocated \in Nat /\ L \subseteq Nat /\ \A id \in L : id < t.allocated
      /\ \A id \in L : t.nodes[id].parent \in L => t.nodes[id].parent < id
  BY DEF WellFormed
<1>2. Old(0) = {} /\ Old(t.allocated) = L
  BY <1>1
<1>3. ASSUME NEW k \in Nat
      PROVE  /\ Old(k) \subseteq Old(k + 1)
             /\ \A id \in Old(k + 1) : t.nodes[id].parent \in L => t.nodes[id].parent \in Old(k)
  BY <1>1
<1>4. \A k \in Nat : Old(k) \subseteq L
  OBVIOUS
<1> HIDE DEF Old
<1>5. 0 \in X
  <2> DEFINE f == [id \in {} |-> {}]
  <2>1. f = [id \in {} |-> WalkStep(t, f, id)]
    OBVIOUS
  <2> HIDE DEF f
  <2> QED BY <1>2, <2>1
<1>6. ASSUME NEW k \in Nat, k \in X PROVE k + 1 \in X
  <2>1. PICK f : f = [id \in Old(k) |-> WalkStep(t, f, id)]
    BY <1>6
  <2> DEFINE g == [id \in Old(k + 1) |-> WalkStep(t, f, id)]
  <2>2. \A id \in Old(k) : g[id] = f[id]
    BY <1>3, <2>1
  <2>3. ASSUME NEW id \in Old(k + 1) PROVE WalkStep(t, g, id) = WalkStep(t, f, id)
    <3> HIDE DEF g
    <3>1. CASE t.nodes[id].parent \in L
      <4>1. g[t.nodes[id].parent] = f[t.nodes[id].parent]
        BY <1>3, <2>2, <3>1
      <4> QED BY <4>1 DEF WalkStep
    <3>2. CASE t.nodes[id].parent \notin L
      BY <3>2 DEF WalkStep
    <3> QED BY <3>1, <3>2
  <2>4. g = [id \in Old(k + 1) |-> WalkStep(t, g, id)]
    <3>1. [id \in Old(k + 1) |-> WalkStep(t, f, id)] = [id \in Old(k + 1) |-> WalkStep(t, g, id)]
      <4> HIDE DEF g
      <4> QED BY <2>3
    <3>2. g = [id \in Old(k + 1) |-> WalkStep(t, f, id)]
      OBVIOUS
    <3> HIDE DEF g
    <3> QED BY <3>1, <3>2
  <2> HIDE DEF g
  <2> QED BY <2>4
<1>7. up = [id \in L |-> WalkStep(t, up, id)]
  <2>1. t.allocated \in X
    <3> HIDE DEF X
    <3> QED BY <1>1, <1>5, <1>6, Induction
  <2>2. \E f : f = [id \in L |-> WalkStep(t, f, id)]
    BY <1>2, <2>1
  <2> QED BY <2>2
<1>8. \A from : ForkWalk(t, from) = up[from]
  BY DEF ForkWalk, WalkStep
<1> HIDE DEF up
<1>9. \A id \in L : up[id] = WalkStep(t, up, id)
  BY <1>7
<1> DEFINE Y == {k \in Nat : \A id \in Old(k) : up[id] \in Walks(t)}
<1>10. 0 \in Y
  BY <1>2
<1>11. ASSUME NEW k \in Nat, k \in Y PROVE k + 1 \in Y
  <2> SUFFICES ASSUME NEW id \in Old(k + 1) PROVE up[id] \in Walks(t)
    OBVIOUS
  <2>1. id \in L /\ up[id] = WalkStep(t, up, id)
    BY <1>4, <1>9
  <2> DEFINE parent == t.nodes[id].parent
  <2>2. <<id>> \in Walks(t) /\ <<NoNode, id>> \in Walks(t)
    BY <2>1 DEF Walks
  <2>3. ASSUME parent \in L PROVE Append(up[parent], id) \in Walks(t)
    <3>1. up[parent] \in Walks(t)
      BY <1>3, <1>11, <2>3
    <3> DEFINE w == up[parent]
    <3>2. w \in Seq(L \cup {NoNode}) /\ w # <<>> /\ \A i \in DOMAIN w : i > 1 => w[i] \in L
      BY <3>1 DEF Walks
    <3> HIDE DEF w
    <3>3. /\ Append(w, id) \in Seq(L \cup {NoNode}) /\ Append(w, id) # <<>>
          /\ \A i \in DOMAIN Append(w, id) : i > 1 => Append(w, id)[i] \in L
      BY <2>1, <3>2
    <3> QED BY <3>3 DEF Walks, w
  <2> HIDE DEF parent
  <2> QED BY <2>1, <2>2, <2>3 DEF WalkStep, parent
<1>12. t.allocated \in Y
  <2> HIDE DEF Y
  <2> QED BY <1>1, <1>10, <1>11, Induction
<1> QED BY <1>2, <1>8, <1>9, <1>12

\* The branch of a node from which the walk does not abort: at least its block, and
\* the first one stored.
LEMMA BranchOfBlocks ==
    ASSUME NEW t, WellFormed(t), NEW id \in LiveNodes(t), ~WalkAborts(t, id)
    PROVE  /\ ForkBranch(t, id) \in Seq(Block) /\ ForkBranch(t, id) # <<>>
           /\ ForkBranch(t, id)[1] \in StoredBlocks(t)
<1> DEFINE w == ForkWalk(t, id)
<1>1. w \in Walks(t) /\ Head(w) # NoNode
  BY WalkUp DEF WalkAborts
<1>2. ForkBranch(t, id) = [i \in DOMAIN w |-> DataOf(t, w[i])]
  BY DEF ForkBranch
<1> HIDE DEF w
<1>3. w \in Seq(LiveNodes(t) \cup {NoNode}) /\ w # <<>> /\ \A i \in DOMAIN w : i > 1 => w[i] \in LiveNodes(t)
  BY <1>1 DEF Walks
<1>4. DOMAIN w = 1 .. Len(w) /\ Len(w) \in Nat /\ Len(w) # 0
  BY <1>3
<1>5. w[1] \in LiveNodes(t)
  BY <1>1, <1>3, <1>4
<1>6. \A i \in 1 .. Len(w) : w[i] \in LiveNodes(t)
  BY <1>3, <1>4, <1>5
<1>7. \A i \in 1 .. Len(w) : DataOf(t, w[i]) \in Block
  BY <1>6 DEF WellFormed, TreeNode, DataOf
<1> DEFINE blocks == [i \in 1 .. Len(w) |-> DataOf(t, w[i])]
<1>8. blocks \in [1 .. Len(w) -> Block]
  BY <1>7
<1>9. ForkBranch(t, id) = blocks
  BY <1>2, <1>4
<1> HIDE DEF blocks
<1>10. blocks \in Seq(Block) /\ Len(blocks) = Len(w)
  BY <1>4, <1>8, SequenceOf
<1>11. ForkBranch(t, id)[1] \in StoredBlocks(t)
  BY <1>2, <1>4, <1>5 DEF StoredBlocks
<1> QED BY <1>4, <1>9, <1>10, <1>11

-----------------------------------------------------------------------------
(* Switching to the branch that was just applied.                           *)

\* The head of the main branch hangs below a node of the main branch: the walk
\* from it ends where it starts, if it does not abort.
LEMMA HeadWalk ==
    ASSUME NEW t, TreeInv(t), Hung(t), NEW b \in Block,
           Number[b] \in DOMAIN t.main_branch, MainBlock(t, Number[b]) = b,
           Number[b] - 1 \in DOMAIN t.main_branch, MainBlock(t, Number[b] - 1) = Previous[b],
           ~WalkAborts(t, FindNodeWithBlockstamp(t, b))
    PROVE  OffMainNodes(t, FindNodeWithBlockstamp(t, b)) = <<>>
<1> DEFINE found == NodesWithBlockstamp(t, b)
           id == FindNodeWithBlockstamp(t, b)
           parent == t.nodes[id].parent
<1>1. id \in LiveNodes(t) /\ DataOf(t, id) = b
  <2>1. t.main_branch[Number[b]] \in found
    BY DEF TreeInv, WellFormed, MainBlock, NodesWithBlockstamp
  <2>2. found \subseteq Nat
    BY DEF TreeInv, WellFormed, NodesWithBlockstamp
  <2> HIDE DEF found
  <2>3. \E m \in found : \A other \in found : m <= other
    BY <2>1, <2>2, LeastNumber
  <2>4. id \in found
    BY <2>3 DEF FindNodeWithBlockstamp, found
  <2> QED BY <2>4 DEF found, NodesWithBlockstamp
<1> HIDE DEF id
<1>2. OnMainBranch(t, id)
  BY <1>1 DEF OnMainBranch, NumberOf
<1>3. PICK up : /\ \A x \in LiveNodes(t) : ForkWalk(t, x) = up[x] /\ up[x] \in Walks(t)
                /\ \A x \in LiveNodes(t) : up[x] = WalkStep(t, up, x)
  BY WalkUp DEF TreeInv
<1>4. ForkWalk(t, id) = WalkStep(t, up, id)
  BY <1>1, <1>3
<1>5. ForkWalk(t, id) = <<id>>
  <2>1. CASE parent = NoNode
    BY <1>4, <2>1 DEF WalkStep
  <2>2. CASE parent # NoNode /\ parent \notin LiveNodes(t)
    <3>1. ForkWalk(t, id) = <<NoNode, id>>
      BY <1>4, <2>2 DEF WalkStep
    <3> QED BY <3>1 DEF WalkAborts, id
  <2>3. CASE parent # NoNode /\ parent \in LiveNodes(t)
    <3>1. DataOf(t, parent) = Previous[b] /\ DataOf(t, parent) \in Block
      BY <1>1, <2>3 DEF Hung, TreeInv, WellFormed, TreeNode, DataOf
    <3>2. Number[Previous[b]] = Number[b] - 1
      BY <3>1, BlockAssumption
    <3>3. OnMainBranch(t, parent)
      BY <3>1, <3>2 DEF OnMainBranch, NumberOf
    <3> QED BY <1>4, <2>3, <3>3 DEF WalkStep
  <2> QED BY <2>1, <2>2, <2>3
<1>6. OffMainNodes(t, id) = Front(<<id>>)
  BY <1>2, <1>5 DEF OffMainNodes
<1>7. Front(<<id>>) = <<>>
  BY DEF Front
<1> QED BY <1>6, <1>7 DEF id

\* change_main_branch finds nothing to do: every block of the branch became the
\* head of the main branch when it was applied.
LEMMA SwitchKeeps ==
    ASSUME NEW t, TreeInv(t), Hung(t), DOMAIN t = DOMAIN EmptyTree, NEW old, NEW b \in Block,
           \A n \in DOMAIN t.main_branch : n <= Number[b],
           OffMainNodes(t, FindNodeWithBlockstamp(t, b)) = <<>>
    PROVE  LET u == ChangeMainBranch(t, old, b)
           IN  /\ TreeInv(u) /\ Hung(u)
               /\ DOMAIN u.main_branch = DOMAIN t.main_branch
               /\ \A n \in DOMAIN t.main_branch : MainBlock(u, n) = MainBlock(t, n)
<1> DEFINE off == OffMainNodes(t, FindNodeWithBlockstamp(t, b))
           heights == {NumberOf(t, id) : id \in Range(off)}
           dropped == {n \in DOMAIN t.main_branch :
                          \/ \E h \in heights : h <= n /\ n <= Number[b]
                          \/ Number[b] < n /\ n <= Number[old]}
           adopt(tr, id) ==
               LET on == [tr EXCEPT !.main_branch = Put(@, NumberOf(tr, id), id)]
               IN  IF NumberOf(tr, id) > Number[old] THEN Pruning(on) ELSE on
           base == [t EXCEPT !.main_branch = Restrict(@, DOMAIN @ \ dropped)]
           Step(f, S) == IF S = {} THEN base ELSE adopt(f[S \ {Max(S)}], off[Max(S)])
           iter == CHOOSE f : f = [S \in SUBSET DOMAIN off |-> Step(f, S)]
           u == ChangeMainBranch(t, old, b)
<1>1. u = iter[DOMAIN off]
  BY DEF ChangeMainBranch, FoldLeft, MapThenFoldSet
<1>2. DOMAIN off = {} /\ Range(off) = {}
  BY DEF Range
<1>3. iter[{}] = base
  <2>1. \A S \in SUBSET DOMAIN off : S = {}
    BY <1>2
  <2> DEFINE f == [S \in SUBSET DOMAIN off |-> base]
  <2>2. f = [S \in SUBSET DOMAIN off |-> Step(f, S)]
    <3> HIDE DEF base, adopt, off
    <3>1. \A S \in SUBSET DOMAIN off : Step(f, S) = base
      BY <2>1
    <3> HIDE DEF Step
    <3> QED BY <3>1
  <2>3. iter = [S \in SUBSET DOMAIN off |-> Step(iter, S)]
    <3> HIDE DEF f, Step, off
    <3> QED BY <2>2
  <2>4. {} \in SUBSET DOMAIN off
    OBVIOUS
  <2>5. iter[{}] = Step(iter, {})
    <3> HIDE DEF iter, Step, off
    <3> QED BY <2>3, <2>4
  <2> HIDE DEF iter, base, adopt, off
  <2> QED BY <2>5
<1>4. dropped = {}
  <2>1. \A n \in DOMAIN t.main_branch : n \in Nat /\ n <= Number[b]
    BY DEF TreeInv, WellFormed
  <2>2. heights = {}
    BY <1>2
  <2>3. Number[b] \in Nat
    BY BlockAssumption
  <2> HIDE DEF heights
  <2> QED BY <2>1, <2>2, <2>3
<1>5. u = base
  BY <1>1, <1>2, <1>3
<1> HIDE DEF u, iter, dropped, off
<1>6. t.main_branch = [n \in DOMAIN t.main_branch |-> t.main_branch[n]]
  BY DEF TreeInv, WellFormed
<1>7. /\ u.root = t.root /\ u.nodes = t.nodes /\ u.allocated = t.allocated
      /\ u.main_branch = t.main_branch /\ u.sheets = t.sheets
      /\ u.removed_blockstamps = t.removed_blockstamps
  BY <1>4, <1>5, <1>6 DEF EmptyTree, Restrict
<1> HIDE DEF base
<1>8. LiveNodes(u) = LiveNodes(t)
  BY <1>7 DEF LiveNodes
<1>9. \A id : DataOf(u, id) = DataOf(t, id) /\ NumberOf(u, id) = NumberOf(t, id)
  BY <1>7 DEF DataOf, NumberOf
<1>10. \A n : MainBlock(u, n) = MainBlock(t, n)
  BY <1>7, <1>9 DEF MainBlock
<1>11. Hung(u)
  BY <1>7, <1>8, <1>9 DEF Hung
<1>12. WellFormed(u)
  BY <1>7, <1>8 DEF TreeInv, WellFormed
<1>13. RootNumber(u) = RootNumber(t)
  BY <1>7, <1>9 DEF RootNumber
<1>14. MainChain(u)
  BY <1>7, <1>8, <1>9, <1>10, <1>13 DEF TreeInv, MainChain
<1>15. RootDetached(u) /\ SheetsChildless(u)
  BY <1>7, <1>8 DEF TreeInv, RootDetached, SheetsChildless, Children
<1> QED BY <1>7, <1>10, <1>11, <1>12, <1>14, <1>15 DEF TreeInv, u

-----------------------------------------------------------------------------
(* The inductive invariant.                                                 *)

\* One chain is an extension of another, a main branch is part of a chain, and
\* nothing of a chain is above its head b.
Extends(c, d) == \A n \in DOMAIN d : n \in DOMAIN c /\ c[n] = d[n]

MainIn(t, c) == \A n \in DOMAIN t.main_branch : n \in DOMAIN c /\ c[n] = MainBlock(t, n)

HeadOn(c, b) ==
    DOMAIN c = {} \/ (b \in Block /\ \A n \in DOMAIN c : n <= Number[b] /\ (n = Number[b] => c[n] = b))

\* A chain without a gap, of blocks that passed the checks.
Chained(c) ==
    /\ c \in [DOMAIN c -> Block]
    /\ \E len \in Nat : DOMAIN c = 0 .. (len - 1)
    /\ \A n \in DOMAIN c : /\ Number[c[n]] = n
                           /\ n > 0 => Previous[c[n]] = c[n - 1]
                           /\ c[n] \notin Refused \cup Forged

\* The lists of orphans.
OrphansOK(o) ==
    /\ DOMAIN o \subseteq Block \cup {NoBlock}
    /\ o \in [DOMAIN o -> Seq(Block)]
    /\ Waits(o)

\* The databases, in memory and in the files.
Sound(d) ==
    /\ DOMAIN d = DOMAIN EmptyDBs
    /\ Chained(d.blockchain_db)
    /\ TreeInv(d.fork_tree_db) /\ Hung(d.fork_tree_db)
    /\ d.fork_blocks_db \subseteq Block
    /\ OrphansOK(d.orphan_blocks_db)

\* What the thread works with.
Thread ==
    /\ current \in Block \cup {NoBlock}
    /\ invalid_forks \subseteq Block
    /\ phase \in {"idle", "receiving", "reverting", "stacking", "saving"} \cup Fatal
    /\ batch \in Seq(Block) /\ branch \in Seq(Block)
    /\ save_blocks_dbs \in BOOLEAN
    /\ files \in {SubSeq(Files, i, 4) : i \in 1 .. 5}
    /\ delivered \subseteq Block
    /\ crashes \in 0 .. MaxCrashes

\* The chain in memory has what the file has, the main branch of the tree is part
\* of it and the current block is on top of it.
OnChain ==
    /\ Extends(mem.blockchain_db, disk.blockchain_db)
    /\ MainIn(mem.fork_tree_db, mem.blockchain_db)
    /\ HeadOn(mem.blockchain_db, current)

\* A rollback that has something to revert: it never comes out of its loop.
Stuck == phase = "reverting" /\ Number[current] > Number[branch[1]]

\* A rollback has a branch to switch to, in a tree that is not empty.
Reverting ==
    phase = "reverting" =>
        /\ current \in Block /\ branch # <<>>
        /\ LiveNodes(mem.fork_tree_db) # {}
        /\ \A n \in DOMAIN mem.blockchain_db : n <= Number[current]

\* A save writes the block-chain first.
Saving == phase = "saving" /\ files # Files => disk.blockchain_db = mem.blockchain_db

\* The main branch of the tree has the heights of the chain that are in the window.
Windowed(d) ==
    DOMAIN d.fork_tree_db.main_branch =
        {n \in DOMAIN d.blockchain_db : n + FORK_WINDOW_SIZE \notin DOMAIN d.blockchain_db}

ChainInv ==
    /\ Sound(mem) /\ Sound(disk) /\ Thread
    /\ MainIn(disk.fork_tree_db, disk.blockchain_db)
    /\ OnChain \/ Stuck \/ phase \in Fatal
    /\ Reverting /\ Saving

-----------------------------------------------------------------------------
(* The databases.                                                           *)

\* What the property says of a chain follows from what the invariant says of it.
LEMMA ChainedIsLinked ==
    ASSUME NEW c, Chained(c)
    PROVE  Linked(c) /\ IsFiniteSet(DOMAIN c) /\ DOMAIN c \subseteq Nat
<1>1. PICK len \in Nat : DOMAIN c = 0 .. (len - 1)
  BY DEF Chained
<1>2. IsFiniteSet(DOMAIN c) /\ Cardinality(DOMAIN c) = len
  <2>1. CASE len = 0
    <3>1. DOMAIN c = {}
      BY <1>1, <2>1
    <3> QED BY <2>1, <3>1, FS_EmptySet
  <2>2. CASE len # 0
    <3>1. 0 \in Int /\ len - 1 \in Int /\ ~(0 > len - 1) /\ (len - 1) - 0 + 1 = len
      BY <2>2
    <3> QED BY <1>1, <3>1, FS_Interval
  <2> QED BY <2>1, <2>2
<1> QED BY <1>1, <1>2 DEF Chained, Linked

\* The verdicts of check_and_apply_block.
LEMMA Verdicts ==
    ASSUME NEW d, NEW cur, NEW b
    PROVE  /\ CheckBlock(d, cur, b) = "valid" =>
                 b \notin Forged \cup Refused /\ Chainable(cur, b) /\ Valid(d, b)
           /\ CheckBlock(d, cur, b) = "fork" =>
                 /\ ForkParentExists(d.fork_tree_db, b)
                 /\ ~AlreadyHave(d, b) /\ ~Chainable(cur, b) /\ InForkWindow(cur, b)
           /\ CheckBlock(d, cur, b) = "orphan" =>
                 ~AlreadyHave(d, b) /\ ~ForkParentExists(d.fork_tree_db, b)
<1>1. CASE b \in Forged
  <2>1. CheckBlock(d, cur, b) = "refused"
    BY <1>1 DEF CheckBlock
  <2> QED BY <2>1
<1>2. CASE b \notin Forged /\ Chainable(cur, b)
  <2>1. CheckBlock(d, cur, b) = IF Valid(d, b) THEN "valid" ELSE "refused"
    BY <1>2 DEF CheckBlock
  <2>2. Valid(d, b) => b \notin Refused
    BY DEF Valid
  <2> QED BY <1>2, <2>1, <2>2
<1>3. CASE b \notin Forged /\ ~Chainable(cur, b) /\ ~AlreadyHave(d, b) /\ InForkWindow(cur, b)
  <2>1. CheckBlock(d, cur, b) = IF ForkParentExists(d.fork_tree_db, b) THEN "fork" ELSE "orphan"
    BY <1>3 DEF CheckBlock
  <2> QED BY <1>3, <2>1
<1>4. CASE b \notin Forged /\ ~Chainable(cur, b) /\ ~(~AlreadyHave(d, b) /\ InForkWindow(cur, b))
  <2>1. CheckBlock(d, cur, b) = "known"
    BY <1>4 DEF CheckBlock
  <2> QED BY <2>1
<1> QED BY <1>1, <1>2, <1>3, <1>4

\* A block that is valid on the head of a chain comes right behind it.
LEMMA NextOfChain ==
    ASSUME NEW d, Chained(d.blockchain_db), NEW cur \in Block \cup {NoBlock},
           HeadOn(d.blockchain_db, cur), NEW b \in Block, CheckBlock(d, cur, b) = "valid"
    PROVE  /\ Number[b] \in Nat /\ DOMAIN d.blockchain_db = 0 .. (Number[b] - 1)
           /\ Number[b] > 0 => d.blockchain_db[Number[b] - 1] = Previous[b]
<1> DEFINE c == d.blockchain_db
<1>1. PICK len \in Nat : DOMAIN c = 0 .. (len - 1)
  BY DEF Chained
<1>2. Chainable(cur, b) /\ Valid(d, b) /\ Number[b] \in Nat
  BY Verdicts, BlockAssumption
<1>3. CASE cur = NoBlock
  <2>1. DOMAIN c = {} /\ Number[b] = 0
    BY <1>2, <1>3, BlockAssumption DEF HeadOn, Chainable
  <2> QED BY <1>2, <2>1
<1>4. CASE cur # NoBlock
  <2>1. cur \in Block /\ Number[cur] \in Nat /\ Number[b] = Number[cur] + 1 /\ Previous[b] = cur
    BY <1>2, <1>4, BlockAssumption DEF Chainable
  <2>2. Number[cur] \in DOMAIN c
    BY <1>2, <2>1 DEF Valid
  <2>3. c[Number[cur]] = cur /\ \A n \in DOMAIN c : n <= Number[cur]
    BY <2>2 DEF HeadOn
  <2> HIDE DEF c
  <2>4. len = Number[b]
    <3>1. len > 0 /\ len - 1 \in DOMAIN c
      BY <1>1, <2>1, <2>2
    <3>2. len - 1 <= Number[cur] /\ Number[cur] <= len - 1
      BY <1>1, <2>2, <2>3, <3>1
    <3> QED BY <2>1, <3>2
  <2> QED BY <1>1, <1>2, <2>1, <2>3, <2>4 DEF c
<1> QED BY <1>3, <1>4

\* A block put on the head of a chain.
LEMMA ChainGrows ==
    ASSUME NEW c, Chained(c), NEW b \in Block, b \notin Refused \cup Forged,
           Number[b] \in Nat, DOMAIN c = 0 .. (Number[b] - 1),
           Number[b] > 0 => c[Number[b] - 1] = Previous[b]
    PROVE  /\ Chained(Put(c, Number[b], b)) /\ Extends(Put(c, Number[b], b), c)
           /\ HeadOn(Put(c, Number[b], b), b)
           /\ DOMAIN Put(c, Number[b], b) = 0 .. Number[b]
           /\ Put(c, Number[b], b)[Number[b]] = b
<1> DEFINE e == Put(c, Number[b], b)
<1>1. /\ DOMAIN e = DOMAIN c \cup {Number[b]} /\ e[Number[b]] = b
      /\ \A n \in DOMAIN c : n # Number[b] => e[n] = c[n]
      /\ e = [n \in DOMAIN e |-> e[n]]
  BY DEF Put
<1> HIDE DEF e
<1>2. DOMAIN e = 0 .. Number[b] /\ Number[b] \notin DOMAIN c
  BY <1>1
<1>3. \A n \in DOMAIN e : n = Number[b] \/ (n \in DOMAIN c /\ n # Number[b])
  BY <1>1, <1>2
<1>4. \A n \in DOMAIN c : n \in DOMAIN e /\ e[n] = c[n]
  BY <1>1, <1>2
<1>5. e \in [DOMAIN e -> Block]
  <2>1. \A n \in DOMAIN e : e[n] \in Block
    BY <1>1, <1>3 DEF Chained
  <2> QED BY <1>1, <2>1
<1>6. ASSUME NEW n \in DOMAIN e
      PROVE  /\ Number[e[n]] = n /\ e[n] \notin Refused \cup Forged
             /\ n > 0 => Previous[e[n]] = e[n - 1]
  <2>1. CASE n = Number[b]
    <3>1. Number[b] > 0 => Number[b] - 1 \in DOMAIN c
      OBVIOUS
    <3> QED BY <1>1, <1>4, <2>1, <3>1
  <2>2. CASE n \in DOMAIN c
    <3>1. n > 0 => n - 1 \in DOMAIN c
      BY <2>2
    <3> QED BY <1>4, <2>2, <3>1 DEF Chained
  <2> QED BY <1>3, <2>1, <2>2
<1>7. \E len \in Nat : DOMAIN e = 0 .. (len - 1)
  <2>1. Number[b] + 1 \in Nat /\ (Number[b] + 1) - 1 = Number[b]
    OBVIOUS
  <2> QED BY <1>2, <2>1
<1>8. HeadOn(e, b)
  BY <1>1, <1>2 DEF HeadOn
<1> QED BY <1>1, <1>2, <1>4, <1>5, <1>6, <1>7, <1>8 DEF Chained, Extends, e

\* The head of a main branch whose predecessor is in the window as well.
Topped(t, b) ==
    /\ DOMAIN t = DOMAIN EmptyTree
    /\ Number[b] \in DOMAIN t.main_branch /\ MainBlock(t, Number[b]) = b
    /\ Number[b] - 1 \in DOMAIN t.main_branch /\ MainBlock(t, Number[b] - 1) = Previous[b]

\* The heights that are in the window of a chain.
LEMMA WindowOf ==
    ASSUME NEW high \in Nat, NEW size \in Nat, size > 1,
           NEW low \in Nat, low <= high, high - low < size, low = 0 \/ high - low = size - 1
    PROVE  {n \in 0 .. high : n + size \notin 0 .. high} = low .. high
<1>1. ASSUME NEW n \in 0 .. high, n + size \notin 0 .. high PROVE n \in low .. high
  BY <1>1
<1>2. ASSUME NEW n \in low .. high PROVE n \in 0 .. high /\ n + size \notin 0 .. high
  BY <1>2
<1> QED BY <1>1, <1>2

\* The window moves with the head: the tree drops its root when the chain has
\* grown longer than the window, and never before.
LEMMA WindowMoves ==
    ASSUME NEW t, TreeInv(t), NEW b \in Block, HeadParentExists(t, b), Follows(t, b),
           DOMAIN t.main_branch =
              {n \in 0 .. (Number[b] - 1) : n + FORK_WINDOW_SIZE \notin 0 .. (Number[b] - 1)}
    PROVE  DOMAIN InsertNewHeadBlock(t, b).main_branch =
              {n \in 0 .. Number[b] : n + FORK_WINDOW_SIZE \notin 0 .. Number[b]}
<1> DEFINE u == InsertNewHeadBlock(t, b)
<1>0. Number[b] \in Nat /\ FORK_WINDOW_SIZE \in Nat /\ FORK_WINDOW_SIZE > 1
  BY BlockAssumption, WindowAssumption, ThreadAssumption
<1>1. CASE LiveNodes(t) = {}
  <2>1. DOMAIN u.main_branch = {Number[b]}
    BY <1>1, InsertRootStep
  <2>2. DOMAIN t.main_branch = {}
    BY <1>1 DEF TreeInv, WellFormed
  <2>3. Number[b] = 0
    <3> SUFFICES ASSUME Number[b] > 0 PROVE FALSE
      BY <1>0
    <3>1. Number[b] - 1 \in 0 .. (Number[b] - 1)
      BY <1>0
    <3>2. (Number[b] - 1) + FORK_WINDOW_SIZE \notin 0 .. (Number[b] - 1)
      BY <1>0
    <3> QED BY <2>2, <3>1, <3>2
  <2> HIDE DEF u
  <2>4. {n \in 0 .. 0 : n + FORK_WINDOW_SIZE \notin 0 .. 0} = 0 .. 0 /\ 0 .. 0 = {0}
    BY <1>0, WindowOf
  <2> QED BY <2>1, <2>3, <2>4 DEF u
<1>2. CASE LiveNodes(t) # {}
  <2> DEFINE a == AddNode(t, b, t.main_branch[Number[b] - 1], TRUE)
             low == RootNumber(t)
  <2>1. /\ u = PruneToWindow(a)
        /\ TreeInv(a) /\ LiveNodes(a) # {}
        /\ DOMAIN a.main_branch = low .. Number[b]
        /\ RootNumber(a) = low /\ low < Number[b] /\ low \in Nat
        /\ DOMAIN t.main_branch = low .. (Number[b] - 1)
    BY <1>2, InsertHeadStep
  <2> HIDE DEF u, a, low
  <2>2. low + FORK_WINDOW_SIZE > Number[b] - 1
    <3>1. low \in low .. (Number[b] - 1)
      BY <1>0, <2>1
    <3> QED BY <1>0, <2>1, <3>1
  <2>3. low = 0 \/ low + FORK_WINDOW_SIZE = Number[b]
    <3> SUFFICES ASSUME low # 0 PROVE low + FORK_WINDOW_SIZE = Number[b]
      OBVIOUS
    <3>1. low - 1 \in 0 .. (Number[b] - 1) /\ low - 1 \notin DOMAIN t.main_branch
      BY <1>0, <2>1
    <3>2. (low - 1) + FORK_WINDOW_SIZE \in 0 .. (Number[b] - 1)
      BY <3>1
    <3> QED BY <1>0, <2>1, <2>2, <3>2
  <2>4. Cardinality(DOMAIN a.main_branch) = Number[b] - low + 1
    <3>1. low <= Number[b] + 1
      BY <1>0, <2>1
    <3> QED BY <1>0, <2>1, <3>1, IntervalSize
  <2>5. CASE Number[b] - low + 1 > FORK_WINDOW_SIZE
    <3>1. u = Pruning(a)
      BY <2>1, <2>4, <2>5 DEF PruneToWindow
    <3>2. low + 1 \in low .. Number[b]
      BY <1>0, <2>1
    <3>3. DOMAIN u.main_branch = (low .. Number[b]) \ {low}
      BY <2>1, <3>1, <3>2, PruningKeepsInv
    <3>4. low + FORK_WINDOW_SIZE = Number[b]
      BY <1>0, <2>1, <2>2, <2>5
    <3>5. (low .. Number[b]) \ {low} = (low + 1) .. Number[b]
      BY <1>0, <2>1
    <3>6. {n \in 0 .. Number[b] : n + FORK_WINDOW_SIZE \notin 0 .. Number[b]} = (low + 1) .. Number[b]
      <4>1. /\ low + 1 \in Nat /\ low + 1 <= Number[b]
            /\ Number[b] - (low + 1) < FORK_WINDOW_SIZE
            /\ Number[b] - (low + 1) = FORK_WINDOW_SIZE - 1
        BY <1>0, <2>1, <3>4
      <4> QED BY <1>0, <4>1, WindowOf
    <3> QED BY <3>3, <3>5, <3>6 DEF u
  <2>6. CASE ~(Number[b] - low + 1 > FORK_WINDOW_SIZE)
    <3>1. u = a
      BY <2>1, <2>4, <2>6 DEF PruneToWindow
    <3>2. low = 0 /\ Number[b] < FORK_WINDOW_SIZE
      BY <1>0, <2>1, <2>3, <2>6
    <3>3. {n \in 0 .. Number[b] : n + FORK_WINDOW_SIZE \notin 0 .. Number[b]} = 0 .. Number[b]
      BY <1>0, <3>2, WindowOf
    <3> QED BY <2>1, <3>1, <3>2, <3>3 DEF u
  <2> QED BY <2>5, <2>6
<1> QED BY <1>1, <1>2

\* A block that is valid on top of the current one follows the head of the tree.
LEMMA HeadFollows ==
    ASSUME NEW d, Chained(d.blockchain_db), MainIn(d.fork_tree_db, d.blockchain_db),
           NEW cur \in Block \cup {NoBlock}, HeadOn(d.blockchain_db, cur),
           NEW b \in Block, CheckBlock(d, cur, b) = "valid", HeadWritable(d, b)
    PROVE  Follows(d.fork_tree_db, b)
<1> DEFINE c == d.blockchain_db
           t == d.fork_tree_db
<1>1. /\ Number[b] \in Nat /\ DOMAIN c = 0 .. (Number[b] - 1)
      /\ Number[b] > 0 => c[Number[b] - 1] = Previous[b]
  BY NextOfChain
<1>2. ASSUME LiveNodes(t) # {}
      PROVE  /\ Previous[b] = MainBlock(t, Number[b] - 1)
             /\ Number[b] \notin DOMAIN t.main_branch
  <2>1. t.nodes # EmptyTree.nodes
    BY <1>2 DEF LiveNodes, EmptyTree
  <2>2. Number[b] > 0 /\ Number[b] - 1 \in DOMAIN t.main_branch
    BY <2>1 DEF HeadWritable, HeadParentExists
  <2>3. \A n \in DOMAIN t.main_branch : n \in DOMAIN c /\ c[n] = MainBlock(t, n)
    BY DEF MainIn
  <2>4. Number[b] \notin DOMAIN c
    BY <1>1
  <2> HIDE DEF c, t
  <2> QED BY <1>1, <2>2, <2>3, <2>4
<1> QED BY <1>2 DEF Follows

\* insert_new_head_block, for a block that is valid on the head of the chain.
LEMMA WriteHeadKeeps ==
    ASSUME NEW d, Sound(d), MainIn(d.fork_tree_db, d.blockchain_db),
           NEW cur \in Block \cup {NoBlock}, HeadOn(d.blockchain_db, cur),
           NEW b \in Block, CheckBlock(d, cur, b) = "valid", HeadWritable(d, b)
    PROVE  LET u == WriteHead(d, b)
           IN  /\ Sound(u) /\ MainIn(u.fork_tree_db, u.blockchain_db)
               /\ HeadOn(u.blockchain_db, b) /\ Extends(u.blockchain_db, d.blockchain_db)
               /\ LiveNodes(u.fork_tree_db) # {}
               /\ LiveNodes(d.fork_tree_db) # {} => Topped(u.fork_tree_db, b)
               /\ Number[b] \in DOMAIN u.blockchain_db
               /\ Windowed(d) => Windowed(u)
<1> DEFINE c == d.blockchain_db
           t == d.fork_tree_db
           e == Put(c, Number[b], b)
           v == InsertNewHeadBlock(t, b)
           u == WriteHead(d, b)
<1>1. /\ DOMAIN u = DOMAIN EmptyDBs
      /\ u.blockchain_db = e /\ u.fork_tree_db = v
      /\ u.fork_blocks_db = (d.fork_blocks_db \cup {b}) \ v.removed_blockstamps
      /\ u.orphan_blocks_db = d.orphan_blocks_db
  BY DEF WriteHead, Sound, EmptyDBs
<1> HIDE DEF u, v
<1>2. Chained(c) /\ TreeInv(t) /\ Hung(t) /\ d.fork_blocks_db \subseteq Block /\ OrphansOK(d.orphan_blocks_db)
  BY DEF Sound
<1>3. /\ Number[b] \in Nat /\ DOMAIN c = 0 .. (Number[b] - 1)
      /\ Number[b] > 0 => c[Number[b] - 1] = Previous[b]
  BY <1>2, NextOfChain
<1>4. b \notin Refused \cup Forged
  BY Verdicts
<1>5. /\ Chained(e) /\ Extends(e, c) /\ HeadOn(e, b)
      /\ DOMAIN e = 0 .. Number[b] /\ e[Number[b]] = b
  BY <1>2, <1>3, <1>4, ChainGrows
<1>6. HeadParentExists(t, b)
  BY DEF HeadWritable
<1>7. Follows(t, b)
  BY <1>2, HeadFollows
<1>8. /\ TreeInv(v) /\ Hung(v) /\ DOMAIN v = DOMAIN EmptyTree
      /\ Number[b] \in DOMAIN v.main_branch
      /\ MainBlock(v, Number[b]) = b
      /\ \A n \in DOMAIN v.main_branch :
            n # Number[b] => n \in DOMAIN t.main_branch /\ MainBlock(v, n) = MainBlock(t, n)
      /\ LiveNodes(t) # {} => Number[b] - 1 \in DOMAIN v.main_branch
  BY <1>2, <1>6, <1>7, HeadInserted DEF v
<1>9. MainIn(v, e)
  <2>1. \A n \in DOMAIN t.main_branch : n \in DOMAIN c /\ c[n] = MainBlock(t, n)
    BY DEF MainIn
  <2>2. \A n \in DOMAIN c : n \in DOMAIN e /\ e[n] = c[n]
    BY <1>5 DEF Extends
  <2>3. Number[b] \in DOMAIN e
    BY <1>3, <1>5
  <2> HIDE DEF c, t, e
  <2> QED BY <1>5, <1>8, <2>1, <2>2, <2>3 DEF MainIn
<1>10. LiveNodes(v) # {}
  BY <1>8 DEF TreeInv, WellFormed
<1>11. ASSUME LiveNodes(t) # {} PROVE Topped(v, b)
  <2>1. Number[b] - 1 \in DOMAIN v.main_branch /\ Number[b] - 1 # Number[b]
    BY <1>3, <1>8, <1>11
  <2>2. MainBlock(v, Number[b] - 1) = Previous[b]
    BY <1>7, <1>8, <1>11, <2>1 DEF Follows
  <2> QED BY <1>8, <2>1, <2>2 DEF Topped
<1>12. Sound(u)
  <2> HIDE DEF e, t, c
  <2> QED BY <1>1, <1>2, <1>5, <1>8 DEF Sound
<1>13. Number[b] \in DOMAIN u.blockchain_db
  BY <1>1, <1>3, <1>5
<1>14. ASSUME Windowed(d) PROVE Windowed(u)
  <2>1. DOMAIN t.main_branch = {n \in 0 .. (Number[b] - 1) : n + FORK_WINDOW_SIZE \notin 0 .. (Number[b] - 1)}
    BY <1>3, <1>14 DEF Windowed
  <2> HIDE DEF e, t, c
  <2>2. DOMAIN v.main_branch = {n \in 0 .. Number[b] : n + FORK_WINDOW_SIZE \notin 0 .. Number[b]}
    BY <1>2, <1>6, <1>7, <2>1, WindowMoves DEF v
  <2> QED BY <1>1, <1>5, <2>2 DEF Windowed
<1> QED BY <1>1, <1>5, <1>9, <1>10, <1>11, <1>12, <1>13, <1>14 DEF u

\* insert_new_fork_block, for a block whose predecessor is stored: the orphans it
\* brings find their places, and the main branch does not move.
LEMMA StoreForkKeeps ==
    ASSUME NEW d, Sound(d), NEW b \in Block, ForkParentExists(d.fork_tree_db, b)
    PROVE  LET u == StoreFork(d, b)
           IN  /\ Sound(u) /\ u.blockchain_db = d.blockchain_db
               /\ \A c : MainIn(d.fork_tree_db, c) => MainIn(u.fork_tree_db, c)
               /\ Windowed(d) => Windowed(u)
<1> DEFINE t == d.fork_tree_db
           family == Followers(d, b)
           v == InsertForkBlocks(t, family)
           u == StoreFork(d, b)
<1>1. /\ DOMAIN u = DOMAIN EmptyDBs
      /\ u.blockchain_db = d.blockchain_db /\ u.fork_tree_db = v
      /\ u.fork_blocks_db = d.fork_blocks_db \cup Range(family)
      /\ u.orphan_blocks_db = d.orphan_blocks_db
  BY DEF StoreFork, Sound, EmptyDBs
<1> HIDE DEF u
<1>2. family \in Grows({Previous[b]})
  BY FollowersGrow DEF Sound, OrphansOK
<1>3. Previous[b] \in StoredBlocks(t)
  BY DEF ForkParentExists, NodesWithBlockstamp, StoredBlocks
<1> HIDE DEF family
<1>4. /\ TreeInv(v) /\ Hung(v) /\ DOMAIN v.main_branch = DOMAIN t.main_branch
      /\ \A n \in DOMAIN t.main_branch : MainBlock(v, n) = MainBlock(t, n)
  BY <1>2, <1>3, ForksInserted DEF Sound
<1>5. Range(family) \subseteq Block
  BY <1>2 DEF Grows, Range
<1> HIDE DEF v
<1>6. Sound(u)
  BY <1>1, <1>4, <1>5 DEF Sound
<1>7. \A c : MainIn(t, c) => MainIn(v, c)
  BY <1>4 DEF MainIn
<1>8. Windowed(d) => Windowed(u)
  BY <1>1, <1>4 DEF Windowed
<1> QED BY <1>1, <1>6, <1>7, <1>8 DEF u

\* insert_new_fork_block, for a block whose predecessor is not stored: it waits,
\* once, among those that name the same predecessor.
LEMMA StoreOrphanKeeps ==
    ASSUME NEW d, Sound(d), NEW b \in Block, ~AlreadyHave(d, b)
    PROVE  LET u == StoreOrphan(d, b)
           IN  /\ Sound(u) /\ u.blockchain_db = d.blockchain_db
               /\ u.fork_tree_db = d.fork_tree_db
<1> DEFINE o == d.orphan_blocks_db
           w == WaitingFor(d, Previous[b])
           more == Append(w, b)
           u == StoreOrphan(d, b)
<1>1. /\ DOMAIN u = DOMAIN EmptyDBs
      /\ u.blockchain_db = d.blockchain_db /\ u.fork_tree_db = d.fork_tree_db
      /\ u.fork_blocks_db = d.fork_blocks_db
      /\ u.orphan_blocks_db = Put(o, Previous[b], more)
  BY DEF StoreOrphan, Sound, EmptyDBs
<1> HIDE DEF u
<1>2. OrphansOK(o) /\ Previous[b] \in Block \cup {NoBlock}
  BY BlockAssumption DEF Sound
<1>3. /\ w \in Seq(Block) /\ IsInjective(w)
      /\ \A i \in DOMAIN w : Previous[w[i]] = Previous[b]
  BY <1>2, WaitingFollow DEF OrphansOK
<1>4. b \notin Range(w)
  BY DEF AlreadyHave
<1> HIDE DEF w
<1>5. more \in Seq(Block) /\ IsInjective(more) /\ \A i \in DOMAIN more : Previous[more[i]] = Previous[b]
  <2>1. /\ more \in Seq(Block) /\ DOMAIN more = 1 .. (Len(w) + 1) /\ more[Len(w) + 1] = b
        /\ \A i \in 1 .. Len(w) : more[i] = w[i]
        /\ DOMAIN w = 1 .. Len(w) /\ Len(w) \in Nat
    BY <1>3
  <2> HIDE DEF more
  <2>2. \A i \in DOMAIN more : i = Len(w) + 1 \/ (i \in DOMAIN w /\ more[i] = w[i])
    BY <2>1
  <2>3. \A i \in DOMAIN w : w[i] # b
    BY <1>4 DEF Range
  <2>4. IsInjective(more)
    BY <1>3, <2>1, <2>2, <2>3 DEF IsInjective
  <2> QED BY <1>3, <2>1, <2>2, <2>4
<1> HIDE DEF more
<1> DEFINE p == Put(o, Previous[b], more)
<1>6. /\ DOMAIN p = DOMAIN o \cup {Previous[b]} /\ p[Previous[b]] = more
      /\ \A x \in DOMAIN o : x # Previous[b] => p[x] = o[x]
      /\ p = [x \in DOMAIN p |-> p[x]]
  BY DEF Put
<1> HIDE DEF p, o
<1>7. \A x \in DOMAIN p : \/ x = Previous[b] /\ p[x] = more
                          \/ x \in DOMAIN o /\ p[x] = o[x]
  BY <1>6
<1>8. OrphansOK(p)
  <2>1. DOMAIN p \subseteq Block \cup {NoBlock}
    BY <1>2, <1>6 DEF OrphansOK
  <2>2. p \in [DOMAIN p -> Seq(Block)]
    <3>1. \A x \in DOMAIN p : p[x] \in Seq(Block)
      BY <1>2, <1>5, <1>7 DEF OrphansOK
    <3> QED BY <1>6, <3>1
  <2>3. ASSUME NEW x \in DOMAIN p
        PROVE  IsInjective(p[x]) /\ \A i \in DOMAIN p[x] : Previous[p[x][i]] = x
    <3>1. CASE x = Previous[b] /\ p[x] = more
      BY <1>5, <3>1
    <3>2. CASE x \in DOMAIN o /\ p[x] = o[x]
      BY <1>2, <3>2 DEF OrphansOK, Waits
    <3> QED BY <1>7, <3>1, <3>2
  <2> QED BY <2>1, <2>2, <2>3 DEF OrphansOK, Waits
<1> QED BY <1>1, <1>8 DEF Sound, u, p

-----------------------------------------------------------------------------
(* Applying a branch.                                                       *)

\* Where the application of a branch has got to.
RunOK(r) ==
    /\ DOMAIN r = {"dbs", "at", "result", "bad"}
    /\ Sound(r.dbs) /\ MainIn(r.dbs.fork_tree_db, r.dbs.blockchain_db)
    /\ LiveNodes(r.dbs.fork_tree_db) # {}
    /\ r.at \in Block \cup {NoBlock} /\ HeadOn(r.dbs.blockchain_db, r.at)
    /\ r.bad \subseteq Block
    /\ r.result \in {"applied", "invalid", "branch_block_lost", "no_previous_block_in_main_branch"}
    /\ r.result = "invalid" => r.bad # {}

\* Every block so far had its place in the main branch.
HasPlace(r) == r.result # "no_previous_block_in_main_branch"

\* A block that is valid on the head finds its predecessor in the main branch, as long
\* as the main branch has the heights of the chain that are in the window.
LEMMA HeadFits ==
    ASSUME NEW d, Sound(d), Windowed(d),
           NEW cur \in Block \cup {NoBlock}, HeadOn(d.blockchain_db, cur),
           NEW b \in Block, CheckBlock(d, cur, b) = "valid"
    PROVE  HeadWritable(d, b)
<1> DEFINE t == d.fork_tree_db
<1>1. Number[b] \in Nat /\ DOMAIN d.blockchain_db = 0 .. (Number[b] - 1)
  BY NextOfChain DEF Sound
<1>2. CASE LiveNodes(t) = {}
  <2>1. t.nodes \in [{} -> TreeNode]
    BY <1>2 DEF Sound, TreeInv, WellFormed
  <2>2. t.nodes = EmptyTree.nodes
    BY <2>1 DEF EmptyTree
  <2> QED BY <2>2 DEF HeadWritable, HeadParentExists
<1>3. CASE LiveNodes(t) # {}
  <2>1. RootNumber(t) \in DOMAIN t.main_branch
    BY <1>3, MainChainFacts DEF Sound, TreeInv
  <2>2. DOMAIN t.main_branch =
           {n \in 0 .. (Number[b] - 1) : n + FORK_WINDOW_SIZE \notin 0 .. (Number[b] - 1)}
    BY <1>1 DEF Windowed
  <2> HIDE DEF t
  <2>3. Number[b] > 0
    BY <1>1, <2>1, <2>2
  <2>4. Number[b] - 1 \in DOMAIN t.main_branch
    BY <1>1, <2>2, <2>3, WindowAssumption
  <2> QED BY <2>3, <2>4 DEF HeadWritable, HeadParentExists, t
<1> QED BY <1>2, <1>3

\* One block of the branch: applied, it tops the main branch; otherwise the
\* databases and the place are those of the block before.
LEMMA ApplyBlockKeeps ==
    ASSUME NEW r, RunOK(r), NEW b \in Block
    PROVE  LET q == ApplyBlock(r, b)
           IN  /\ RunOK(q) /\ Extends(q.dbs.blockchain_db, r.dbs.blockchain_db)
               /\ Windowed(r.dbs) => Windowed(q.dbs) /\ (HasPlace(r) => HasPlace(q))
               /\ q.result = "applied" => q.at \in Block /\ Topped(q.dbs.fork_tree_db, q.at)
<1> DEFINE q == ApplyBlock(r, b)
<1>0. Extends(r.dbs.blockchain_db, r.dbs.blockchain_db)
  BY DEF Extends
<1>1. CASE r.result # "applied"
  BY <1>0, <1>1 DEF ApplyBlock
<1>2. CASE r.result = "applied" /\ b \notin r.dbs.fork_blocks_db
  <2>1. q = [r EXCEPT !.result = "branch_block_lost"]
    BY <1>2 DEF ApplyBlock
  <2> HIDE DEF q
  <2>2. /\ DOMAIN q = DOMAIN r /\ q.dbs = r.dbs /\ q.at = r.at /\ q.bad = r.bad
        /\ q.result = "branch_block_lost"
    BY <2>1 DEF RunOK
  <2> QED BY <1>0, <2>2 DEF RunOK, HasPlace, q
<1>3. CASE /\ r.result = "applied" /\ b \in r.dbs.fork_blocks_db
           /\ CheckBlock(r.dbs, r.at, b) # "valid"
  <2>1. q = [r EXCEPT !.result = "invalid", !.bad = {b}]
    BY <1>3 DEF ApplyBlock
  <2> HIDE DEF q
  <2>2. /\ DOMAIN q = DOMAIN r /\ q.dbs = r.dbs /\ q.at = r.at /\ q.bad = {b}
        /\ q.result = "invalid"
    BY <2>1 DEF RunOK
  <2> QED BY <1>0, <2>2 DEF RunOK, HasPlace, q
<1>4. CASE /\ r.result = "applied" /\ b \in r.dbs.fork_blocks_db
           /\ CheckBlock(r.dbs, r.at, b) = "valid" /\ ~HeadWritable(r.dbs, b)
  <2>1. q = [r EXCEPT !.result = "no_previous_block_in_main_branch"]
    BY <1>4 DEF ApplyBlock
  <2> HIDE DEF q
  <2>2. /\ DOMAIN q = DOMAIN r /\ q.dbs = r.dbs /\ q.at = r.at /\ q.bad = r.bad
        /\ q.result = "no_previous_block_in_main_branch"
    BY <2>1 DEF RunOK
  <2>3. ~Windowed(r.dbs)
    BY <1>4, HeadFits DEF RunOK
  <2> QED BY <1>0, <2>2, <2>3 DEF RunOK, q
<1>5. CASE /\ r.result = "applied" /\ b \in r.dbs.fork_blocks_db
           /\ CheckBlock(r.dbs, r.at, b) = "valid" /\ HeadWritable(r.dbs, b)
  <2> DEFINE u == WriteHead(r.dbs, b)
  <2>1. q = [r EXCEPT !.dbs = u, !.at = b]
    BY <1>5 DEF ApplyBlock
  <2>2. /\ Sound(u) /\ MainIn(u.fork_tree_db, u.blockchain_db)
        /\ HeadOn(u.blockchain_db, b) /\ Extends(u.blockchain_db, r.dbs.blockchain_db)
        /\ LiveNodes(u.fork_tree_db) # {} /\ Topped(u.fork_tree_db, b)
        /\ Windowed(r.dbs) => Windowed(u)
    BY <1>5, WriteHeadKeeps DEF RunOK
  <2> HIDE DEF q, u
  <2>3. DOMAIN q = DOMAIN r /\ q.dbs = u /\ q.at = b /\ q.bad = r.bad /\ q.result = r.result
    BY <2>1 DEF RunOK
  <2> QED BY <2>2, <2>3 DEF RunOK, HasPlace, q
<1> QED BY <1>1, <1>2, <1>3, <1>4, <1>5

\* The whole branch.
LEMMA BranchApplied ==
    ASSUME NEW r, RunOK(r), NEW s \in Seq(Block), s # <<>>
    PROVE  LET q == ApplyBlocks(r, s)
           IN  /\ RunOK(q) /\ Extends(q.dbs.blockchain_db, r.dbs.blockchain_db)
               /\ Windowed(r.dbs) => Windowed(q.dbs) /\ (HasPlace(r) => HasPlace(q))
               /\ q.result = "applied" => q.at \in Block /\ Topped(q.dbs.fork_tree_db, q.at)
<1>1. DOMAIN s = 1 .. Len(s) /\ Len(s) \in Nat /\ Len(s) # 0
  OBVIOUS
<1>2. PICK at : /\ at[0] = r /\ at[Len(s)] = ApplyBlocks(r, s)
                /\ \A k \in 1 .. Len(s) : at[k] = ApplyBlock(at[k - 1], s[k])
  BY BranchSteps
<1> DEFINE Good(q) == /\ RunOK(q) /\ Extends(q.dbs.blockchain_db, r.dbs.blockchain_db)
                      /\ Windowed(r.dbs) => Windowed(q.dbs) /\ (HasPlace(r) => HasPlace(q))
           Y == {k \in Nat : k <= Len(s) => Good(at[k])}
<1>3. ASSUME NEW k \in 1 .. Len(s), Good(at[k - 1])
      PROVE  /\ Good(at[k])
             /\ at[k].result = "applied" => at[k].at \in Block /\ Topped(at[k].dbs.fork_tree_db, at[k].at)
  <2>1. at[k] = ApplyBlock(at[k - 1], s[k]) /\ s[k] \in Block
    BY <1>1, <1>2
  <2>2. /\ RunOK(at[k]) /\ Extends(at[k].dbs.blockchain_db, at[k - 1].dbs.blockchain_db)
        /\ Windowed(at[k - 1].dbs) =>
              Windowed(at[k].dbs) /\ (HasPlace(at[k - 1]) => HasPlace(at[k]))
        /\ at[k].result = "applied" => at[k].at \in Block /\ Topped(at[k].dbs.fork_tree_db, at[k].at)
    BY <1>3, <2>1, ApplyBlockKeeps
  <2>3. Extends(at[k].dbs.blockchain_db, r.dbs.blockchain_db)
    BY <1>3, <2>2 DEF Extends
  <2>4. Windowed(r.dbs) => Windowed(at[k].dbs) /\ (HasPlace(r) => HasPlace(at[k]))
    BY <1>3, <2>2
  <2> QED BY <2>2, <2>3, <2>4
<1>4. 0 \in Y
  BY <1>2 DEF Extends
<1>5. ASSUME NEW k \in Nat, k \in Y PROVE k + 1 \in Y
  <2> SUFFICES ASSUME k + 1 <= Len(s) PROVE Good(at[k + 1])
    OBVIOUS
  <2>1. k + 1 \in 1 .. Len(s) /\ (k + 1) - 1 = k /\ k <= Len(s)
    BY <1>1
  <2>2. Good(at[k])
    BY <1>5, <2>1
  <2> HIDE DEF Good
  <2> QED BY <1>3, <2>1, <2>2
<1>6. Len(s) - 1 \in Y
  <2>1. Nat \subseteq Y
    <3> HIDE DEF Y
    <3> QED BY <1>4, <1>5, Induction
  <2> HIDE DEF Y
  <2> QED BY <1>1, <2>1
<1>7. Len(s) \in 1 .. Len(s) /\ Good(at[Len(s) - 1])
  BY <1>1, <1>6
<1> HIDE DEF Y
<1> QED BY <1>2, <1>3, <1>7

-----------------------------------------------------------------------------
(* The actions.                                                             *)

\* The files still to write: the last ones of the list.
LEMMA FilesToWrite ==
    LET all == {SubSeq(Files, i, 4) : i \in 1 .. 5}
    IN  /\ Files \in all /\ <<>> \in all
        /\ \A f \in all : f # <<>> => /\ Tail(f) \in all /\ Tail(f) # Files
                                      /\ Head(f) \in DOMAIN EmptyDBs
                                      /\ f = Files <=> Head(f) = "blockchain_db"
<1> DEFINE Rest(i) == SubSeq(Files, i, 4)
<1>1. Files \in Seq(DOMAIN EmptyDBs) /\ Len(Files) = 4
  BY DEF Files, EmptyDBs
<1>2. Rest(1) = Files /\ Rest(5) = <<>>
  <2>1. Rest(1) = Files
    BY <1>1, SubSeqFull
  <2> QED BY <2>1, SubSeqEmpty
<1>3. ASSUME NEW i \in 1 .. 4
      PROVE  /\ Tail(Rest(i)) = Rest(i + 1) /\ Rest(i + 1) # Files
             /\ Head(Rest(i)) \in DOMAIN EmptyDBs
             /\ Rest(i) = Files <=> Head(Rest(i)) = "blockchain_db"
  <2>1. Head(Rest(i)) = Files[i] /\ Tail(Rest(i)) = Rest(i + 1)
    BY <1>1, HeadTailOfSubSeq
  <2>2. Len(Rest(i + 1)) # 4
    BY DEF Files
  <2>3. Files[i] \in DOMAIN EmptyDBs /\ (Files[i] = "blockchain_db" <=> i = 1)
    <3>1. i = 1 \/ i = 2 \/ i = 3 \/ i = 4
      OBVIOUS
    <3> QED BY <3>1 DEF Files, EmptyDBs
  <2> HIDE DEF Rest
  <2>4. Files[1] = "blockchain_db" /\ Head(Files) = Files[1]
    BY DEF Files
  <2> QED BY <1>1, <1>2, <2>1, <2>2, <2>3, <2>4
<1>4. ASSUME NEW f \in {Rest(i) : i \in 1 .. 5}, f # <<>>
      PROVE  \E i \in 1 .. 4 : f = Rest(i) /\ i + 1 \in 1 .. 5
  <2>1. PICK i \in 1 .. 5 : f = Rest(i)
    BY <1>4
  <2> HIDE DEF Rest
  <2>2. i # 5
    BY <1>2, <1>4, <2>1
  <2>3. i \in 1 .. 4 /\ i + 1 \in 1 .. 5
    BY <2>2
  <2> QED BY <2>1, <2>3
<1>5. 1 \in 1 .. 5 /\ 5 \in 1 .. 5
  OBVIOUS
<1>6. ASSUME NEW f \in {Rest(i) : i \in 1 .. 5}, f # <<>>
      PROVE  /\ Tail(f) \in {Rest(i) : i \in 1 .. 5} /\ Tail(f) # Files
             /\ Head(f) \in DOMAIN EmptyDBs
             /\ f = Files <=> Head(f) = "blockchain_db"
  <2>1. PICK i \in 1 .. 4 : f = Rest(i) /\ i + 1 \in 1 .. 5
    BY <1>4, <1>6
  <2> HIDE DEF Rest
  <2> QED BY <1>3, <2>1
<1>7. Files \in {Rest(i) : i \in 1 .. 5} /\ <<>> \in {Rest(i) : i \in 1 .. 5}
  <2> HIDE DEF Rest
  <2> QED BY <1>2, <1>5
<1> QED BY <1>6, <1>7

\* What an action that leaves the databases and the current block alone keeps.
LEMMA QuietStep ==
    ASSUME ChainInv, UNCHANGED <<mem, disk, current>>,
           phase \notin Fatal \cup {"reverting"}, phase' # "reverting",
           phase' = "saving" => files' = Files, Thread'
    PROVE  ChainInv'
<1>1. OnChain
  BY DEF ChainInv, Stuck
<1>2. OnChain'
  BY <1>1 DEF OnChain
<1> QED BY <1>2 DEF ChainInv, Reverting, Saving

\* The actions that leave the databases and the current block alone.
LEMMA QuietActions ==
    ASSUME ChainInv,
           \/ \E blocks \in Batches : ReceiveBlocks(blocks)
           \/ DropBlock \/ EndReceiving \/ EndSaving \/ StartStacking \/ EndStacking
    PROVE  ChainInv'
<1>0. Thread /\ Files \in {SubSeq(Files, i, 4) : i \in 1 .. 5}
  BY FilesToWrite DEF ChainInv
<1>1. ASSUME NEW blocks \in Batches, ReceiveBlocks(blocks) PROVE ChainInv'
  <2>1. blocks \in Seq(Block)
    BY ThreadAssumption
  <2>2. Range(blocks) \subseteq Block
    BY <2>1 DEF Range
  <2>3. Thread'
    BY <1>0, <1>1, <2>1, <2>2 DEF Thread, ReceiveBlocks
  <2> QED BY <1>1, <2>3, QuietStep DEF ReceiveBlocks, Fatal
<1>2. ASSUME DropBlock PROVE ChainInv'
  <2>1. Tail(batch) \in Seq(Block)
    BY <1>0, <1>2 DEF Thread, DropBlock, Handle
  <2>2. Thread'
    BY <1>0, <1>2, <2>1 DEF Thread, DropBlock, Handle
  <2> QED BY <1>2, <2>2, QuietStep DEF DropBlock, Handle, Fatal
<1>3. ASSUME EndReceiving PROVE ChainInv'
  <2>1. Thread'
    BY <1>0, <1>3 DEF Thread, EndReceiving
  <2> QED BY <1>3, <2>1, QuietStep DEF EndReceiving, Fatal
<1>4. ASSUME EndSaving PROVE ChainInv'
  <2>1. phase' \in {"idle", "receiving", "branch_block_lost"} /\ branch' = <<>>
    BY <1>4 DEF EndSaving
  <2>2. Thread'
    BY <1>0, <1>4, <2>1 DEF Thread, EndSaving, Fatal
  <2> QED BY <1>4, <2>1, <2>2, QuietStep DEF EndSaving, Fatal
<1>5. ASSUME StartStacking PROVE ChainInv'
  <2>1. Thread'
    BY <1>0, <1>5 DEF Thread, StartStacking
  <2> QED BY <1>5, <2>1, QuietStep DEF StartStacking, Fatal
<1>6. ASSUME EndStacking PROVE ChainInv'
  <2>1. Thread'
    BY <1>0, <1>6 DEF Thread, EndStacking
  <2> QED BY <1>6, <2>1, QuietStep DEF EndStacking, Fatal
<1> QED BY <1>1, <1>2, <1>3, <1>4, <1>5, <1>6

\* A block is put on the current one, or the process dies of having no place for it.
LEMMA HeadStacked ==
    ASSUME ChainInv, phase \in {"receiving", "stacking"}, UNCHANGED disk, Thread',
           NEW b \in Block, CheckBlock(mem, current, b) = "valid",
           \/ /\ HeadWritable(mem, b)
              /\ mem' = WriteHead(mem, b) /\ current' = b /\ phase' = phase
           \/ mem' = mem /\ phase' = "no_previous_block_in_main_branch"
    PROVE  ChainInv'
<1>1. OnChain /\ Sound(mem) /\ current \in Block \cup {NoBlock}
  BY DEF ChainInv, Stuck, Fatal, Thread
<1>2. CASE /\ HeadWritable(mem, b)
           /\ mem' = WriteHead(mem, b) /\ current' = b /\ phase' = phase
  <2>1. /\ Sound(mem') /\ MainIn(mem'.fork_tree_db, mem'.blockchain_db)
        /\ HeadOn(mem'.blockchain_db, b) /\ Extends(mem'.blockchain_db, mem.blockchain_db)
    BY <1>1, <1>2, WriteHeadKeeps DEF OnChain
  <2>2. OnChain'
    BY <1>1, <1>2, <2>1 DEF OnChain, Extends
  <2> QED BY <1>2, <2>1, <2>2 DEF ChainInv, Reverting, Saving
<1>3. CASE mem' = mem /\ phase' = "no_previous_block_in_main_branch"
  BY <1>3 DEF ChainInv, Fatal, Reverting, Saving
<1> QED BY <1>2, <1>3

\* A block that follows the current one.
LEMMA StackUpBlockKeeps ==
    ASSUME ChainInv, StackUpBlock
    PROVE  ChainInv'
<1>1. Thread
  BY DEF ChainInv
<1>2. Head(batch) \in Block /\ Tail(batch) \in Seq(Block)
  BY <1>1 DEF Thread, StackUpBlock, Handle
<1>3. Thread'
  BY <1>1, <1>2 DEF Thread, StackUpBlock, Handle, Fatal
<1> QED BY <1>2, <1>3, HeadStacked DEF StackUpBlock, Handle

\* An orphan that follows it.
LEMMA StackOrphanKeeps ==
    ASSUME ChainInv, StackOrphan
    PROVE  ChainInv'
<1>1. Thread /\ OrphansOK(mem.orphan_blocks_db)
  BY DEF ChainInv, Sound
<1>2. PICK i \in DOMAIN Stackables :
         /\ Stackable(i)
         /\ IF HeadWritable(mem, Stackables[i])
            THEN mem' = WriteHead(mem, Stackables[i]) /\ current' = Stackables[i] /\ UNCHANGED phase
            ELSE phase' = "no_previous_block_in_main_branch" /\ UNCHANGED <<mem, current>>
  BY DEF StackOrphan
<1>3. Stackables[i] \in Block
  BY <1>1, WaitingFollow DEF Thread, OrphansOK, Stackables
<1>4. Thread'
  BY <1>1, <1>2, <1>3 DEF Thread, StackOrphan, Fatal
<1> QED BY <1>2, <1>3, <1>4, HeadStacked DEF StackOrphan, Stackable

\* A block whose predecessor is missing.
LEMMA KeepOrphanKeeps ==
    ASSUME ChainInv, KeepOrphan
    PROVE  ChainInv'
<1>1. Thread /\ Sound(mem) /\ OnChain
  BY DEF ChainInv, Stuck, Fatal, KeepOrphan, Handle
<1>2. Head(batch) \in Block /\ Tail(batch) \in Seq(Block)
  BY <1>1 DEF Thread, KeepOrphan, Handle
<1>3. Thread'
  BY <1>1, <1>2 DEF Thread, KeepOrphan, Handle
<1>4. ~AlreadyHave(mem, Head(batch))
  BY Verdicts DEF KeepOrphan, Handle
<1>5. /\ Sound(mem') /\ mem'.blockchain_db = mem.blockchain_db
      /\ mem'.fork_tree_db = mem.fork_tree_db
  BY <1>1, <1>2, <1>4, StoreOrphanKeeps DEF KeepOrphan
<1>6. OnChain' /\ phase' = "receiving" /\ disk' = disk
  BY <1>1, <1>5 DEF OnChain, KeepOrphan, Handle
<1> QED BY <1>3, <1>5, <1>6 DEF ChainInv, Reverting, Saving

\* A block of a fork, and the fork resolution that follows: a branch to switch to
\* has blocks, and so has the tree it was found in.
LEMMA KeepForkBlockKeeps ==
    ASSUME ChainInv, KeepForkBlock
    PROVE  ChainInv'
<1> DEFINE d == StoreFork(mem, Head(batch))
<1>1. Thread /\ Sound(mem) /\ OnChain
  BY DEF ChainInv, Stuck, Fatal, KeepForkBlock, Handle
<1>2. Head(batch) \in Block /\ Tail(batch) \in Seq(Block)
  BY <1>1 DEF Thread, KeepForkBlock, Handle
<1>3. ForkParentExists(mem.fork_tree_db, Head(batch))
  BY Verdicts DEF KeepForkBlock, Handle
<1>4. /\ Sound(d) /\ d.blockchain_db = mem.blockchain_db
      /\ \A c : MainIn(mem.fork_tree_db, c) => MainIn(d.fork_tree_db, c)
  BY <1>1, <1>2, <1>3, StoreForkKeeps
<1>5. mem' = d /\ disk' = disk /\ current' = current
  BY DEF KeepForkBlock, Handle
<1>6. OnChain'
  BY <1>1, <1>4, <1>5 DEF OnChain
<1>7. \/ phase' \in Fatal \cup {"receiving"} /\ branch' = branch
      \/ \E id \in LastVisited(d, current, invalid_forks) :
            /\ current \in d.fork_blocks_db /\ ~Unvisitable(d, id)
            /\ phase' = "reverting" /\ branch' = BranchTo(d, id)
  BY DEF KeepForkBlock, Handle, Fatal
<1> HIDE DEF d
<1>8. CASE phase' \in Fatal \cup {"receiving"} /\ branch' = branch
  <2>1. Thread'
    BY <1>1, <1>2, <1>8 DEF Thread, KeepForkBlock, Handle
  <2> QED BY <1>4, <1>5, <1>6, <1>8, <2>1 DEF ChainInv, Reverting, Saving, Fatal
<1>9. CASE \E id \in LastVisited(d, current, invalid_forks) :
              /\ current \in d.fork_blocks_db /\ ~Unvisitable(d, id)
              /\ phase' = "reverting" /\ branch' = BranchTo(d, id)
  <2>1. PICK id \in LastVisited(d, current, invalid_forks) :
              /\ current \in d.fork_blocks_db /\ ~Unvisitable(d, id)
              /\ phase' = "reverting" /\ branch' = BranchTo(d, id)
    BY <1>9
  <2>2. current \in Block
    BY <1>4, <2>1 DEF Sound
  <2>3. id \in LiveNodes(d.fork_tree_db) /\ WellFormed(d.fork_tree_db)
    BY <1>4 DEF LastVisited, SheetsToVisit, Sound, TreeInv, WellFormed
  <2>4. branch' \in Seq(Block) /\ branch' # <<>>
    BY <2>1, <2>3, BranchOfBlocks DEF BranchTo, Unvisitable
  <2>5. Thread'
    BY <1>1, <1>2, <2>1, <2>4 DEF Thread, KeepForkBlock, Handle
  <2>6. \A n \in DOMAIN mem'.blockchain_db : n <= Number[current]
    BY <1>1, <1>4, <1>5, <2>2 DEF OnChain, HeadOn
  <2>7. Reverting' /\ Saving'
    BY <1>5, <2>1, <2>2, <2>3, <2>4, <2>6 DEF Reverting, Saving
  <2> QED BY <1>4, <1>5, <1>6, <2>5, <2>7 DEF ChainInv
<1> QED BY <1>7, <1>8, <1>9

\* A chain without its head.
LEMMA ChainShrinks ==
    ASSUME NEW c, Chained(c), NEW top \in Nat, \A n \in DOMAIN c : n <= top
    PROVE  LET e == Restrict(c, DOMAIN c \ {top})
           IN  Chained(e) /\ \A n \in DOMAIN e : n <= top
<1> DEFINE e == Restrict(c, DOMAIN c \ {top})
<1>1. PICK len \in Nat : DOMAIN c = 0 .. (len - 1)
  BY DEF Chained
<1>2. DOMAIN e = DOMAIN c \ {top} /\ \A n \in DOMAIN e : e[n] = c[n]
  BY DEF Restrict
<1>3. e = [n \in DOMAIN e |-> e[n]]
  BY DEF Restrict
<1> HIDE DEF e
<1>4. \E l \in Nat : DOMAIN e = 0 .. (l - 1)
  <2>1. CASE top \in DOMAIN c
    <3>1. top = len - 1
      <4>1. len - 1 \in DOMAIN c
        BY <1>1, <2>1
      <4>2. len - 1 <= top
        BY <4>1
      <4>3. top <= len - 1
        BY <1>1, <2>1
      <4> QED BY <4>2, <4>3
    <3>2. DOMAIN e = 0 .. (top - 1)
      BY <1>1, <1>2, <3>1
    <3> QED BY <3>2
  <2>2. CASE top \notin DOMAIN c
    BY <1>1, <1>2, <2>2
  <2> QED BY <2>1, <2>2
<1>5. \A n \in DOMAIN e : n \in DOMAIN c /\ n \in Nat /\ (n > 0 => n - 1 \in DOMAIN e)
  BY <1>1, <1>2
<1>6. ASSUME NEW n \in DOMAIN e
      PROVE  /\ Number[e[n]] = n /\ e[n] \notin Refused \cup Forged
             /\ n > 0 => Previous[e[n]] = e[n - 1]
  BY <1>2, <1>5 DEF Chained
<1>7. e \in [DOMAIN e -> Block]
  <2>1. \A n \in DOMAIN e : e[n] \in Block
    BY <1>2, <1>5 DEF Chained
  <2> QED BY <1>3, <2>1
<1> QED BY <1>2, <1>4, <1>5, <1>6, <1>7 DEF Chained, e

\* The head of the chain is reverted; the loop is where it was.
LEMMA RevertCurrentBlockKeeps ==
    ASSUME ChainInv, RevertCurrentBlock
    PROVE  ChainInv'
<1>1. Thread /\ Sound(mem) /\ phase = "reverting" /\ Reverting
  BY DEF ChainInv, RevertCurrentBlock
<1>2. Number[current] \in Nat /\ \A n \in DOMAIN mem.blockchain_db : n <= Number[current]
  BY <1>1, BlockAssumption DEF Reverting
<1>3. Number[current] > Number[branch[1]] /\ UNCHANGED <<disk, current, branch>>
  BY DEF RevertCurrentBlock, LastCommonBlockNumber
<1>4. CASE phase' \in Fatal /\ UNCHANGED mem
  <2>1. Thread'
    BY <1>1, <1>4 DEF Thread, RevertCurrentBlock
  <2> QED BY <1>3, <1>4, <2>1 DEF ChainInv, Reverting, Saving, Fatal
<1>5. CASE /\ mem' = [mem EXCEPT !.blockchain_db = Restrict(@, DOMAIN @ \ {Number[current]})]
           /\ UNCHANGED phase
  <2>1. /\ DOMAIN mem' = DOMAIN mem
        /\ mem'.blockchain_db = Restrict(mem.blockchain_db, DOMAIN mem.blockchain_db \ {Number[current]})
        /\ mem'.fork_tree_db = mem.fork_tree_db /\ mem'.fork_blocks_db = mem.fork_blocks_db
        /\ mem'.orphan_blocks_db = mem.orphan_blocks_db
    BY <1>1, <1>5 DEF Sound, EmptyDBs
  <2>2. Chained(mem'.blockchain_db) /\ \A n \in DOMAIN mem'.blockchain_db : n <= Number[current]
    BY <1>1, <1>2, <2>1, ChainShrinks DEF Sound
  <2>3. Sound(mem')
    BY <1>1, <2>1, <2>2 DEF Sound
  <2>4. Thread'
    BY <1>1, <1>5 DEF Thread, RevertCurrentBlock
  <2>5. Reverting' /\ Stuck' /\ Saving'
    BY <1>1, <1>3, <1>5, <2>1, <2>2 DEF Reverting, Stuck, Saving
  <2> QED BY <1>3, <2>3, <2>4, <2>5 DEF ChainInv
<1> QED BY <1>4, <1>5 DEF RevertCurrentBlock, Fatal

\* The branch is applied, or the databases are read again from their files.
LEMMA ApplyNewBranchKeeps ==
    ASSUME ChainInv, ApplyNewBranch
    PROVE  ChainInv'
<1> DEFINE start == [dbs |-> mem, at |-> current, result |-> "applied", bad |-> {}]
           q == ApplyBlocks(start, branch)
<1>1. /\ Thread /\ Sound(mem) /\ Sound(disk) /\ phase = "reverting" /\ Reverting
      /\ MainIn(disk.fork_tree_db, disk.blockchain_db)
  BY DEF ChainInv, ApplyNewBranch
<1>2. OnChain
  <2>1. branch[1] \in Block
    BY <1>1 DEF Reverting, Thread
  <2>2. Number[current] \in Nat /\ Number[branch[1]] \in Nat
    BY <1>1, <2>1, BlockAssumption DEF Reverting
  <2>3. Number[current] <= Number[branch[1]]
    BY DEF ApplyNewBranch, LastCommonBlockNumber
  <2> QED BY <1>1, <2>2, <2>3 DEF ChainInv, Stuck, Fatal
<1>3. RunOK(start) /\ start.dbs = mem
  BY <1>1, <1>2 DEF RunOK, Reverting, OnChain
<1>4. /\ RunOK(q) /\ Extends(q.dbs.blockchain_db, mem.blockchain_db)
      /\ q.result = "applied" => q.at \in Block /\ Topped(q.dbs.fork_tree_db, q.at)
  <2> HIDE DEF start
  <2> QED BY <1>1, <1>3, BranchApplied DEF Thread, Reverting
<1>5. q = AppliedBranch
  BY DEF AppliedBranch
<1> HIDE DEF q, start
<1>6. current' = q.at /\ invalid_forks' = invalid_forks \cup q.bad /\ UNCHANGED disk
  BY <1>5 DEF ApplyNewBranch
<1>7. Extends(q.dbs.blockchain_db, disk.blockchain_db)
  BY <1>2, <1>4 DEF OnChain, Extends
<1>8. Files \in {SubSeq(Files, i, 4) : i \in 1 .. 5}
  BY FilesToWrite
<1>9. CASE q.result = "applied" /\ SwitchAborts(q.dbs, q.at)
  <2>1. phase' = "removed_node_or_block" /\ UNCHANGED <<mem, files, branch>>
    BY <1>5, <1>9 DEF ApplyNewBranch
  <2>2. Thread'
    BY <1>1, <1>4, <1>6, <2>1 DEF Thread, ApplyNewBranch, RunOK, Fatal
  <2> QED BY <1>1, <1>6, <2>1, <2>2 DEF ChainInv, Reverting, Saving, Fatal
<1>10. CASE q.result = "applied" /\ ~SwitchAborts(q.dbs, q.at)
  <2> DEFINE d == q.dbs
             t == d.fork_tree_db
             b == q.at
             v == ChangeMainBranch(t, current, b)
  <2>1. /\ mem' = SwitchMainBranch(d, current, b)
        /\ phase' = "saving" /\ files' = Files /\ UNCHANGED branch
    BY <1>5, <1>10 DEF ApplyNewBranch
  <2>2. /\ b \in Block /\ Topped(t, b) /\ Sound(d) /\ MainIn(t, d.blockchain_db)
        /\ HeadOn(d.blockchain_db, b)
    BY <1>4, <1>10 DEF RunOK
  <2>3. ~WalkAborts(t, FindNodeWithBlockstamp(t, b))
    BY <1>10 DEF SwitchAborts
  <2> HIDE DEF t, b, d
  <2>4. OffMainNodes(t, FindNodeWithBlockstamp(t, b)) = <<>>
    BY <2>2, <2>3, HeadWalk DEF Topped, Sound, t
  <2>5. \A n \in DOMAIN t.main_branch : n <= Number[b]
    BY <2>2 DEF MainIn, HeadOn, Topped
  <2>6. /\ TreeInv(v) /\ Hung(v) /\ DOMAIN v.main_branch = DOMAIN t.main_branch
        /\ \A n \in DOMAIN t.main_branch : MainBlock(v, n) = MainBlock(t, n)
    BY <2>2, <2>4, <2>5, SwitchKeeps DEF Topped, Sound, t
  <2>7. /\ DOMAIN mem' = DOMAIN d /\ mem'.blockchain_db = d.blockchain_db
        /\ mem'.fork_tree_db = v /\ mem'.orphan_blocks_db = d.orphan_blocks_db
        /\ mem'.fork_blocks_db \subseteq d.fork_blocks_db
    BY <2>1, <2>2 DEF SwitchMainBranch, Sound, EmptyDBs, t
  <2> HIDE DEF v
  <2>8. Sound(mem')
    BY <2>2, <2>6, <2>7 DEF Sound
  <2>9. MainIn(mem'.fork_tree_db, mem'.blockchain_db)
    BY <2>2, <2>6, <2>7 DEF MainIn
  <2>10. OnChain'
    BY <1>6, <1>7, <2>2, <2>7, <2>9 DEF OnChain, d, b
  <2>11. Thread'
    BY <1>1, <1>4, <1>6, <1>8, <2>1 DEF Thread, ApplyNewBranch, RunOK
  <2> QED BY <1>1, <1>6, <2>1, <2>8, <2>10, <2>11 DEF ChainInv, Reverting, Saving
<1>11. CASE q.result = "invalid"
  <2>1. mem' = disk /\ phase' = "receiving" /\ branch' = <<>> /\ UNCHANGED files
    BY <1>5, <1>11 DEF ApplyNewBranch, OpenDBs
  <2>2. HeadOn(disk.blockchain_db, q.at)
    BY <1>4, <1>7 DEF RunOK, HeadOn, Extends
  <2>3. OnChain'
    BY <1>1, <1>6, <2>1, <2>2 DEF OnChain, Extends
  <2>4. Thread'
    BY <1>1, <1>4, <1>6, <2>1 DEF Thread, ApplyNewBranch, RunOK
  <2> QED BY <1>1, <1>6, <2>1, <2>3, <2>4 DEF ChainInv, Reverting, Saving
<1>12. CASE q.result \notin {"applied", "invalid"}
  <2>1. phase' = q.result /\ UNCHANGED <<mem, files, branch>>
    BY <1>5, <1>12 DEF ApplyNewBranch
  <2>2. phase' \in Fatal
    BY <1>4, <1>12, <2>1 DEF RunOK, Fatal
  <2>3. Thread'
    BY <1>1, <1>4, <1>6, <2>1, <2>2 DEF Thread, ApplyNewBranch, RunOK
  <2> QED BY <1>1, <1>6, <2>1, <2>2, <2>3 DEF ChainInv, Reverting, Saving, Fatal
<1> QED BY <1>9, <1>10, <1>11, <1>12

\* One file of a save: the block-chain first, so that the tree file comes to lie
\* under a block-chain file it belongs to.
LEMMA SaveFileKeeps ==
    ASSUME ChainInv, SaveFile
    PROVE  ChainInv'
<1> DEFINE f == Head(files)
<1>1. Thread /\ Sound(mem) /\ Sound(disk) /\ MainIn(disk.fork_tree_db, disk.blockchain_db) /\ Saving
  BY DEF ChainInv
<1>2. phase = "saving" /\ files # <<>> /\ UNCHANGED <<mem, current, phase>>
  BY DEF SaveFile
<1>3. OnChain
  BY <1>2 DEF ChainInv, Stuck, Fatal
<1>4. /\ Tail(files) \in {SubSeq(Files, i, 4) : i \in 1 .. 5} /\ Tail(files) # Files
      /\ f \in DOMAIN EmptyDBs /\ (files = Files <=> f = "blockchain_db")
  BY <1>1, <1>2, FilesToWrite DEF Thread
<1>5. disk' = [disk EXCEPT ![f] = mem[f]] /\ files' = Tail(files)
  BY DEF SaveFile
<1> HIDE DEF f
<1>6. Thread'
  BY <1>1, <1>4, <1>5 DEF Thread, SaveFile
<1>7. /\ DOMAIN disk' = DOMAIN EmptyDBs /\ DOMAIN mem = DOMAIN EmptyDBs
      /\ \A g \in DOMAIN EmptyDBs : disk'[g] = IF g = f THEN mem[g] ELSE disk[g]
  BY <1>1, <1>4, <1>5 DEF Sound
<1>8. /\ disk'.blockchain_db = IF f = "blockchain_db" THEN mem.blockchain_db ELSE disk.blockchain_db
      /\ disk'.fork_tree_db = IF f = "fork_tree_db" THEN mem.fork_tree_db ELSE disk.fork_tree_db
      /\ disk'.fork_blocks_db = IF f = "fork_blocks_db" THEN mem.fork_blocks_db ELSE disk.fork_blocks_db
      /\ disk'.orphan_blocks_db = IF f = "orphan_blocks_db" THEN mem.orphan_blocks_db
                                                             ELSE disk.orphan_blocks_db
  BY <1>7 DEF EmptyDBs
<1>9. Sound(disk')
  BY <1>1, <1>7, <1>8 DEF Sound
<1>10. disk'.blockchain_db = mem.blockchain_db
  BY <1>1, <1>2, <1>4, <1>8 DEF Saving
<1>11. MainIn(disk'.fork_tree_db, disk'.blockchain_db)
  <2>1. MainIn(mem.fork_tree_db, mem.blockchain_db) /\ Extends(mem.blockchain_db, disk.blockchain_db)
    BY <1>3 DEF OnChain
  <2>2. MainIn(disk.fork_tree_db, mem.blockchain_db)
    BY <1>1, <2>1 DEF MainIn, Extends
  <2> QED BY <1>8, <1>10, <2>1, <2>2
<1>12. OnChain'
  BY <1>2, <1>3, <1>10 DEF OnChain, Extends
<1>13. Reverting' /\ Saving'
  BY <1>2, <1>10 DEF Reverting, Saving
<1> QED BY <1>1, <1>2, <1>6, <1>9, <1>11, <1>12, <1>13 DEF ChainInv

\* A restart finds the files, and the last block of the block-chain file.
LEMMA RestartKeeps ==
    ASSUME ChainInv, Restart
    PROVE  ChainInv'
<1>1. Thread /\ Sound(disk) /\ MainIn(disk.fork_tree_db, disk.blockchain_db)
  BY DEF ChainInv
<1>2. mem' = disk /\ disk' = disk /\ phase' = "idle" /\ current' = StoredCurrent(disk)
  BY DEF Restart, OpenDBs
<1> DEFINE c == disk.blockchain_db
           last == Cardinality(DOMAIN c) - 1
<1>3. Chained(c) /\ Linked(c) /\ IsFiniteSet(DOMAIN c)
  BY <1>1, ChainedIsLinked DEF Sound
<1>4. DOMAIN c = 0 .. last /\ last \in Int /\ last + 1 \in Nat
  BY <1>3, FS_CardinalityType DEF Linked
<1>5. StoredCurrent(disk) = IF last \in DOMAIN c THEN c[last] ELSE NoBlock
  BY DEF StoredCurrent
<1> HIDE DEF c, last
<1>6. StoredCurrent(disk) \in Block \cup {NoBlock} /\ HeadOn(c, StoredCurrent(disk))
  <2>1. CASE last \in DOMAIN c
    <3>1. c[last] \in Block /\ Number[c[last]] = last /\ \A n \in DOMAIN c : n <= last
      BY <1>3, <1>4, <2>1 DEF Chained
    <3> QED BY <1>5, <2>1, <3>1 DEF HeadOn
  <2>2. CASE last \notin DOMAIN c
    <3>1. DOMAIN c = {}
      BY <1>4, <2>2
    <3> QED BY <1>5, <2>2, <3>1 DEF HeadOn
  <2> QED BY <2>1, <2>2
<1>7. OnChain'
  BY <1>1, <1>2, <1>6 DEF OnChain, Extends, c
<1>8. Thread'
  <2>1. crashes' \in 0 .. MaxCrashes
    BY <1>1, ThreadAssumption DEF Thread, Restart
  <2>2. <<>> \in {SubSeq(Files, i, 4) : i \in 1 .. 5}
    BY FilesToWrite
  <2>3. <<>> \in Seq(Block)
    OBVIOUS
  <2> QED BY <1>1, <1>2, <1>6, <2>1, <2>2, <2>3 DEF Thread, Restart
<1> QED BY <1>1, <1>2, <1>7, <1>8 DEF ChainInv, Reverting, Saving

-----------------------------------------------------------------------------
(* The theorems.                                                            *)

\* The databases of a node that starts for the first time.
LEMMA EmptySound ==
    /\ Sound(EmptyDBs) /\ EmptyDBs.blockchain_db = [n \in {} |-> NoBlock]
    /\ DOMAIN EmptyDBs.blockchain_db = {} /\ DOMAIN EmptyDBs.fork_tree_db.main_branch = {}
<1>1. /\ EmptyDBs.blockchain_db = [n \in {} |-> NoBlock] /\ EmptyDBs.fork_tree_db = EmptyTree
      /\ EmptyDBs.fork_blocks_db = {} /\ EmptyDBs.orphan_blocks_db = [b \in {} |-> <<>>]
  BY DEF EmptyDBs
<1>2. /\ LiveNodes(EmptyTree) = {} /\ EmptyTree.allocated = 0 /\ EmptyTree.root = NoNode
      /\ DOMAIN EmptyTree.main_branch = {} /\ EmptyTree.sheets = {}
      /\ EmptyTree.removed_blockstamps = {}
      /\ EmptyTree.nodes = [i \in {} |-> NoNode] /\ EmptyTree.main_branch = [n \in {} |-> NoNode]
  BY DEF EmptyTree, LiveNodes
<1>3. TreeInv(EmptyTree) /\ Hung(EmptyTree)
  BY <1>2 DEF TreeInv, WellFormed, MainChain, RootDetached, SheetsChildless, Hung
<1>4. Chained([n \in {} |-> NoBlock])
  <2>1. 0 \in Nat /\ 0 .. (0 - 1) = {}
    OBVIOUS
  <2>2. DOMAIN [n \in {} |-> NoBlock] = {}
    OBVIOUS
  <2>3. [n \in {} |-> NoBlock] \in [{} -> Block]
    OBVIOUS
  <2> QED BY <2>1, <2>2, <2>3 DEF Chained
<1>5. OrphansOK([b \in {} |-> <<>>])
  BY DEF OrphansOK, Waits
<1> QED BY <1>1, <1>2, <1>3, <1>4, <1>5 DEF Sound

\* The first state.
LEMMA ChainInvInit == Init => ChainInv
<1> SUFFICES ASSUME Init PROVE ChainInv
  OBVIOUS
<1>1. /\ Sound(mem) /\ Sound(disk)
      /\ DOMAIN mem.blockchain_db = {} /\ DOMAIN disk.blockchain_db = {}
      /\ DOMAIN mem.fork_tree_db.main_branch = {} /\ DOMAIN disk.fork_tree_db.main_branch = {}
  BY EmptySound DEF Init
<1>2. OnChain /\ MainIn(disk.fork_tree_db, disk.blockchain_db)
  BY <1>1 DEF OnChain, Extends, MainIn, HeadOn
<1>3. Thread
  <2>1. 0 \in 0 .. MaxCrashes /\ <<>> \in Seq(Block)
    BY ThreadAssumption
  <2>2. <<>> \in {SubSeq(Files, i, 4) : i \in 1 .. 5}
    BY FilesToWrite
  <2> QED BY <2>1, <2>2 DEF Thread, Init
<1> QED BY <1>1, <1>2, <1>3 DEF ChainInv, Reverting, Saving, Init

\* Every step.
LEMMA ChainInvNext == ChainInv /\ [Next]_vars => ChainInv'
<1> SUFFICES ASSUME ChainInv, [Next]_vars PROVE ChainInv'
  OBVIOUS
<1>1. CASE \/ \E blocks \in Batches : ReceiveBlocks(blocks)
           \/ DropBlock \/ EndReceiving \/ EndSaving \/ StartStacking \/ EndStacking
  BY <1>1, QuietActions
<1>2. CASE StackUpBlock
  BY <1>2, StackUpBlockKeeps
<1>3. CASE KeepOrphan
  BY <1>3, KeepOrphanKeeps
<1>4. CASE KeepForkBlock
  BY <1>4, KeepForkBlockKeeps
<1>5. CASE RevertCurrentBlock
  BY <1>5, RevertCurrentBlockKeeps
<1>6. CASE ApplyNewBranch
  BY <1>6, ApplyNewBranchKeeps
<1>7. CASE SaveFile
  BY <1>7, SaveFileKeeps
<1>8. CASE StackOrphan
  BY <1>8, StackOrphanKeeps
<1>9. CASE Restart
  BY <1>9, RestartKeeps
<1>10. CASE UNCHANGED vars
  BY <1>10 DEF vars, ChainInv, Thread, OnChain, Stuck, Reverting, Saving
<1> QED BY <1>1, <1>2, <1>3, <1>4, <1>5, <1>6, <1>7, <1>8, <1>9, <1>10 DEF Next, Work

\* The invariant of the block-chain module.
THEOREM ChainInvAlways == Spec => []ChainInv
BY ChainInvInit, ChainInvNext, PTL DEF Spec

\* The variables keep their types; so do the databases that a torn save, a failing
\* rollback or a restart leave behind.
THEOREM DatabasesTyped == Spec => []TypeOK
<1>1. ASSUME NEW d, Sound(d)
      PROVE  /\ DOMAIN d.blockchain_db \subseteq Nat
             /\ d.blockchain_db \in [DOMAIN d.blockchain_db -> Block]
             /\ d.fork_blocks_db \subseteq Block
             /\ DOMAIN d.orphan_blocks_db \subseteq Block \cup {NoBlock}
             /\ d.orphan_blocks_db \in [DOMAIN d.orphan_blocks_db -> Seq(Block)]
             /\ WellFormed(d.fork_tree_db)
  <2>1. DOMAIN d.blockchain_db \subseteq Nat
    BY <1>1, ChainedIsLinked DEF Sound
  <2> QED BY <1>1, <2>1 DEF Sound, Chained, OrphansOK, TreeInv
<1>2. ChainInv => TypeOK
  BY <1>1 DEF ChainInv, Thread, TypeOK
<1> QED BY <1>2, ChainInvAlways, PTL

\* The chain of the block-chain runs without a gap in memory and in the file, the
\* main branch of the tree is a chain of nodes that are still there, and the tree
\* file is never ahead of the block-chain file: in the middle of a save, of a
\* rollback and after every crash.
THEOREM ChainsAlwaysSurvive == Spec => []ChainsSurvive
<1>1. ChainInv => ChainsSurvive
  <2> SUFFICES ASSUME ChainInv PROVE ChainsSurvive
    OBVIOUS
  <2>1. ChainLinked
    BY ChainedIsLinked DEF ChainInv, Sound, ChainLinked
  <2>2. TreeStaysChain
    BY DEF ChainInv, Sound, TreeInv, TreeStaysChain
  <2>3. TreeFileNotAhead
    BY DEF ChainInv, MainIn, TreeFileNotAhead
  <2> QED BY <2>1, <2>2, <2>3 DEF ChainsSurvive
<1> QED BY <1>1, ChainInvAlways, PTL

\* A step writes the block-chain file only with a chain that has what it has.
LEMMA FileExtends ==
    ASSUME ChainInv, [Next]_vars
    PROVE  Extends(disk'.blockchain_db, disk.blockchain_db)
<1>1. CASE SaveFile
  <2>1. OnChain
    BY <1>1 DEF ChainInv, Stuck, Fatal, SaveFile
  <2>2. DOMAIN disk = DOMAIN EmptyDBs
    BY DEF ChainInv, Sound
  <2>3. \/ disk'.blockchain_db = mem.blockchain_db
        \/ disk'.blockchain_db = disk.blockchain_db
    BY <1>1, <2>2 DEF SaveFile, EmptyDBs
  <2> QED BY <2>1, <2>3 DEF OnChain, Extends
<1>2. CASE ~SaveFile
  <2>1. disk' = disk
    BY <1>2 DEF Next, Work, vars, ReceiveBlocks, StackUpBlock, DropBlock, KeepOrphan,
                KeepForkBlock, Handle, EndReceiving, RevertCurrentBlock, ApplyNewBranch,
                EndSaving, StartStacking, StackOrphan, EndStacking, Restart
  <2> QED BY <2>1 DEF Extends
<1> QED BY <1>1, <1>2

\* Once written, no block of the block-chain file is replaced or disappears, buried
\* or not: a rollback that would replace one never leaves its loop.
THEOREM ChainFileOnlyGrows ==
    Spec => [][Extends(disk'.blockchain_db, disk.blockchain_db)]_vars
<1>1. ChainInv /\ [Next]_vars => [Extends(disk'.blockchain_db, disk.blockchain_db)]_vars
  BY FileExtends
<1> QED BY <1>1, ChainInvAlways, PTL DEF Spec

\* A block below the fork window of the file stays where it is.
THEOREM BuriedBlocksAlwaysStay == Spec => BuriedBlocksStay
<1>1. ChainInv /\ [Next]_vars =>
          [\A n \in DOMAIN disk.blockchain_db :
              n + FORK_WINDOW_SIZE <= Cardinality(DOMAIN disk.blockchain_db) =>
                 /\ n \in DOMAIN disk'.blockchain_db
                 /\ disk'.blockchain_db[n] = disk.blockchain_db[n]]_vars
  BY FileExtends DEF Extends
<1> QED BY <1>1, ChainInvAlways, PTL DEF Spec, BuriedBlocksStay

\* A block waits at most once for its predecessor, and under its predecessor,
\* however often it is sent, and after every restart.
THEOREM OrphansWaitOnce == Spec => []WaitsOnce
<1>1. ChainInv => WaitsOnce
  <2> SUFFICES ASSUME ChainInv, NEW b \in DOMAIN mem.orphan_blocks_db
               PROVE  /\ \A i, j \in DOMAIN WaitingFor(mem, b) :
                            WaitingFor(mem, b)[i] = WaitingFor(mem, b)[j] => i = j
                      /\ \A i \in DOMAIN WaitingFor(mem, b) : Previous[WaitingFor(mem, b)[i]] = b
    BY DEF WaitsOnce
  <2>1. WaitingFor(mem, b) = mem.orphan_blocks_db[b]
    BY DEF WaitingFor
  <2>2. /\ IsInjective(mem.orphan_blocks_db[b])
        /\ \A i \in DOMAIN mem.orphan_blocks_db[b] : Previous[mem.orphan_blocks_db[b][i]] = b
    BY DEF ChainInv, Sound, OrphansOK, Waits
  <2> QED BY <2>1, <2>2 DEF IsInjective
<1> QED BY <1>1, ChainInvAlways, PTL

-----------------------------------------------------------------------------
(* The head, when no crash falls between the files of a save.               *)

\* There is a current block when there is a chain, and it is in the chain.
Headed(c, b) ==
    IF DOMAIN c = {} THEN b = NoBlock ELSE b # NoBlock /\ Number[b] \in DOMAIN c

\* The window of the tree follows the head of the chain, and the cached head is on
\* it unless a branch failed since the start: the databases are read again then,
\* and the cached head is not.
HeadInv ==
    /\ phase \notin Fatal /\ ~Stuck =>
          /\ Windowed(mem)
          /\ invalid_forks = {} => Headed(mem.blockchain_db, current)
    /\ files \in {<<>>, Files} => Windowed(disk)
    /\ phase = "saving" => \A f \in DOMAIN EmptyDBs \ Range(files) : disk[f] = mem[f]
    /\ phase # "saving" => files = <<>>

\* The first state: no chain, no window, no head.
LEMMA HeadInvInit == Init => HeadInv
<1> SUFFICES ASSUME Init PROVE HeadInv
  OBVIOUS
<1>1. DOMAIN EmptyDBs.blockchain_db = {} /\ DOMAIN EmptyDBs.fork_tree_db.main_branch = {}
  BY EmptySound
<1>2. Windowed(mem) /\ Windowed(disk) /\ Headed(mem.blockchain_db, current)
  BY <1>1 DEF Init, Windowed, Headed
<1> QED BY <1>2 DEF Init, HeadInv

\* A save writes every database.
LEMMA AllFiles == DOMAIN EmptyDBs \subseteq Range(Files)
<1>1. Files \in Seq(DOMAIN EmptyDBs) /\ Len(Files) = 4
  BY DEF Files, EmptyDBs
<1>2. /\ Files[1] = "blockchain_db" /\ Files[2] = "fork_tree_db"
      /\ Files[3] = "fork_blocks_db" /\ Files[4] = "orphan_blocks_db"
  BY DEF Files
<1>3. 1 \in DOMAIN Files /\ 2 \in DOMAIN Files /\ 3 \in DOMAIN Files /\ 4 \in DOMAIN Files
  BY <1>1
<1>4. DOMAIN EmptyDBs = {"blockchain_db", "fork_tree_db", "fork_blocks_db", "orphan_blocks_db"}
  BY DEF EmptyDBs
<1> QED BY <1>2, <1>3, <1>4 DEF Range

\* What an action that moves neither the databases nor the head keeps.
LEMMA HeadQuiet ==
    ASSUME HeadInv, UNCHANGED <<mem, disk, current, invalid_forks>>,
           phase \notin Fatal /\ ~Stuck,
           \/ phase' = "saving" /\ phase # "saving" /\ files' = Files
           \/ phase' # "saving" /\ files' = <<>> /\ (phase = "saving" => files = <<>>)
    PROVE  HeadInv'
<1>1. Windowed(mem) /\ (invalid_forks = {} => Headed(mem.blockchain_db, current))
  BY DEF HeadInv
<1>2. Windowed(disk)
  BY DEF HeadInv
<1>3. DOMAIN EmptyDBs \subseteq Range(Files)
  BY AllFiles
<1>4. phase' = "saving" => \A f \in DOMAIN EmptyDBs \ Range(files') : disk'[f] = mem'[f]
  BY <1>3
<1>5. Windowed(mem)' /\ Windowed(disk)' /\ (invalid_forks' = {} => Headed(mem'.blockchain_db, current'))
  BY <1>1, <1>2 DEF Windowed
<1> QED BY <1>4, <1>5 DEF HeadInv

\* A block is stacked.
LEMMA HeadMoves ==
    ASSUME ChainInv, HeadInv, phase \in {"receiving", "stacking"},
           UNCHANGED <<disk, invalid_forks, files>>,
           NEW b \in Block, CheckBlock(mem, current, b) = "valid",
           \/ /\ HeadWritable(mem, b)
              /\ mem' = WriteHead(mem, b) /\ current' = b /\ phase' = phase
           \/ mem' = mem /\ phase' = "no_previous_block_in_main_branch"
    PROVE  HeadInv'
<1>1. OnChain /\ Sound(mem) /\ current \in Block \cup {NoBlock}
  BY DEF ChainInv, Stuck, Fatal, Thread
<1>2. Windowed(mem) /\ Windowed(disk) /\ files = <<>>
  BY DEF HeadInv, Stuck, Fatal
<1>3. Windowed(disk)' /\ files' = <<>> /\ phase' # "saving"
  BY <1>2 DEF Windowed
<1>4. CASE /\ HeadWritable(mem, b)
           /\ mem' = WriteHead(mem, b) /\ current' = b /\ phase' = phase
  <2>1. Windowed(mem') /\ Number[b] \in DOMAIN mem'.blockchain_db
    BY <1>1, <1>2, <1>4, WriteHeadKeeps DEF OnChain
  <2>2. Headed(mem'.blockchain_db, current')
    BY <1>4, <2>1, BlockAssumption DEF Headed
  <2> QED BY <1>3, <2>1, <2>2 DEF HeadInv, Windowed
<1>5. CASE mem' = mem /\ phase' = "no_previous_block_in_main_branch"
  BY <1>3, <1>5 DEF HeadInv, Fatal
<1> QED BY <1>4, <1>5

\* The actions that move neither the databases nor the head.
LEMMA QuietHeads ==
    ASSUME ChainInv, HeadInv,
           \/ \E blocks \in Batches : ReceiveBlocks(blocks)
           \/ DropBlock \/ EndReceiving \/ EndSaving \/ StartStacking \/ EndStacking
    PROVE  HeadInv'
<1>1. /\ UNCHANGED <<mem, disk, current, invalid_forks>>
      /\ phase \in {"idle", "receiving", "saving", "stacking"}
      /\ \/ phase' = "saving" /\ phase # "saving" /\ files' = Files
         \/ phase' # "saving" /\ files' = files /\ (phase = "saving" => files = <<>>)
  BY DEF ReceiveBlocks, DropBlock, Handle, EndReceiving, EndSaving, StartStacking, EndStacking
<1>2. phase \notin Fatal /\ ~Stuck /\ (phase # "saving" => files = <<>>)
  BY <1>1 DEF Fatal, Stuck, HeadInv
<1>3. \/ phase' = "saving" /\ phase # "saving" /\ files' = Files
      \/ phase' # "saving" /\ files' = <<>> /\ (phase = "saving" => files = <<>>)
  BY <1>1, <1>2
<1> QED BY <1>1, <1>2, <1>3, HeadQuiet

\* A block whose predecessor is missing, and a block of a fork.
LEMMA ForkHeads ==
    ASSUME ChainInv, HeadInv, KeepOrphan \/ KeepForkBlock
    PROVE  HeadInv'
<1>1. /\ phase = "receiving" /\ UNCHANGED <<disk, current, invalid_forks, files>>
      /\ phase' # "saving"
  BY DEF KeepOrphan, KeepForkBlock, Handle
<1>2. Sound(mem) /\ Thread
  BY DEF ChainInv
<1>3. Head(batch) \in Block
  BY <1>2 DEF Thread, KeepOrphan, KeepForkBlock, Handle
<1>4. /\ Windowed(mem) /\ Windowed(disk) /\ files = <<>>
      /\ invalid_forks = {} => Headed(mem.blockchain_db, current)
  BY <1>1 DEF HeadInv, Stuck, Fatal
<1>5. mem'.blockchain_db = mem.blockchain_db /\ Windowed(mem')
  <2>1. CASE KeepOrphan
    <3>1. ~AlreadyHave(mem, Head(batch))
      BY <2>1, Verdicts DEF KeepOrphan, Handle
    <3>2. /\ mem'.blockchain_db = mem.blockchain_db
          /\ mem'.fork_tree_db = mem.fork_tree_db
      BY <1>2, <1>3, <2>1, <3>1, StoreOrphanKeeps DEF KeepOrphan
    <3> QED BY <1>4, <3>2 DEF Windowed
  <2>2. CASE KeepForkBlock
    <3>1. ForkParentExists(mem.fork_tree_db, Head(batch))
      BY <2>2, Verdicts DEF KeepForkBlock, Handle
    <3>2. mem' = StoreFork(mem, Head(batch))
      BY <2>2 DEF KeepForkBlock
    <3> QED BY <1>2, <1>3, <1>4, <3>1, <3>2, StoreForkKeeps
  <2> QED BY <2>1, <2>2
<1> QED BY <1>1, <1>4, <1>5 DEF HeadInv, Windowed

\* The loop of a rollback, which it does not leave once it has begun.
LEMMA RevertHeads ==
    ASSUME HeadInv, RevertCurrentBlock
    PROVE  HeadInv'
<1>1. /\ phase = "reverting" /\ Number[current] > Number[branch[1]]
      /\ UNCHANGED <<disk, current, branch, files>>
      /\ phase' \in Fatal \cup {"reverting"}
  BY DEF RevertCurrentBlock, LastCommonBlockNumber, Fatal
<1>2. (phase' \in Fatal \/ Stuck') /\ phase' # "saving" /\ files' = <<>> /\ Windowed(disk)'
  BY <1>1 DEF Stuck, HeadInv, Windowed, Fatal
<1> QED BY <1>2 DEF HeadInv, Windowed

\* A branch is applied: the window and the head have moved with it; or it failed.
LEMMA BranchHeads ==
    ASSUME ChainInv, HeadInv, ApplyNewBranch
    PROVE  HeadInv'
<1> DEFINE start == [dbs |-> mem, at |-> current, result |-> "applied", bad |-> {}]
           q == ApplyBlocks(start, branch)
<1>1. /\ Thread /\ Sound(mem) /\ phase = "reverting" /\ Reverting /\ UNCHANGED disk
  BY DEF ChainInv, ApplyNewBranch
<1>2. OnChain /\ ~Stuck /\ phase \notin Fatal
  <2>1. branch[1] \in Block
    BY <1>1 DEF Reverting, Thread
  <2>2. Number[current] \in Nat /\ Number[branch[1]] \in Nat
    BY <1>1, <2>1, BlockAssumption DEF Reverting
  <2>3. Number[current] <= Number[branch[1]]
    BY DEF ApplyNewBranch, LastCommonBlockNumber
  <2> QED BY <1>1, <2>2, <2>3 DEF ChainInv, Stuck, Fatal
<1>3. RunOK(start) /\ start.dbs = mem
  BY <1>1, <1>2 DEF RunOK, Reverting, OnChain
<1>4. /\ RunOK(q) /\ (Windowed(mem) => Windowed(q.dbs))
      /\ q.result = "applied" => q.at \in Block /\ Topped(q.dbs.fork_tree_db, q.at)
  <2> HIDE DEF start
  <2> QED BY <1>1, <1>3, BranchApplied DEF Thread, Reverting
<1>5. q = AppliedBranch
  BY DEF AppliedBranch
<1> HIDE DEF q, start
<1>6. Windowed(mem) /\ Windowed(disk) /\ files = <<>> /\ Windowed(q.dbs)
  BY <1>1, <1>2, <1>4 DEF HeadInv
<1>7. Windowed(disk)'
  BY <1>1, <1>6 DEF Windowed
<1>8. CASE q.result = "applied" /\ SwitchAborts(q.dbs, q.at)
  <2>1. phase' = "removed_node_or_block" /\ UNCHANGED files
    BY <1>5, <1>8 DEF ApplyNewBranch
  <2> QED BY <1>6, <1>7, <2>1 DEF HeadInv, Fatal
<1>9. CASE q.result = "applied" /\ ~SwitchAborts(q.dbs, q.at)
  <2> DEFINE d == q.dbs
             t == d.fork_tree_db
             b == q.at
             v == ChangeMainBranch(t, current, b)
  <2>1. /\ mem' = SwitchMainBranch(d, current, b) /\ current' = b
        /\ phase' = "saving" /\ files' = Files
    BY <1>5, <1>9 DEF ApplyNewBranch
  <2>2. /\ b \in Block /\ Topped(t, b) /\ Sound(d) /\ MainIn(t, d.blockchain_db)
        /\ HeadOn(d.blockchain_db, b)
    BY <1>4, <1>9 DEF RunOK
  <2>3. ~WalkAborts(t, FindNodeWithBlockstamp(t, b))
    BY <1>9 DEF SwitchAborts
  <2> HIDE DEF t, b, d
  <2>4. OffMainNodes(t, FindNodeWithBlockstamp(t, b)) = <<>>
    BY <2>2, <2>3, HeadWalk DEF Topped, Sound, t
  <2>5. \A n \in DOMAIN t.main_branch : n <= Number[b]
    BY <2>2 DEF MainIn, HeadOn, Topped
  <2>6. DOMAIN v.main_branch = DOMAIN t.main_branch
    BY <2>2, <2>4, <2>5, SwitchKeeps DEF Topped, Sound, t
  <2>7. mem'.blockchain_db = d.blockchain_db /\ mem'.fork_tree_db = v
    BY <2>1, <2>2 DEF SwitchMainBranch, Sound, EmptyDBs, t
  <2> HIDE DEF v
  <2>8. Windowed(mem')
    BY <1>6, <2>6, <2>7 DEF Windowed, d, t
  <2>9. Headed(mem'.blockchain_db, current')
    <3>1. Number[b] \in DOMAIN d.blockchain_db
      BY <2>2 DEF MainIn, Topped
    <3> QED BY <2>1, <2>2, <2>7, <3>1, BlockAssumption DEF Headed
  <2>10. \A f \in DOMAIN EmptyDBs : f \in Range(files')
    BY <2>1, AllFiles
  <2> QED BY <1>7, <2>1, <2>8, <2>9, <2>10 DEF HeadInv, Windowed
<1>10. CASE q.result = "invalid"
  <2>1. mem' = disk /\ phase' = "receiving" /\ UNCHANGED files
    BY <1>5, <1>10 DEF ApplyNewBranch, OpenDBs
  <2>2. q.bad # {} /\ invalid_forks' = invalid_forks \cup q.bad
    BY <1>4, <1>5, <1>10 DEF RunOK, ApplyNewBranch
  <2>3. invalid_forks' # {} /\ files' = <<>> /\ Windowed(mem)'
    BY <1>6, <2>1, <2>2 DEF Windowed
  <2> QED BY <1>7, <2>1, <2>3 DEF HeadInv
<1>11. CASE q.result \notin {"applied", "invalid"}
  <2>1. phase' = q.result /\ UNCHANGED files
    BY <1>5, <1>11 DEF ApplyNewBranch
  <2>2. phase' \in Fatal /\ phase' # "saving"
    BY <1>4, <1>11, <2>1 DEF RunOK, Fatal
  <2> QED BY <1>6, <1>7, <2>1, <2>2 DEF HeadInv
<1> QED BY <1>8, <1>9, <1>10, <1>11

\* One file of a save: when the last one is written the files are the databases.
LEMMA SaveHeads ==
    ASSUME ChainInv, HeadInv, SaveFile
    PROVE  HeadInv'
<1> DEFINE f == Head(files)
<1>1. phase = "saving" /\ files # <<>> /\ UNCHANGED <<mem, current, invalid_forks, phase>>
  BY DEF SaveFile
<1>2. /\ Thread /\ DOMAIN disk = DOMAIN EmptyDBs /\ ~Stuck /\ phase \notin Fatal
  BY <1>1 DEF ChainInv, Sound, Stuck, Fatal
<1>3. Tail(files) # Files /\ f \in DOMAIN EmptyDBs
  BY <1>1, <1>2, FilesToWrite DEF Thread
<1>4. disk' = [disk EXCEPT ![f] = mem[f]] /\ files' = Tail(files)
  BY DEF SaveFile
<1>5. files \in Seq(DOMAIN EmptyDBs)
  <2>1. PICK i \in 1 .. 5 : files = SubSeq(Files, i, 4)
    BY <1>2 DEF Thread
  <2>2. Files \in Seq(DOMAIN EmptyDBs) /\ Len(Files) = 4
    BY DEF Files, EmptyDBs
  <2>3. \A j \in i .. 4 : Files[j] \in DOMAIN EmptyDBs
    <3>1. \A j \in 1 .. 4 : Files[j] \in DOMAIN EmptyDBs
      <4> SUFFICES ASSUME NEW j \in 1 .. Len(Files) PROVE Files[j] \in DOMAIN EmptyDBs
        BY <2>2
      <4> QED BY <2>2, ElementOfSeq
    <3>2. \A j \in i .. 4 : j \in 1 .. 4
      OBVIOUS
    <3> QED BY <3>1, <3>2
  <2> QED BY <2>1, <2>3, SubSeqProperties
<1>6. Range(files) = {f} \cup Range(Tail(files))
  BY <1>1, <1>5, FirstAndRest
<1> HIDE DEF f
<1>7. \A g \in DOMAIN EmptyDBs \ Range(files') : disk'[g] = mem'[g]
  <2> SUFFICES ASSUME NEW g \in DOMAIN EmptyDBs \ Range(Tail(files)) PROVE disk'[g] = mem[g]
    BY <1>1, <1>4
  <2>1. CASE g = f
    BY <1>2, <1>3, <1>4, <2>1
  <2>2. CASE g # f
    <3>1. g \notin Range(files)
      BY <1>6, <2>2
    <3>2. disk[g] = mem[g]
      BY <1>1, <3>1 DEF HeadInv
    <3> QED BY <1>2, <1>4, <2>2, <3>2
  <2> QED BY <2>1, <2>2
<1>8. Windowed(mem) /\ (invalid_forks = {} => Headed(mem.blockchain_db, current))
  BY <1>2 DEF HeadInv
<1>9. ASSUME files' \in {<<>>, Files} PROVE Windowed(disk')
  <2>1. files' = <<>>
    BY <1>3, <1>4, <1>9
  <2>2. Range(files') = {}
    BY <2>1 DEF Range
  <2>3. disk'.blockchain_db = mem.blockchain_db /\ disk'.fork_tree_db = mem.fork_tree_db
    BY <1>1, <1>7, <2>2 DEF EmptyDBs
  <2> QED BY <1>8, <2>3 DEF Windowed
<1>10. Windowed(mem)' /\ (invalid_forks' = {} => Headed(mem'.blockchain_db, current'))
  BY <1>1, <1>8 DEF Windowed
<1> QED BY <1>1, <1>7, <1>9, <1>10 DEF HeadInv, Windowed

\* A restart finds whole files.
LEMMA RestartHeads ==
    ASSUME ChainInv, HeadInv, ~CrashWhileSaving, Restart
    PROVE  HeadInv'
<1>1. /\ mem' = disk /\ disk' = disk /\ phase' = "idle" /\ current' = StoredCurrent(disk)
      /\ files \in {<<>>, Files} /\ files' = <<>>
  BY DEF Restart, OpenDBs
<1>2. Windowed(disk)
  BY <1>1 DEF HeadInv
<1> DEFINE c == disk.blockchain_db
           last == Cardinality(DOMAIN c) - 1
<1>3. Chained(c) /\ Linked(c) /\ IsFiniteSet(DOMAIN c)
  BY ChainedIsLinked DEF ChainInv, Sound
<1>4. DOMAIN c = 0 .. last /\ last \in Int /\ last + 1 \in Nat
  BY <1>3, FS_CardinalityType DEF Linked
<1>5. StoredCurrent(disk) = IF last \in DOMAIN c THEN c[last] ELSE NoBlock
  BY DEF StoredCurrent
<1> HIDE DEF c, last
<1>6. Headed(c, StoredCurrent(disk))
  <2>1. CASE last \in DOMAIN c
    <3>1. c[last] \in Block /\ Number[c[last]] = last
      BY <1>3, <2>1 DEF Chained
    <3> QED BY <1>5, <2>1, <3>1, BlockAssumption DEF Headed
  <2>2. CASE last \notin DOMAIN c
    <3>1. DOMAIN c = {}
      BY <1>4, <2>2
    <3> QED BY <1>5, <2>2, <3>1 DEF Headed
  <2> QED BY <2>1, <2>2
<1>7. Windowed(mem)' /\ Windowed(disk)' /\ Headed(mem'.blockchain_db, current')
  BY <1>1, <1>2, <1>6 DEF Windowed, c
<1> QED BY <1>1, <1>7 DEF HeadInv

\* Every step.
LEMMA HeadInvNext ==
    ASSUME ~CrashWhileSaving, ChainInv, HeadInv, [Next]_vars
    PROVE  HeadInv'
<1>1. CASE \/ \E blocks \in Batches : ReceiveBlocks(blocks)
           \/ DropBlock \/ EndReceiving \/ EndSaving \/ StartStacking \/ EndStacking
  BY <1>1, QuietHeads
<1>2. CASE StackUpBlock
  <2>1. Head(batch) \in Block
    BY <1>2 DEF ChainInv, Thread, StackUpBlock, Handle
  <2> QED BY <1>2, <2>1, HeadMoves DEF StackUpBlock, Handle
<1>3. CASE StackOrphan
  <2>1. PICK i \in DOMAIN Stackables :
           /\ Stackable(i)
           /\ IF HeadWritable(mem, Stackables[i])
              THEN mem' = WriteHead(mem, Stackables[i]) /\ current' = Stackables[i] /\ UNCHANGED phase
              ELSE phase' = "no_previous_block_in_main_branch" /\ UNCHANGED <<mem, current>>
    BY <1>3 DEF StackOrphan
  <2>2. Stackables[i] \in Block
    BY WaitingFollow DEF ChainInv, Sound, Thread, OrphansOK, Stackables
  <2> QED BY <1>3, <2>1, <2>2, HeadMoves DEF StackOrphan, Stackable
<1>4. CASE KeepOrphan \/ KeepForkBlock
  BY <1>4, ForkHeads
<1>5. CASE RevertCurrentBlock
  BY <1>5, RevertHeads
<1>6. CASE ApplyNewBranch
  BY <1>6, BranchHeads
<1>7. CASE SaveFile
  BY <1>7, SaveHeads
<1>8. CASE Restart
  BY <1>8, RestartHeads
<1>9. CASE UNCHANGED vars
  BY <1>9 DEF vars, HeadInv, Stuck, Windowed
<1> QED BY <1>1, <1>2, <1>3, <1>4, <1>5, <1>6, <1>7, <1>8, <1>9 DEF Next, Work

\* The three ideas of the head agree.
LEMMA HeadsFromInv ==
    ASSUME ChainInv, HeadInv, invalid_forks = {}
    PROVE  HeadsAgree
<1> SUFFICES ASSUME phase \in {"idle", "receiving", "stacking"}
             PROVE  /\ current = StoredCurrent(mem)
                    /\ LET top == Cardinality(DOMAIN mem.blockchain_db) - 1
                           main == mem.fork_tree_db.main_branch
                       IN  /\ DOMAIN main = {n \in 0 .. top : n + FORK_WINDOW_SIZE > top}
                           /\ \A n \in DOMAIN main :
                                 MainBlock(mem.fork_tree_db, n) = mem.blockchain_db[n]
  BY DEF HeadsAgree
<1> DEFINE c == mem.blockchain_db
           top == Cardinality(DOMAIN c) - 1
<1>1. OnChain /\ Windowed(mem) /\ Headed(c, current)
  BY DEF ChainInv, HeadInv, Stuck, Fatal
<1>2. Chained(c) /\ Linked(c) /\ IsFiniteSet(DOMAIN c)
  BY ChainedIsLinked DEF ChainInv, Sound
<1>3. DOMAIN c = 0 .. top /\ top \in Int /\ top + 1 \in Nat
  BY <1>2, FS_CardinalityType DEF Linked
<1>4. StoredCurrent(mem) = IF top \in DOMAIN c THEN c[top] ELSE NoBlock
  BY DEF StoredCurrent
<1>5. HeadOn(c, current) /\ current \in Block \cup {NoBlock}
  BY <1>1 DEF OnChain, ChainInv, Thread
<1>6. \A n \in DOMAIN mem.fork_tree_db.main_branch : MainBlock(mem.fork_tree_db, n) = c[n]
  BY <1>1 DEF OnChain, MainIn
<1>7. DOMAIN mem.fork_tree_db.main_branch = {n \in DOMAIN c : n + FORK_WINDOW_SIZE \notin DOMAIN c}
  BY <1>1 DEF Windowed
<1> HIDE DEF c, top
<1>8. current = StoredCurrent(mem)
  <2>1. CASE DOMAIN c = {}
    BY <1>1, <1>4, <2>1 DEF Headed
  <2>2. CASE DOMAIN c # {}
    <3>1. Number[current] \in DOMAIN c /\ current \in Block
      BY <1>1, <1>5, <2>2 DEF Headed
    <3>2. c[Number[current]] = current /\ \A n \in DOMAIN c : n <= Number[current]
      BY <1>5, <3>1 DEF HeadOn
    <3>3. top \in DOMAIN c
      BY <1>3, <2>2
    <3>4. Number[current] = top
      BY <1>3, <3>1, <3>2, <3>3
    <3> QED BY <1>4, <3>2, <3>3, <3>4
  <2> QED BY <2>1, <2>2
<1>9. \A n \in 0 .. top : n + FORK_WINDOW_SIZE \notin 0 .. top <=> n + FORK_WINDOW_SIZE > top
  BY <1>3, WindowAssumption
<1>10. DOMAIN mem.fork_tree_db.main_branch = {n \in 0 .. top : n + FORK_WINDOW_SIZE > top}
  BY <1>3, <1>7, <1>9
<1> QED BY <1>6, <1>8, <1>10 DEF c, top

\* Where no crash falls between the files of a save, the cached head, the last block
\* of the block-chain and the top of the main branch agree between two messages,
\* until the application of a branch fails: from then to the next start
\* current_blockstamp may be ahead of the databases.
THEOREM HeadsAlwaysAgree ==
    ~CrashWhileSaving => (Spec => [](invalid_forks = {} => HeadsAgree))
<1> SUFFICES ASSUME ~CrashWhileSaving PROVE Spec => [](invalid_forks = {} => HeadsAgree)
  OBVIOUS
<1>1. ChainInv /\ HeadInv /\ [Next]_vars => HeadInv'
  BY HeadInvNext
<1>2. ChainInv /\ HeadInv => (invalid_forks = {} => HeadsAgree)
  BY HeadsFromInv
<1> QED BY <1>1, <1>2, HeadInvInit, ChainInvAlways, PTL DEF Spec

\* A block that follows the head is written: when it is stacked, and in a branch.
LEMMA PreviousStays ==
    ASSUME ChainInv, HeadInv, [Next]_vars, PreviousInMainBranch
    PROVE  PreviousInMainBranch'
<1>1. CASE StackUpBlock \/ StackOrphan
  <2>1. /\ phase \in {"receiving", "stacking"} /\ Windowed(mem) /\ Sound(mem)
        /\ HeadOn(mem.blockchain_db, current) /\ current \in Block \cup {NoBlock}
    BY <1>1 DEF StackUpBlock, StackOrphan, Handle, ChainInv, HeadInv, OnChain, Thread, Stuck, Fatal
  <2>2. ASSUME NEW b \in Block, CheckBlock(mem, current, b) = "valid" PROVE HeadWritable(mem, b)
    BY <2>1, <2>2, HeadFits
  <2>3. CASE StackUpBlock
    <3>1. Head(batch) \in Block /\ CheckBlock(mem, current, Head(batch)) = "valid"
      BY <2>3 DEF ChainInv, Thread, StackUpBlock, Handle
    <3>2. HeadWritable(mem, Head(batch))
      BY <2>2, <3>1
    <3>3. UNCHANGED phase
      BY <2>3, <3>2 DEF StackUpBlock
    <3> QED BY <3>3 DEF PreviousInMainBranch
  <2>4. CASE StackOrphan
    <3>1. PICK i \in DOMAIN Stackables :
             /\ Stackable(i)
             /\ HeadWritable(mem, Stackables[i]) => UNCHANGED phase
      BY <2>4 DEF StackOrphan
    <3>2. Stackables[i] \in Block
      BY WaitingFollow DEF ChainInv, Sound, Thread, OrphansOK, Stackables
    <3>3. UNCHANGED phase
      BY <2>2, <3>1, <3>2 DEF Stackable
    <3> QED BY <3>3 DEF PreviousInMainBranch
  <2> QED BY <1>1, <2>3, <2>4
<1>2. CASE ApplyNewBranch
  <2> DEFINE start == [dbs |-> mem, at |-> current, result |-> "applied", bad |-> {}]
  <2>1. phase = "reverting" /\ Thread /\ Sound(mem) /\ Reverting
    BY <1>2 DEF ChainInv, ApplyNewBranch
  <2>2. OnChain /\ Windowed(mem)
    <3>1. branch[1] \in Block
      BY <2>1 DEF Reverting, Thread
    <3>2. Number[current] \in Nat /\ Number[branch[1]] \in Nat
      BY <2>1, <3>1, BlockAssumption DEF Reverting
    <3>3. Number[current] <= Number[branch[1]]
      BY <1>2 DEF ApplyNewBranch, LastCommonBlockNumber
    <3> QED BY <2>1, <3>2, <3>3 DEF ChainInv, HeadInv, Stuck, Fatal
  <2>3. RunOK(start) /\ HasPlace(start) /\ start.dbs = mem
    BY <2>1, <2>2 DEF RunOK, HasPlace, Reverting, OnChain
  <2>4. PICK q : q = ApplyBlocks(start, branch)
    OBVIOUS
  <2>5. RunOK(q) /\ HasPlace(q)
    <3> HIDE DEF start
    <3> QED BY <2>1, <2>2, <2>3, <2>4, BranchApplied DEF Thread, Reverting
  <2>6. q = AppliedBranch
    BY <2>4 DEF AppliedBranch
  <2>7. phase' \in {"removed_node_or_block", "saving", "receiving"} \/ phase' = q.result
    BY <1>2, <2>6 DEF ApplyNewBranch
  <2> QED BY <2>5, <2>7 DEF HasPlace, PreviousInMainBranch
<1>3. CASE KeepForkBlock
  <2>1. phase = "receiving"
    BY <1>3 DEF KeepForkBlock, Handle
  <2>2. phase' \in {"current_block_not_in_fork_blocks", "receiving", "removed_node_or_block", "reverting"}
    BY <1>3, <2>1 DEF KeepForkBlock
  <2> QED BY <2>2 DEF PreviousInMainBranch
<1>4. CASE RevertCurrentBlock \/ EndSaving
  BY <1>4 DEF RevertCurrentBlock, EndSaving, PreviousInMainBranch
<1>5. CASE (\E blocks \in Batches : ReceiveBlocks(blocks)) \/ EndReceiving \/ EndStacking
  BY <1>5 DEF ReceiveBlocks, EndReceiving, EndStacking, PreviousInMainBranch
<1>6. CASE DropBlock \/ KeepOrphan \/ SaveFile \/ StartStacking \/ Restart \/ UNCHANGED vars
  BY <1>6 DEF DropBlock, KeepOrphan, SaveFile, StartStacking, Restart, vars, PreviousInMainBranch
<1> QED BY <1>1, <1>2, <1>3, <1>4, <1>5, <1>6 DEF Next, Work

\* Nor does the thread ever die there of "previous block not exist in main branch",
\* whatever branches it tries and whichever of them fail: this takes a crash between
\* the block-chain file and the tree file.
THEOREM PreviousAlwaysInMainBranch == ~CrashWhileSaving => (Spec => []PreviousInMainBranch)
<1> SUFFICES ASSUME ~CrashWhileSaving PROVE Spec => []PreviousInMainBranch
  OBVIOUS
<1>1. ChainInv /\ HeadInv /\ [Next]_vars => HeadInv'
  BY HeadInvNext
<1>2. ChainInv /\ HeadInv /\ PreviousInMainBranch /\ [Next]_vars => PreviousInMainBranch'
  BY PreviousStays
<1>3. Init => PreviousInMainBranch
  BY DEF Init, PreviousInMainBranch
<1> QED BY <1>1, <1>2, <1>3, HeadInvInit, ChainInvAlways, PTL DEF Spec

-----------------------------------------------------------------------------
(* Blocks and nodes, as long as no branch is switched to.                   *)

\* G holds the blocks that a pruning cut off, whether their nodes are gone or were
\* left behind.  The others hang under the root, one node each; what hangs under a
\* block that was cut off, or comes below the window, is cut off as well.
Split(t, G) ==
    /\ LiveNodes(t) = {} => G = {}
    /\ \A id, other \in LiveNodes(t) : DataOf(t, id) = DataOf(t, other) => id = other
    /\ \A id \in LiveNodes(t) :
          LET parent == t.nodes[id].parent
          IN  IF DataOf(t, id) \notin G
              THEN /\ NumberOf(t, id) >= RootNumber(t)
                   /\ id # t.root => parent \in LiveNodes(t) /\ DataOf(t, parent) \notin G
              ELSE /\ id # t.root /\ parent # NoNode
                   /\ parent \in LiveNodes(t) => DataOf(t, parent) \in G
    /\ \A g \in G : Previous[g] \in G \/ Number[g] <= RootNumber(t)

\* No stored block follows the top of the main branch.
HeadBare(t) ==
    \A n \in DOMAIN t.main_branch :
        n + 1 \notin DOMAIN t.main_branch => \A x \in StoredBlocks(t) : Previous[x] # MainBlock(t, n)

\* What waits for a fork block that hangs under the root is stored.
Waited(d, G) ==
    \A x \in StoredBlocks(d.fork_tree_db) \ G :
        ~InBlockchain(d, x) => Range(WaitingFor(d, x)) \subseteq StoredBlocks(d.fork_tree_db)

\* The databases of a node that never switched to a branch, when it has placed the
\* blocks D: they are stored, or were cut off.
Kept(d, D) ==
    /\ d.fork_blocks_db = StoredBlocks(d.fork_tree_db)
    /\ HeadBare(d.fork_tree_db)
    /\ \E G \in SUBSET Block :
          Split(d.fork_tree_db, G) /\ Waited(d, G) /\ D \subseteq G \cup d.fork_blocks_db

\* Fewer blocks, and those that are stored anyway.
LEMMA KeptMore ==
    ASSUME NEW d, NEW D, Kept(d, D), NEW E, E \subseteq D \cup d.fork_blocks_db
    PROVE  Kept(d, E)
BY DEF Kept

\* A stored block is a block.
LEMMA StoredAreBlocks ==
    ASSUME NEW t, WellFormed(t)
    PROVE  /\ StoredBlocks(t) \subseteq Block
           /\ \A id \in LiveNodes(t) : DataOf(t, id) \in Block /\ NumberOf(t, id) \in Nat
           /\ \A x \in StoredBlocks(t) : \E id \in LiveNodes(t) : DataOf(t, id) = x
<1>1. \A id \in LiveNodes(t) : DataOf(t, id) \in Block
  BY DEF WellFormed, TreeNode, DataOf
<1> QED BY <1>1, BlockAssumption DEF StoredBlocks, NumberOf

\* What follows a block that the tree never had, and that is not below the window,
\* is not there either.
LEMMA NoFollower ==
    ASSUME NEW t, TreeInv(t), Hung(t), NEW G, Split(t, G),
           NEW p \in Block, p \notin StoredBlocks(t) \cup G,
           LiveNodes(t) # {} => Number[p] >= RootNumber(t),
           NEW x \in Block, Previous[x] = p
    PROVE  x \notin StoredBlocks(t) \cup G
<1>0. Number[x] = Number[p] + 1 /\ Number[x] \in Nat /\ Number[p] \in Nat
  BY BlockAssumption
<1>1. CASE LiveNodes(t) = {}
  BY <1>1 DEF Split, StoredBlocks
<1>2. CASE LiveNodes(t) # {}
  <2>1. RootNumber(t) \in Nat /\ t.root \in LiveNodes(t)
    BY <1>2, MainChainFacts DEF TreeInv
  <2>2. x \notin G
    BY <1>0, <1>2, <2>1 DEF Split
  <2>3. ASSUME NEW id \in LiveNodes(t), DataOf(t, id) = x PROVE FALSE
    <3>1. id # t.root
      BY <1>0, <1>2, <2>1, <2>3 DEF RootNumber, NumberOf
    <3>2. t.nodes[id].parent \in LiveNodes(t)
      BY <2>2, <2>3, <3>1 DEF Split
    <3>3. DataOf(t, t.nodes[id].parent) = p
      BY <2>3, <3>2 DEF Hung
    <3> QED BY <3>2, <3>3 DEF StoredBlocks
  <2> QED BY <2>2, <2>3 DEF StoredBlocks
<1> QED BY <1>1, <1>2

\* A new block below one that hangs under the root.
LEMMA NodeAdded ==
    ASSUME NEW t, TreeInv(t), NEW G \in SUBSET Block, Split(t, G),
           NEW x \in Block, x \notin StoredBlocks(t),
           NEW parent \in LiveNodes(t), DataOf(t, parent) = Previous[x], Previous[x] \notin G,
           NEW main_branch \in BOOLEAN
    PROVE  LET a == AddNode(t, x, parent, main_branch)
           IN  /\ Split(a, G) /\ x \notin G
               /\ StoredBlocks(a) = StoredBlocks(t) \cup {x}
               /\ RootNumber(a) = RootNumber(t) /\ Number[x] > RootNumber(t)
               /\ a.removed_blockstamps = {}
<1> DEFINE a == AddNode(t, x, parent, main_branch)
<1>0. WellFormed(t) /\ SheetsChildless(t) /\ parent # NoNode /\ parent \in Nat /\ LiveNodes(t) # {}
  BY WindowAssumption DEF TreeInv, WellFormed
<1>1. /\ t.allocated \notin LiveNodes(t)
      /\ LiveNodes(a) = LiveNodes(t) \cup {t.allocated}
      /\ a.nodes[t.allocated] = [parent |-> parent, data |-> x]
      /\ \A id \in LiveNodes(t) : a.nodes[id] = t.nodes[id]
  BY <1>0, AddNodeFrame
<1>2. a.root = t.root /\ a.removed_blockstamps = {}
  BY <1>0 DEF AddNode
<1> HIDE DEF a
<1>3. DataOf(a, t.allocated) = x /\ \A id \in LiveNodes(t) : DataOf(a, id) = DataOf(t, id)
  BY <1>1 DEF DataOf
<1>4. t.root \in LiveNodes(t) /\ RootNumber(t) \in Nat /\ RootNumber(a) = RootNumber(t)
  <2>1. t.root \in LiveNodes(t) /\ RootNumber(t) \in Nat
    BY <1>0, MainChainFacts DEF TreeInv
  <2> QED BY <1>2, <1>3, <2>1 DEF RootNumber, NumberOf
<1>5. /\ Number[x] = Number[Previous[x]] + 1 /\ Number[x] \in Nat
      /\ Number[Previous[x]] \in Nat /\ Number[Previous[x]] >= RootNumber(t)
  <2>1. Previous[x] \in Block
    BY <1>0, StoredAreBlocks
  <2>2. NumberOf(t, parent) >= RootNumber(t)
    BY DEF Split
  <2> QED BY <2>1, <2>2, BlockAssumption DEF NumberOf
<1>6. Number[x] > RootNumber(t) /\ x \notin G
  BY <1>4, <1>5 DEF Split
<1>7. StoredBlocks(a) = StoredBlocks(t) \cup {x}
  BY <1>1, <1>3 DEF StoredBlocks
<1>8. ASSUME NEW id \in LiveNodes(a), NEW other \in LiveNodes(a), DataOf(a, id) = DataOf(a, other)
      PROVE  id = other
  <2>1. \A k \in LiveNodes(t) : DataOf(a, k) # x
    BY <1>3 DEF StoredBlocks
  <2>2. CASE id = t.allocated \/ other = t.allocated
    BY <1>1, <1>3, <1>8, <2>1, <2>2
  <2>3. CASE id \in LiveNodes(t) /\ other \in LiveNodes(t)
    BY <1>3, <1>8, <2>3 DEF Split
  <2> QED BY <1>1, <2>2, <2>3
<1>9. ASSUME NEW id \in LiveNodes(a)
      PROVE  IF DataOf(a, id) \notin G
             THEN /\ NumberOf(a, id) >= RootNumber(a)
                  /\ id # a.root => /\ a.nodes[id].parent \in LiveNodes(a)
                                    /\ DataOf(a, a.nodes[id].parent) \notin G
             ELSE /\ id # a.root /\ a.nodes[id].parent # NoNode
                  /\ a.nodes[id].parent \in LiveNodes(a) => DataOf(a, a.nodes[id].parent) \in G
  <2>1. CASE id = t.allocated
    <3>1. a.nodes[id].parent = parent /\ DataOf(a, id) = x /\ DataOf(a, parent) = Previous[x]
      BY <1>1, <1>3, <2>1
    <3> QED BY <1>1, <1>4, <1>5, <1>6, <3>1 DEF NumberOf
  <2>2. CASE id \in LiveNodes(t)
    <3>1. a.nodes[id].parent = t.nodes[id].parent /\ DataOf(a, id) = DataOf(t, id)
      BY <1>1, <1>3, <2>2
    <3>2. t.nodes[id].parent # t.allocated
      BY <1>0, <2>2 DEF WellFormed
    <3>3. /\ a.nodes[id].parent \in LiveNodes(a) <=> t.nodes[id].parent \in LiveNodes(t)
          /\ t.nodes[id].parent \in LiveNodes(t) =>
                DataOf(a, a.nodes[id].parent) = DataOf(t, t.nodes[id].parent)
      BY <1>1, <1>3, <3>1, <3>2
    <3>4. NumberOf(a, id) = NumberOf(t, id)
      BY <3>1 DEF NumberOf
    <3> QED BY <1>2, <1>4, <2>2, <3>1, <3>3, <3>4 DEF Split
  <2> QED BY <1>1, <2>1, <2>2
<1>10. \A g \in G : Previous[g] \in G \/ Number[g] <= RootNumber(a)
  BY <1>4 DEF Split
<1>11. Split(a, G)
  BY <1>0, <1>1, <1>8, <1>9, <1>10 DEF Split
<1> QED BY <1>2, <1>4, <1>6, <1>7, <1>11 DEF a

\* What is cut off hangs under the old root or under what is cut off; what hangs
\* under something that is cut off is cut off.
LEMMA CutOffClosed ==
    ASSUME NEW t, TreeInv(t), LiveNodes(t) # {}
    PROVE  /\ t.root \in CutOff(t) /\ CutOff(t) \subseteq LiveNodes(t)
           /\ \A id \in CutOff(t) : id # t.root => t.nodes[id].parent \in CutOff(t)
           /\ \A id \in LiveNodes(t) :
                 t.nodes[id].parent \in CutOff(t) => id \in CutOff(t) \/ id = RootMainChild(t)
<1> DEFINE r == RootMainChild(t)
           cut == Children(t, t.root) \ {r}
<1>1. CutOff(t) = {t.root} \cup cut \cup UNION {Descendants(t, c) : c \in cut}
  BY DEF CutOff
<1>2. t.root \in LiveNodes(t)
  BY DEF TreeInv, MainChain
<1> HIDE DEF r
<1>3. \A c \in cut : c \in LiveNodes(t) /\ t.nodes[c].parent = t.root
  BY DEF Children
<1>4. \A id \in LiveNodes(t) : t.nodes[id].parent = t.root => id \in cut \/ id = r
  BY DEF Children
<1> HIDE DEF cut
<1>5. CutOff(t) \subseteq LiveNodes(t)
  BY <1>1, <1>2, <1>3, DescendantsLive
<1>6. ASSUME NEW id \in CutOff(t), id # t.root PROVE t.nodes[id].parent \in CutOff(t)
  <2>1. CASE id \in cut
    BY <1>1, <1>3, <2>1
  <2>2. CASE \E c \in cut : id \in Descendants(t, c)
    <3>1. PICK c \in cut : id \in Descendants(t, c)
      BY <2>2
    <3>2. t.nodes[id].parent = c \/ t.nodes[id].parent \in Descendants(t, c)
      BY <1>3, <3>1, DescendantsParent
    <3> QED BY <1>1, <3>1, <3>2
  <2> QED BY <1>1, <1>6, <2>1, <2>2
<1>7. ASSUME NEW id \in LiveNodes(t), t.nodes[id].parent \in CutOff(t)
      PROVE  id \in CutOff(t) \/ id = r
  <2>1. CASE t.nodes[id].parent = t.root
    BY <1>1, <1>4, <2>1
  <2>2. CASE \E c \in cut : t.nodes[id].parent = c \/ t.nodes[id].parent \in Descendants(t, c)
    <3>1. PICK c \in cut : t.nodes[id].parent = c \/ t.nodes[id].parent \in Descendants(t, c)
      BY <2>2
    <3>2. id \in Descendants(t, c)
      BY <1>3, <3>1, DescendantsClosed
    <3> QED BY <1>1, <3>2
  <2> QED BY <1>1, <1>7, <2>1, <2>2
<1> QED BY <1>1, <1>5, <1>6, <1>7 DEF r

\* A pruning, of a tree whose main branch has at least two blocks: what it cuts off
\* joins what was cut off before, and what waits for a block that stays keeps its node.
LEMMA PruningSplits ==
    ASSUME NEW t, TreeInv(t), Hung(t), LiveNodes(t) # {}, RootNumber(t) + 1 \in DOMAIN t.main_branch,
           NEW G \in SUBSET Block, Split(t, G)
    PROVE  LET p == Pruning(t)
               H == G \cup {DataOf(t, id) : id \in CutOff(t)}
           IN  /\ H \in SUBSET Block /\ Split(p, H)
               /\ StoredBlocks(p) = StoredBlocks(t) \ {DataOf(t, id) : id \in PrunedNodes(t)}
               /\ StoredBlocks(t) \subseteq H \cup StoredBlocks(p)
               /\ \A x \in StoredBlocks(p) \ H, w \in StoredBlocks(t) :
                     Previous[w] = x => w \in StoredBlocks(p)
<1> DEFINE p == Pruning(t)
           gone == PrunedNodes(t)
           r == RootMainChild(t)
           cutoff == CutOff(t)
           H == G \cup {DataOf(t, id) : id \in cutoff}
           low == RootNumber(t)
<1>1. TreeInv(p) /\ LiveNodes(p) = LiveNodes(t) \ gone
  BY PruningKeepsInv
<1>2. p.root = r /\ \A id \in LiveNodes(p) : p.nodes[id] = t.nodes[id]
  BY DEF Pruning, Restrict, LiveNodes
<1>3. Hung(p) /\ \A id \in LiveNodes(p) : DataOf(p, id) = DataOf(t, id)
  BY PruningHung
<1>4. /\ r \in LiveNodes(t) /\ t.root \in LiveNodes(t) /\ t.nodes[r].parent = t.root
      /\ low \in Nat /\ NumberOf(t, r) = low + 1 /\ r # t.root
  <2>1. /\ t.root \in LiveNodes(t) /\ low \in Nat /\ t.main_branch[low] = t.root
        /\ t.main_branch[low + 1] \in LiveNodes(t) /\ NumberOf(t, t.main_branch[low + 1]) = low + 1
        /\ low + 1 # low => t.nodes[t.main_branch[low + 1]].parent = t.main_branch[(low + 1) - 1]
    BY MainChainFacts DEF TreeInv
  <2>2. (low + 1) - 1 = low /\ low + 1 # low
    BY <2>1
  <2>3. r = t.main_branch[low + 1]
    BY DEF RootMainChild, RootNumber
  <2>4. NumberOf(t, t.root) = low
    BY DEF RootNumber
  <2> HIDE DEF low, r
  <2> QED BY <2>1, <2>2, <2>3, <2>4
<1>5. r \notin cutoff /\ gone \subseteq cutoff /\ t.root \in gone
  <2>1. gone \subseteq cutoff
    BY PrunedCutOff
  <2>2. r \notin cutoff
    BY NewRootBranchKept
  <2>3. t.root \in gone
    BY DEF PrunedNodes
  <2> QED BY <2>1, <2>2, <2>3
<1>6. /\ t.root \in cutoff /\ cutoff \subseteq LiveNodes(t)
      /\ \A id \in cutoff : id # t.root => t.nodes[id].parent \in cutoff
      /\ \A id \in LiveNodes(t) : t.nodes[id].parent \in cutoff => id \in cutoff \/ id = r
  BY CutOffClosed
<1>7. /\ \A id \in LiveNodes(t) : DataOf(t, id) \in Block /\ NumberOf(t, id) \in Nat
      /\ \A id, other \in LiveNodes(t) : DataOf(t, id) = DataOf(t, other) => id = other
  BY StoredAreBlocks DEF TreeInv, Split
<1>8. \A id \in LiveNodes(t) : DataOf(t, id) \in H <=> DataOf(t, id) \in G \/ id \in cutoff
  BY <1>6, <1>7
<1>9. H \in SUBSET Block
  BY <1>6, <1>7
<1>10. StoredBlocks(p) = StoredBlocks(t) \ {DataOf(t, id) : id \in gone}
  <2> HIDE DEF p, gone
  <2>0. gone \subseteq LiveNodes(t)
    BY <1>5, <1>6
  <2>1. ASSUME NEW id \in LiveNodes(p) PROVE DataOf(p, id) \in StoredBlocks(t) \ {DataOf(t, k) : k \in gone}
    <3>1. id \in LiveNodes(t) /\ id \notin gone /\ DataOf(p, id) = DataOf(t, id)
      BY <1>1, <1>3
    <3>2. \A k \in gone : DataOf(t, k) # DataOf(t, id)
      BY <1>7, <2>0, <3>1
    <3> QED BY <3>1, <3>2 DEF StoredBlocks
  <2>2. ASSUME NEW x \in StoredBlocks(t), x \notin {DataOf(t, k) : k \in gone}
        PROVE  x \in StoredBlocks(p)
    <3>1. PICK id \in LiveNodes(t) : DataOf(t, id) = x
      BY DEF StoredBlocks
    <3>2. id \in LiveNodes(p) /\ DataOf(p, id) = x
      BY <1>1, <1>3, <2>2, <3>1
    <3> QED BY <3>2 DEF StoredBlocks
  <2>3. StoredBlocks(p) = {DataOf(p, id) : id \in LiveNodes(p)}
    BY DEF StoredBlocks
  <2> QED BY <2>1, <2>2, <2>3
<1>11. DataOf(t, t.root) \notin G /\ DataOf(t, r) \notin G
  BY <1>4 DEF Split
<1>12. RootNumber(p) = low + 1 /\ r \in LiveNodes(p)
  <2>1. r \in LiveNodes(p)
    BY <1>1, <1>4, <1>5
  <2> QED BY <1>2, <1>3, <1>4, <2>1 DEF RootNumber, NumberOf
<1> HIDE DEF p, gone, r, cutoff, H, low
<1>13. ASSUME NEW id \in LiveNodes(p)
       PROVE  IF DataOf(p, id) \notin H
              THEN /\ NumberOf(p, id) >= RootNumber(p)
                   /\ id # p.root => /\ p.nodes[id].parent \in LiveNodes(p)
                                     /\ DataOf(p, p.nodes[id].parent) \notin H
              ELSE /\ id # p.root /\ p.nodes[id].parent # NoNode
                   /\ p.nodes[id].parent \in LiveNodes(p) => DataOf(p, p.nodes[id].parent) \in H
  <2> DEFINE parent == t.nodes[id].parent
  <2>1. /\ id \in LiveNodes(t) /\ id \notin gone /\ id # t.root
        /\ p.nodes[id].parent = parent /\ DataOf(p, id) = DataOf(t, id)
        /\ NumberOf(p, id) = NumberOf(t, id) /\ NumberOf(t, id) = Number[DataOf(t, id)]
    BY <1>1, <1>2, <1>3, <1>5 DEF NumberOf
  <2>2. CASE DataOf(p, id) \notin H
    <3>1. DataOf(t, id) \notin G /\ id \notin cutoff
      BY <1>8, <2>1, <2>2
    <3>2. /\ parent \in LiveNodes(t) /\ DataOf(t, parent) \notin G
      BY <2>1, <3>1 DEF Split
    <3>3. CASE id = r
      BY <1>2, <1>4, <1>12, <2>1, <2>2, <3>3
    <3>4. CASE id # r
      <4>1. parent \notin cutoff
        BY <1>6, <2>1, <3>1, <3>4
      <4>2. parent \in LiveNodes(p) /\ DataOf(p, parent) = DataOf(t, parent)
        BY <1>1, <1>3, <1>5, <3>2, <4>1
      <4>3. DataOf(p, parent) \notin H
        BY <1>8, <3>2, <4>1, <4>2
      <4>4. NumberOf(t, id) >= low + 1
        <5>1. NumberOf(t, parent) >= low /\ NumberOf(t, parent) \in Nat
          BY <1>7, <3>2 DEF Split, low
        <5>2. DataOf(t, parent) = Previous[DataOf(t, id)]
          BY <2>1, <3>2 DEF Hung
        <5>3. Number[DataOf(t, id)] = Number[DataOf(t, parent)] + 1
          BY <1>7, <2>1, <3>2, <5>2, BlockAssumption
        <5> QED BY <1>4, <5>1, <5>3 DEF NumberOf
      <4> QED BY <1>12, <2>1, <2>2, <4>2, <4>3, <4>4
    <3> QED BY <3>3, <3>4
  <2>3. CASE DataOf(p, id) \in H
    <3>1. DataOf(t, id) \in G \/ id \in cutoff
      BY <1>8, <2>1, <2>3
    <3>2. id # r
      BY <1>5, <1>11, <3>1
    <3>3. CASE DataOf(t, id) \in G
      <4>1. parent # NoNode /\ (parent \in LiveNodes(t) => DataOf(t, parent) \in G)
        BY <2>1, <3>3 DEF Split
      <4>2. parent \in LiveNodes(p) => parent \in LiveNodes(t) /\ DataOf(p, parent) = DataOf(t, parent)
        BY <1>1, <1>3
      <4>3. parent \in LiveNodes(p) => DataOf(p, parent) \in H
        BY <1>8, <4>1, <4>2
      <4> QED BY <1>2, <2>1, <2>3, <3>2, <4>1, <4>3
    <3>4. CASE id \in cutoff
      <4>1. parent \in cutoff
        BY <1>6, <2>1, <3>4
      <4>2. parent \in LiveNodes(t) /\ parent # NoNode
        BY <1>6, <4>1, WindowAssumption DEF TreeInv, WellFormed
      <4>3. parent \in LiveNodes(p) => DataOf(p, parent) \in H
        BY <1>3, <1>8, <4>1, <4>2
      <4> QED BY <1>2, <2>1, <2>3, <3>2, <4>2, <4>3
    <3> QED BY <3>1, <3>3, <3>4
  <2> QED BY <2>2, <2>3
<1>14. ASSUME NEW g \in H PROVE Previous[g] \in H \/ Number[g] <= RootNumber(p)
  <2>0. g \in Block /\ Number[g] \in Nat
    BY <1>9, BlockAssumption
  <2>1. CASE g \in G
    <3>1. Previous[g] \in G \/ Number[g] <= low
      BY <2>1 DEF Split, low
    <3> QED BY <1>4, <1>12, <2>0, <3>1 DEF H
  <2>2. CASE \E id \in cutoff : g = DataOf(t, id)
    <3>1. PICK id \in cutoff : g = DataOf(t, id)
      BY <2>2
    <3>2. CASE id = t.root
      BY <1>4, <1>12, <2>0, <3>1, <3>2 DEF low, RootNumber, NumberOf
    <3>3. CASE id # t.root
      <4>1. t.nodes[id].parent \in cutoff
        BY <1>6, <3>3
      <4>2. DataOf(t, t.nodes[id].parent) = Previous[g]
        BY <1>6, <3>1, <4>1 DEF Hung
      <4> QED BY <4>1, <4>2 DEF H
    <3> QED BY <3>2, <3>3
  <2> QED BY <2>1, <2>2 DEF H
<1>15. Split(p, H)
  <2>1. LiveNodes(p) # {}
    BY <1>12
  <2>2. \A id, other \in LiveNodes(p) : DataOf(p, id) = DataOf(p, other) => id = other
    BY <1>1, <1>3, <1>7
  <2> QED BY <1>13, <1>14, <2>1, <2>2 DEF Split
<1>16. ASSUME NEW x \in StoredBlocks(p) \ H, NEW w \in StoredBlocks(t), Previous[w] = x
       PROVE  w \in StoredBlocks(p)
  <2>1. PICK y \in LiveNodes(t) : DataOf(t, y) = w
    BY DEF StoredBlocks
  <2>2. PICK k \in LiveNodes(p) : DataOf(p, k) = x
    BY DEF StoredBlocks
  <2>3. k \in LiveNodes(t) /\ DataOf(t, k) = x /\ NumberOf(t, k) >= low + 1
    BY <1>1, <1>3, <1>12, <1>13, <1>16, <2>2 DEF NumberOf
  <2>4. Number[w] = Number[x] + 1 /\ Number[x] \in Nat /\ Number[x] >= low + 1
    BY <1>7, <1>16, <2>1, <2>3, BlockAssumption DEF NumberOf
  <2>5. w \notin G
    <3>1. x \notin G /\ Number[w] > low
      BY <1>4, <1>16, <2>4 DEF H
    <3>2. w \in G => Previous[w] \in G \/ Number[w] <= low
      BY DEF Split, low
    <3> QED BY <1>4, <1>16, <2>4, <3>1, <3>2
  <2>6. y # t.root
    BY <1>4, <2>1, <2>4 DEF low, RootNumber, NumberOf
  <2>7. t.nodes[y].parent \in LiveNodes(t) /\ DataOf(t, t.nodes[y].parent) = x
    BY <1>16, <2>1, <2>5, <2>6 DEF Split, Hung
  <2>8. t.nodes[y].parent = k
    BY <1>7, <2>3, <2>7
  <2>9. k \notin cutoff
    BY <1>8, <1>16, <2>3
  <2>10. y \notin cutoff
    BY <1>6, <2>6, <2>8, <2>9
  <2>11. y \in LiveNodes(p) /\ DataOf(p, y) = w
    BY <1>1, <1>3, <1>5, <2>1, <2>10
  <2> QED BY <2>11 DEF StoredBlocks
<1>17. StoredBlocks(t) \subseteq H \cup StoredBlocks(p)
  BY <1>5, <1>10 DEF H
<1> QED BY <1>9, <1>10, <1>15, <1>16, <1>17 DEF p, gone, r, cutoff, H, low

\* The main branch is never cut off.
LEMMA MainNotCut ==
    ASSUME NEW t, TreeInv(t), LiveNodes(t) # {}, NEW G, Split(t, G)
    PROVE  \A n \in DOMAIN t.main_branch : MainBlock(t, n) \notin G
<1> DEFINE cut == {n \in DOMAIN t.main_branch : MainBlock(t, n) \in G}
<1> SUFFICES ASSUME cut # {} PROVE FALSE
  OBVIOUS
<1>1. PICK n \in cut : \A m \in cut : n <= m
  <2>1. cut \in SUBSET Nat
    BY DEF TreeInv, WellFormed
  <2> HIDE DEF cut
  <2> QED BY <2>1, LeastElement
<1> DEFINE id == t.main_branch[n]
<1>2. /\ n \in Nat /\ id \in LiveNodes(t) /\ t.main_branch[RootNumber(t)] = t.root
      /\ n # RootNumber(t) =>
            /\ n - 1 \in DOMAIN t.main_branch /\ t.nodes[id].parent = t.main_branch[n - 1]
  BY MainChainFacts DEF TreeInv
<1>3. DataOf(t, id) \in G
  BY DEF MainBlock
<1>4. n # RootNumber(t)
  BY <1>2, <1>3 DEF Split
<1>5. t.main_branch[n - 1] \in LiveNodes(t)
  BY <1>2, <1>4 DEF TreeInv, WellFormed
<1>6. MainBlock(t, n - 1) \in G
  <2>1. t.nodes[id].parent \in LiveNodes(t) /\ t.nodes[id].parent = t.main_branch[n - 1]
    BY <1>2, <1>4, <1>5
  <2>2. DataOf(t, t.nodes[id].parent) \in G
    BY <1>2, <1>3, <2>1 DEF Split
  <2> QED BY <2>1, <2>2 DEF MainBlock
<1> QED BY <1>1, <1>2, <1>4, <1>6

\* The new head is the top of the main branch of the tree it is put on.
LEMMA TopOfMain ==
    ASSUME NEW u, TreeInv(u), NEW t, TreeInv(t), NEW b \in Block,
           DOMAIN t.main_branch \subseteq 0 .. (Number[b] - 1),
           Number[b] \in DOMAIN u.main_branch, MainBlock(u, Number[b]) = b,
           \A n \in DOMAIN u.main_branch : n # Number[b] => n \in DOMAIN t.main_branch,
           \A x \in StoredBlocks(u) : Previous[x] # b
    PROVE  HeadBare(u)
<1> SUFFICES ASSUME NEW n \in DOMAIN u.main_branch, n + 1 \notin DOMAIN u.main_branch
             PROVE  n = Number[b]
  BY DEF HeadBare
<1>1. LiveNodes(u) # {}
  BY DEF TreeInv, WellFormed
<1>2. PICK top \in DOMAIN u.main_branch : DOMAIN u.main_branch = RootNumber(u) .. top
  BY <1>1 DEF TreeInv, MainChain
<1>3. RootNumber(u) \in Nat /\ top \in Nat /\ n \in Nat /\ Number[b] \in Nat
  BY <1>1, MainChainFacts, BlockAssumption DEF TreeInv, WellFormed
<1> QED BY <1>2, <1>3

\* A new head: it hangs under the root, nothing follows it, and of what hangs under
\* the root only what waited for blocks that leave with the pruning is lost.
LEMMA HeadKept ==
    ASSUME NEW t, TreeInv(t), Hung(t), NEW b \in Block, HeadParentExists(t, b), Follows(t, b),
           DOMAIN t.main_branch \subseteq 0 .. (Number[b] - 1),
           HeadBare(t), NEW G \in SUBSET Block, Split(t, G)
    PROVE  LET u == InsertNewHeadBlock(t, b)
           IN  /\ HeadBare(u)
               /\ StoredBlocks(u) = (StoredBlocks(t) \cup {b}) \ u.removed_blockstamps
               /\ \E H \in SUBSET Block :
                     /\ Split(u, H)
                     /\ StoredBlocks(u) \ H \subseteq (StoredBlocks(t) \ G) \cup {b}
                     /\ G \cup StoredBlocks(t) \subseteq H \cup StoredBlocks(u)
                     /\ \A x \in StoredBlocks(u) \ H, w \in StoredBlocks(t) :
                           Previous[w] = x => w \in StoredBlocks(u)
<1> DEFINE u == InsertNewHeadBlock(t, b)
<1>1. /\ TreeInv(u) /\ Number[b] \in DOMAIN u.main_branch /\ MainBlock(u, Number[b]) = b
      /\ \A n \in DOMAIN u.main_branch : n # Number[b] => n \in DOMAIN t.main_branch
  BY HeadInserted
<1>2. Number[b] \in Nat /\ Previous[b] # b
  BY BlockAssumption
<1>3. CASE LiveNodes(t) = {}
  <2> DEFINE a == AddNode(t, b, NoNode, TRUE)
  <2>1. u = a
    BY <1>3, InsertRootStep
  <2>2. G = {} /\ StoredBlocks(t) = {}
    BY <1>3 DEF Split, StoredBlocks
  <2>3. /\ LiveNodes(a) = {t.allocated} /\ a.root = t.allocated
        /\ a.nodes[t.allocated] = [parent |-> NoNode, data |-> b]
        /\ a.removed_blockstamps = {}
    BY <1>3 DEF AddNode, LiveNodes, Put
  <2> HIDE DEF a, u
  <2>4. DataOf(a, t.allocated) = b /\ StoredBlocks(a) = {b}
    BY <2>3 DEF DataOf, StoredBlocks
  <2>5. Split(a, {})
    BY <1>2, <2>3, <2>4 DEF Split, RootNumber, NumberOf
  <2>6. HeadBare(a)
    BY <1>1, <1>2, <2>1, <2>4, TopOfMain
  <2>7. StoredBlocks(a) = (StoredBlocks(t) \cup {b}) \ a.removed_blockstamps
    BY <2>2, <2>3, <2>4
  <2> QED BY <2>1, <2>2, <2>4, <2>5, <2>6, <2>7 DEF u
<1>4. CASE LiveNodes(t) # {}
  <2> DEFINE parent == t.main_branch[Number[b] - 1]
             a == AddNode(t, b, parent, TRUE)
             low == RootNumber(t)
  <2>1. /\ u = PruneToWindow(a)
        /\ parent \in LiveNodes(t)
        /\ TreeInv(a) /\ LiveNodes(a) # {}
        /\ DOMAIN a.main_branch = low .. Number[b]
        /\ RootNumber(a) = low /\ low < Number[b] /\ low \in Nat
        /\ DOMAIN t.main_branch = low .. (Number[b] - 1)
    BY <1>4, InsertHeadStep
  <2>2. /\ Number[b] - 1 \in DOMAIN t.main_branch /\ (Number[b] - 1) + 1 \notin DOMAIN t.main_branch
    BY <1>2, <2>1
  <2>3. Previous[b] = MainBlock(t, Number[b] - 1) /\ DataOf(t, parent) = Previous[b]
    BY <1>4 DEF Follows, MainBlock
  <2>4. b \notin StoredBlocks(t)
    BY <2>2, <2>3 DEF HeadBare
  <2>5. Previous[b] \notin G
    BY <1>4, <2>2, <2>3, MainNotCut
  <2>6. Hung(a)
    <3> HIDE DEF parent
    <3> QED BY <2>1, <2>3, AddNodeHung DEF TreeInv
  <2>7. /\ Split(a, G) /\ b \notin G /\ StoredBlocks(a) = StoredBlocks(t) \cup {b}
        /\ a.removed_blockstamps = {}
    <3>1. parent \in LiveNodes(t) /\ DataOf(t, parent) = Previous[b]
      BY <2>1, <2>3
    <3> HIDE DEF parent
    <3>2. PICK main_branch \in BOOLEAN : main_branch
      OBVIOUS
    <3>3. LET v == AddNode(t, b, parent, main_branch)
          IN  /\ Split(v, G) /\ b \notin G
              /\ StoredBlocks(v) = StoredBlocks(t) \cup {b}
              /\ v.removed_blockstamps = {}
      BY <2>4, <2>5, <3>1, NodeAdded
    <3> QED BY <3>2, <3>3
  <2> HIDE DEF a, u, parent
  <2>8. \A x \in StoredBlocks(a) : Previous[x] # b
    <3>1. StoredBlocks(t) \subseteq Block
      BY StoredAreBlocks DEF TreeInv
    <3>2. \A x \in Block : Previous[x] = b => x \notin StoredBlocks(t) \cup G
      <4>1. b \notin StoredBlocks(t) \cup G /\ Number[b] >= low
        BY <1>2, <2>1, <2>4, <2>7
      <4> QED BY <4>1, NoFollower
    <3> QED BY <1>2, <2>7, <3>1, <3>2
  <2>9. CASE u = a
    <3>1. HeadBare(u)
      BY <1>1, <2>8, <2>9, TopOfMain
    <3>2. StoredBlocks(u) = (StoredBlocks(t) \cup {b}) \ u.removed_blockstamps
      BY <2>7, <2>9
    <3> QED BY <2>7, <2>9, <3>1, <3>2 DEF u
  <2>10. CASE u = Pruning(a)
    <3>1. RootNumber(a) + 1 \in DOMAIN a.main_branch
      BY <1>2, <2>1
    <3>2. TreeInv(a) /\ Hung(a) /\ LiveNodes(a) # {} /\ Split(a, G)
      BY <2>1, <2>6, <2>7
    <3> DEFINE H == G \cup {DataOf(a, id) : id \in CutOff(a)}
    <3>3. LET p == Pruning(a)
           IN  /\ H \in SUBSET Block /\ Split(p, H)
               /\ StoredBlocks(p) = StoredBlocks(a) \ {DataOf(a, id) : id \in PrunedNodes(a)}
               /\ StoredBlocks(a) \subseteq H \cup StoredBlocks(p)
               /\ \A x \in StoredBlocks(p) \ H, w \in StoredBlocks(a) :
                     Previous[w] = x => w \in StoredBlocks(p)
      BY <3>2, <3>1, PruningSplits
    <3>4. /\ H \in SUBSET Block /\ Split(u, H)
          /\ StoredBlocks(u) = StoredBlocks(a) \ {DataOf(a, id) : id \in PrunedNodes(a)}
          /\ StoredBlocks(a) \subseteq H \cup StoredBlocks(u)
          /\ \A x \in StoredBlocks(u) \ H, w \in StoredBlocks(a) :
                Previous[w] = x => w \in StoredBlocks(u)
      <4> HIDE DEF H
      <4> QED BY <2>10, <3>3
    <3>5. u.removed_blockstamps = {DataOf(a, id) : id \in PrunedNodes(a)}
      BY <2>7, <2>10 DEF Pruning
    <3>6. G \subseteq H
      OBVIOUS
    <3> HIDE DEF H
    <3>7. StoredBlocks(u) = (StoredBlocks(t) \cup {b}) \ u.removed_blockstamps
      BY <2>7, <3>4, <3>5
    <3>8. HeadBare(u)
      BY <1>1, <2>8, <3>4, TopOfMain
    <3>9. StoredBlocks(u) \ H \subseteq (StoredBlocks(t) \ G) \cup {b}
      BY <2>7, <3>6, <3>7
    <3>10. \A x \in StoredBlocks(u) \ H, w \in StoredBlocks(t) :
             Previous[w] = x => w \in StoredBlocks(u)
      BY <2>7, <3>4
    <3>11. G \cup StoredBlocks(t) \subseteq H \cup StoredBlocks(u)
      BY <2>7, <3>4, <3>6
    <3> QED BY <3>4, <3>7, <3>8, <3>9, <3>10, <3>11 DEF u
  <2> QED BY <2>1, <2>9, <2>10 DEF PruneToWindow
<1> QED BY <1>3, <1>4

\* insert_new_head_block keeps what hangs under the root together with what waits for it.
LEMMA WriteHeadKept ==
    ASSUME NEW d, Sound(d), MainIn(d.fork_tree_db, d.blockchain_db),
           NEW cur \in Block \cup {NoBlock}, HeadOn(d.blockchain_db, cur),
           NEW b \in Block, CheckBlock(d, cur, b) = "valid", HeadWritable(d, b),
           NEW D, Kept(d, D)
    PROVE  Kept(WriteHead(d, b), D)
<1> DEFINE c == d.blockchain_db
           t == d.fork_tree_db
           v == InsertNewHeadBlock(t, b)
           u == WriteHead(d, b)
<1>1. /\ u.blockchain_db = Put(c, Number[b], b) /\ u.fork_tree_db = v
      /\ u.fork_blocks_db = (d.fork_blocks_db \cup {b}) \ v.removed_blockstamps
      /\ u.orphan_blocks_db = d.orphan_blocks_db
  BY DEF WriteHead, Sound, EmptyDBs
<1>2. DOMAIN c = 0 .. (Number[b] - 1) /\ Number[b] \in Nat
  BY NextOfChain DEF Sound
<1>3. TreeInv(t) /\ Hung(t) /\ HeadParentExists(t, b) /\ Follows(t, b) /\ HeadBare(t)
  BY HeadFollows DEF Sound, Kept, HeadWritable
<1>4. DOMAIN t.main_branch \subseteq 0 .. (Number[b] - 1)
  BY <1>2 DEF MainIn
<1>5. PICK G \in SUBSET Block :
          Split(t, G) /\ Waited(d, G) /\ D \subseteq G \cup StoredBlocks(t)
  BY DEF Kept
<1> HIDE DEF u, v, t
<1>6. /\ HeadBare(v) /\ StoredBlocks(v) = (StoredBlocks(t) \cup {b}) \ v.removed_blockstamps
      /\ \E H \in SUBSET Block :
            /\ Split(v, H)
            /\ StoredBlocks(v) \ H \subseteq (StoredBlocks(t) \ G) \cup {b}
            /\ G \cup StoredBlocks(t) \subseteq H \cup StoredBlocks(v)
            /\ \A x \in StoredBlocks(v) \ H, w \in StoredBlocks(t) :
                  Previous[w] = x => w \in StoredBlocks(v)
  BY <1>3, <1>4, <1>5, HeadKept DEF v
<1>7. PICK H \in SUBSET Block :
            /\ Split(v, H)
            /\ StoredBlocks(v) \ H \subseteq (StoredBlocks(t) \ G) \cup {b}
            /\ G \cup StoredBlocks(t) \subseteq H \cup StoredBlocks(v)
            /\ \A x \in StoredBlocks(v) \ H, w \in StoredBlocks(t) :
                  Previous[w] = x => w \in StoredBlocks(v)
  BY <1>6
<1>8. ASSUME NEW x \in StoredBlocks(v) \ H, ~InBlockchain(u, x)
      PROVE  Range(WaitingFor(u, x)) \subseteq StoredBlocks(v)
  <2>0. x # b /\ (InBlockchain(d, x) => InBlockchain(u, x))
    BY <1>1, <1>2, <1>8 DEF InBlockchain, Put
  <2>1. x \in StoredBlocks(t) \ G /\ ~InBlockchain(d, x)
    BY <1>7, <1>8, <2>0
  <2>2. Range(WaitingFor(d, x)) \subseteq StoredBlocks(t) /\ WaitingFor(u, x) = WaitingFor(d, x)
    BY <1>1, <1>5, <2>1 DEF Waited, t, WaitingFor
  <2>3. x \in Block
    BY <1>3, <2>1, StoredAreBlocks DEF TreeInv
  <2>4. \A w \in Range(WaitingFor(d, x)) : Previous[w] = x
    BY <2>3, WaitingFollow DEF Sound, OrphansOK, Range
  <2> QED BY <1>7, <2>2, <2>4
<1>9. Waited(u, H)
  BY <1>1, <1>8 DEF Waited
<1>10. u.fork_blocks_db = StoredBlocks(v) /\ D \subseteq H \cup StoredBlocks(v)
  BY <1>1, <1>5, <1>6, <1>7 DEF Kept, t
<1> QED BY <1>1, <1>6, <1>7, <1>9, <1>10 DEF Kept, t, u

-----------------------------------------------------------------------------
(* The family of a block: the orphans that it brings into the tree.         *)

Apart == {p \in Block \X Block : p[1] # p[2]}

\* The block itself, nobody twice, nobody without the one it waits for, and nobody
\* left behind that waits for one of them.
Family(d, x, s) ==
    /\ s \in Seq(Block) /\ Ordered(Apart, s) /\ x \in Range(s)
    /\ \A y \in Range(s) : y = x \/ (Previous[y] \in Range(s) /\ Number[y] > Number[x])
    /\ \A y \in Range(s) : Range(WaitingFor(d, y)) \subseteq Range(s)

\* Who waits for the same block have families apart.
LEMMA SiblingFamilies ==
    ASSUME NEW d, NEW x \in Block, NEW y \in Block, x # y, Number[x] = Number[y],
           NEW s, Family(d, x, s), NEW r, Family(d, y, r)
    PROVE  Range(s) \cap Range(r) = {}
<1> DEFINE both == Range(s) \cap Range(r)
           X == {Number[z] : z \in both}
<1> SUFFICES ASSUME both # {} PROVE FALSE
  OBVIOUS
<1>1. Range(s) \subseteq Block /\ Range(r) \subseteq Block
  BY DEF Family, Range
<1>2. X \in SUBSET Nat /\ X # {}
  BY <1>1, BlockAssumption
<1>3. PICK z \in both : \A other \in both : Number[z] <= Number[other]
  <2>1. PICK n \in X : \A m \in X : n <= m
    <3> HIDE DEF X
    <3> QED BY <1>2, LeastElement
  <2> QED BY <2>1
<1>4. /\ z = x \/ (Previous[z] \in Range(s) /\ Number[z] > Number[x])
      /\ z = y \/ (Previous[z] \in Range(r) /\ Number[z] > Number[y])
  BY <1>3 DEF Family
<1>5. Number[x] \in Nat /\ Number[z] \in Nat
  BY <1>1, <1>3, BlockAssumption
<1>6. Previous[z] \in both
  BY <1>4, <1>5
<1>7. Number[z] = Number[Previous[z]] + 1 /\ Number[Previous[z]] \in Nat
  BY <1>1, <1>3, <1>6, BlockAssumption
<1> QED BY <1>3, <1>6, <1>7

\* Followers is the family of its block.
LEMMA FollowersFamily ==
    ASSUME NEW d, OrphansOK(d.orphan_blocks_db)
    PROVE  \A x \in Block : Family(d, x, Followers(d, x))
<1> DEFINE X == {x \in Block : Family(d, x, Followers(d, x))}
<1>1. ASSUME NEW x \in Block, \A y \in Block : Number[y] = Number[x] + 1 => y \in X
      PROVE  x \in X
  <2> DEFINE w == WaitingFor(d, x)
             kids == [i \in DOMAIN w |-> Followers(d, w[i])]
             s == Followers(d, x)
  <2>1. /\ w \in Seq(Block) /\ IsInjective(w)
        /\ \A i \in DOMAIN w :
              w[i] \in Block /\ Previous[w[i]] = x /\ Number[w[i]] = Number[x] + 1
    BY WaitingFollow DEF OrphansOK
  <2>2. s = <<x>> \o FlattenSeq(kids)
    BY Families DEF OrphansOK
  <2>3. Range(WaitingFor(d, x)) = {w[i] : i \in DOMAIN w}
    BY DEF Range
  <2> HIDE DEF w
  <2>4. \A i \in DOMAIN w : Family(d, w[i], Followers(d, w[i]))
    BY <1>1, <2>1
  <2>5. DOMAIN kids = DOMAIN w /\ \A i \in DOMAIN w : Family(d, w[i], kids[i])
    BY <2>4
  <2>6. kids \in Seq(Seq(Block))
    <3>1. DOMAIN w = 1 .. Len(w) /\ Len(w) \in Nat
      BY <2>1
    <3>2. kids \in [1 .. Len(w) -> Seq(Block)]
      BY <2>4, <3>1 DEF Family
    <3> HIDE DEF kids
    <3> QED BY <3>1, <3>2, SequenceOf
  <2> HIDE DEF kids
  <2>7. \A i \in DOMAIN kids : Range(kids[i]) \subseteq Block
    BY <2>5 DEF Family, Range
  <2> DEFINE flat == FlattenSeq(kids)
  <2>8. /\ flat \in Seq(Block) /\ Ordered(Apart, flat)
        /\ Range(flat) = UNION {Range(kids[i]) : i \in DOMAIN kids}
    <3>1. \A i \in DOMAIN kids : Ordered(Apart, kids[i])
      BY <2>5 DEF Family
    <3>2. ASSUME NEW i \in DOMAIN kids, NEW j \in DOMAIN kids, i < j,
                 NEW y \in Range(kids[i]), NEW z \in Range(kids[j])
          PROVE  <<y, z>> \in Apart
      <4>1. i \in DOMAIN w /\ j \in DOMAIN w /\ i # j
        BY <2>1, <2>5, <3>2
      <4>2. w[i] # w[j]
        BY <2>1, <4>1 DEF IsInjective
      <4>3. Number[w[i]] = Number[w[j]] /\ w[i] \in Block /\ w[j] \in Block
        BY <2>1, <4>1
      <4>4. Range(kids[i]) \cap Range(kids[j]) = {}
        BY <2>5, <4>1, <4>2, <4>3, SiblingFamilies
      <4> QED BY <2>7, <3>2, <4>4 DEF Apart
    <3> QED BY <2>6, <3>1, <3>2, FlattenInOrder
  <2> HIDE DEF flat
  <2>9. ASSUME NEW y \in Range(flat)
        PROVE  \E i \in DOMAIN w : /\ y \in Range(kids[i]) /\ Range(kids[i]) \subseteq Range(flat)
                                   /\ y \in Block /\ Number[y] > Number[x]
                                   /\ y = w[i] \/ Previous[y] \in Range(kids[i])
                                   /\ Range(WaitingFor(d, y)) \subseteq Range(kids[i])
    <3>1. PICK i \in DOMAIN w : y \in Range(kids[i])
      BY <2>5, <2>8
    <3>2. y = w[i] \/ (Previous[y] \in Range(kids[i]) /\ Number[y] > Number[w[i]])
      BY <2>5, <3>1 DEF Family
    <3>3. Number[w[i]] = Number[x] + 1 /\ Number[x] \in Nat /\ y \in Block /\ Number[y] \in Nat
      BY <2>1, <2>5, <2>7, <3>1, BlockAssumption
    <3>4. Number[y] > Number[x]
      BY <3>2, <3>3
    <3> QED BY <2>5, <2>8, <3>1, <3>2, <3>3, <3>4 DEF Family
  <2>10. \A i \in DOMAIN w : w[i] \in Range(flat)
    <3> SUFFICES ASSUME NEW i \in DOMAIN w PROVE w[i] \in Range(kids[i])
      BY <2>5, <2>8
    <3> QED BY <2>5 DEF Family
  <2> DEFINE one == <<x>>
  <2>11. one \in Seq(Block) /\ Range(one) = {x} /\ Ordered(Apart, one)
    BY DEF Range, Ordered
  <2> HIDE DEF one
  <2>12. s \in Seq(Block) /\ Range(s) = {x} \cup Range(flat) /\ Ordered(Apart, s)
    <3>1. \A y \in Range(flat) : <<x, y>> \in Apart
      <4>1. \A y \in Range(flat) : y \in Block /\ y # x
        BY <2>9, BlockAssumption
      <4> QED BY <4>1 DEF Apart
    <3>2. s = one \o flat
      BY <2>2 DEF one, flat
    <3> HIDE DEF s
    <3> QED BY <2>8, <2>11, <3>1, <3>2, Concatenation
  <2> HIDE DEF s
  <2>13. \A y \in Range(s) : y = x \/ (Previous[y] \in Range(s) /\ Number[y] > Number[x])
    BY <2>1, <2>9, <2>12
  <2>14. \A y \in Range(s) : Range(WaitingFor(d, y)) \subseteq Range(s)
    <3>1. Range(WaitingFor(d, x)) \subseteq Range(flat)
      BY <2>3, <2>10
    <3>2. \A y \in Range(flat) : Range(WaitingFor(d, y)) \subseteq Range(flat)
      BY <2>9
    <3> QED BY <2>12, <3>1, <3>2
  <2> QED BY <2>12, <2>13, <2>14 DEF Family, s
<1>2. Block \subseteq X
  <2> HIDE DEF X
  <2> QED BY <1>1, FromTheTop
<1> QED BY <1>2

-----------------------------------------------------------------------------
(* Storing a fork block, as long as no branch is switched to.               *)

\* The top of the main branch is the current block, and a block in the fork window
\* is not below the root.
LEMMA TopIsCurrent ==
    ASSUME NEW d, Sound(d), MainIn(d.fork_tree_db, d.blockchain_db), Windowed(d),
           NEW cur \in Block \cup {NoBlock}, HeadOn(d.blockchain_db, cur), Headed(d.blockchain_db, cur),
           LiveNodes(d.fork_tree_db) # {}
    PROVE  LET t == d.fork_tree_db
           IN  /\ cur \in Block /\ Number[cur] \in DOMAIN t.main_branch
               /\ MainBlock(t, Number[cur]) = cur /\ Number[cur] + 1 \notin DOMAIN t.main_branch
               /\ \A n \in DOMAIN t.main_branch : n + 1 \notin DOMAIN t.main_branch => n = Number[cur]
               /\ \A b \in Block : InForkWindow(cur, b) => Number[b] >= RootNumber(t)
<1> DEFINE c == d.blockchain_db
           t == d.fork_tree_db
<1>1. PICK len \in Nat : DOMAIN c = 0 .. (len - 1)
  BY DEF Sound, Chained
<1>2. /\ RootNumber(t) \in Nat /\ RootNumber(t) \in DOMAIN t.main_branch
      /\ \A n \in DOMAIN t.main_branch : n \in Nat /\ n >= RootNumber(t)
  BY MainChainFacts DEF Sound, TreeInv
<1>3. /\ DOMAIN t.main_branch = {n \in DOMAIN c : n + FORK_WINDOW_SIZE \notin DOMAIN c}
      /\ FORK_WINDOW_SIZE \in Nat /\ FORK_WINDOW_SIZE > 1
      /\ \A n \in DOMAIN t.main_branch : c[n] = MainBlock(t, n)
  BY WindowAssumption, ThreadAssumption DEF Windowed, MainIn
<1>4. cur \in Block /\ Number[cur] \in DOMAIN c
  BY <1>2, <1>3 DEF Headed
<1>5. c[Number[cur]] = cur /\ \A n \in DOMAIN c : n <= Number[cur]
  BY <1>4 DEF HeadOn
<1> HIDE DEF c
<1>6. Number[cur] \in Nat /\ len - 1 = Number[cur]
  <2>1. Number[cur] \in 0 .. (len - 1) /\ len - 1 \in 0 .. (len - 1)
    BY <1>1, <1>4
  <2>2. len - 1 <= Number[cur]
    BY <1>1, <1>5, <2>1
  <2> QED BY <2>1, <2>2
<1>7. DOMAIN c = 0 .. Number[cur]
  BY <1>1, <1>6
<1> HIDE DEF t
<1>8. Number[cur] \in DOMAIN t.main_branch /\ Number[cur] + 1 \notin DOMAIN t.main_branch
  BY <1>3, <1>6, <1>7
<1>9. MainBlock(t, Number[cur]) = cur
  BY <1>3, <1>5, <1>8
<1>10. ASSUME NEW n \in DOMAIN t.main_branch, n + 1 \notin DOMAIN t.main_branch PROVE n = Number[cur]
  <2>1. n \in 0 .. Number[cur] /\ n + FORK_WINDOW_SIZE > Number[cur]
    BY <1>3, <1>6, <1>7, <1>10
  <2>2. n + 1 \notin 0 .. Number[cur] \/ (n + 1) + FORK_WINDOW_SIZE \in 0 .. Number[cur]
    BY <1>3, <1>7, <1>10
  <2> QED BY <1>3, <1>6, <2>1, <2>2
<1>11. ASSUME NEW b \in Block, InForkWindow(cur, b) PROVE Number[b] >= RootNumber(t)
  <2>1. Number[b] \in Nat /\ cur # NoBlock
    BY <1>4, BlockAssumption
  <2>2. Number[cur] - Number[b] < FORK_WINDOW_SIZE
    BY <1>11, <2>1 DEF InForkWindow, Height
  <2>3. RootNumber(t) = 0 \/ (RootNumber(t) - 1) + FORK_WINDOW_SIZE <= Number[cur]
    <3> SUFFICES ASSUME RootNumber(t) # 0 PROVE (RootNumber(t) - 1) + FORK_WINDOW_SIZE \in DOMAIN c
      BY <1>6, <1>7
    <3>1. RootNumber(t) - 1 \notin DOMAIN t.main_branch /\ RootNumber(t) - 1 \in DOMAIN c
      BY <1>2, <1>3, <1>6, <1>7
    <3> QED BY <1>3, <3>1
  <2> QED BY <1>2, <1>3, <1>6, <2>1, <2>2, <2>3
<1> QED BY <1>4, <1>8, <1>9, <1>10, <1>11 DEF t

\* The family of a new block of the window meets nothing that hangs under the root;
\* when the block itself will hang under the root, it meets nothing of the tree, and
\* nothing that was cut off.
LEMMA FamilyApart ==
    ASSUME NEW d, NEW t, TreeInv(t), Hung(t), LiveNodes(t) # {},
           NEW G \in SUBSET Block, Split(t, G),
           NEW b \in Block, b \notin StoredBlocks(t), Number[b] >= RootNumber(t),
           Previous[b] \in StoredBlocks(t),
           NEW s, Family(d, b, s)
    PROVE  /\ Range(s) \cap (StoredBlocks(t) \ G) = {}
           /\ Previous[b] \notin G => Range(s) \cap (StoredBlocks(t) \cup G) = {}
<1>1. Range(s) \subseteq Block
  BY DEF Family, Range
<1>2. RootNumber(t) \in Nat /\ WellFormed(t)
  BY MainChainFacts DEF TreeInv
<1>3. ASSUME NEW S, Range(s) \cap S # {}
      PROVE  \E y \in Range(s) \cap S : \A other \in Range(s) \cap S : Number[y] <= Number[other]
  <2> DEFINE both == Range(s) \cap S
             X == {Number[z] : z \in both}
  <2>1. X \in SUBSET Nat /\ X # {}
    BY <1>1, <1>3, BlockAssumption
  <2>2. PICK n \in X : \A m \in X : n <= m
    <3> HIDE DEF X
    <3> QED BY <2>1, LeastElement
  <2> QED BY <2>2
<1>4. ASSUME NEW S, Range(s) \cap S # {}, b \notin S
      PROVE  \E y \in Range(s) \cap S : /\ Previous[y] \in Range(s) \ S
                                        /\ Number[y] > Number[b] /\ Number[Previous[y]] >= RootNumber(t)
  <2>1. PICK y \in Range(s) \cap S : \A other \in Range(s) \cap S : Number[y] <= Number[other]
    BY <1>3, <1>4
  <2>2. Previous[y] \in Range(s) /\ Number[y] > Number[b]
    BY <1>4, <2>1 DEF Family
  <2>3. /\ Number[y] = Number[Previous[y]] + 1 /\ Number[Previous[y]] \in Nat
        /\ Number[b] \in Nat /\ Number[y] \in Nat
    BY <1>1, <2>1, <2>2, BlockAssumption
  <2>4. Previous[y] \notin S
    BY <2>1, <2>2, <2>3
  <2> QED BY <1>2, <2>1, <2>2, <2>3, <2>4
<1>5. ASSUME Range(s) \cap (StoredBlocks(t) \ G) # {} PROVE FALSE
  <2>1. PICK y \in Range(s) \cap (StoredBlocks(t) \ G) :
               /\ Previous[y] \notin StoredBlocks(t) \ G /\ Number[y] > Number[b]
    BY <1>4, <1>5
  <2>2. PICK id \in LiveNodes(t) : DataOf(t, id) = y
    BY DEF StoredBlocks
  <2>3. id # t.root
    BY <1>2, <2>1, <2>2, BlockAssumption DEF RootNumber, NumberOf
  <2>4. t.nodes[id].parent \in LiveNodes(t) /\ DataOf(t, t.nodes[id].parent) \notin G
    BY <2>1, <2>2, <2>3 DEF Split
  <2>5. DataOf(t, t.nodes[id].parent) = Previous[y]
    BY <2>2, <2>4 DEF Hung
  <2> QED BY <2>1, <2>4, <2>5 DEF StoredBlocks
<1>6. ASSUME Previous[b] \notin G, Range(s) \cap (StoredBlocks(t) \cup G) # {} PROVE FALSE
  <2>1. b \notin G
    <3>1. PICK id \in LiveNodes(t) : DataOf(t, id) = Previous[b]
      BY DEF StoredBlocks
    <3>2. NumberOf(t, id) >= RootNumber(t)
      BY <1>6, <3>1 DEF Split
    <3>3. Previous[b] \in Block
      BY <1>2, <3>1, StoredAreBlocks
    <3>4. Number[b] > RootNumber(t)
      BY <1>2, <3>1, <3>2, <3>3, BlockAssumption DEF NumberOf
    <3>5. b \in G => Previous[b] \in G \/ Number[b] <= RootNumber(t)
      BY DEF Split
    <3> QED BY <1>2, <1>6, <3>4, <3>5, BlockAssumption
  <2>2. PICK y \in Range(s) \cap (StoredBlocks(t) \cup G) :
               /\ Previous[y] \in Range(s) \ (StoredBlocks(t) \cup G)
               /\ Number[Previous[y]] >= RootNumber(t)
    BY <1>4, <1>6, <2>1
  <2>3. Previous[y] \in Block /\ y \in Block
    BY <1>1, <2>2
  <2> QED BY <2>2, <2>3, NoFollower
<1> QED BY <1>5, <1>6

\* A new block that comes below the tree: its node, and where it hangs.
LEMMA ForkNode ==
    ASSUME NEW t, TreeInv(t), NEW x \in Block, ForkParentExists(t, x)
    PROVE  \E parent \in LiveNodes(t) :
              /\ DataOf(t, parent) = Previous[x]
              /\ \E main_branch \in BOOLEAN :
                    ~main_branch /\ InsertNewForkBlock(t, x) = AddNode(t, x, parent, main_branch)
<1> DEFINE parent == FindNodeWithBlockstamp(t, Previous[x])
<1>1. parent \in LiveNodes(t) /\ DataOf(t, parent) = Previous[x]
  BY InsertForkParent DEF TreeInv, NodesWithBlockstamp
<1>2. InsertNewForkBlock(t, x) = AddNode(t, x, parent, FALSE)
  BY DEF InsertNewForkBlock, InsertNewNode
<1> HIDE DEF parent
<1>3. PICK main_branch \in BOOLEAN : main_branch = FALSE
  OBVIOUS
<1> QED BY <1>1, <1>2, <1>3

\* The family of a block below one that hangs under the root.
LEMMA FamilyInserted ==
    ASSUME NEW t, TreeInv(t), Hung(t), NEW G \in SUBSET Block, Split(t, G),
           NEW p \in StoredBlocks(t) \ G, NEW s \in Grows({p}), Ordered(Apart, s),
           Range(s) \cap StoredBlocks(t) = {}
    PROVE  LET u == InsertForkBlocks(t, s)
           IN  Split(u, G) /\ StoredBlocks(u) = StoredBlocks(t) \cup Range(s)
<1>1. s \in Seq(Block) /\ DOMAIN s = 1 .. Len(s) /\ Len(s) \in Nat
  BY DEF Grows
<1>2. PICK at : /\ at[0] = t /\ at[Len(s)] = InsertForkBlocks(t, s)
                /\ \A k \in 1 .. Len(s) : at[k] = InsertNewForkBlock(at[k - 1], s[k])
  BY <1>1, ForkSteps
<1> DEFINE Got(k) == {s[i] : i \in 1 .. k}
           Good(k) == /\ TreeInv(at[k]) /\ Hung(at[k]) /\ Split(at[k], G)
                      /\ StoredBlocks(at[k]) = StoredBlocks(t) \cup Got(k)
                      /\ Got(k) \cap G = {}
           Y == {k \in Nat : k <= Len(s) => Good(k)}
<1>3. 0 \in Y
  BY <1>2
<1>4. ASSUME NEW k \in Nat, k \in Y PROVE k + 1 \in Y
  <2> SUFFICES ASSUME k + 1 <= Len(s) PROVE Good(k + 1)
    OBVIOUS
  <2>1. k + 1 \in 1 .. Len(s) /\ (k + 1) - 1 = k /\ k <= Len(s)
    BY <1>1
  <2>2. Good(k)
    BY <1>4, <2>1
  <2> DEFINE x == s[k + 1]
  <2>3. at[k + 1] = InsertNewForkBlock(at[k], x) /\ x \in Block /\ x \in Range(s)
    BY <1>1, <1>2, <2>1 DEF Range
  <2>4. Got(k + 1) = Got(k) \cup {x}
    <3>1. 1 .. (k + 1) = (1 .. k) \cup {k + 1}
      OBVIOUS
    <3> QED BY <3>1
  <2>5. Previous[x] \in {p} \cup Got(k)
    <3>1. Previous[x] \in {p} \/ \E i \in DOMAIN s : i < k + 1 /\ s[i] = Previous[x]
      BY <1>1, <2>1 DEF Grows
    <3>2. \A i \in DOMAIN s : i < k + 1 => i \in 1 .. k
      BY <1>1
    <3> QED BY <3>1, <3>2
  <2>6. x \notin Got(k)
    <3> SUFFICES ASSUME NEW i \in 1 .. k PROVE s[i] # x
      OBVIOUS
    <3>1. i \in DOMAIN s /\ k + 1 \in DOMAIN s /\ i < k + 1
      BY <1>1, <2>1
    <3>2. <<s[i], x>> \in Apart
      BY <3>1 DEF Ordered
    <3> QED BY <3>2 DEF Apart
  <2> HIDE DEF Got, x
  <2>7. Previous[x] \in StoredBlocks(at[k]) \ G /\ x \notin StoredBlocks(at[k])
    BY <2>2, <2>3, <2>5, <2>6
  <2>8. ForkParentExists(at[k], x)
    BY <2>7 DEF ForkParentExists, NodesWithBlockstamp, StoredBlocks
  <2>9. TreeInv(at[k + 1]) /\ Hung(at[k + 1])
    BY <2>2, <2>3, <2>8, ForkInserted
  <2>10. PICK parent \in LiveNodes(at[k]), main_branch \in BOOLEAN :
            /\ DataOf(at[k], parent) = Previous[x]
            /\ at[k + 1] = AddNode(at[k], x, parent, main_branch)
    BY <2>2, <2>3, <2>8, ForkNode
  <2>11. /\ Split(at[k + 1], G) /\ x \notin G
         /\ StoredBlocks(at[k + 1]) = StoredBlocks(at[k]) \cup {x}
    BY <2>2, <2>3, <2>7, <2>10, NodeAdded
  <2> QED BY <2>2, <2>4, <2>9, <2>11
<1>5. Len(s) \in Y
  <2> HIDE DEF Y
  <2> QED BY <1>1, <1>3, <1>4, Induction
<1>6. Good(Len(s))
  BY <1>1, <1>5
<1>7. Got(Len(s)) = Range(s)
  BY <1>1 DEF Range
<1> HIDE DEF Got
<1> QED BY <1>2, <1>6, <1>7

\* Nodes whose walk never comes to the main branch: theirs are the blocks of A.
Astray(t, A) ==
    \A id \in LiveNodes(t) :
        DataOf(t, id) \in A =>
           /\ t.nodes[id].parent # NoNode /\ ~OnMainBranch(t, id)
           /\ t.nodes[id].parent \in LiveNodes(t) => DataOf(t, t.nodes[id].parent) \in A

\* What was cut off is astray.
LEMMA CutOffAstray ==
    ASSUME NEW t, TreeInv(t), NEW G, Split(t, G),
           NEW A, StoredBlocks(t) \cap A \subseteq G, G \subseteq A
    PROVE  Astray(t, A)
<1> SUFFICES ASSUME NEW id \in LiveNodes(t), DataOf(t, id) \in A
             PROVE  /\ t.nodes[id].parent # NoNode /\ ~OnMainBranch(t, id)
                    /\ t.nodes[id].parent \in LiveNodes(t) => DataOf(t, t.nodes[id].parent) \in A
  BY DEF Astray
<1>1. DataOf(t, id) \in G
  BY DEF StoredBlocks
<1>2. /\ t.nodes[id].parent # NoNode
      /\ t.nodes[id].parent \in LiveNodes(t) => DataOf(t, t.nodes[id].parent) \in G
  BY <1>1 DEF Split
<1>3. \A n \in DOMAIN t.main_branch : MainBlock(t, n) \notin G
  BY MainNotCut
<1>4. ~OnMainBranch(t, id)
  BY <1>1, <1>3 DEF OnMainBranch
<1> QED BY <1>2, <1>4

\* The walk from a node that is astray comes to a freed slot.
LEMMA AstrayAborts ==
    ASSUME NEW t, WellFormed(t), NEW A, Astray(t, A), NEW from \in LiveNodes(t), DataOf(t, from) \in A
    PROVE  WalkAborts(t, from)
<1>1. PICK up : /\ \A id \in LiveNodes(t) : ForkWalk(t, id) = up[id] /\ up[id] \in Walks(t)
                /\ \A id \in LiveNodes(t) : up[id] = WalkStep(t, up, id)
  BY WalkUp
<1> DEFINE Y == {k \in Nat : \A id \in LiveNodes(t) : id < k /\ DataOf(t, id) \in A => Head(up[id]) = NoNode}
<1>2. LiveNodes(t) \subseteq Nat
  BY DEF WellFormed
<1>3. 0 \in Y
  BY <1>2
<1>4. ASSUME NEW k \in Nat, k \in Y PROVE k + 1 \in Y
  <2> SUFFICES ASSUME NEW id \in LiveNodes(t), id < k + 1, DataOf(t, id) \in A
               PROVE  Head(up[id]) = NoNode
    OBVIOUS
  <2> DEFINE parent == t.nodes[id].parent
  <2>1. /\ parent # NoNode
        /\ parent \in LiveNodes(t) => DataOf(t, parent) \in A
    BY DEF Astray
  <2>2. CASE parent \notin LiveNodes(t)
    <3>1. up[id] = <<NoNode, id>>
      BY <1>1, <2>1, <2>2 DEF WalkStep
    <3> QED BY <3>1
  <2>3. CASE parent \in LiveNodes(t)
    <3>1. DataOf(t, parent) \in A /\ ~OnMainBranch(t, parent)
      BY <2>1, <2>3 DEF Astray
    <3>2. parent < id
      BY <1>2, <2>3 DEF WellFormed
    <3>3. parent < k
      BY <1>2, <2>3, <3>2
    <3>4. Head(up[parent]) = NoNode
      BY <1>4, <2>3, <3>1, <3>3
    <3>5. up[id] = Append(up[parent], id)
      BY <1>1, <2>1, <2>3, <3>1 DEF WalkStep
    <3>6. up[parent] \in Seq(LiveNodes(t) \cup {NoNode}) /\ up[parent] # <<>>
      BY <1>1, <2>3 DEF Walks
    <3> HIDE DEF parent
    <3>7. Append(up[parent], id)[1] = up[parent][1]
      BY <3>6
    <3> QED BY <3>4, <3>5, <3>6, <3>7
  <2> QED BY <2>2, <2>3
<1>5. Nat \subseteq Y
  <2> HIDE DEF Y
  <2> QED BY <1>3, <1>4, Induction
<1>6. from + 1 \in Nat /\ from < from + 1
  BY <1>2
<1>7. Head(up[from]) = NoNode
  BY <1>5, <1>6
<1> QED BY <1>1, <1>7 DEF WalkAborts

\* A node added below one that is astray is astray, and a sheet.
LEMMA AstrayAdded ==
    ASSUME NEW t, TreeInv(t), NEW A, Astray(t, A), NEW x \in Block, x \in A, Previous[x] \in A,
           \A n \in DOMAIN t.main_branch : MainBlock(t, n) # x,
           NEW parent \in LiveNodes(t), DataOf(t, parent) = Previous[x],
           NEW main_branch \in BOOLEAN, ~main_branch
    PROVE  LET a == AddNode(t, x, parent, main_branch)
           IN  /\ Astray(a, A) /\ StoredBlocks(a) = StoredBlocks(t) \cup {x}
               /\ \E id \in a.sheets : DataOf(a, id) = x
<1> DEFINE a == AddNode(t, x, parent, main_branch)
<1>0. WellFormed(t) /\ SheetsChildless(t) /\ parent # NoNode /\ parent \in Nat
  BY WindowAssumption DEF TreeInv, WellFormed
<1>1. /\ t.allocated \notin LiveNodes(t)
      /\ LiveNodes(a) = LiveNodes(t) \cup {t.allocated}
      /\ a.nodes[t.allocated] = [parent |-> parent, data |-> x]
      /\ \A id \in LiveNodes(t) : a.nodes[id] = t.nodes[id]
  BY <1>0, AddNodeFrame
<1>2. a.main_branch = t.main_branch /\ t.allocated \in a.sheets
  BY DEF AddNode
<1> HIDE DEF a
<1>3. DataOf(a, t.allocated) = x /\ \A id \in LiveNodes(t) : DataOf(a, id) = DataOf(t, id)
  BY <1>1 DEF DataOf
<1>4. \A n \in DOMAIN t.main_branch : MainBlock(a, n) = MainBlock(t, n)
  BY <1>0, <1>2, <1>3 DEF MainBlock, WellFormed
<1>5. StoredBlocks(a) = StoredBlocks(t) \cup {x}
  BY <1>1, <1>3 DEF StoredBlocks
<1>6. ASSUME NEW id \in LiveNodes(a), DataOf(a, id) \in A
      PROVE  /\ a.nodes[id].parent # NoNode /\ ~OnMainBranch(a, id)
             /\ a.nodes[id].parent \in LiveNodes(a) => DataOf(a, a.nodes[id].parent) \in A
  <2>1. CASE id = t.allocated
    <3>1. a.nodes[id].parent = parent /\ DataOf(a, parent) = Previous[x]
      BY <1>1, <1>3, <2>1
    <3>2. ~OnMainBranch(a, id)
      BY <1>2, <1>3, <1>4, <2>1 DEF OnMainBranch
    <3> QED BY <1>0, <3>1, <3>2
  <2>2. CASE id \in LiveNodes(t)
    <3>1. a.nodes[id].parent = t.nodes[id].parent /\ DataOf(a, id) = DataOf(t, id)
      BY <1>1, <1>3, <2>2
    <3>2. /\ t.nodes[id].parent # NoNode /\ ~OnMainBranch(t, id)
          /\ t.nodes[id].parent \in LiveNodes(t) => DataOf(t, t.nodes[id].parent) \in A
      BY <1>6, <2>2, <3>1 DEF Astray
    <3>3. t.nodes[id].parent # t.allocated
      BY <1>0, <2>2 DEF WellFormed
    <3>4. ~OnMainBranch(a, id)
      BY <1>2, <1>4, <3>1, <3>2 DEF OnMainBranch, NumberOf
    <3> QED BY <1>1, <1>3, <3>1, <3>2, <3>3, <3>4
  <2> QED BY <1>1, <2>1, <2>2
<1>7. Astray(a, A)
  BY <1>6 DEF Astray
<1> QED BY <1>2, <1>3, <1>5, <1>7 DEF a

\* The family of a block below one that was cut off: the last of it is a sheet from
\* which the walk up comes to a freed slot.
LEMMA FamilyAstray ==
    ASSUME NEW t, TreeInv(t), Hung(t), NEW G \in SUBSET Block, Split(t, G),
           NEW p \in StoredBlocks(t), p \in G, NEW s \in Grows({p}), Range(s) # {},
           Range(s) \cap (StoredBlocks(t) \ G) = {}
    PROVE  LET u == InsertForkBlocks(t, s)
           IN  /\ StoredBlocks(u) = StoredBlocks(t) \cup Range(s)
               /\ \E id \in u.sheets : DataOf(u, id) \in Range(s) /\ WalkAborts(u, id)
<1>1. s \in Seq(Block) /\ DOMAIN s = 1 .. Len(s) /\ Len(s) \in Nat
  BY DEF Grows
<1>2. PICK at : /\ at[0] = t /\ at[Len(s)] = InsertForkBlocks(t, s)
                /\ \A k \in 1 .. Len(s) : at[k] = InsertNewForkBlock(at[k - 1], s[k])
  BY <1>1, ForkSteps
<1> DEFINE A == G \cup Range(s)
           Got(k) == {s[i] : i \in 1 .. k}
           Good(k) == /\ TreeInv(at[k]) /\ Hung(at[k]) /\ Astray(at[k], A)
                      /\ DOMAIN at[k].main_branch = DOMAIN t.main_branch
                      /\ \A n \in DOMAIN t.main_branch : MainBlock(at[k], n) = MainBlock(t, n)
                      /\ StoredBlocks(at[k]) = StoredBlocks(t) \cup Got(k)
                      /\ k > 0 => \E id \in at[k].sheets : DataOf(at[k], id) = s[k]
           Y == {k \in Nat : k <= Len(s) => Good(k)}
<1>3. \A n \in DOMAIN t.main_branch : MainBlock(t, n) \notin A
  <2>1. LiveNodes(t) # {}
    BY DEF StoredBlocks
  <2>2. ASSUME NEW n \in DOMAIN t.main_branch PROVE MainBlock(t, n) \in StoredBlocks(t)
    BY DEF TreeInv, WellFormed, MainBlock, StoredBlocks
  <2> QED BY <2>1, <2>2, MainNotCut
<1>4. Astray(t, A)
  <2>1. StoredBlocks(t) \cap A \subseteq G /\ G \subseteq A
    OBVIOUS
  <2> HIDE DEF A
  <2> QED BY <2>1, CutOffAstray
<1>5. 0 \in Y
  BY <1>2, <1>4
<1>6. ASSUME NEW k \in Nat, k \in Y PROVE k + 1 \in Y
  <2> SUFFICES ASSUME k + 1 <= Len(s) PROVE Good(k + 1)
    OBVIOUS
  <2>1. k + 1 \in 1 .. Len(s) /\ (k + 1) - 1 = k /\ k <= Len(s) /\ k + 1 > 0
    BY <1>1
  <2>2. Good(k)
    BY <1>6, <2>1
  <2> DEFINE x == s[k + 1]
  <2>3. at[k + 1] = InsertNewForkBlock(at[k], x) /\ x \in Block /\ x \in Range(s)
    BY <1>1, <1>2, <2>1 DEF Range
  <2>4. Got(k + 1) = Got(k) \cup {x}
    <3>1. 1 .. (k + 1) = (1 .. k) \cup {k + 1}
      OBVIOUS
    <3> QED BY <3>1
  <2>5. Previous[x] \in {p} \cup Got(k) /\ Previous[x] \in A
    <3>1. Previous[x] \in {p} \/ \E i \in DOMAIN s : i < k + 1 /\ s[i] = Previous[x]
      BY <1>1, <2>1 DEF Grows
    <3>2. \A i \in DOMAIN s : i < k + 1 => i \in 1 .. k /\ s[i] \in Range(s)
      BY <1>1 DEF Range
    <3> QED BY <3>1, <3>2
  <2>6. x \in A
    BY <2>3
  <2> HIDE DEF Got, x, A
  <2>7. ForkParentExists(at[k], x)
    BY <2>2, <2>5 DEF ForkParentExists, NodesWithBlockstamp, StoredBlocks
  <2>8. /\ TreeInv(at[k + 1]) /\ Hung(at[k + 1])
        /\ DOMAIN at[k + 1].main_branch = DOMAIN at[k].main_branch
        /\ \A n \in DOMAIN at[k].main_branch : MainBlock(at[k + 1], n) = MainBlock(at[k], n)
    BY <2>2, <2>3, <2>7, ForkInserted
  <2>9. PICK parent \in LiveNodes(at[k]), main_branch \in BOOLEAN :
            /\ DataOf(at[k], parent) = Previous[x] /\ ~main_branch
            /\ at[k + 1] = AddNode(at[k], x, parent, main_branch)
    BY <2>2, <2>3, <2>7, ForkNode
  <2>10. \A n \in DOMAIN at[k].main_branch : MainBlock(at[k], n) # x
    BY <1>3, <2>2, <2>6
  <2>11. /\ Astray(at[k + 1], A) /\ StoredBlocks(at[k + 1]) = StoredBlocks(at[k]) \cup {x}
         /\ \E id \in at[k + 1].sheets : DataOf(at[k + 1], id) = x
    BY <2>2, <2>3, <2>5, <2>6, <2>9, <2>10, AstrayAdded
  <2>12. StoredBlocks(at[k + 1]) = StoredBlocks(t) \cup Got(k + 1)
    BY <2>2, <2>4, <2>11
  <2>13. \A n \in DOMAIN t.main_branch : MainBlock(at[k + 1], n) = MainBlock(t, n)
    BY <2>2, <2>8
  <2> QED BY <2>2, <2>8, <2>11, <2>12, <2>13 DEF x
<1>7. Len(s) \in Y
  <2> HIDE DEF Y
  <2> QED BY <1>1, <1>5, <1>6, Induction
<1>8. Good(Len(s)) /\ Len(s) > 0
  <2>1. Len(s) > 0
    BY <1>1 DEF Range
  <2> QED BY <1>1, <1>7, <2>1
<1>9. Got(Len(s)) = Range(s) /\ s[Len(s)] \in Range(s)
  <2>1. Len(s) \in DOMAIN s
    BY <1>1, <1>8
  <2> QED BY <1>1, <2>1 DEF Range
<1> DEFINE u == at[Len(s)]
<1>10. PICK id \in u.sheets : DataOf(u, id) = s[Len(s)]
  BY <1>8
<1>11. WalkAborts(u, id)
  <2>1. WellFormed(u) /\ id \in LiveNodes(u) /\ DataOf(u, id) \in A /\ Astray(u, A)
    BY <1>8, <1>9, <1>10 DEF TreeInv, WellFormed
  <2> HIDE DEF A, u
  <2> QED BY <2>1, AstrayAborts
<1> HIDE DEF Got
<1> QED BY <1>2, <1>8, <1>9, <1>10, <1>11

\* A sheet from which the walk aborts ends the visit, if no other does before.
LEMMA VisitEnds ==
    ASSUME NEW d, WellFormed(d.fork_tree_db), NEW cur, NEW invalid,
           NEW id \in SheetsToVisit(d, cur), WalkAborts(d.fork_tree_db, id)
    PROVE  LastVisited(d, cur, invalid) # {}
<1> DEFINE t == d.fork_tree_db
           ends == {sheet \in SheetsToVisit(d, cur) : EndsVisit(d, cur, invalid, sheet)}
<1>1. PICK top \in Nat : \A b \in Block : Number[b] <= top
  BY HighestBlock
<1>2. id \in ends
  BY DEF EndsVisit, Unvisitable
<1>3. \A sheet \in ends : NumberOf(t, sheet) \in Nat /\ NumberOf(t, sheet) <= top
  <2>1. \A sheet \in ends : sheet \in LiveNodes(t)
    BY DEF SheetsToVisit, WellFormed
  <2>2. \A sheet \in LiveNodes(t) : DataOf(t, sheet) \in Block
    BY StoredAreBlocks
  <2> QED BY <1>1, <2>1, <2>2, BlockAssumption DEF NumberOf
<1> DEFINE X == {top - NumberOf(t, sheet) : sheet \in ends}
<1>4. PICK n \in X : \A m \in X : n <= m
  <2>1. X \in SUBSET Nat
    <3> HIDE DEF ends
    <3> QED BY <1>1, <1>3
  <2>2. X # {}
    BY <1>2
  <2> HIDE DEF X
  <2> QED BY <2>1, <2>2, LeastElement
<1>5. PICK last \in ends : n = top - NumberOf(t, last)
  OBVIOUS
<1>6. ASSUME NEW other \in ends, NumberOf(t, other) > NumberOf(t, last) PROVE FALSE
  <2>1. top - NumberOf(t, other) >= top - NumberOf(t, last)
    BY <1>4, <1>5
  <2>2. NumberOf(t, other) \in Nat /\ NumberOf(t, last) \in Nat
    BY <1>3
  <2> HIDE DEF ends, X
  <2> QED BY <1>1, <1>6, <2>1, <2>2
<1>7. last \in LastVisited(d, cur, invalid)
  BY <1>6 DEF LastVisited
<1> QED BY <1>7

\* insert_new_fork_block, below a stored block: nothing follows the current block, and
\* either the databases are kept or the resolution that comes next does not end quietly.
LEMMA StoreForkKept ==
    ASSUME NEW d, Sound(d), MainIn(d.fork_tree_db, d.blockchain_db), Windowed(d),
           NEW cur \in Block \cup {NoBlock}, HeadOn(d.blockchain_db, cur), Headed(d.blockchain_db, cur),
           NEW b \in Block, CheckBlock(d, cur, b) = "fork", NEW D, Kept(d, D), NEW invalid
    PROVE  LET u == StoreFork(d, b)
           IN  /\ WellFormed(u.fork_tree_db)
               /\ \A x \in StoredBlocks(u.fork_tree_db) : Previous[x] # cur
               /\ cur \in u.fork_blocks_db
               /\ Kept(u, D \cup {b}) \/ LastVisited(u, cur, invalid) # {}
<1> DEFINE t == d.fork_tree_db
           s == Followers(d, b)
           v == InsertForkBlocks(t, s)
           u == StoreFork(d, b)
<1>1. /\ u.blockchain_db = d.blockchain_db /\ u.fork_tree_db = v
      /\ u.fork_blocks_db = d.fork_blocks_db \cup Range(s)
      /\ u.orphan_blocks_db = d.orphan_blocks_db
  BY DEF StoreFork, Sound, EmptyDBs
<1> HIDE DEF u
<1>2. Sound(u)
  BY Verdicts, StoreForkKeeps DEF u
<1>3. /\ ForkParentExists(t, b) /\ ~AlreadyHave(d, b) /\ ~Chainable(cur, b) /\ InForkWindow(cur, b)
      /\ Previous[b] \in StoredBlocks(t)
  BY Verdicts DEF ForkParentExists, NodesWithBlockstamp, StoredBlocks
<1>4. TreeInv(t) /\ Hung(t) /\ LiveNodes(t) # {} /\ WellFormed(t)
  BY <1>3 DEF Sound, TreeInv, StoredBlocks
<1>5. /\ cur \in Block /\ Number[cur] \in DOMAIN t.main_branch
      /\ MainBlock(t, Number[cur]) = cur /\ Number[cur] + 1 \notin DOMAIN t.main_branch
      /\ \A n \in DOMAIN t.main_branch : n + 1 \notin DOMAIN t.main_branch => n = Number[cur]
      /\ Number[b] >= RootNumber(t)
  BY <1>3, <1>4, TopIsCurrent
<1>6. d.fork_blocks_db = StoredBlocks(t) /\ HeadBare(t)
  BY DEF Kept
<1>7. b \notin StoredBlocks(t) /\ Previous[b] # cur
  <2>1. Previous[b] = cur => Number[b] = Number[cur] + 1
    BY <1>5, BlockAssumption
  <2> QED BY <1>3, <1>5, <1>6, <2>1, BlockAssumption DEF AlreadyHave, Chainable
<1>8. PICK G \in SUBSET Block :
          Split(t, G) /\ Waited(d, G) /\ D \subseteq G \cup StoredBlocks(t)
  BY DEF Kept
<1>9. s \in Grows({Previous[b]}) /\ Family(d, b, s)
  BY FollowersGrow, FollowersFamily DEF Sound, OrphansOK
<1> HIDE DEF s, t
<1>10. /\ Ordered(Apart, s) /\ b \in Range(s)
       /\ \A y \in Range(s) : y = b \/ Previous[y] \in Range(s)
       /\ \A y \in Range(s) : Range(WaitingFor(d, y)) \subseteq Range(s)
  BY <1>9 DEF Family
<1>11. /\ Range(s) \cap (StoredBlocks(t) \ G) = {}
       /\ Previous[b] \notin G => Range(s) \cap (StoredBlocks(t) \cup G) = {}
  BY <1>3, <1>4, <1>5, <1>7, <1>8, <1>9, FamilyApart
<1>12. cur \in StoredBlocks(t) \ G /\ cur \in u.fork_blocks_db
  <2>1. MainBlock(t, Number[cur]) \notin G
    BY <1>4, <1>5, <1>8, MainNotCut
  <2>2. MainBlock(t, Number[cur]) \in StoredBlocks(t)
    BY <1>4, <1>5 DEF WellFormed, MainBlock, StoredBlocks
  <2> QED BY <1>1, <1>5, <1>6, <2>1, <2>2
<1>13. /\ TreeInv(v) /\ Hung(v) /\ DOMAIN v.main_branch = DOMAIN t.main_branch
       /\ \A n \in DOMAIN t.main_branch : MainBlock(v, n) = MainBlock(t, n)
  <2>1. {Previous[b]} \in SUBSET StoredBlocks(t)
    BY <1>3
  <2> QED BY <1>4, <1>9, <2>1, ForksInserted
<1> HIDE DEF v
<1>14. \A x \in StoredBlocks(t) \cup Range(s) : Previous[x] # cur
  <2>1. \A x \in StoredBlocks(t) : Previous[x] # cur
    BY <1>5, <1>6 DEF HeadBare
  <2>2. \A x \in Range(s) : Previous[x] # cur
    BY <1>7, <1>10, <1>11, <1>12
  <2> QED BY <2>1, <2>2
<1>15. CASE Previous[b] \notin G
  <2>1. Split(v, G) /\ StoredBlocks(v) = StoredBlocks(t) \cup Range(s)
    <3>1. Previous[b] \in StoredBlocks(t) \ G /\ Range(s) \cap StoredBlocks(t) = {}
      BY <1>3, <1>11, <1>15
    <3> QED BY <1>4, <1>8, <1>9, <1>10, <3>1, FamilyInserted DEF v
  <2>2. HeadBare(v)
    BY <1>5, <1>13, <1>14, <2>1 DEF HeadBare
  <2>3. ASSUME NEW x \in StoredBlocks(v) \ G, ~InBlockchain(u, x)
        PROVE  Range(WaitingFor(u, x)) \subseteq StoredBlocks(v)
    <3>1. WaitingFor(u, x) = WaitingFor(d, x) /\ ~InBlockchain(d, x)
      BY <1>1, <2>3 DEF WaitingFor, InBlockchain
    <3>2. CASE x \in Range(s)
      BY <1>10, <2>1, <3>1, <3>2
    <3>3. CASE x \in StoredBlocks(t)
      BY <1>8, <2>1, <2>3, <3>1, <3>3 DEF Waited, t
    <3> QED BY <2>1, <2>3, <3>2, <3>3
  <2>4. D \cup {b} \subseteq G \cup StoredBlocks(v)
    BY <1>8, <1>10, <2>1
  <2>5. u.fork_tree_db = v /\ u.fork_blocks_db = StoredBlocks(v)
    BY <1>1, <1>6, <2>1
  <2>6. Kept(u, D \cup {b})
    BY <2>1, <2>2, <2>3, <2>4, <2>5 DEF Kept, Waited
  <2> QED BY <1>1, <1>12, <1>13, <1>14, <2>1, <2>6 DEF u, TreeInv
<1>16. CASE Previous[b] \in G
  <2>1. /\ StoredBlocks(v) = StoredBlocks(t) \cup Range(s)
        /\ \E id \in v.sheets : DataOf(v, id) \in Range(s) /\ WalkAborts(v, id)
    BY <1>3, <1>4, <1>8, <1>9, <1>10, <1>11, <1>16, FamilyAstray DEF v
  <2>2. PICK id \in v.sheets : DataOf(v, id) \in Range(s) /\ WalkAborts(v, id)
    BY <2>1
  <2>3. id \in SheetsToVisit(u, cur)
    BY <1>1, <1>11, <1>12, <2>2 DEF SheetsToVisit
  <2>4. WellFormed(u.fork_tree_db) /\ WalkAborts(u.fork_tree_db, id)
    BY <1>1, <1>13, <2>2 DEF TreeInv
  <2>5. LastVisited(u, cur, invalid) # {}
    BY <2>3, <2>4, VisitEnds
  <2> QED BY <1>1, <1>12, <1>14, <2>1, <2>4, <2>5 DEF u
<1> QED BY <1>15, <1>16

\* insert_new_fork_block, of an orphan: nothing stored is waited for anew.
LEMMA StoreOrphanKept ==
    ASSUME NEW d, Sound(d), NEW b \in Block, ~ForkParentExists(d.fork_tree_db, b),
           NEW D, Kept(d, D)
    PROVE  Kept(StoreOrphan(d, b), D)
<1> DEFINE u == StoreOrphan(d, b)
<1>1. /\ u.blockchain_db = d.blockchain_db /\ u.fork_tree_db = d.fork_tree_db
      /\ u.fork_blocks_db = d.fork_blocks_db
      /\ u.orphan_blocks_db = Put(d.orphan_blocks_db, Previous[b], Append(WaitingFor(d, Previous[b]), b))
  BY DEF StoreOrphan, Sound, EmptyDBs
<1> HIDE DEF u
<1>2. \A x : x # Previous[b] => WaitingFor(u, x) = WaitingFor(d, x)
  BY <1>1 DEF WaitingFor, Put
<1>3. Previous[b] \notin StoredBlocks(d.fork_tree_db)
  BY DEF ForkParentExists, NodesWithBlockstamp, StoredBlocks
<1>4. \A G : Waited(d, G) => Waited(u, G)
  BY <1>1, <1>2, <1>3 DEF Waited, InBlockchain
<1> QED BY <1>1, <1>4 DEF Kept, u

-----------------------------------------------------------------------------
(* The databases agree as long as no branch failed.                         *)

\* The blocks that the thread has handled since the first start; a restart forgets
\* what was not saved.
Handled ==
    IF crashes = 0 THEN delivered \ (Range(batch) \cup Refused \cup Forged) ELSE {}

\* Those it must have placed: they do not wait, and come above the current block.
Placed ==
    {b \in Handled : /\ b \notin Range(WaitingFor(mem, Previous[b]))
                     /\ current = NoBlock \/ Number[b] > Number[current]}

\* The databases that a start finds are those of a node that never switched, and
\* so are those in memory but during a rollback, which never fits: the first block
\* of its branch does not follow the current one, which is stored all the while.
KeptInv ==
    /\ phase \notin Fatal \cup {"reverting"} => Kept(mem, Placed)
    /\ files \in {<<>>, Files} => Kept(disk, {})
    /\ phase \in {"idle", "stacking", "saving"} => batch = <<>>
    /\ phase = "reverting" => Previous[branch[1]] # current /\ current \in mem.fork_blocks_db
    /\ CurrentBlockStored

\* The first state: nothing is stored and nothing waits.
LEMMA KeptInvInit == Init => KeptInv
<1>1. /\ EmptyDBs.fork_tree_db = EmptyTree /\ EmptyDBs.fork_blocks_db = {}
      /\ LiveNodes(EmptyTree) = {} /\ DOMAIN EmptyTree.main_branch = {}
  BY DEF EmptyDBs, EmptyTree, LiveNodes
<1>2. StoredBlocks(EmptyTree) = {}
  BY <1>1 DEF StoredBlocks
<1>3. Split(EmptyTree, {}) /\ HeadBare(EmptyTree) /\ Waited(EmptyDBs, {})
  BY <1>1, <1>2 DEF Split, HeadBare, Waited
<1>4. Kept(EmptyDBs, {})
  BY <1>1, <1>2, <1>3 DEF Kept
<1>5. Init => Placed = {}
  BY DEF Init, Placed, Handled
<1> QED BY <1>4, <1>5 DEF Init, KeptInv, CurrentBlockStored

\* The next block of the message is the only one to be handled.
LEMMA HandledNext ==
    ASSUME batch \in Seq(Block), batch # <<>>, batch' = Tail(batch), UNCHANGED <<delivered, crashes>>
    PROVE  Handled' \subseteq Handled \cup {Head(batch)}
<1>1. Range(batch) \subseteq Range(Tail(batch)) \cup {Head(batch)}
  <2> SUFFICES ASSUME NEW i \in DOMAIN batch, i # 1 PROVE batch[i] \in Range(Tail(batch))
    BY DEF Range
  <2>1. i - 1 \in DOMAIN Tail(batch) /\ Tail(batch)[i - 1] = batch[i]
    OBVIOUS
  <2> QED BY <2>1 DEF Range
<1> QED BY <1>1 DEF Handled

\* A block that is dropped but may be stacked is stored, waits, or came too late.
LEMMA DroppedBlock ==
    ASSUME NEW d, NEW cur \in Block \cup {NoBlock}, HeadOn(d.blockchain_db, cur),
           Headed(d.blockchain_db, cur),
           NEW b \in Block \ (Refused \cup Forged), CheckBlock(d, cur, b) \in {"refused", "known"}
    PROVE  \/ b \in d.fork_blocks_db \cup Range(WaitingFor(d, Previous[b]))
           \/ cur # NoBlock /\ ~(Number[b] > Number[cur])
<1>1. Number[b] \in Nat /\ (cur # NoBlock => Number[cur] \in Nat)
      /\ FORK_WINDOW_SIZE \in Nat /\ FORK_WINDOW_SIZE > 1
  BY BlockAssumption, WindowAssumption, ThreadAssumption
<1>2. CASE Chainable(cur, b)
  <2>1. ~Valid(d, b)
    BY <1>2 DEF CheckBlock
  <2>2. Number[b] > 0 /\ Number[b] - 1 \notin DOMAIN d.blockchain_db
    BY <2>1 DEF Valid
  <2>3. cur # NoBlock /\ Number[b] - 1 = Number[cur]
    BY <1>1, <1>2, <2>2 DEF Chainable
  <2>4. FALSE
    BY <2>2, <2>3, BlockAssumption DEF Headed, HeadOn
  <2> QED BY <2>4
<1>3. CASE ~Chainable(cur, b) /\ ~InForkWindow(cur, b)
  BY <1>1, <1>3 DEF InForkWindow, Height
<1>4. CASE ~Chainable(cur, b) /\ InForkWindow(cur, b)
  <2>1. AlreadyHave(d, b)
    <3>1. ~AlreadyHave(d, b) => CheckBlock(d, cur, b) \in {"fork", "orphan"}
      BY <1>4 DEF CheckBlock
    <3> QED BY <3>1
  <2>2. InBlockchain(d, b) => cur # NoBlock /\ ~(Number[b] > Number[cur])
    BY <1>1 DEF InBlockchain, Headed, HeadOn
  <2> QED BY <2>1, <2>2 DEF AlreadyHave
<1> QED BY <1>2, <1>3, <1>4

\* A block is stacked: what is above it was above its predecessor.
LEMMA KeptMoves ==
    ASSUME ChainInv, HeadInv, KeptInv, phase \in {"receiving", "stacking"},
           UNCHANGED <<disk, files>>, phase = "stacking" => UNCHANGED batch,
           NEW b \in Block, CheckBlock(mem, current, b) = "valid", Handled' \subseteq Handled \cup {b},
           \/ /\ HeadWritable(mem, b)
              /\ mem' = WriteHead(mem, b) /\ current' = b /\ phase' = phase
           \/ mem' = mem /\ phase' = "no_previous_block_in_main_branch"
    PROVE  KeptInv'
<1>1. /\ OnChain /\ Sound(mem) /\ current \in Block \cup {NoBlock} /\ delivered \subseteq Block
  BY DEF ChainInv, Stuck, Fatal, Thread
<1>2. Kept(mem, Placed) /\ Kept(disk, {}) /\ (phase = "stacking" => batch = <<>>)
  BY DEF KeptInv, HeadInv, Fatal
<1>3. CASE HeadWritable(mem, b) /\ mem' = WriteHead(mem, b) /\ current' = b /\ phase' = phase
  <2>1. mem'.orphan_blocks_db = mem.orphan_blocks_db
    BY <1>1, <1>3 DEF WriteHead, Sound, EmptyDBs
  <2>2. \A x : WaitingFor(mem', x) = WaitingFor(mem, x)
    BY <2>1 DEF WaitingFor
  <2>3. current = NoBlock \/ Number[b] = Number[current] + 1
    BY Verdicts DEF Chainable
  <2>4. ASSUME NEW x \in Placed' PROVE x \in Placed
    <3>1. /\ x \in Handled' /\ x \notin Range(WaitingFor(mem', Previous[x]))
          /\ b = NoBlock \/ Number[x] > Number[b]
      BY <1>3 DEF Placed
    <3>2. b # NoBlock /\ Number[b] \in Nat
      BY BlockAssumption
    <3>3. x \in Handled
      BY <3>1, <3>2
    <3>4. x \in Block /\ Number[x] \in Nat
      BY <1>1, <3>3, BlockAssumption DEF Handled
    <3>5. current = NoBlock \/ Number[x] > Number[current]
      <4>1. current # NoBlock => Number[current] \in Nat
        BY <1>1, BlockAssumption
      <4> QED BY <2>3, <3>1, <3>2, <3>4, <4>1
    <3> QED BY <2>2, <3>1, <3>3, <3>5 DEF Placed
  <2>5. Kept(mem', Placed)
    BY <1>1, <1>2, <1>3, WriteHeadKept DEF OnChain
  <2>6. Kept(mem', Placed')
    <3>1. Placed' \subseteq Placed \cup mem'.fork_blocks_db
      BY <2>4
    <3> QED BY <2>5, <3>1, KeptMore
  <2> QED BY <1>2, <1>3, <2>6 DEF KeptInv, CurrentBlockStored
<1>4. CASE mem' = mem /\ phase' = "no_previous_block_in_main_branch"
  BY <1>2, <1>4 DEF KeptInv, CurrentBlockStored, Fatal
<1> QED BY <1>3, <1>4

\* The actions that leave the databases alone.
LEMMA QuietKept ==
    ASSUME ChainInv, HeadInv, KeptInv, invalid_forks = {},
           \/ \E blocks \in Batches : ReceiveBlocks(blocks)
           \/ DropBlock \/ EndReceiving \/ EndSaving \/ StartStacking \/ EndStacking
    PROVE  KeptInv'
<1>1. /\ UNCHANGED <<mem, disk, current, crashes>> /\ phase \in {"idle", "receiving", "saving", "stacking"}
      /\ phase' \notin {"reverting", "current_block_not_in_fork_blocks"}
      /\ (files' = files \/ (files' = Files /\ phase # "saving"))
      /\ (phase' \in {"idle", "stacking", "saving"} => batch' = <<>>)
  <2>0. phase \in {"idle", "stacking", "saving"} => batch = <<>>
    BY DEF KeptInv
  <2>1. CASE (\E blocks \in Batches : ReceiveBlocks(blocks)) \/ DropBlock \/ StartStacking
    BY <2>0, <2>1 DEF ReceiveBlocks, DropBlock, Handle, StartStacking
  <2>2. CASE EndReceiving \/ EndStacking
    BY <2>0, <2>2 DEF EndReceiving, EndStacking
  <2>3. CASE EndSaving
    <3>1. phase' \in {"idle", "receiving", "branch_block_lost"}
      BY <2>3 DEF EndSaving
    <3>2. UNCHANGED <<mem, disk, current, crashes, batch, files>> /\ phase = "saving"
      BY <2>3 DEF EndSaving
    <3> QED BY <2>0, <3>1, <3>2
  <2> QED BY <2>1, <2>2, <2>3
<1>2. Kept(mem, Placed) /\ (files' \in {<<>>, Files} => Kept(disk, {}))
  BY <1>1 DEF KeptInv, HeadInv, Fatal
<1>3. Placed' \subseteq Placed \cup mem.fork_blocks_db
  <2>1. CASE \E blocks \in Batches : ReceiveBlocks(blocks)
    <3>1. PICK blocks : phase = "idle" /\ batch' = blocks /\ delivered' = delivered \cup Range(blocks)
      BY <2>1 DEF ReceiveBlocks
    <3>2. Range(batch) = {}
      BY <3>1 DEF KeptInv, Range
    <3>3. Handled' \subseteq Handled
      BY <1>1, <3>1, <3>2 DEF Handled
    <3> QED BY <1>1, <3>3 DEF Placed
  <2>2. CASE DropBlock
    <3>1. PICK b : b = Head(batch)
      OBVIOUS
    <3>2. /\ phase = "receiving" /\ batch # <<>> /\ batch' = Tail(batch)
          /\ CheckBlock(mem, current, b) \in {"refused", "known"} /\ UNCHANGED delivered
      BY <2>2, <3>1 DEF DropBlock, Handle
    <3>3. /\ batch \in Seq(Block) /\ current \in Block \cup {NoBlock} /\ delivered \subseteq Block
          /\ HeadOn(mem.blockchain_db, current) /\ Headed(mem.blockchain_db, current)
      BY <3>2 DEF ChainInv, Thread, OnChain, HeadInv, Stuck, Fatal
    <3>4. Handled' \subseteq Handled \cup {b}
      BY <1>1, <3>1, <3>2, <3>3, HandledNext
    <3>5. ASSUME NEW x \in Placed' PROVE x \in Placed \cup mem.fork_blocks_db
      <4>1. /\ x \in Handled' /\ x \notin Range(WaitingFor(mem, Previous[x]))
            /\ current = NoBlock \/ Number[x] > Number[current]
        BY <1>1, <3>5 DEF Placed
      <4>2. CASE x \in Handled
        BY <4>1, <4>2 DEF Placed
      <4>3. CASE x = b
        <5>1. x \in Block \ (Refused \cup Forged)
          BY <3>2, <3>3, <4>1 DEF Handled
        <5> QED BY <3>2, <3>3, <4>1, <4>3, <5>1, DroppedBlock
      <4> QED BY <3>4, <4>1, <4>2, <4>3
    <3> QED BY <3>5
  <2>3. CASE EndReceiving \/ EndSaving \/ StartStacking \/ EndStacking
    <3>1. UNCHANGED <<delivered, batch>>
      BY <2>3 DEF EndReceiving, EndSaving, StartStacking, EndStacking
    <3> QED BY <1>1, <3>1 DEF Placed, Handled
  <2> QED BY <2>1, <2>2, <2>3
<1>4. Kept(mem', Placed')
  BY <1>1, <1>2, <1>3, KeptMore
<1> QED BY <1>1, <1>2, <1>4 DEF KeptInv, CurrentBlockStored

\* A new orphan waits, and so do those that waited before.
LEMMA OrphanWaits ==
    ASSUME NEW d, Sound(d), NEW b \in Block
    PROVE  LET u == StoreOrphan(d, b)
           IN  /\ b \in Range(WaitingFor(u, Previous[b]))
               /\ \A x : Range(WaitingFor(d, x)) \subseteq Range(WaitingFor(u, x))
<1> DEFINE u == StoreOrphan(d, b)
           p == Previous[b]
           w == WaitingFor(d, p)
<1>1. u.orphan_blocks_db = Put(d.orphan_blocks_db, p, Append(w, b))
  BY DEF StoreOrphan, Sound, EmptyDBs
<1>2. w \in Seq(Block)
  <2>1. p \in Block \cup {NoBlock}
    BY BlockAssumption
  <2> QED BY <2>1, WaitingFollow DEF Sound, OrphansOK
<1> HIDE DEF u, w, p
<1>3. WaitingFor(u, p) = Append(w, b) /\ \A x : x # p => WaitingFor(u, x) = WaitingFor(d, x)
  BY <1>1 DEF WaitingFor, Put
<1>4. b \in Range(Append(w, b)) /\ Range(w) \subseteq Range(Append(w, b))
  <2>1. /\ Append(w, b)[Len(w) + 1] = b /\ Len(w) + 1 \in DOMAIN Append(w, b)
        /\ \A i \in DOMAIN w : i \in DOMAIN Append(w, b) /\ Append(w, b)[i] = w[i]
    BY <1>2
  <2> QED BY <2>1 DEF Range
<1> QED BY <1>3, <1>4 DEF u, w, p

\* A block whose predecessor is missing waits for one that is not stored.
LEMMA OrphanKept ==
    ASSUME ChainInv, HeadInv, KeptInv, KeepOrphan
    PROVE  KeptInv'
<1>1. /\ phase = "receiving" /\ phase' = phase /\ UNCHANGED <<disk, files>>
      /\ mem' = StoreOrphan(mem, Head(batch))
  BY DEF KeepOrphan, Handle
<1>2. /\ Sound(mem) /\ Head(batch) \in Block /\ Kept(mem, Placed) /\ Kept(disk, {})
      /\ batch \in Seq(Block) /\ batch # <<>> /\ batch' = Tail(batch)
      /\ UNCHANGED <<delivered, crashes, current>>
  BY <1>1 DEF ChainInv, Thread, KeepOrphan, Handle, KeptInv, HeadInv, Fatal
<1>3. ~ForkParentExists(mem.fork_tree_db, Head(batch))
  BY Verdicts DEF KeepOrphan, Handle
<1>4. Kept(mem', Placed)
  BY <1>1, <1>2, <1>3, StoreOrphanKept
<1>5. PICK b : b = Head(batch)
  OBVIOUS
<1>6. Handled' \subseteq Handled \cup {b}
  BY <1>2, <1>5, HandledNext
<1>7. b \in Range(WaitingFor(mem', Previous[b]))
      /\ \A x : Range(WaitingFor(mem, x)) \subseteq Range(WaitingFor(mem', x))
  BY <1>1, <1>2, <1>5, OrphanWaits
<1>8. Placed' \subseteq Placed
  BY <1>2, <1>6, <1>7 DEF Placed
<1>9. Kept(mem', Placed')
  BY <1>4, <1>8, KeptMore
<1> QED BY <1>1, <1>2, <1>9 DEF KeptInv, CurrentBlockStored

\* A block of a fork.  When blocks that were cut off come back with it the fork
\* resolution ends the process or begins a rollback.
LEMMA ForkKept ==
    ASSUME ChainInv, HeadInv, KeptInv, KeepForkBlock, invalid_forks = {}
    PROVE  KeptInv'
<1> DEFINE u == StoreFork(mem, Head(batch))
<1>1. /\ phase = "receiving" /\ UNCHANGED <<disk, current, files>> /\ mem' = u
      /\ CheckBlock(mem, current, Head(batch)) = "fork"
  BY DEF KeepForkBlock, Handle
<1>2. /\ Sound(mem) /\ OnChain /\ Head(batch) \in Block /\ current \in Block \cup {NoBlock}
      /\ Kept(mem, Placed) /\ Kept(disk, {}) /\ Windowed(mem) /\ Headed(mem.blockchain_db, current)
  BY <1>1 DEF ChainInv, Thread, KeepForkBlock, Handle, KeptInv, HeadInv, Fatal, Stuck
<1>3. PICK ends : ends = LastVisited(u, current, invalid_forks)
  OBVIOUS
<1>4. /\ WellFormed(u.fork_tree_db)
      /\ \A x \in StoredBlocks(u.fork_tree_db) : Previous[x] # current
      /\ current \in u.fork_blocks_db
      /\ Kept(u, Placed \cup {Head(batch)}) \/ ends # {}
  BY <1>1, <1>2, <1>3, StoreForkKept DEF OnChain
<1>5. \/ phase' = "removed_node_or_block"
      \/ ends = {} /\ phase' = phase
      \/ \E id \in ends : ~Unvisitable(u, id) /\ phase' = "reverting" /\ branch' = BranchTo(u, id)
  BY <1>3, <1>4 DEF KeepForkBlock, Handle
<1>6. ends \subseteq LiveNodes(u.fork_tree_db)
  BY <1>3, <1>4 DEF LastVisited, SheetsToVisit, WellFormed
<1>7. Placed' \subseteq Placed \cup {Head(batch)}
  <2>1. Handled' \subseteq Handled \cup {Head(batch)}
    BY HandledNext DEF ChainInv, Thread, KeepForkBlock, Handle
  <2>2. u.orphan_blocks_db = mem.orphan_blocks_db
    BY <1>2 DEF StoreFork, Sound, EmptyDBs
  <2>3. \A x : WaitingFor(mem', x) = WaitingFor(mem, x)
    BY <1>1, <2>2 DEF WaitingFor
  <2> QED BY <1>1, <2>1, <2>3 DEF Placed
<1> HIDE DEF u
<1>8. CASE phase' = "removed_node_or_block"
  BY <1>1, <1>2, <1>8 DEF KeptInv, CurrentBlockStored, Fatal
<1>9. CASE ends = {} /\ phase' = phase
  <2>1. Kept(mem', Placed')
    BY <1>1, <1>4, <1>9, <1>7, KeptMore
  <2> QED BY <1>1, <1>2, <1>9, <2>1 DEF KeptInv, CurrentBlockStored
<1>10. CASE \E id \in ends : ~Unvisitable(u, id) /\ phase' = "reverting" /\ branch' = BranchTo(u, id)
  <2>1. PICK id \in ends : ~Unvisitable(u, id) /\ phase' = "reverting" /\ branch' = BranchTo(u, id)
    BY <1>10
  <2>2. branch'[1] \in StoredBlocks(u.fork_tree_db)
    BY <1>4, <1>6, <2>1, BranchOfBlocks DEF BranchTo, Unvisitable
  <2>3. Previous[branch'[1]] # current' /\ current' \in mem'.fork_blocks_db
    BY <1>1, <1>4, <2>2
  <2> QED BY <1>1, <1>2, <2>1, <2>3 DEF KeptInv, CurrentBlockStored
<1> QED BY <1>5, <1>8, <1>9, <1>10

\* A branch whose first block does not follow the head is not applied.
LEMMA BranchMisfits ==
    ASSUME NEW r, RunOK(r), r.at \in Block, NEW s \in Seq(Block), s # <<>>,
           Previous[s[1]] # r.at
    PROVE  ApplyBlocks(r, s).result # "applied"
<1>1. DOMAIN s = 1 .. Len(s) /\ Len(s) \in Nat /\ Len(s) # 0
  OBVIOUS
<1>2. PICK at : /\ at[0] = r /\ at[Len(s)] = ApplyBlocks(r, s)
                /\ \A k \in 1 .. Len(s) : at[k] = ApplyBlock(at[k - 1], s[k])
  BY BranchSteps
<1> DEFINE Y == {k \in Nat : k + 1 <= Len(s) => at[k + 1].result # "applied"}
<1>3. 0 \in Y
  <2>1. at[1] = ApplyBlock(r, s[1])
    BY <1>1, <1>2
  <2>2. CheckBlock(r.dbs, r.at, s[1]) # "valid"
    BY Verdicts, BlockAssumption DEF Chainable
  <2>3. DOMAIN r = {"dbs", "at", "result", "bad"}
    BY DEF RunOK
  <2>4. CASE r.result # "applied"
    BY <2>1, <2>4 DEF ApplyBlock
  <2>5. CASE r.result = "applied" /\ s[1] \notin r.dbs.fork_blocks_db
    <3>1. at[1] = [r EXCEPT !.result = "branch_block_lost"]
      BY <2>1, <2>5 DEF ApplyBlock
    <3> QED BY <2>3, <3>1
  <2>6. CASE r.result = "applied" /\ s[1] \in r.dbs.fork_blocks_db
    <3>1. PICK q : q = at[1]
      OBVIOUS
    <3>2. q = [r EXCEPT !.result = "invalid", !.bad = {s[1]}]
      BY <2>1, <2>2, <2>6, <3>1 DEF ApplyBlock
    <3>3. q.result = "invalid"
      BY <2>3, <3>2
    <3> QED BY <3>1, <3>3
  <2> QED BY <2>4, <2>5, <2>6
<1>4. ASSUME NEW k \in Nat, k \in Y PROVE k + 1 \in Y
  <2> SUFFICES ASSUME k + 2 <= Len(s) PROVE at[k + 2].result # "applied"
    OBVIOUS
  <2>1. k + 2 \in 1 .. Len(s) /\ (k + 2) - 1 = k + 1 /\ k + 1 <= Len(s)
    BY <1>1
  <2>2. at[k + 2] = ApplyBlock(at[k + 1], s[k + 2]) /\ at[k + 1].result # "applied"
    BY <1>2, <1>4, <2>1
  <2> QED BY <2>2 DEF ApplyBlock
<1>5. Nat \subseteq Y
  <2> HIDE DEF Y
  <2> QED BY <1>3, <1>4, Induction
<1>6. Len(s) - 1 \in Y
  <2> HIDE DEF Y
  <2> QED BY <1>1, <1>5
<1> QED BY <1>1, <1>2, <1>6

\* The rollback reverts, then tries its branch, which does not fit: the process
\* dies or the branch is remembered.
LEMMA RollbackKept ==
    ASSUME ChainInv, HeadInv, KeptInv, RevertCurrentBlock \/ ApplyNewBranch,
           invalid_forks' = {}
    PROVE  KeptInv' /\ phase' # "saving"
<1>1. /\ phase = "reverting" /\ Previous[branch[1]] # current /\ files = <<>> /\ Kept(disk, {})
      /\ current \in mem.fork_blocks_db /\ UNCHANGED disk
  BY DEF RevertCurrentBlock, ApplyNewBranch, KeptInv, HeadInv
<1>2. CASE RevertCurrentBlock
  <2>1. phase' \in {"block_reverted_twice", "reverting"} /\ UNCHANGED <<branch, current, files>>
    BY <1>1, <1>2 DEF RevertCurrentBlock
  <2>2. mem'.fork_blocks_db = mem.fork_blocks_db
    <3>1. DOMAIN mem = DOMAIN EmptyDBs
      BY DEF ChainInv, Sound
    <3> QED BY <1>2, <3>1 DEF RevertCurrentBlock, EmptyDBs
  <2> QED BY <1>1, <2>1, <2>2 DEF KeptInv, CurrentBlockStored, Fatal
<1>3. CASE ApplyNewBranch
  <2> DEFINE start == [dbs |-> mem, at |-> current, result |-> "applied", bad |-> {}]
  <2>1. Thread /\ Sound(mem) /\ Reverting
    BY DEF ChainInv
  <2>2. OnChain
    <3>1. branch[1] \in Block
      BY <1>1, <2>1 DEF Reverting, Thread
    <3>2. Number[current] \in Nat /\ Number[branch[1]] \in Nat
      BY <1>1, <2>1, <3>1, BlockAssumption DEF Reverting
    <3>3. Number[current] <= Number[branch[1]]
      BY <1>3 DEF ApplyNewBranch, LastCommonBlockNumber
    <3> QED BY <1>1, <3>2, <3>3 DEF ChainInv, Stuck, Fatal
  <2>3. RunOK(start) /\ start.at = current
    BY <1>1, <2>1, <2>2 DEF RunOK, Reverting, OnChain
  <2>4. PICK q : q = ApplyBlocks(start, branch)
    OBVIOUS
  <2>5. RunOK(q) /\ q.result # "applied"
    <3> HIDE DEF start
    <3> QED BY <1>1, <2>1, <2>3, <2>4, BranchApplied, BranchMisfits DEF Thread, Reverting
  <2>6. q = AppliedBranch
    BY <2>4 DEF AppliedBranch
  <2>7. q.result # "invalid"
    BY <2>5, <2>6, <1>3 DEF RunOK, ApplyNewBranch
  <2>8. phase' = q.result /\ UNCHANGED files
    BY <1>3, <2>5, <2>6, <2>7 DEF ApplyNewBranch
  <2>9. phase' \in Fatal /\ phase' # "current_block_not_in_fork_blocks"
    BY <2>5, <2>7, <2>8 DEF RunOK, Fatal
  <2> QED BY <1>1, <2>8, <2>9 DEF KeptInv, CurrentBlockStored, Fatal
<1> QED BY <1>2, <1>3

\* One file of a save: when the last one is written the files are the databases.
LEMMA SaveKept ==
    ASSUME ChainInv, HeadInv, KeptInv, SaveFile
    PROVE  KeptInv'
<1>1. /\ phase = "saving" /\ files # <<>> /\ files' = Tail(files)
      /\ UNCHANGED <<mem, phase, current, batch, delivered, crashes>>
  BY DEF SaveFile
<1>2. Kept(mem, Placed) /\ HeadInv' /\ Tail(files) # Files
  BY <1>1, SaveHeads, FilesToWrite DEF KeptInv, Fatal, ChainInv, Thread
<1>3. ASSUME files' = <<>> PROVE Kept(disk', {})
  <2>1. Range(files') = {}
    BY <1>3 DEF Range
  <2>2. \A f \in DOMAIN EmptyDBs : disk'[f] = mem[f]
    BY <1>1, <1>2, <2>1 DEF HeadInv
  <2>3. /\ disk'.blockchain_db = mem.blockchain_db /\ disk'.fork_tree_db = mem.fork_tree_db
        /\ disk'.fork_blocks_db = mem.fork_blocks_db
        /\ disk'.orphan_blocks_db = mem.orphan_blocks_db
    BY <2>2 DEF EmptyDBs
  <2>4. PICK e : e = disk'
    OBVIOUS
  <2>5. ASSUME NEW x PROVE /\ InBlockchain(e, x) <=> InBlockchain(mem, x)
                           /\ WaitingFor(e, x) = WaitingFor(mem, x)
    BY <2>3, <2>4 DEF InBlockchain, WaitingFor
  <2> QED BY <1>2, <2>3, <2>4, <2>5 DEF Kept, Waited
<1>4. Placed' = Placed
  BY <1>1 DEF Placed, Handled
<1> QED BY <1>1, <1>2, <1>3, <1>4 DEF KeptInv, CurrentBlockStored, Fatal

\* Every step, while no branch has failed.
LEMMA KeptInvNext ==
    ASSUME ~CrashWhileSaving, ChainInv, HeadInv, KeptInv, [Next]_vars,
           invalid_forks = {}, invalid_forks' = {}
    PROVE  KeptInv' /\ (phase = "reverting" => phase' # "saving")
<1>1. CASE \/ \E blocks \in Batches : ReceiveBlocks(blocks)
           \/ DropBlock \/ EndReceiving \/ EndSaving \/ StartStacking \/ EndStacking
  <2>1. phase # "reverting"
    BY <1>1 DEF ReceiveBlocks, DropBlock, Handle, EndReceiving, EndSaving, StartStacking, EndStacking
  <2> QED BY <1>1, <2>1, QuietKept
<1>2. CASE StackUpBlock
  <2>1. Head(batch) \in Block /\ phase = "receiving"
    BY <1>2 DEF ChainInv, Thread, StackUpBlock, Handle
  <2>2. Handled' \subseteq Handled \cup {Head(batch)}
    BY <1>2, HandledNext DEF ChainInv, Thread, StackUpBlock, Handle
  <2> QED BY <1>2, <2>1, <2>2, KeptMoves DEF StackUpBlock, Handle
<1>3. CASE StackOrphan
  <2>1. PICK i \in DOMAIN Stackables :
           /\ Stackable(i)
           /\ IF HeadWritable(mem, Stackables[i])
              THEN mem' = WriteHead(mem, Stackables[i]) /\ current' = Stackables[i] /\ UNCHANGED phase
              ELSE phase' = "no_previous_block_in_main_branch" /\ UNCHANGED mem
    BY <1>3 DEF StackOrphan
  <2>2. Stackables[i] \in Block /\ phase = "stacking"
    BY <1>3, WaitingFollow DEF ChainInv, Sound, Thread, OrphansOK, Stackables, StackOrphan
  <2>3. UNCHANGED <<disk, files, batch, delivered, crashes>>
    BY <1>3 DEF StackOrphan
  <2>4. Handled' \subseteq Handled \cup {Stackables[i]}
    BY <2>3 DEF Handled
  <2>5. PICK b : b = Stackables[i]
    OBVIOUS
  <2> QED BY <2>1, <2>2, <2>3, <2>4, <2>5, KeptMoves DEF Stackable
<1>4. CASE KeepOrphan \/ KeepForkBlock
  BY <1>4, OrphanKept, ForkKept DEF KeepOrphan, KeepForkBlock, Handle
<1>5. CASE RevertCurrentBlock \/ ApplyNewBranch
  BY <1>5, RollbackKept
<1>6. CASE SaveFile
  BY <1>6, SaveKept DEF SaveFile
<1>7. CASE Restart
  <2>1. /\ phase' = "idle" /\ batch' = <<>> /\ mem' = disk /\ disk' = disk /\ files' = <<>>
        /\ crashes' = crashes + 1 /\ files \in {<<>>, Files}
    BY <1>7 DEF Restart, OpenDBs
  <2>2. Placed' = {}
    <3>1. crashes \in Nat
      BY ThreadAssumption DEF ChainInv, Thread
    <3> QED BY <2>1, <3>1 DEF Placed, Handled
  <2>3. ~(phase = "reverting" /\ phase' = "saving")
    BY <2>1
  <2> QED BY <2>1, <2>2, <2>3 DEF KeptInv, CurrentBlockStored
<1>8. CASE UNCHANGED vars
  <2>1. Placed' = Placed
    BY <1>8 DEF vars, Placed, Handled
  <2> QED BY <1>8, <2>1 DEF vars, KeptInv, CurrentBlockStored
<1> QED BY <1>1, <1>2, <1>3, <1>4, <1>5, <1>6, <1>7, <1>8 DEF Next, Work

\* The blocks stored are those of the tree, each with one node, and what waits for a
\* block below the root is stored.
LEMMA AgreeFromInv ==
    ASSUME ChainInv, HeadInv, KeptInv, invalid_forks = {},
           phase \notin Fatal \cup {"reverting"}
    PROVE  HeadsAgree /\ BlocksFollowTree /\ ForkOrphansFollow
<1> DEFINE t == mem.fork_tree_db
<1>1. TreeInv(t) /\ mem.fork_blocks_db = StoredBlocks(t)
  BY DEF ChainInv, Sound, KeptInv, Kept
<1>2. PICK G \in SUBSET Block : Split(t, G) /\ Waited(mem, G)
  BY DEF KeptInv, Kept
<1>3. BlocksFollowTree
  BY <1>1, <1>2 DEF BlocksFollowTree, Split
<1>4. ASSUME NEW id \in Descendants(t, t.root), ~InBlockchain(mem, DataOf(t, id))
      PROVE  Range(WaitingFor(mem, DataOf(t, id))) \subseteq mem.fork_blocks_db
  <2>1. id \in LiveNodes(t)
    BY <1>4, DescendantsLive
  <2>2. t.root \in LiveNodes(t)
    BY <1>1, <2>1, MainChainFacts DEF TreeInv
  <2> DEFINE M == {m \in LiveNodes(t) : DataOf(t, m) \in G}
  <2>3. ASSUME NEW m \in M \cap LiveNodes(t)
        PROVE  t.nodes[m].parent # t.root /\ t.nodes[m].parent \notin LiveNodes(t) \ M
    BY <1>2, <2>2, <2>3 DEF Split
  <2> HIDE DEF M
  <2>4. Descendants(t, t.root) \cap M = {}
    BY <2>2, <2>3, DescendantsAvoid
  <2>5. DataOf(t, id) \in StoredBlocks(t) \ G
    BY <1>4, <2>1, <2>4 DEF M, StoredBlocks
  <2> QED BY <1>1, <1>2, <1>4, <2>5 DEF Waited
<1> QED BY <1>3, <1>4, HeadsFromInv DEF ForkOrphansFollow

\* Both at once, from the invariants.
LEMMA BetweenMessages ==
    ~CrashWhileSaving =>
        (Spec /\ [](invalid_forks = {}) =>
            [](phase \notin Fatal \cup {"reverting"} => DatabasesAgree /\ OrphansWait))
<1> SUFFICES ASSUME ~CrashWhileSaving
             PROVE  Spec /\ [](invalid_forks = {}) =>
                        [](phase \notin Fatal \cup {"reverting"} => DatabasesAgree /\ OrphansWait)
  OBVIOUS
<1>1. ChainInv /\ HeadInv /\ [Next]_vars => HeadInv'
  BY HeadInvNext
<1>2. ChainInv /\ HeadInv /\ KeptInv /\ [Next]_vars /\ invalid_forks = {} /\ (invalid_forks = {})' =>
        KeptInv'
  BY KeptInvNext
<1>3. ChainInv /\ HeadInv /\ KeptInv /\ invalid_forks = {} /\ TypeOK /\ WaitsOnce =>
        (phase \notin Fatal \cup {"reverting"} => DatabasesAgree /\ OrphansWait)
  BY AgreeFromInv DEF DatabasesAgree, OrphansWait
<1> QED BY <1>1, <1>2, <1>3, HeadInvInit, KeptInvInit, ChainInvAlways, DatabasesTyped,
           OrphansWaitOnce, PTL DEF Spec

\* Where no crash falls between the files of a save, and until the application of a
\* branch fails, the databases in memory agree with each other and with the cached
\* head: for any tree, any blocks, any orphans brought along, and across restarts.
THEOREM DatabasesAlwaysAgree ==
    ~CrashWhileSaving =>
        (Spec /\ [](invalid_forks = {}) =>
            [](phase \notin Fatal \cup {"reverting"} => DatabasesAgree))
<1> SUFFICES ASSUME ~CrashWhileSaving
             PROVE  Spec /\ [](invalid_forks = {}) =>
                        [](phase \notin Fatal \cup {"reverting"} => DatabasesAgree)
  OBVIOUS
<1>1. Spec /\ [](invalid_forks = {}) =>
        [](phase \notin Fatal \cup {"reverting"} => DatabasesAgree /\ OrphansWait)
  BY BetweenMessages
<1> QED BY <1>1, PTL

\* There too, the orphans that wait are those that have to, once each: none waits for
\* a block of a fork that the tree holds below its root.
THEOREM OrphansAlwaysWait ==
    ~CrashWhileSaving =>
        (Spec /\ [](invalid_forks = {}) =>
            [](phase \notin Fatal \cup {"reverting"} => OrphansWait))
<1> SUFFICES ASSUME ~CrashWhileSaving
             PROVE  Spec /\ [](invalid_forks = {}) =>
                        [](phase \notin Fatal \cup {"reverting"} => OrphansWait)
  OBVIOUS
<1>1. Spec /\ [](invalid_forks = {}) =>
        [](phase \notin Fatal \cup {"reverting"} => DatabasesAgree /\ OrphansWait)
  BY BetweenMessages
<1> QED BY <1>1, PTL

\* There too, the current block is stored whenever a fork is resolved or a block
\* reverted: the "safe unwrap" of both fails only after a branch did, or a torn save.
THEOREM CurrentBlockAlwaysStored ==
    ~CrashWhileSaving => (Spec /\ [](invalid_forks = {}) => []CurrentBlockStored)
<1> SUFFICES ASSUME ~CrashWhileSaving
             PROVE  Spec /\ [](invalid_forks = {}) => []CurrentBlockStored
  OBVIOUS
<1>1. ChainInv /\ HeadInv /\ [Next]_vars => HeadInv'
  BY HeadInvNext
<1>2. ChainInv /\ HeadInv /\ KeptInv /\ [Next]_vars /\ invalid_forks = {} /\ (invalid_forks = {})' =>
        KeptInv'
  BY KeptInvNext
<1>3. KeptInv => CurrentBlockStored
  BY DEF KeptInv
<1> QED BY <1>1, <1>2, <1>3, HeadInvInit, KeptInvInit, ChainInvAlways, PTL DEF Spec

\* There too, a rollback ends in a failed branch or in the end of the process: it
\* never comes to the save that follows a switch.
THEOREM NoSwitchSucceeds ==
    ~CrashWhileSaving =>
        (Spec /\ [](invalid_forks = {}) => [][phase = "reverting" => phase' # "saving"]_vars)
<1> SUFFICES ASSUME ~CrashWhileSaving
             PROVE  Spec /\ [](invalid_forks = {}) =>
                        [][phase = "reverting" => phase' # "saving"]_vars
  OBVIOUS
<1>1. ChainInv /\ HeadInv /\ [Next]_vars => HeadInv'
  BY HeadInvNext
<1>2. ChainInv /\ HeadInv /\ KeptInv /\ [Next]_vars /\ invalid_forks = {} /\ (invalid_forks = {})' =>
        KeptInv' /\ [phase = "reverting" => phase' # "saving"]_vars
  BY KeptInvNext
<1> QED BY <1>1, <1>2, HeadInvInit, KeptInvInit, ChainInvAlways, PTL DEF Spec

\* At the end of the stacking, a block that follows the current one and was handled
\* would wait, and be valid, or would have been placed: but nothing stored follows the
\* top of the main branch, and nothing that was cut off follows a block that was not.
LEMMA NothingFollows ==
    ASSUME ChainInv, HeadInv, KeptInv, invalid_forks = {}, phase = "stacking", crashes = 0,
           \A i \in DOMAIN Stackables : ~Stackable(i)
    PROVE  \A b \in delivered \ (Refused \cup Forged) : Previous[b] # current
<1> SUFFICES ASSUME NEW b \in delivered \ (Refused \cup Forged), Previous[b] = current
             PROVE  FALSE
  OBVIOUS
<1> DEFINE t == mem.fork_tree_db
<1>1. /\ Sound(mem) /\ OnChain /\ b \in Block /\ current \in Block \cup {NoBlock}
      /\ Windowed(mem) /\ Headed(mem.blockchain_db, current)
  BY DEF ChainInv, Thread, HeadInv, Fatal, Stuck
<1>2. /\ Number[b] \in Nat /\ (current = NoBlock => Number[b] = 0)
      /\ current # NoBlock => Number[current] \in Nat /\ Number[b] = Number[current] + 1
  BY <1>1, BlockAssumption, GenesisAssumption
<1>3. b \notin Range(WaitingFor(mem, current))
  <2> SUFFICES ASSUME NEW i \in DOMAIN Stackables, Stackables[i] = b PROVE FALSE
    BY DEF Range, Stackables
  <2>1. Chainable(current, b)
    BY <1>2 DEF Chainable
  <2>2. Valid(mem, b)
    BY <1>1, <1>2 DEF Valid, Headed, OnChain, HeadOn
  <2>3. CheckBlock(mem, current, b) = "valid"
    BY <2>1, <2>2 DEF CheckBlock
  <2> QED BY <2>3 DEF Stackable
<1>4. b \in Placed /\ Kept(mem, Placed)
  <2>1. b \in Handled
    BY DEF KeptInv, Handled, Range
  <2> QED BY <1>2, <1>3, <2>1 DEF Placed, KeptInv, Fatal
<1>5. PICK G \in SUBSET Block : Split(t, G) /\ b \in G \cup StoredBlocks(t)
  BY <1>4 DEF Kept
<1>6. TreeInv(t) /\ LiveNodes(t) # {} /\ HeadBare(t)
  BY <1>1, <1>4, <1>5 DEF Sound, Kept, Split, StoredBlocks
<1>7. /\ current \in Block /\ Number[current] \in DOMAIN t.main_branch
      /\ MainBlock(t, Number[current]) = current /\ Number[current] + 1 \notin DOMAIN t.main_branch
  BY <1>1, <1>6, TopIsCurrent DEF OnChain
<1>8. b \notin StoredBlocks(t)
  BY <1>6, <1>7 DEF HeadBare
<1>9. current \notin G
  BY <1>5, <1>6, <1>7, MainNotCut
<1>10. RootNumber(t) <= Number[current] /\ RootNumber(t) \in Nat
  BY <1>6, <1>7, MainChainFacts DEF TreeInv
<1>11. Number[b] <= RootNumber(t)
  BY <1>5, <1>8, <1>9 DEF Split
<1>12. current # NoBlock
  BY <1>7, BlockAssumption
<1> QED BY <1>2, <1>10, <1>11, <1>12

\* The stacking goes on with the next orphan, or ends with none that follows.
LEMMA StackingEnds ==
    ASSUME ChainInv, HeadInv, KeptInv, [Next]_vars, invalid_forks = {},
           PreviousInMainBranch'
    PROVE  phase = "stacking" /\ phase' # "stacking" /\ crashes' = 0 =>
              \A b \in delivered \ (Refused \cup Forged) : Previous[b] # current'
<1> SUFFICES ASSUME phase = "stacking", phase' # "stacking", crashes' = 0
             PROVE  \A b \in delivered \ (Refused \cup Forged) : Previous[b] # current'
  OBVIOUS
<1>1. EndStacking
  <2>1. ~StackOrphan
    BY DEF StackOrphan, PreviousInMainBranch
  <2>2. ~Restart
    <3>1. crashes \in Nat
      BY ThreadAssumption DEF ChainInv, Thread
    <3> QED BY <3>1 DEF Restart
  <2>3. ~(\E blocks \in Batches : ReceiveBlocks(blocks)) /\ ~StartStacking
    BY DEF ReceiveBlocks, StartStacking
  <2>4. ~StackUpBlock /\ ~DropBlock /\ ~KeepOrphan /\ ~KeepForkBlock /\ ~EndReceiving
    BY DEF StackUpBlock, DropBlock, KeepOrphan, KeepForkBlock, EndReceiving, Handle
  <2>5. ~RevertCurrentBlock /\ ~ApplyNewBranch /\ ~SaveFile /\ ~EndSaving
    BY DEF RevertCurrentBlock, ApplyNewBranch, SaveFile, EndSaving
  <2>6. ~UNCHANGED vars
    BY DEF vars
  <2> QED BY <2>1, <2>2, <2>3, <2>4, <2>5, <2>6 DEF Next, Work
<1>2. UNCHANGED <<current, crashes>> /\ \A i \in DOMAIN Stackables : ~Stackable(i)
  BY <1>1 DEF EndStacking
<1> QED BY <1>2, NothingFollows

\* There too, when the 20 seconds timer has done its work, no block received since the
\* first start could still follow the current one, unless it is refused: in any order
\* and any grouping of the blocks, whatever was pruned in between.
THEOREM StackableAlwaysStacked ==
    ~CrashWhileSaving => (Spec /\ [](invalid_forks = {}) => StackableIsStacked)
<1> SUFFICES ASSUME ~CrashWhileSaving
             PROVE  Spec /\ [](invalid_forks = {}) => StackableIsStacked
  OBVIOUS
<1>1. ChainInv /\ HeadInv /\ [Next]_vars => HeadInv'
  BY HeadInvNext
<1>2. ChainInv /\ HeadInv /\ KeptInv /\ [Next]_vars /\ invalid_forks = {} /\ (invalid_forks = {})' =>
        KeptInv'
  BY KeptInvNext
<1>3. ChainInv /\ HeadInv /\ KeptInv /\ [Next]_vars /\ invalid_forks = {} /\ PreviousInMainBranch' =>
        [phase = "stacking" /\ phase' # "stacking" /\ crashes' = 0 =>
            \A b \in delivered \ (Refused \cup Forged) : Previous[b] # current']_vars
  BY StackingEnds
<1>4. Spec => []PreviousInMainBranch
  BY PreviousAlwaysInMainBranch
<1> QED BY <1>1, <1>2, <1>3, <1>4, HeadInvInit, KeptInvInit, ChainInvAlways, PTL
        DEF Spec, StackableIsStacked
=============================================================================
