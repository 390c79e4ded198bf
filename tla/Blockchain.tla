----------------------------- MODULE Blockchain -----------------------------
(***************************************************************************)
(* The block-chain module of a node: the one thread that receives blocks,  *)
(* stacks those that follow the current block, stores the others as forks  *)
(* or orphans, switches to a fork that has taken enough advance, and keeps *)
(* four databases in memory that it saves file by file.                    *)
(*                                                                         *)
(* The databases (blockchain-dal) are the record mem; disk holds what the  *)
(* files contain.  A step of the thread that touches no file is one action *)
(* even when it changes several databases: nobody else sees them, and a    *)
(* crash loses them together.  The webs of trust and currency databases    *)
(* are abstracted to the verdict on a block (Refused).                     *)
(***************************************************************************)
EXTENDS ForkTree

CONSTANTS
    MedianTime,         \* MedianTime[b]: the time block b claims
    ADVANCE_BLOCKS,     \* a fork must be this much longer than the main branch
    ADVANCE_TIME,       \* and its head this much younger
    Forged,             \* blocks whose hashes do not match their content
    Refused,            \* blocks that break a protocol rule or cannot be applied
    RevertsOnce,        \* blocks that are fatal to revert twice (certifications)
    Batches,            \* the lists of blocks a message can bring
    MaxCrashes,         \* how often the process is killed and started again
    CrashWhileSaving    \* whether that may happen between the files of one save

ASSUME GenesisAssumption ==
    \A b \in Block : Number[b] = 0 <=> Previous[b] = NoBlock

\* A blockstamp is a number of 32 bits and a hash of 32 bytes: there are finitely
\* many.  FORK_WINDOW_SIZE is 200 blocks.
ASSUME ThreadAssumption ==
    /\ IsFiniteSet(Block)
    /\ FORK_WINDOW_SIZE > 1
    /\ MedianTime \in [Block -> Nat]
    /\ {ADVANCE_BLOCKS, ADVANCE_TIME, MaxCrashes} \subseteq Nat
    /\ Batches \subseteq Seq(Block)
    /\ CrashWhileSaving \in BOOLEAN

VARIABLES
    mem,            \* the databases in memory
    disk,           \* the files they are saved to
    current,        \* current_blockstamp; NoBlock is the default blockstamp
    invalid_forks,  \* blocks at which the application of a branch failed
    phase,          \* what the thread is doing, or what it died of
    batch,          \* blocks of the message being handled that are still to come
    save_blocks_dbs,\* whether the handling of this message must end with a save
    branch,         \* the branch a rollback switches to
    files,          \* files still to write in the save under way
    delivered,      \* history: the blocks received so far
    crashes         \* how often the process was killed

vars == <<mem, disk, current, invalid_forks, phase, batch, save_blocks_dbs,
          branch, files, delivered, crashes>>

-----------------------------------------------------------------------------
(* The databases.                                                          *)

EmptyDBs ==
    [blockchain_db |-> [n \in {} |-> NoBlock],      \* height -> block
     fork_tree_db |-> EmptyTree,
     fork_blocks_db |-> {},                         \* the blocks of the tree
     orphan_blocks_db |-> [b \in {} |-> <<>>]]      \* missing block -> who waits for it

\* The order in which save_dbs() is called on them.
Files == <<"blockchain_db", "fork_tree_db", "fork_blocks_db", "orphan_blocks_db">>

\* The default blockstamp has number 0.
Height(b) == IF b = NoBlock THEN 0 ELSE Number[b]

InBlockchain(d, b) ==
    Number[b] \in DOMAIN d.blockchain_db /\ d.blockchain_db[Number[b]] = b

\* get_current_blockstamp: the block at height len() - 1.
StoredCurrent(d) ==
    LET len == Cardinality(DOMAIN d.blockchain_db)
    IN  IF len - 1 \in DOMAIN d.blockchain_db THEN d.blockchain_db[len - 1] ELSE NoBlock

WaitingFor(d, b) ==
    IF b \in DOMAIN d.orphan_blocks_db THEN d.orphan_blocks_db[b] ELSE <<>>

\* already_have_block.  The block-chain is asked only when no orphan waits for
\* the predecessor.
AlreadyHave(d, b) ==
    \/ b \in d.fork_blocks_db
    \/ b \in Range(WaitingFor(d, Previous[b]))
    \/ Previous[b] \notin DOMAIN d.orphan_blocks_db /\ InBlockchain(d, b)

\* insert_new_head_block: block-chain, tree, and the blocks of the tree, from
\* which the blocks pruned out of the window are deleted.
HeadWritable(d, b) == HeadParentExists(d.fork_tree_db, b)

\* Mutant: the blocks that left the window are not deleted.
WriteHeadKeepsOld(d, b) ==
    [d EXCEPT !.blockchain_db = Put(@, Number[b], b),
              !.fork_tree_db = InsertNewHeadBlock(@, b),
              !.fork_blocks_db = @ \cup {b}]

WriteHead(d, b) ==
    LET tree == InsertNewHeadBlock(d.fork_tree_db, b)
    IN  [d EXCEPT !.blockchain_db = Put(@, Number[b], b),
                  !.fork_tree_db = tree,
                  !.fork_blocks_db = (@ \cup {b}) \ tree.removed_blockstamps]

\* The orphans that a stored block b brings into the tree, each before those
\* that wait for it.
Followers(d, b) ==
    LET family[x \in Block] ==
            LET waiting == WaitingFor(d, x)
            IN  <<x>> \o FlattenSeq([i \in DOMAIN waiting |-> family[waiting[i]]])
    IN  family[b]

\* Mutant: the orphans of the new fork block stay orphans.
StoreForkAlone(d, b) ==
    [d EXCEPT !.fork_tree_db = InsertNewForkBlock(@, b),
              !.fork_blocks_db = @ \cup {b}]

\* insert_new_fork_block, for a block whose predecessor is in the tree.  The
\* orphans it brings along keep their entry in orphan_blocks_db.
InsertForkBlocks(t, blocks) == FoldLeft(InsertNewForkBlock, t, blocks)

StoreFork(d, b) ==
    [d EXCEPT !.fork_tree_db = InsertForkBlocks(@, Followers(d, b)),
              !.fork_blocks_db = @ \cup Range(Followers(d, b))]

\* insert_new_fork_block, for a block whose predecessor is not.
StoreOrphan(d, b) ==
    [d EXCEPT !.orphan_blocks_db =
        Put(@, Previous[b], Append(WaitingFor(d, Previous[b]), b))]

-----------------------------------------------------------------------------
(* check_and_apply_block.                                                  *)

\* Mutant: the previous hash is not compared.
ChainableByNumber(cur, b) ==
    \/ cur # NoBlock /\ Number[b] = Number[cur] + 1
    \/ cur = NoBlock /\ Number[b] = 0

Chainable(cur, b) ==
    \/ cur # NoBlock /\ Number[b] = Number[cur] + 1 /\ Previous[b] = cur
    \/ cur = NoBlock /\ Number[b] = 0

\* verify_block_validity and apply_valid_block.
Valid(d, b) ==
    /\ b \notin Refused
    /\ Number[b] > 0 => Number[b] - 1 \in DOMAIN d.blockchain_db

InForkWindow(cur, b) == Height(cur) - Number[b] < FORK_WINDOW_SIZE

CheckBlock(d, cur, b) ==
    CASE b \in Forged -> "refused"
      [] b \notin Forged /\ Chainable(cur, b) ->
            IF Valid(d, b) THEN "valid" ELSE "refused"
      [] b \notin Forged /\ ~Chainable(cur, b) /\ ~AlreadyHave(d, b) /\ InForkWindow(cur, b) ->
            IF ForkParentExists(d.fork_tree_db, b) THEN "fork" ELSE "orphan"
      [] OTHER -> "known"

-----------------------------------------------------------------------------
(* fork_resolution_algo.                                                   *)

SheetsToVisit(d, cur) ==
    {id \in d.fork_tree_db.sheets : DataOf(d.fork_tree_db, id) # cur}

BranchTo(d, id) == ForkBranch(d.fork_tree_db, id)

\* Visiting the sheet id ends the process: the way up the tree meets a freed
\* node, or the sheet's block is not among the stored ones.
Unvisitable(d, id) ==
    \/ WalkAborts(d.fork_tree_db, id)
    \/ DataOf(d.fork_tree_db, id) \notin d.fork_blocks_db

HasAdvance(d, cur, invalid, id) ==
    /\ ~Unvisitable(d, id)
    /\ LET way == BranchTo(d, id)
           head == Last(way)
       IN  /\ Number[head] >= Number[cur] + ADVANCE_BLOCKS
           /\ MedianTime[head] >= MedianTime[cur] + ADVANCE_TIME
           /\ Number[way[1]] + FORK_WINDOW_SIZE > Number[cur]
           /\ Range(way) \cap invalid = {}

\* The sheets are visited from the highest to the lowest, those of one height
\* in any order, until one ends the visit.
EndsVisit(d, cur, invalid, id) == Unvisitable(d, id) \/ HasAdvance(d, cur, invalid, id)

LastVisited(d, cur, invalid) ==
    {id \in SheetsToVisit(d, cur) :
        /\ EndsVisit(d, cur, invalid, id)
        /\ \A other \in SheetsToVisit(d, cur) :
              NumberOf(d.fork_tree_db, other) > NumberOf(d.fork_tree_db, id) =>
                 ~EndsVisit(d, cur, invalid, other)}

-----------------------------------------------------------------------------
(* The thread.                                                             *)

\* Mutant: the databases are opened empty, in memory mode.
OpenEmpty == EmptyDBs

\* The databases are opened from their files.
OpenDBs == disk

\* What the process can die of, by the place in the code.
Fatal == {"no_previous_block_in_main_branch", "current_block_not_in_fork_blocks",
          "removed_node_or_block", "block_reverted_twice", "branch_block_lost"}

TypeOK ==
    /\ \A d \in {mem, disk} :
          /\ DOMAIN d.blockchain_db \subseteq Nat
          /\ d.blockchain_db \in [DOMAIN d.blockchain_db -> Block]
          /\ d.fork_blocks_db \subseteq Block
          /\ DOMAIN d.orphan_blocks_db \subseteq Block \cup {NoBlock}
          /\ d.orphan_blocks_db \in [DOMAIN d.orphan_blocks_db -> Seq(Block)]
    /\ WellFormed(mem.fork_tree_db)
    /\ current \in Block \cup {NoBlock}
    /\ invalid_forks \subseteq Block
    /\ phase \in {"idle", "receiving", "reverting", "stacking", "saving"} \cup Fatal
    /\ batch \in Seq(Block) /\ branch \in Seq(Block)
    /\ save_blocks_dbs \in BOOLEAN
    /\ files \in {SubSeq(Files, i, 4) : i \in 1 .. 5}
    /\ delivered \subseteq Block
    /\ crashes \in 0 .. MaxCrashes

Init ==
    /\ mem = EmptyDBs /\ disk = EmptyDBs
    /\ current = NoBlock
    /\ invalid_forks = {}
    /\ phase = "idle"
    /\ batch = <<>> /\ save_blocks_dbs = FALSE
    /\ branch = <<>> /\ files = <<>>
    /\ delivered = {} /\ crashes = 0

\* receive_blocks is called with the blocks of one message.
ReceiveBlocks(blocks) ==
    /\ phase = "idle"
    /\ phase' = "receiving"
    /\ batch' = blocks
    /\ save_blocks_dbs' = FALSE
    /\ delivered' = delivered \cup Range(blocks)
    /\ UNCHANGED <<mem, disk, current, invalid_forks, branch, files, crashes>>

\* The block at the head of the batch gets one of these verdicts.
Handle(verdicts) ==
    /\ phase = "receiving" /\ batch # <<>>
    /\ CheckBlock(mem, current, Head(batch)) \in verdicts
    /\ batch' = Tail(batch)
    /\ UNCHANGED <<disk, invalid_forks, files, delivered, crashes>>

\* A block that follows the current one becomes the current one.
StackUpBlock ==
    /\ Handle({"valid"})
    /\ current' = Head(batch)
    /\ \/ /\ HeadWritable(mem, Head(batch))
          /\ mem' = WriteHead(mem, Head(batch))
          /\ save_blocks_dbs' = TRUE
          /\ UNCHANGED phase
       \/ /\ ~HeadWritable(mem, Head(batch))
          /\ phase' = "no_previous_block_in_main_branch"
          /\ UNCHANGED <<mem, save_blocks_dbs>>
    /\ UNCHANGED branch

\* RefusedBlock is sent for the first kind, nothing for the second.
DropBlock ==
    /\ Handle({"refused", "known"})
    /\ UNCHANGED <<mem, current, phase, save_blocks_dbs, branch>>

KeepOrphan ==
    /\ Handle({"orphan"})
    /\ mem' = StoreOrphan(mem, Head(batch))
    /\ UNCHANGED <<current, phase, save_blocks_dbs, branch>>

\* A block stored in the tree is followed by a fork resolution.
KeepForkBlock ==
    /\ Handle({"fork"})
    /\ LET d == StoreFork(mem, Head(batch))
           ends == LastVisited(d, current, invalid_forks)
       IN  /\ mem' = d
           /\ \/ /\ current \notin d.fork_blocks_db
                 /\ phase' = "current_block_not_in_fork_blocks"
                 /\ UNCHANGED branch
              \/ /\ current \in d.fork_blocks_db
                 /\ ends = {}
                 /\ UNCHANGED <<phase, branch>>
              \/ \E id \in ends :
                 /\ current \in d.fork_blocks_db
                 /\ IF Unvisitable(d, id)
                    THEN phase' = "removed_node_or_block" /\ UNCHANGED branch
                    ELSE phase' = "reverting" /\ branch' = BranchTo(d, id)
    /\ UNCHANGED <<current, save_blocks_dbs>>

EndReceiving ==
    /\ phase = "receiving" /\ batch = <<>>
    /\ IF save_blocks_dbs THEN phase' = "saving" /\ files' = Files
                          ELSE phase' = "idle" /\ UNCHANGED files
    /\ UNCHANGED <<mem, disk, current, invalid_forks, batch, save_blocks_dbs, branch,
                   delivered, crashes>>

-----------------------------------------------------------------------------
(* apply_rollback.                                                         *)

LastCommonBlockNumber == Number[branch[1]]

\* One turn of the loop that reverts the old branch.  The loop never moves
\* current_blockstamp, which its condition reads.
RevertCurrentBlock ==
    /\ phase = "reverting" /\ Number[current] > LastCommonBlockNumber
    /\ IF current \notin mem.fork_blocks_db
       THEN phase' = "current_block_not_in_fork_blocks" /\ UNCHANGED mem
       ELSE IF ~InBlockchain(mem, current) /\ current \in RevertsOnce
       THEN phase' = "block_reverted_twice" /\ UNCHANGED mem
       ELSE /\ mem' = [mem EXCEPT !.blockchain_db =
                          Restrict(@, DOMAIN @ \ {Number[current]})]
            /\ UNCHANGED phase
    /\ UNCHANGED <<disk, current, invalid_forks, batch, save_blocks_dbs, branch, files,
                   delivered, crashes>>

\* The application of the new branch, block by block; it stops at the first
\* block that is not valid on top of the one before.  "at" is where it got to.
ApplyBlock(run, b) ==
    IF run.result # "applied" THEN run
    ELSE IF b \notin run.dbs.fork_blocks_db
    THEN [run EXCEPT !.result = "branch_block_lost"]
    ELSE IF CheckBlock(run.dbs, run.at, b) # "valid"
    THEN [run EXCEPT !.result = "invalid", !.bad = {b}]
    ELSE IF ~HeadWritable(run.dbs, b)
    THEN [run EXCEPT !.result = "no_previous_block_in_main_branch"]
    ELSE [run EXCEPT !.dbs = WriteHead(run.dbs, b), !.at = b]

ApplyBlocks(run, blocks) == FoldLeft(ApplyBlock, run, blocks)

AppliedBranch ==
    ApplyBlocks([dbs |-> mem, at |-> current, result |-> "applied", bad |-> {}], branch)

\* change_main_branch walks up from the first node of the new current block.
SwitchAborts(d, new) ==
    WalkAborts(d.fork_tree_db, FindNodeWithBlockstamp(d.fork_tree_db, new))

SwitchMainBranch(d, old, new) ==
    LET tree == ChangeMainBranch(d.fork_tree_db, old, new)
    IN  [d EXCEPT !.fork_tree_db = tree, !.fork_blocks_db = @ \ tree.removed_blockstamps]

\* A branch that fails is remembered and the databases are read from their
\* files again; current_blockstamp stays where the attempt left it.
ApplyNewBranch ==
    /\ phase = "reverting" /\ Number[current] <= LastCommonBlockNumber
    /\ LET run == AppliedBranch
       IN  /\ current' = run.at
           /\ invalid_forks' = invalid_forks \cup run.bad
           /\ CASE run.result = "applied" /\ SwitchAborts(run.dbs, run.at) ->
                     phase' = "removed_node_or_block" /\ UNCHANGED <<mem, files, branch>>
                [] run.result = "applied" /\ ~SwitchAborts(run.dbs, run.at) ->
                     /\ mem' = SwitchMainBranch(run.dbs, current, run.at)
                     /\ phase' = "saving" /\ files' = Files /\ UNCHANGED branch
                [] run.result = "invalid" ->
                     /\ mem' = OpenDBs
                     /\ phase' = "receiving" /\ branch' = <<>> /\ UNCHANGED files
                [] OTHER ->
                     phase' = run.result /\ UNCHANGED <<mem, files, branch>>
    /\ UNCHANGED <<disk, batch, save_blocks_dbs, delivered, crashes>>

-----------------------------------------------------------------------------
(* Saving, stacking, crashing.                                             *)

SaveFile ==
    /\ phase = "saving" /\ files # <<>>
    /\ disk' = [disk EXCEPT ![Head(files)] = mem[Head(files)]]
    /\ files' = Tail(files)
    /\ UNCHANGED <<mem, current, invalid_forks, phase, batch, save_blocks_dbs, branch,
                   delivered, crashes>>

\* After the save of a rollback the blocks of the branch are announced and the
\* message goes on; the other saves are the last thing their caller does.
EndSaving ==
    /\ phase = "saving" /\ files = <<>>
    /\ phase' = IF branch = <<>> THEN "idle"
                ELSE IF Range(branch) \subseteq mem.fork_blocks_db THEN "receiving"
                ELSE "branch_block_lost"
    /\ branch' = <<>>
    /\ UNCHANGED <<mem, disk, current, invalid_forks, batch, save_blocks_dbs, files,
                   delivered, crashes>>

\* Every 20 seconds the loop of start_blockchain calls apply_stackable_blocks.
StartStacking ==
    /\ phase = "idle"
    /\ phase' = "stacking"
    /\ UNCHANGED <<mem, disk, current, invalid_forks, batch, save_blocks_dbs, branch,
                   files, delivered, crashes>>

Stackables == WaitingFor(mem, current)
\* Mutant: a refused orphan hides those behind it.
FirstStackable(i) == i = 1 /\ CheckBlock(mem, current, Stackables[i]) = "valid"

Stackable(i) == CheckBlock(mem, current, Stackables[i]) = "valid"

\* The first waiting orphan that is valid is stacked, and the loop starts over.
StackOrphan ==
    /\ phase = "stacking"
    /\ \E i \in DOMAIN Stackables :
          /\ Stackable(i)
          /\ \A j \in 1 .. (i - 1) : ~Stackable(j)
          /\ IF HeadWritable(mem, Stackables[i])
             THEN /\ mem' = WriteHead(mem, Stackables[i])
                  /\ current' = Stackables[i]
                  /\ UNCHANGED phase
             ELSE /\ phase' = "no_previous_block_in_main_branch"
                  /\ UNCHANGED <<mem, current>>
    /\ UNCHANGED <<disk, invalid_forks, batch, save_blocks_dbs, branch, files, delivered,
                   crashes>>

\* It ends when no block waits, without a save, or when all that wait are
\* refused, with a save.
EndStacking ==
    /\ phase = "stacking"
    /\ \A i \in DOMAIN Stackables : ~Stackable(i)
    /\ IF Stackables = <<>> THEN phase' = "idle" /\ UNCHANGED files
                            ELSE phase' = "saving" /\ files' = Files
    /\ UNCHANGED <<mem, disk, current, invalid_forks, batch, save_blocks_dbs, branch,
                   delivered, crashes>>

\* The process is killed, or the user starts it again after it died: the module
\* is loaded from the files.
Restart ==
    /\ crashes < MaxCrashes
    /\ files \in {<<>>, Files} \/ CrashWhileSaving
    /\ crashes' = crashes + 1
    /\ mem' = OpenDBs
    /\ current' = StoredCurrent(OpenDBs)
    /\ invalid_forks' = {}
    /\ phase' = "idle"
    /\ batch' = <<>> /\ save_blocks_dbs' = FALSE
    /\ branch' = <<>> /\ files' = <<>>
    /\ UNCHANGED <<disk, delivered>>

-----------------------------------------------------------------------------
Work ==
    \/ StackUpBlock \/ DropBlock \/ KeepOrphan \/ KeepForkBlock \/ EndReceiving
    \/ RevertCurrentBlock \/ ApplyNewBranch
    \/ SaveFile \/ EndSaving
    \/ StackOrphan \/ EndStacking

Next ==
    \/ \E blocks \in Batches : ReceiveBlocks(blocks)
    \/ StartStacking
    \/ Work
    \/ Restart

Spec == Init /\ [][Next]_vars

\* What the thread has begun it goes on with, and its loop comes back to the
\* 20 seconds timer however many messages it handles in between.
LiveSpec == Spec /\ WF_vars(Work) /\ SF_vars(StartStacking)

-----------------------------------------------------------------------------
(* Properties.                                                             *)

\* In memory and in the file alike, the block-chain runs without a gap from
\* the genesis block, each block on its predecessor, and no refused block got
\* in: whatever came out of order, was reverted, reloaded or killed half-way.
Linked(chain) ==
    /\ DOMAIN chain = 0 .. (Cardinality(DOMAIN chain) - 1)
    /\ \A n \in DOMAIN chain :
          /\ Number[chain[n]] = n
          /\ n > 0 => Previous[chain[n]] = chain[n - 1]
          /\ chain[n] \notin Refused \cup Forged
ChainLinked == Linked(mem.blockchain_db) /\ Linked(disk.blockchain_db)

\* A block whose predecessor a restart would find out of the fork window (or
\* that has none) is never replaced, nor does it disappear.
BuriedBlocksStay ==
    [][\A n \in DOMAIN disk.blockchain_db :
          n + FORK_WINDOW_SIZE <= Cardinality(DOMAIN disk.blockchain_db) =>
             /\ n \in DOMAIN disk'.blockchain_db
             /\ disk'.blockchain_db[n] = disk.blockchain_db[n]]_vars

\* The tree stays sound inside all of this, torn saves and switches included:
\* its main branch is a chain of nodes that are still there.
TreeStaysChain == WellFormed(mem.fork_tree_db) /\ MainChain(mem.fork_tree_db)

\* A crash between two files can leave the tree file behind the block-chain
\* file, never ahead of it: whatever it calls the main branch is in the
\* block-chain that the restart finds.
TreeFileNotAhead ==
    \A n \in DOMAIN disk.fork_tree_db.main_branch :
        /\ n \in DOMAIN disk.blockchain_db
        /\ disk.blockchain_db[n] = MainBlock(disk.fork_tree_db, n)

\* Between two messages the three ideas of the head agree: the cached
\* current_blockstamp, the last block of the block-chain, and the top of the
\* tree's main branch, which holds the window below it block for block.
HeadsAgree ==
    phase \in {"idle", "receiving", "stacking"} =>
       /\ current = StoredCurrent(mem)
       /\ LET top == Cardinality(DOMAIN mem.blockchain_db) - 1
              main == mem.fork_tree_db.main_branch
          IN  /\ DOMAIN main = {n \in 0 .. top : n + FORK_WINDOW_SIZE > top}
              /\ \A n \in DOMAIN main :
                    MainBlock(mem.fork_tree_db, n) = mem.blockchain_db[n]

\* fork_blocks_db holds exactly the blocks that have a node in the tree (the
\* "safe unwrap" of the fork resolution and of the rollback rely on it), and no
\* block has two nodes, although head insertion never looks for an older one.
BlocksFollowTree ==
    phase \notin Fatal =>
       /\ mem.fork_blocks_db = StoredBlocks(mem.fork_tree_db)
       /\ \A id, other \in LiveNodes(mem.fork_tree_db) :
             DataOf(mem.fork_tree_db, id) = DataOf(mem.fork_tree_db, other) => id = other

\* "As long as orphan blocks can succeed the last inserted block, they are
\* inserted": no orphan is left waiting for a block of a fork that the tree
\* holds below its root.
ForkOrphansFollow ==
    \A id \in Descendants(mem.fork_tree_db, mem.fork_tree_db.root) :
        LET b == DataOf(mem.fork_tree_db, id)
        IN  ~InBlockchain(mem, b) => Range(WaitingFor(mem, b)) \subseteq mem.fork_blocks_db

\* A block waits at most once for its predecessor, however often it is sent.
WaitsOnce ==
    \A b \in DOMAIN mem.orphan_blocks_db :
        /\ \A i, j \in DOMAIN WaitingFor(mem, b) :
              WaitingFor(mem, b)[i] = WaitingFor(mem, b)[j] => i = j
        /\ \A i \in DOMAIN WaitingFor(mem, b) : Previous[WaitingFor(mem, b)[i]] = b

\* Between two messages the databases in memory agree with each other and with the
\* cached head, whatever the blocks and a restart made of them.
DatabasesAgree == TypeOK /\ HeadsAgree /\ BlocksFollowTree

\* The orphans that wait are those that have to, each of them once.
OrphansWait == ForkOrphansFollow /\ WaitsOnce

\* Failing rollbacks and kills inside a save leave a chain, a tree and files that
\* a start can use: linked, and the tree never ahead of the block-chain.
ChainsSurvive == ChainLinked /\ TreeStaysChain /\ TreeFileNotAhead

\* When the 20 seconds timer has done its work, no block that was ever received
\* could still follow the current block, unless it is refused: in any order, any
\* grouping and after any switch, orphans are found when their turn comes.
StackableIsStacked ==
    [][phase = "stacking" /\ phase' # "stacking" /\ crashes' = 0 =>
          \A b \in delivered \ (Refused \cup Forged) : Previous[b] # current']_vars

\* "Rollback (revert old branch)": the loop that reverts the old branch ends,
\* or takes the process with it.
RollbackEnds == (phase = "reverting") ~> (phase # "reverting")

\* When the old branch is reverted, the first block of the new branch follows
\* the current block: last_common_block_number is the number of a block both
\* branches have.
RevertedToCommonBlock ==
    phase = "reverting" /\ Number[current] <= LastCommonBlockNumber =>
        Chainable(current, branch[1])

\* "safe unwrap": the current block is among the blocks of the tree whenever a
\* fork is resolved.
CurrentBlockStored == phase # "current_block_not_in_fork_blocks"

\* The block before a new head is in the main branch of the tree, otherwise
\* "Fatal error: fail to insert new head block : previous block not exist in
\* main branch".
PreviousInMainBranch == phase # "no_previous_block_in_main_branch"

=============================================================================
