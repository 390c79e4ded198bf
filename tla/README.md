# A verification development for durs (duniter-rs)

durs is a node of a Duniter crypto-currency network: it receives blocks from
other nodes, keeps a block-chain and the forks of its last two hundred blocks, and
serves what it knows to the modules plugged into it. This directory holds TLA+
models of the parts whose correctness depends on the order of events, the TLC
runs that check them on small instances, and theorems that TLAPS checks for every
instance: about the fork tree and the block-chain thread, the sources of money, the
router, the WS2P connections, the network requests and the profile. `PROJECT.json`
lists the components, the runs, the mutants (a plausible bug for each property,
which TLC must notice), the source lines of each definition, the hazards and the
theorems.

Paths below are relative to the repository. `D` stands for
`lib/modules/blockchain/blockchain-dal/src`, `B` for
`lib/modules/blockchain/blockchain/src`, `R` for `lib/core/core/src/router.rs`,
`W1` for `lib/modules/ws2p-v1-legacy/src`, `W2` for `lib/modules/ws2p`,
`TD` for `lib/tools/documents/src`, `C` for `lib/core`.

## 1. The system

A node is one process. The core plugs modules, each of which runs in threads of
its own and talks to the others only through the router, over `mpsc` channels:
events (to whoever subscribed), requests (to whoever has a role), responses (to
the requester). The block-chain module is the one that is always there; network
modules (WS2P) feed it with blocks. `fatal_error!` panics, and the profiles of
`Cargo.toml` abort on panic: an error of one thread is the end of the process.

| Part | State | Operations | What is hard | What makes it correct |
|---|---|---|---|---|
| Fork tree, `D/entities/fork_tree.rs`, `D/writers/fork_tree.rs` | nodes, root, main branch, sheets, what the last step removed | insert a head, insert a fork, prune, change the main branch, find the branch of a sheet | the chain is stored twice; pruning by recursion over partly freed nodes; what was removed is read later by another function | the main branch is a chain inside the window; sheets are leaves; removals are reported; no branch inside the window is lost |
| Block and fork databases, `D/writers/block.rs`, `D/readers/*.rs`, `D/lib.rs` | `blockchain_db`, `fork_tree_db`, `fork_blocks_db`, `orphan_blocks_db`, in memory and on file | write a head, a fork or an orphan; look a block up; save; open | four databases that must agree; saved one file after the other; blocks known under three names | blocks are stored exactly where the tree says; a restart finds a usable set |
| Block-chain module, `B/lib.rs`, `B/dunp/receiver.rs`, `B/dubp/mod.rs`, `B/fork/*.rs` | `current_blockstamp`, `invalid_forks`, its databases | receive blocks, stack, store as fork or orphan, resolve forks, roll back, stack the orphans every 20 s, save, restart | blocks in any order and several times; a rollback that fails half-way; cached state; kills | the chain is linked; cache, block-chain and tree agree; buried blocks stay; every block comes in |
| Application and reversal of blocks, `B/dubp/apply`, `B/fork/revert_block.rs`, `D/writers/{identity,certification}.rs` | web of trust and its index, identities, memberships, certifications, dividends | apply, revert | failing half-way; reverting exactly what was applied; the graph, its index and the databases are separate | the databases are what the chain says, however it was reached |
| Currency databases, `D/writers/{transaction,dividend}.rs`, `D/entities/sources.rs` | balances with an index of outputs, outputs, dividends, transactions | write and undo a dividend or a transaction | every output is stored twice; remainders are destroyed; amounts in several bases | no money spent twice or lost; a balance is its sources |
| Network requests, `B/requests`, `B/dunp/queries.rs`, `W1/requests`, `W1/ws_connections/requests`, `lib/modules/tui` | requests awaiting answers in three tables, heads, the node's own head, what the interface shows | ask for chunks in turn, answer remote nodes, relay heads, announce connections | identifiers of three kinds; answers late or never; connections that end with requests in flight | an answer is taken for its own request; the chain is fetched in the end; what is shown is what is |
| Local synchronisation, `B/sync`, `C/core/src/commands`, `C/network/cli` | five threads, their channels, the thread pool, the target | read the JSON, apply, write, save | end of work counted on a channel that carries work; fewer threads than jobs; kills | everything read is written before the end; no file holds a part |
| Router, `R` | senders, pools of early messages, subscriptions, roles, counts, two threads | register, relay, keep, stop | modules register while messages flow; two threads with two copies of the list of modules; the stop overtakes | early messages arrive once and in order; everybody is stopped |
| Core, `C/core/src` | threads, names of modules | read the profile, plug, start, execute a command | the number of modules is known last | the server starts with what the user asked for |
| Configuration and keys, `C/conf/src` | two files of the profile | read, upgrade, make, change, write | written in two steps, by any number of processes | whole commands, none lost |
| WS2P v1, `lib/modules/ws2p-v1-legacy` | a thread and two timers per connection, tables of endpoints and websockets | negotiate, dial in waves, keep quotas, save endpoints | callbacks of threads per connection; timers that fire late; tables by endpoint | tables follow threads; negotiations end |
| WS2P v2, `lib/modules/ws2p` | a controller per end of a connection | negotiate, execute orders, time out | sends that fail; frames in flight across a close; another implementation | what an end believes of the other is so |
| Web of trust, `lib/tools/wot` | links, enabled nodes | add, remove; distance, paths, centrality | bounds, disabled nodes | the graph follows the chain |
| Documents and parsers, `TD`, `lib/tools/json-pest-parser`, `lib/dubp/*` | none; values | write, sign, read, compact, hash, reduce, verify | four forms of every document; positions in lines; hashes kept in the document | every form says the same, under the same signature and hash |
| Cryptography, terminal interface, database explorer | keys; what is drawn | | | see section 8 |

## 2. Modules

| Module | Models |
|---|---|
| `ForkTree` | the fork tree: a record, and the operations of `fork_tree.rs` as functions from tree to tree |
| `ForkTreeGrowth` | the fork tree on its own: a state machine with the two writers as its actions |
| `Blockchain` | the block-chain thread and its databases, the tree among them; extends `ForkTree` |
| `BlockchainProofs` | lemmas about the operations of `ForkTree`, the inductive invariants of `ForkTreeGrowth` and of `Blockchain`, and their theorems |
| `ApplyBlock` | what a block does to the web of trust, the identities, the certifications and the dividends, and its reversal |
| `Currency` | what a block does to balances and sources of money, and its reversal |
| `CurrencyProofs` | the inductive invariant of `Currency` and two theorems |
| `Router` | the router thread, the broadcasting thread and what the modules and the core send to them |
| `RouterProofs` | the inductive invariant of `Router` and two theorems |
| `SequenceLemmas` | what the proofs use of sequences: when a sequence is in order, alone, behind another, or flattened; induction over the natural numbers |
| `WS2PHandshake` | abstract: what a negotiation of WS2P promises on each side, whatever the version; implemented by the two modules below |
| `WS2Pv1` | the outgoing connections of WS2P v1: main thread, one thread per connection, timers, waves, tables by endpoint |
| `WS2Pv1Proofs` | the inductive invariant of `WS2Pv1` and two theorems |
| `WS2Pv2` | the two ends of a connection of WS2P v2: controllers, handlers, frames in flight, orchestrators |
| `WS2Pv2Proofs` | the inductive invariant of `WS2Pv2` and five theorems |
| `Requests` | what remote nodes, WS2P v1, the block-chain module and the terminal interface ask and tell each other; heads, their relaying and the caches of one per node |
| `RequestsProofs` | the inductive invariant of `Requests` and four theorems |
| `LocalSync` | the command that reads a chain from the files of another implementation |
| `ProfileStore` | abstract: configuration and keys change by whole commands |
| `Profile` | the files of the profile and the commands that read and write them, implementing `ProfileStore` |
| `ProfileProofs` | the inductive invariant of `Profile`, and that it implements `ProfileStore` |
| `UTXOConditions` | unlocking conditions: trees, text, JSON, reduced form |
| `Documents` | the five kinds of documents as texts, compact lines and JSON |
| `BlockDocuments` | a document from its author to a block and back: signing, hashing, two parsers, storing, undoing, serving |
| `MC*` | the constants of the runs, one such module for each state machine above |

### ForkTree and the code

A block is an element of `Block`; `Number` and `Previous` give its height and the
block its `previous_hash` names. The hash of a block is its identity. `nodes`
holds the occupied slots of the code's vector, `allocated` its length;
`get_free_node_id` (`fork_tree.rs:187-195`) compares `get(i)` with `None`, which
only happens past the end, so slots are never reused, and the model does not
either. `children` vectors are derived from the parents. `remove_node_children`
is kept as it is: a call frees the descendants of its argument down to the first
branching, then recurses on each of the branches, and never frees an argument
(`RemovedNodeChildren`). A walk that meets a freed slot is a sequence with
`NoNode` in front (`ForkWalk`), since the code aborts there.

In `ForkTreeGrowth`, `InsertHead` is `insert_new_head_block` as
`check_and_apply_block` calls it (the block follows the head); `InsertFork` is
`insert_new_fork_block` for a block not stored yet whose predecessor is.
`ChangeMainBranch` is used by `Blockchain`.

### Blockchain and the code

The thread of the module is one process; a step of it that touches no file is
one action, although it may change several databases, because nothing else reads
them and a crash loses them together. Saving is one action per file. `phase`
says what the thread is doing, or which `fatal_error!` or `expect` ended it:

| Actions | Code |
|---|---|
| `ReceiveBlocks`, `EndReceiving` | `B/dunp/receiver.rs`: a message brings a list of blocks, handled in turn; a save at the end if one was stacked |
| `StackUpBlock`, `DropBlock`, `KeepOrphan`, `KeepForkBlock` | `check_and_apply_block` (`B/dubp/mod.rs`) by its verdict, with the writer it calls and, for a fork, the fork resolution that follows (`B/fork/fork_algo.rs`) |
| `RevertCurrentBlock`, `ApplyNewBranch` | the two loops of `apply_rollback` (`B/fork/rollback.rs`) |
| `SaveFile`, `EndSaving` | `save_dbs` of each database in the code's order |
| `StartStacking`, `StackOrphan`, `EndStacking` | `apply_stackable_blocks` and its 20 s timer |
| `Restart` | a kill at any point, or a start after the process died: the databases are opened from the files, the current block is the one at height `len() - 1` |

`AlreadyHave`, `Chainable`, `InForkWindow`, `HasAdvance` are the tests of the
code, in its order. Fork resolution visits sheets from the highest; the sort is
unstable over a hash set, so sheets of one height come in any order
(`LastVisited`). Whether the content of a block obeys the protocol is a constant
(`Forged`: wrong hashes; `Refused`: rules or application), and so is whether
its second revert is fatal (`RevertsOnce`: it certifies somebody and
`rem_link` finds no link). The release build is modelled: `number - 1` wraps at
the genesis block.

### ApplyBlock and the code

`ApplyBlock` is `apply_valid_block` together with the queries it returns, which
the caller applies at once; `RevertBlock` is `revert_block` with its queries. A
block is one action: one thread handles it and saves at the end, and `failed` is
the `fatal_error!` or panic that ends the process before. `rollback.rs:29` says
what a rollback is for ("revert old branch"), and the model undoes blocks that
way, once each and from the top; that the loop itself never ends is
`RollbackEnds` of `Blockchain` (section 6). `EndOfSync` separates the blocks of the first
synchronisation, for which expiring certifications are looked up
(`B/sync/mod.rs:306-320`), from those of the network, for which they are not.

The code leaves the rules of the protocol to others (`verify_block_validity`
checks few of them), so the model must supply legal blocks. `Allowed` and `Legal`
derive them from the chain alone: `Status` says who joined, was excluded or
revoked, `LivingAt` which certifications have not expired. The same two are the
reference of the properties: databases against chain. A certification may be
renewed once the old one had expired at the head; a key has one event per block,
except that it can be excluded and revoked at once. A date is a height, a
document refers to the head of its time (`DocHeight`), and the `NodeId` k of the
code is the node k + 1. Counters wrap at `UsizeMax`, as in a release build.

### Currency and the code

`CreateUD` and `RevertUD` are `create_du`; `WriteTx` is `apply_and_write_tx` and
`RevertTx` is `revert_tx`, each in the order of the code: `Consume`, then
`Supply`; `WithoutOutputs`, then `Recreate`. `Add`, `Sub` and `AtLeast` are the
operators of `SourceAmount` as they are, `Sub` with its exchanged operands and
`AtLeast` with the derived order. Legal transactions spend one or two sources
that the chain says are unspent (`Unspent`) and send a transfer and what is left.
The protocol takes the sources of an address that a block leaves under the
minimum; a block carries those of the block before (`garbage`), because they can
never be spent after it. The hash of a transaction is its identity, which it
keeps when another branch contains it again (`Identifier`). `past` is history.

### Router and the code

`router_channel` and `broadcasting_channel` are the two `mpsc` queues;
`RelayToBroadcasting`, `RelayRegistration`, `RelayResponse`, `RelayStop` are the
arms of the router thread, `CountModules`, `AdmitModule`, `Broadcast`,
`StopBroadcasting` those of the broadcasting thread. The messages kept for
modules not yet plugged are `router_pool` (responses, by module) and `pool_msgs`
(events and requests, by event or role). `Early` and `Late` are the two tests
against `MAX_REGISTRATION_DELAY` (`R:290`, `R:218`). A send to a module that has
left, too few modules in time, and a send to the router after its end take the
process down, as in the code. `handled` and `owed` are history: which messages a
module must have got. The modules are reduced to what they send: their
registration, the messages of the run, each in order and each response after its
request; `RequestStop` is the message `DursMsg::Stop`, which the router serves
although no module of the shipped build sends it (only the module template does):
the map marks it external.

### WS2PHandshake, WS2Pv1, WS2Pv2 and the code

`WS2PHandshake` is the promise both protocols share: each of CONNECT, ACK and OK
counts once, CONNECT first. `heard` is a function of the state in v1 (`HeardIn`)
and a history in v2.

In `WS2Pv1` a connection `c` has the thread's own state (`conn[c]`), and the main
thread has `endpoints` and `websockets`, by endpoint. `Hear*` are the arms of
`on_message` (`W1/ws_connections/handler.rs:123`), `ConnectTimeout`,
`ExpireTimeout` and `OnClose` its other callbacks; each sends one message to
`channel`, which `MainThread` takes one by one (`Deliver*`, the arms of
`W1/ws_connections/messages.rs:76` with what `W1/lib.rs:655` does next).
`ConnectingWave` is `connect_to_know_endpoints`, `Waves` its three selections
(preferred keys, saved states, reachability), `Start` a start on a saved table.
A negotiation message with a bad signature is one of the others (`HearOther`).

In `WS2Pv2` a controller turns an event into an order (`HearConnect`, `HearAck`,
`HearOk`, `HearSecretFlags`, `TimeoutOrder`): nothing, a message or a close, with
the state of each outcome. The handler executes it (`Exec`, `Settle`) and tells
the orchestrator. Frames travel in order in `ends[s].frames`; `Break`, a send
that fails and an orchestrator that leaves are faults, bounded together by
`MaxFaults`. `ForeignOpens`, `ForeignSends` and `ForeignReads` are another
implementation at one end: it sends its CONNECT once, when the websocket opens,
and anything else in any order. A `BARE_CONNECT`, one without a byte of features, which
this code never sends, panics where the features are read (`HearBareConnect`,
`W2/ws2p-messages/v2/api_features.rs:31`); `Fatal` is that end of the thread, and the
other one, by an OK of a node that is not known. They are external, as is `Break`. The service
threads of `W2/ws2p/src/services` are not connected to the handlers by the server
and are left out.

### Requests and the code

The router has two ways, and they do not keep step (`C/core/src/router.rs:430-452`).
What WS2P is sent as an event or a request goes to `broadcasting`, the queue of the
broadcasting thread (`Broadcasts`), which relays it to `to_ws2p`
(`BroadcastingRelays`); a response goes there directly (`Responds`), and so
overtakes every event that was sent before it and has not been relayed. An event
never overtakes a response, since the router's own thread takes both in the order
they were sent. `to_ws2p` also has what the threads of the connections say. Two
queues of the code have no variable, because they add no order: that of the
router's own thread delays everything alike, and what it holds may as well not have
been sent yet; and the block-chain module is sent events and requests only, so that
`to_blockchain` stands for its whole way there. (`Router`, whose `OrderKept` speaks of
one sender and one address, says nothing of the order between responses and events.)

`BlockchainNext` is a turn of the block-chain module's loop
(`ReceiveBlocks`, `Answer*`), `WS2PNext` one of WS2P v1's (`receive_req`,
`StackUpValidBlock`, `ReceiveCurrentBlockstamp`, `ReceiveUids`,
`ConnectionMessage`, ...). `request_next_main_blocks` is the block-chain module's
20 s timer, `PrintState` WS2P's own. Two tables match answers: the requests of
WS2P to the block-chain module, by the first free number (`FirstFree`), and those
to remote nodes, by identifiers never used twice (`FreshReqId`). The third, the
`pending_network_requests` of the block-chain module, is written and never read
back: no module answers `GetConsensus` and blocks arrive as an event, so it has no
variable. The interface sends nothing; its event handler is part of the step that
sends the event.

A remote node (external) opens, ends, asks, answers, and relays heads, inside the
budget of a scenario. A head of version 3 has no producer in the repository and
is left out.

### LocalSync and the code

One action per message taken or block applied: the reader
(`download/json_reader_worker.rs`), the main thread (`sync/mod.rs:267-450`), and
three workers (`apply/*_worker.rs`). `JobStarts` is the thread pool, whose size is
the number of processors: a job waits for a thread. `kills` counts what an
operator may do at any step; the next command of the scenario starts on what is on
disk. `dbs` is what the workers hold in memory, `disk` what they have saved, by
file. A worker saves its files one by one in the order of the code (`SaveOrder`),
so that a kill may come between two of them, and the next command opens what is
there (`Opened`); the main thread saves the parameters and the graph meanwhile.
`main.fresh` (history) says that a command began on empty databases.

### ProfileStore, Profile and the code

Every run of the program reads keys and configuration, makes what is missing and
executes one command (`C/core/src/lib.rs:150-240`). `pc` follows it:
`MakeProfile`, `ReadKeys`, `ReadConf`, `FindCurrency`, `Execute*`. Writing a file
is two steps, `CreateFile` and `WriteFile` (`C/conf/src/lib.rs:697-720`), between
which it is empty; a file that two processes write at once is `mixed`. `NewConf`
and `NewKeys` are what each command makes of what it read; a wizard that is
cancelled, or answered badly, panics before it writes (`commands/keys.rs:143`),
which is a `Kill` at that moment. `Stop` ends the server, `Kill` any process.
`user.asked` is history: what the commands that have ended asked for. `Conf` is
the type of a configuration; three assumptions say what modules, commands and
scenarios are (a scenario may start on files that an interrupted run left).

### UTXOConditions, Documents, BlockDocuments and the code

A text is a sequence of lines, a line what the grammar (`TD/documents_grammar.pest`)
tells apart. A signature is the pair of key and text signed, a hash stands for
the text it is of. `IdentityText` and its four companions are the `generate_text`
of each builder, `Parse*` the `from_pest_pair` of each kind, `Compact*` the lines
of a block, `TransactionJson` and `ReadTransactionJson` the JSON. Positions
matter: `Of` and `CitedSigs` take keys, blockstamps and signatures in the order
the parser does. `TextWithoutSignature` counts back from the end, as the code.

`BlockDocuments` gives one document a life: `Write`, `ReadText`, `Compose` into a
block, the four steps of making a block, `Receive` by either parser (one section
possibly damaged: an entry is `TooShort`, or `Undecodable` in a key or a
signature), then
`ApplyReceived`, or `KeepFork` and `ApplyFork`, and `RevertBlock`. `made` (history)
is the text the author of the block hashed.

`UTXOConditions` parses by recursive descent with `RECURSIVE` operators, so it and
the two modules over it are checked by TLC only.

## 3. Runs

| Run | Question | Bounds |
|---|---|---|
| `fork_tree` | Is the tree sound however heads and forks interleave? | main chain of 4, a fork that itself forks, window 2; 11,323 states |
| `blockchain_forks` | Do cache, block-chain, tree, fork blocks and orphans agree? | 7 blocks on three branches, window 2, one kill outside a save; 332,718 states |
| `blockchain_faults` | What survives failing rollbacks and kills inside a save? | branches of 4 and 3 blocks, window 3, advance of 1 block, one kill anywhere; 981,008 states |
| `router` | Do early messages reach everybody once and in order, and does a stop at any moment end the node (liveness)? | 3 modules, 2 events, a request and its response, delay 1, clock to 2; 641,404 states |
| `apply_blocks` | Do graph, index, identities, certifications and delays follow the chain; is applying exact, and undoing newcomers, certifications and dividends? | 2 keys, 3 blocks of 2 events, validity 1, 3 reversals; 170,359 states |
| `currency_blocks` | Do sources, index and balances agree with the chain; is a spent dividend given back exactly? | 2 keys, 4 blocks, 3 transactions, transfers of 0.50, 9.50 and 10 units, 1 reversal; 168,878 states |
| `ws2p_v1` | Do the tables by endpoint follow the threads by connection, and does every negotiation end (liveness)? | 2 endpoints, 2 connections, quota 1, 2 messages in the channel, 1 request, started on an empty or a saved table; 459,442 states |
| `ws2p_v2` | Is what one end believes of the other so, and does every negotiation end (liveness)? | both ends this code, or one of them foreign with 3 frames of its own; types the flags tell and types they do not; features with and without LOW; 1 fault; 350,188 states |
| `requests` | Is every answer for a question that was asked, does the node catch up (liveness), is what is shown what is? | a node that answers and one that never does, two blocks in one chunk to fetch, or one to stack, five scenarios; 53,502 states |
| `local_sync` | Is everything saved when the command ends, does it end with any number of threads (liveness), is nothing saved in part? | 5 blocks in files of 2, certifications that expire, pools of 1 to 4 threads, 1 kill; 121,186 states |
| `profile` | Do the files change by whole commands, and does the server obey them? | 2 processes, 5 scenarios of up to 3 commands, 1 kill; 89,029 states |
| `documents` | Does every form of a document say what its author wrote? | 11 documents, 5 choices of keys, both parsers, 1 section damaged in 2 ways; 23,334 states |

The runs of one module check conjunctions, so that each states one idea; their
parts are definitions of their own:

| Property | Parts |
|---|---|
| `DatabasesAgree` | cache, block-chain and tree have one head (`HeadsAgree`); fork blocks are those of the tree (`BlocksFollowTree`) |
| `OrphansWait` | an orphan enters the tree with its predecessor (`ForkOrphansFollow`) and waits in one place (`WaitsOnce`) |
| `ChainsSurvive` | the block-chain (`ChainLinked`) and the tree (`TreeStaysChain`) are chains after any kill; the tree's file is never ahead (`TreeFileNotAhead`) |
| `DeliveredInOrder` | no message twice (`DeliveredOnce`), none overtaken (`OrderKept`) |
| `DatabasesAsChain` | `IndexMatchesGraph`, `RevokedAsChain`, `CertificationsAsChain`, `DelaysAsChain` |
| `StepsAreExact` | `ApplicationIsExact`, `NewcomersUndone` |
| `SourcesAgree` | outputs and index (`UtxosIndexed`), outputs and chain (`SourcesAsChain`) |
| `BalanceWithinDust` | amounts are amounts (`TypeOK`), and no balance is more than its sources or much less |
| `TablesFollowThreads` | an endpoint recorded Established has a connection that is and is not over (`EstablishedIsBacked`); so has a websocket that is kept (`WebsocketIsLive`) |
| `EndsAgree` | an end Established has the other's CONNECT and ACK taken (`EstablishedIsShared`); both announce one connection (`SameConnection`) and one set of features (`FeaturesAreShared`) |
| `ViewsAgree` | with nothing on either way of the router the node's state is current (`QuietMeansCurrent`) and shown (`NetworkIsShown`) |
| `QuestionsAreAnswered` | a remote node is told the current block (`CurrentIsAnswered`); a name is shown in the end (`UidIsShown`) |
| `SyncIsWhole` | at the end (`FinishedIsWhole`) and after a kill, per database (`SavedIsWhole`) |
| `FormsAgree` | `ReadAsWritten` (text), `SameInBlock` (compact), `OutputsKeepTheirText` (JSON and reduced) |
| `KeptIsWhole` | an accepted block is what its author hashed (`AcceptedIsWhole`), reducing it loses nothing (`ReducedIsIntact`) |

Where a conjunction names it, `TypeOK` of the module is part of it.

**Why these bounds are enough to be of use.** The code's window is 200; what
matters is that the root moves several times while forks hang at it, inside and
beyond the window, which a window of 2 or 3 with branches of 3 or 4 blocks does.
A fork is chosen when it is `ADVANCE_BLOCKS` longer and `ADVANCE_TIME` younger (3
blocks and 15 minutes in the code, 900 s): where no fork is to win the code's
values are kept, where one must, 1 and 300 with blocks five minutes apart. The
interesting forks are those that fork again, those whose predecessor arrives
later, and two branches of the same height; all are in the instances. Batches
bring single blocks and chunks of two or three. One kill is enough for each
invariant over files, as a second one starts from files the first may have left.

Two keys are a certifier and a certified, a member and a newcomer; three blocks
are a join, an event on it and a second one that meets what a reversal left; with
a validity of one block the third block sees a certification of the first
expire. In `Currency` the three transfers are what distinguishes the branches: a
remainder under the minimum on either side, and none; the minimum (100
hundredths) and the dividends (10 units, 11 after a change of base) are as in the
code and in its tests. `MaxReverts` and `MaxTxs` bound histories that would not
end. In the router, three modules are one network module, one that starts last
and one more; two ticks are enough for early, neither early nor late, and late.

In `ws2p_v1` what can go wrong needs two connections that compete for one entry of
a table, or for one place of the quota: two endpoints, two connections and a quota
of one have both. `MaxChannel` bounds how far the threads run ahead of the main
thread; two messages are enough for one to be overtaken by the close of another
connection. In `ws2p_v2` a fault and three frames of another implementation reach
every state of the controller, though not every one from every other: the other
implementation sends one CONNECT, as the code does, so that a negotiation is never
begun again (section 2 says why, and hazard `connect_msg.rs:84`). The proof
extends this to any number of faults and frames. In `requests` a silent node and
an honest one take turns; a scenario is what the nodes may do (end and open again,
ask, relay heads) and what the chain does (one block, two in a chunk, a failed
branch); where there are two, the answer about the current block may overtake the
events of both. That the mutant of `ViewsAgree`, `StackUpNewBlock` (a block is
passed over if a response has already told of it), violates it is owed to that
crossing: with one queue for both ways it does not. A file of two blocks out of
five gives `local_sync` whole files, a last one, and batches that cross
`FORK_WINDOW_SIZE` (2 here) and the expiry of certifications (3 blocks); a pool of
one thread makes jobs wait for one another, and four is more than the jobs. In
`profile` a lost update needs two processes and a lost file one kill. A document
of each kind, one with two issuers, and texts with and without the final newline
are what the parsers tell apart; unlocking conditions go to depth two.

The keys of `ApplyBlock` are symmetric; elsewhere blocks, modules, nodes and
addresses all differ. Deadlock is checked in `requests`, where nobody may stop
for ever without the state saying so; elsewhere a run ends when its blocks,
messages, kills or commands are used up, or when the process has died.

## 4. Fairness

- `Router!LiveSpec`: each of the two threads goes on while its channel holds
  something, and a module that finds the stop message ends; nothing is assumed of
  registrations, of sends or of the clock.
- `WS2Pv1!FairSpec`: weak fairness of the main thread, of the timer of a
  negotiation, of a close that is under way and of the outcome of a dial, which
  the library tells. Nothing is assumed of the remote nodes, which may be silent:
  it is the timer that ends a negotiation.
- `WS2Pv2!FairSpec`: weak fairness of the event loop of each end and of its timer;
  another implementation opens the connection and reads what it is sent, and owes
  no answer.
- `Requests!LiveSpec`: weak fairness of the loops of the two modules and of the
  broadcasting thread; strong fairness of their
  timers (the requests of blocks, the state printed, the requests overdue), which
  the loops test at every turn whatever the queues bring; and for an *honest* node,
  that it comes back, publishes its head and answers. `CatchesUp` needs one of
  those; the silent node owes nothing.
- `LocalSync!LiveSpec`: every thread that has work goes on, and the pool starts a
  job whenever it has a thread. Nobody has to kill or to run a command again.
- `Blockchain!LiveSpec`: what the thread has begun it goes on with (weak), and the
  20 s timer, tested at every turn of the loop, fires (strong). No run needs it:
  that a block delivered in any order comes in is asked by `StackableIsStacked`, as
  a property of the steps. It serves `Blockchain_not_so.cfg`.

## 5. What is proved

`BlockchainProofs`, of the fork tree alone, for every `Block`, `Number`,
`Previous` and window that satisfy `BlockAssumption` (a block is one higher than
the block it names) and `WindowAssumption` (a window of at least one):

| Theorem | Statement |
|---|---|
| `TypeCorrect` | `[]TreeTypeOK` |
| `MainBranchChained` | `[]MainBranchIsChain` |
| `WindowRespected` | `[]WindowBound` |
| `RemovalsAreReported` | `RemovalsReported` |
| `WindowBranchesAreKept` | `WindowBranchesKept` |
| `SheetsAreTheLeaves` | `[]SheetsAreLeaves` |

None of the invariants is inductive alone. Pruning cuts all children of the root
but the main one, so that the main branch survives needs that the main branch
does not hang under another child: parents are older than their children
(`WellFormed`), the main branch hangs node under node (`MainChain`), the root
has no stored parent (`RootDetached`), and sheets have no children
(`SheetsChildless`, needed for sheets to name occupied slots after a step).
`TreeInv` is their conjunction, `GrowthInv` adds `WindowBound`. The argument:

1. `Descendants(t, c)` is the least set closed under children, so a set of
   nodes whose parents are inside it or dead avoids it (`DescendantsAvoid`).
   With it, the main branch above the root avoids what is cut (`CutOffMain`), and
   so does everything under the new root (`NewRootBranchKept`).
2. Adding a node preserves the invariant, in three lemmas (root, head, fork);
   pruning preserves it (`PruningKeepsInv`).
3. Each action composes these; `GrowthInvAlways` is the induction.
4. The action properties follow from `RemovalStep`, which compares the nodes
   before and after a step.
5. That sheets have no children is a part of `TreeInv`; that every leaf below the
   root is a sheet (`LeavesAreSheets`) is proved on top of it. A new node makes
   its parent no leaf (`AddNodeKeepsLeaves`). A pruning frees nothing under the new
   root, so no node there loses a child or its place among the sheets
   (`PruningKeepsLeaves`). It does not hold of what was cut off and kept, which is
   why it speaks of descendants of the root only.

`BlockchainProofs`, of `Blockchain`, for all blocks, all batches of them, any verdict on each
(`Forged`, `Refused`, `RevertsOnce`), any advance and any number of kills, inside a
save or not. Beside the two assumptions above it uses `GenesisAssumption` (the block
of height 0 is the one without a predecessor) and `ThreadAssumption`: types, that
the blockstamps are finitely many (a number of 32 bits and a hash of 32 bytes), and
that the window is longer than one block (it is 200, `D/constants.rs:23`; with a
window of one, writing a head would prune its own predecessor).

| Theorem | Statement |
|---|---|
| `ChainsAlwaysSurvive` | `[]ChainsSurvive`, that is `ChainLinked`, `TreeStaysChain` and `TreeFileNotAhead` |
| `BuriedBlocksAlwaysStay` | `BuriedBlocksStay` |
| `ChainFileOnlyGrows` | in no step does the block-chain file lose or replace a block, buried or not |
| `DatabasesTyped` | `[]TypeOK` |
| `OrphansWaitOnce` | `[]WaitsOnce` |
| `HeadsAlwaysAgree` | `[](invalid_forks = {} => HeadsAgree)` (1) |
| `PreviousAlwaysInMainBranch` | `[]PreviousInMainBranch` (1) |
| `DatabasesAlwaysAgree` | `DatabasesAgree` in every state but those of a rollback or of a dead process (1, 2) |
| `OrphansAlwaysWait` | `OrphansWait` in the same states (1, 2) |
| `CurrentBlockAlwaysStored` | `[]CurrentBlockStored` (1, 2) |
| `NoSwitchSucceeds` | a rollback never comes to its save (1, 2) |
| `StackableAlwaysStacked` | `StackableIsStacked` (1, 2) |

(1) assumes that no crash falls between the files of one save (`~CrashWhileSaving`),
(2) that no branch has failed since the start (`[](invalid_forks = {})`: a behaviour
that stops before the first failure is one of these, so the theorems speak of every
behaviour up to there). Both are needed: section 6 has what happens otherwise.

Nothing here holds because one step is right. After a rollback that fails, the
databases are those of the files and the cached current block is not; a kill inside
a save leaves files of different moments; `StoreFork` puts a whole family of
orphans into the tree, and each must find its predecessor there. `ChainInv` says of
the databases in memory *and* of those in the files that they are `Sound`: the chain
is `Chained`, the tree satisfies `TreeInv` and its nodes hang under the blocks they
follow (`Hung`), the orphans wait under their predecessors (`OrphansOK`). Between
the databases: in memory the chain has what the file has, the main branch of the
tree is part of it, and nothing of it lies above the current block, which is on it
if its height is (`OnChain`); in the files the main branch is part of the chain.
The first of these is broken by `RevertCurrentBlock` alone, and by it only in a
rollback that will not come out of its loop (`Stuck`): `current` never moves, so
nothing that follows, a save in particular, sees the shortened chain, and a restart
reads the file. That is how the fault `RollbackEnds` of section 6 bears on this
proof: were the loop to end, `ChainFileOnlyGrows` would be false and the others
would need the window. `Reverting` says that a rollback has a branch and a tree,
`Saving` that the block-chain file is the first to be written. The argument:

1. Operations on the tree: what a new head, a fork block and a pruning leave of
   `Hung` and of the main branch (`HeadInserted`, `ForkInserted`). With a window of
   more than one, the predecessor of a new head stays in it.
2. Folds and recursive functions of the model are given their equations:
   `ForkSteps` and `BranchSteps` for the folds, `FollowersGrow` for the family of
   an orphan (it exists because heights are bounded: `HighestBlock`), `WalkUp` for
   the walk up the tree (parents are older slots). Their elements are then ordered:
   in `Followers` each block comes after the one it follows, so that
   `ForksInserted` can store them one by one.
3. A block judged valid on the current one lands right behind the chain
   (`NextOfChain`); `WriteHeadKeeps`, `StoreForkKeeps`, `StoreOrphanKeeps` and
   `ApplyBlockKeeps` are the writers, `BranchApplied` a whole branch.
4. After a branch is applied `change_main_branch` finds nothing to do, since each
   of its blocks was written as a head: the walk up from the new current block
   stops at once (`HeadWalk`), and the tree stays as it is (`SwitchKeeps`).
5. One lemma for each action; `SaveFileKeeps` and `RestartKeeps` are those of the
   torn save.

The theorems marked (1) and (2) are about what the databases hold between messages,
and rest on two more invariants. `HeadInv` says that the main branch has exactly the
heights of the chain that are in the window (`Windowed`), that there is a current
block if there is a chain (`Headed`), and that a save under way has brought the files
it has written up to memory. `Windowed` survives a failed branch, since the reload
brings whole files; `Headed` does not, which is why `HeadsAlwaysAgree` stops there and
`PreviousAlwaysInMainBranch` does not. `KeptInv` says that the databases are those of a
node that never switched and has placed the blocks it had to (`Kept`):

1. *Two nodes of one block.* Head insertion never looks for an older node of its
   block, so it must be that no stored block follows the top of the main branch
   (`HeadBare`); and a fork block is looked for in `fork_blocks_db` only, so that this
   and the tree must hold the same blocks although a pruning leaves behind what hung
   under a node it cut off. There is therefore a set `G` of blocks that were cut off,
   freed or not, and no block outside it hangs under one inside (`Split`): it only
   grows (`PruningSplits`), it never takes from the main branch (`MainNotCut`), and
   whatever follows one of its blocks is in it or comes below the window.
2. *A family of orphans.* A fork block brings those that wait for it, and those that
   wait for them (`Family`, by induction over heights: `FromTheTop`). If it lands
   below the root, none of them is stored yet nor in `G`, and none comes twice
   (`FamilyApart`); each gets its node, and all that waits for a fork block below the
   root is stored (`Waited`, `FamilyInserted`).
3. *A family astray.* If it lands under a block that was cut off and kept, blocks that
   were freed may come back with it. The walk up from each of its new nodes meets a
   freed slot (`Astray`, `FamilyAstray`), so one of the sheets ends the visit of the
   fork resolution that follows (`VisitEnds`): the process dies, or a higher sheet
   begins a rollback.
4. *A rollback.* No stored block follows the current one, so neither does the first
   block of the branch (`BranchMisfits`): it is refused, and remembered, or the process
   dies on it (`RollbackKept`). `NoSwitchSucceeds` is what this says of the code.
5. *Every block in its turn.* Of the blocks handled since the first start, and not
   refused, those that do not wait and come above the current block (`Placed`) are
   stored or in `G`: a block is dropped only when it is stored, waits or comes too
   late (`DroppedBlock`), and stacking one leaves fewer above it (`KeptMoves`). When
   the stacking ends, a block that follows the current one cannot wait, since it would
   be valid; it cannot be stored (`HeadBare`), nor in `G`, since the main branch is not
   (`NothingFollows`). So it was never received. A restart forgets what was received
   and not saved, which is why the property stops at the first.

`CurrencyProofs`, for all keys, dividends, transfers, minimum and bounds; of
`CurrencyAssumption` it uses only that members are keys:

| Theorem | Statement |
|---|---|
| `IInvAlways` | `[]IInv` |
| `SourcesAlwaysAgree` | `[]SourcesAgree`, that is `UtxosIndexed` and `SourcesAsChain` |

The databases forget: a spent output is gone from `utxos_db`, and `revert_tx` makes
it again from the documents of the chain. `SourcesAgree` alone does not say that
what it makes was ever there. The invariant has to speak of the chain at every
height. `HeldTo(n)` is what the blocks up to the n-th have created and not spent;
`ChainOK` says of each block that its transaction is in no other block, spent
sources of `HeldTo` of the block before, which the protocol had not taken, and
destroyed outputs that were there as well; `TxsOK` numbers the transactions, so that
the hash of a new one is in no block; `Kept`, the databases hold `HeldTo` of the
last block, each address its own; and `AsWritten`, each output has the owner and
the amount of its document, by which a reversal finds its address. The argument:

1. What a block spends was created before it (`SpentWasCreated`), and is not created
   again by it, so taking the block away gives back `HeldTo` of the block before:
   `HeldAfter`, `BlockComes` and `BlockGoes` compare the two sides of a step.
2. `Supply` and `Withdraw` go through outputs one by one, several of which may go to
   one address; `SupplySources` and `WithdrawSources` are their inductions.
3. `TxWritten` and `TxTakenBack` say what a transaction leaves of the sources,
   `DividendsCome` and `DividendsLeave` what a dividend does. The destroyed sources
   are returned to an index that still has them: that is why the fault of
   `DestroyedOnce` (section 6) falls on balances and not on sources.
4. One lemma for each action. Whether a block can be undone depends on amounts
   (`Covered`), what undoing it leaves of the sources does not.

`WS2Pv2Proofs`, for all setups, any number of faults, of foreign frames and of
invalid messages (`WS2Pv2Assumption` gives their types only):

| Theorem | Statement |
|---|---|
| `TypeCorrect` | `[]TypeOK` |
| `EstablishedHasHeardAll` | `[]EstablishedHeardAll` |
| `EndsAlwaysAgree` | `[]EndsAgree`, that is `EstablishedIsShared`, `SameConnection` and `FeaturesAreShared` |
| `QuietEndsAreEstablished` | `[]QuietMeansEstablished` |
| `NegotiationRefines` | `NegotiatesInOrder`, that is `WS2PHandshake`'s `Spec` under `heard <- ends[s].heard` |

A controller takes a CONNECT in *every* state and starts over (hazard
`connect_msg.rs:84`). That each message counts once therefore does not follow
from the controller: it rests on the other end, which sends one CONNECT, when its
websocket opens. The inductive invariant says so. `IInv` is `TypeOK`, that the
state of an end says what it has heard (`StateHeard`), that the server's remote
type is never that of an incoming connection, and `ConnectOnce`: a CONNECT on its
way is the only one, and goes to an end that has heard none, and an end whose
websocket is still opening has sent none. What two ends agree on needs two parts
more: `Promises`, between two ends of this code an ACK on its way, or heard,
means that its sender has heard the CONNECT, and an OK that it has heard CONNECT
and ACK; and `Knowledge`, an end that knows the other knows its type as the flags
tell it, has settled on the features of both or on none, and has announced
nothing else. The argument:

1. An order is `Sound` when each of its outcomes is a state that says what was
   heard; every `Hear*` gives a sound order (one lemma for each message).
2. Executing a sound order keeps the invariant: `After`, which tells the
   orchestrator and sends frames, has one lemma for the types, one for the
   frames, one for what is heard; `Settle` and `Exec` compose them.
3. `NextStep` goes through the actions, faults and foreign frames included.
4. A step adds to what is heard at most one message on one side (`HearsOne`), CONNECT
   before the others: that is a step of `WS2PHandshake` or a stutter.
5. `QuietMeansEstablished` speaks of a state in which nothing is left to happen, so
   its invariant must say how far each end has come. `ScriptFollowed`: as long as no
   fault, close or timeout has come between two ends of this code, each sends
   CONNECT, ACK and OK in that order, one more than it has taken; what is on its way
   to an end is exactly what was sent and not taken yet, and its state is that of
   its turn. Two ends with no frame on the way have then both taken all three. Of
   the actions only `OnOpen` and `OnMessage` leave the ends undisturbed
   (`NextOnScript`).

`WS2Pv1Proofs`, for all endpoints and issuers, any quota and any number of
connections, messages and requests (`WS2PAssumption`: types, and that the
endpoints are finitely many):

| Theorem | Statement |
|---|---|
| `TablesFollow` | `[]TablesFollowThreads`, that is `TypeOK`, `EstablishedIsBacked` and `WebsocketIsLive` |
| `NegotiationRefines` | `NegotiatesInOrder`, that is `WS2PHandshake`'s `Spec` under `heard <- HeardIn(conn[c].state)` |

The main thread records an endpoint as Established when it reads the message of
the last step of the negotiation, and the thread may have ended, and the endpoint
may have got another connection, in between. That the record is right all the
same rests on the order of the one channel. The inductive invariant adds to the
three parts: `CloseFollows`, the Close of a thread is its last message, so that
behind any other message of a thread that is over its Close waits; `MsgOK`, a
message names the endpoint of its thread and tells of Established only when
the thread is (a thread never leaves that state); and `ThreadsOK`, threads are
used in order, so that dialling never touches a used one, and no negotiation
begins before the websocket opens. The argument:

1. Dialling takes free threads only (`DialledThreads`), closing takes open ones
   (`ThreadsContinue`), and the messages of the channel stay true of threads that
   go on (`ChannelContinues`).
2. A thread that tells something keeps the invariant (`ThreadTells`); the main
   thread does when it takes a message (`MainTakes`), because a Close takes the
   record and the websocket of its endpoint away with it, and when it dials
   (`MainDials`). Each action is an instance of one of the three.
3. `StatesChange`: only `HearAuth` changes what a thread has heard, and each time
   by one message that `WS2PHandshake` allows.

`RouterProofs`, for all modules, subscriptions, messages and delays
(`MessageAssumption`: a message is determined by its sender, its address and its
number; a response is what is addressed to a module by name):

| Theorem | Statement |
|---|---|
| `EarlyMessagesAlwaysReach` | `[]EarlyMessagesReach` |
| `AlwaysDeliveredInOrder` | `[]DeliveredInOrder`, that is `TypeOK`, `DeliveredOnce` and `OrderKept` |

Two threads fill the inbox of a module. Each has a channel, and a pool that it
empties into the inbox when the module registers with it, and the module
registers with one after the other. `IInv` is `Typed`; `Registering`, a
registration is in one channel at most and its module not yet known behind it;
`SentInTurn`, the messages of a module to an address are numbered in the order
they were sent; `InPlace`, what is in the two channels is in order, that of the
broadcasting thread comes before that of the router thread, and both come after
what the threads have handled; `Kept`, a pool holds in order what its thread has
handled for that address, and all of it as long as it is early; `Received`, an
inbox holds in order what the threads it is registered with have handled, and the
stop and the endpoints only when they were due; and `EarlyMessagesReach` itself. "In
order" is `Comes`: two items are not the same, and two messages of one module to
one address have their numbers in that order. Whatever comes from one thread is
never to the address of what comes from the other, so the two may alternate in an
inbox. The argument:

1. A sequence made of two is in order when each is and all of the first comes
   before all of the second (`Concatenation`); so is one made of many
   (`FlattenInOrder`, by induction over their number). `SequenceLemmas` has no
   operator as a parameter: an order is a set of pairs, and the induction is over a
   set of numbers.
2. A send puts something new behind everything (`ModuleSends`); what a thread takes is
   before everything left (`RouterHead`, `BroadcastingHead`); what is passed on
   to the other thread becomes the last of all it has (`Passing`).
3. One lemma for each action. `RelayRegistrationStep` and `AdmitModuleStep` are the
   long ones: the inbox of a module that registers with a thread holds nothing of
   that thread, and all that was kept for it comes before what is on its way.

`RequestsProofs`, for all nodes, any order of the endpoints, chain, chunks and
scenarios (`RequestsAssumption`: types, that this node is none of the others, and that
the endpoints are listed, each once; so they are finitely many):

| Theorem | Statement |
|---|---|
| `IInvAlways` | `[]IInv` |
| `ViewsAlwaysAgree` | `[]ViewsAgree`, that is `TypeOK`, `QuietMeansCurrent` and `NetworkIsShown` |
| `AnswersAlwaysAsked` | `[]AnswersAreAsked` |
| `HeadsAlwaysGoForward` | `HeadsGoForward` |

`ViewsAgree` speaks of empty queues, `AnswersAreAsked` of what has arrived: the
invariant has to say what is on its way. `IInv` is `Types`, that the records, the
tables and every message of the three queues are what they should be, and three
parts. `Current`: as long as no branch has turned out invalid, the last stacked block
the broadcasting thread has for WS2P is the current one, and whatever has reached
WS2P about the current block is right or has a stacked block behind it, there or
with that thread. So an answer given before a block was stacked is corrected by
its event, and an answer that has overtaken events is followed by them, of which the
last tells the same; nothing can be left behind with an older block. If nothing is
on its way, WS2P holds the current block or its question is on its way; and the head
of this node, once there is one, is shown. `Shows`: each head that
WS2P keeps is shown in the same version and no other node's is; an endpoint
Established is shown so, and the count of the interface is never more than the
number of those it shows. `Asked`: a pair of node and body is still in the budget,
or on its way to WS2P, or pending, or answered, and one of these only; and about
one pending number there is one question to the block-chain module, or one answer
from it, since the number is the first free one and comes free only when the
answer is taken. `TypeOK` alone is not inductive: that the
count stays below the number of nodes rests on its staying below the number of
connections shown, since it goes up only with one that was shown as not
established. The argument:

1. What puts one message at the end of a queue, or takes the first, keeps what is
   said of positions (`SequenceLemmas` and the lemmas about `Append` and `Tail`); a
   chunk request puts several, none of which the parts tell apart.
2. One event changes one line of the interface or one batch of heads; `TellAgain` is
   a fold over the endpoints (`TellSteps`), whose count stays right because each of
   its steps tells the state that is shown (`StateShown`).
3. The first free number is free (`FirstFreeIsFree`): there is one, because what is
   pending is finite.
4. One lemma for each action; `Forward`, which `HeadsGoForward` is about, goes with
   them, since a head is replaced only by one that is not older (`Replaces`) and
   what is shown is what is kept.

`ProfileProofs`, for all modules with their priorities, all commands, any number
of processes and any scenarios (`NamesAssumption`, `CommandsAssumption`: types, and
that `None` is no value; `ScenariosAssumption`: a whole configuration on the disk
agrees with what the user remembers to have asked for, and where there is none
nothing was asked; a whole key file has a network key and a member key or none):

| Theorem | Statement |
|---|---|
| `ProfileObeys` | `[]ProfileObeysUser`, that is `TypeOK` and `ServerObeysUser` |
| `CommandsAlwaysAtomic` | `[](SeparateFiles /\ drawn \in 0 .. MaxDraws) => CommandsAreAtomic`, that is `ProfileStore`'s `Spec` under `conf <- Seen("conf")`, `keys <- Seen("keys")` |
| `AloneAlwaysAtomic` | `[](user.alone /\ drawn \in 0 .. MaxDraws) => CommandsAreAtomic` |

That the server obeys says nothing of the processes before it, which wrote the
file it reads, nor of those killed between the two steps of a write. `IInv` is
`Typed` (files and processes have their types, however many processes write at
once; a process about to write a configuration writes the one it has) and, when
processes run one at a time: at most one is not over (`OneAtATime`); a whole file
agrees with what was asked, and no file means nothing was (`FileAgrees`); and the
configuration of a process agrees too, from the moment it is read or made, except
that a process writing for its command agrees with what *will* have been asked
once the file is written (`ProcAgrees`). A kill may come anywhere: until the file
is written nothing more was asked, and a file left empty is neither whole nor
absent, so the next process stops on it instead of making a new one. The
argument:

1. What a command makes of a configuration agrees with what it asks for
   (`PreferedFollows`, `CommandFollows`).
2. A step of one process keeps the invariant when the files and that process
   keep it (`ProcessMoves`); the others are over.
3. One lemma for each group of actions (`LaunchKeeps`, `LoadKeeps`, `WriteKeeps`,
   `ExecuteKeeps`, `EndKeeps`), and `StepKeeps` composes them.

A command reads a file, computes, empties the file and fills it, and other processes
may come in between. `CommandsAlwaysAtomic` says under which condition that does not show.
`SeparateFiles`: of two processes that run, not both claim one file, where a
process claims the file it is writing and the one its command will write or
remove; a server or a command that only reads claims nothing unless it is making a
missing file or bringing an old one to the current version. The run `profile` has
the condition, with two processes at once; the code does not see to it, and
section 6 has what happens without. `drawn \in 0 .. MaxDraws` says that the bound on
random numbers is one. The file *as it is seen* changes at `File::create`: once
empty, it counts as what its one writer is about to write. `AtomicInv` adds to
`IInv` what a process `Knows`: from reading to creating, what it has read of the
file it will write is what the file holds (`WillWrite`), and a file being written
is empty. The argument:

1. A step of a process leaves what the others know: it changes only a file it claims,
   and the others that run do not (`OthersKnow`, `AtomicMoves`).
2. A step that changes no file, of a process that neither was nor is writing, is a
   stutter of `ProfileStore` (`QuietMoves`); so are the steps that read, launch,
   execute, show and end.
3. Creating the file is the command (`CreateAtomic`): its content is made of what the
   file holds now. Filling it is a stutter (`WriteAtomic`): there is one writer, so
   it fills in what was seen. A kill in between loses the file (`KillAtomic`), and a
   reset is one step (`ResetAtomic`).

`TreeTypeOK` and `WindowBound` of `ForkTreeGrowth`, `TypeOK` of `WS2Pv2`, and `TypeOK`
and `WaitsOnce` of `Blockchain` are stated by theorems; the runs check them inside
conjunctions or not at all.

Only model-checked: the properties of `ApplyBlock`, `LocalSync`, `Documents` and
`BlockDocuments`, of `Currency` the two about amounts (`BalanceWithinDust` and
`DividendSpendingUndone`, which sum over sets and divide by powers of ten),
and every liveness property (`NegotiationEnds`, `QuestionsAreAnswered` and
`CatchesUp` among them), since liveness under
fairness is out of this prover's reach. `UTXOConditions` is written with `RECURSIVE`
operators, which the prover does not take, so `Documents` and `BlockDocuments` have
no theorems. Of `Blockchain`, `DatabasesAgree`, `OrphansWait` and `StackableIsStacked`
beyond the hypotheses of their theorems are properties of the instances of
`blockchain_forks`: section 6 has what the code does with other constants.

## 6. What the code does not keep

The following statements come from the names, messages and comments of the code,
and the code does not keep them. Each is a property of its module, and TLC finds
it violated under the configuration of the table, whose `INVARIANTS` or
`PROPERTIES` list the statements one by one: TLC stops at the first, so all but one
are to be commented out to see the counterexample of that one
(`tlc -config Requests_not_so.cfg MCRequests`). These configurations are not among
the runs.

| Property, configuration | What the code does | Where |
|---|---|---|
| `SheetsReachMainBranch`, `ForkTree_not_so` | when the root moves past a fork that itself forks, the heads of that fork stay in `nodes` and `sheets` while their parent is freed; the next fork resolution dies on "get unexist or removed node" | `D/entities/fork_tree.rs:424` |
| `RollbackEnds`, `Blockchain_not_so` | the loop that reverts the old branch never moves the blockstamp it tests | `B/fork/rollback.rs:30` |
| `RevertedToCommonBlock`, `Blockchain_not_so` | `last_common_block_number` is the height of the first block of the new branch, not of the last common one: a rollback of depth one reverts nothing, then refuses a valid branch and remembers it as invalid | `B/fork/rollback.rs:27`, `B/fork/fork_algo.rs:189` |
| `CurrentBlockStored`, `Blockchain_not_so` | after a failed rollback the databases are reloaded and the cached current block is not; the next fork resolution does not find it ("safe unwrap") | `B/fork/rollback.rs:141`, `B/fork/fork_algo.rs:31` |
| `PreviousInMainBranch`, `Blockchain_not_so` | a kill between the block-chain file and the tree file leaves a node that dies at the next head | `D/lib.rs:213`, `D/writers/fork_tree.rs:28` |
| `NeverFatal`, `ApplyBlock_not_so` | undoing the first renewal of a member leaves it expired; its exclusion, or a renewal, in the next block stops the process | `D/writers/identity.rs:235` |
| `DividendsOfChain`, same | undoing an exclusion or a revocation disables the member again; undoing a dividend below it then forgets that member | `B/fork/revert_block.rs:178`, `:196`, `:96` |
| `NoStaleMembership`, same | undoing a renewal writes its membership once more | `D/writers/identity.rs:235` |
| `CertificationsKept`, same | after the synchronisation no certification expires, and a rollback over a renewed one loses a link the chain has | `B/dubp/mod.rs:88` |
| `CountIsLinks`, same | a certification over a link that never expired is counted twice in `issued_count` | `lib/tools/wot/data/rusty.rs:139` |
| `NeverFatal`, `Currency_not_so` | a transaction that spent an output cannot be undone ("Not find tx", or an address that is not found) | `D/writers/transaction.rs:83`, `:114` |
| `DestroyedOnce`, same | destroyed sources stay in the index and are destroyed again by a later transaction, whose reversal gives them back again | `D/writers/transaction.rs:316`, doc at `:42` |
| `BalanceWithinDust`, `Currency_not_so` | subtraction across bases changes sign: once the base of the currency changes, spending an old source empties the balance (in one base the run has the property) | `D/entities/sources.rs:76` |
| `EndpointsReachNetwork`, `Router_not_so` | when the network module registers last, it is never sent the endpoints of the node | `R:160` |
| `RepliesOnOwnSocket`, `WS2Pv1_not_so` | an endpoint that is being dialled is dialled again; ACK and OK for one connection leave on the other's websocket | `W1/ws_connections/mod.rs:130` |
| `AckFindsWebsocket`, same | an ACK handled after the websocket of its endpoint was forgotten ends the process | `W1/ws_connections/messages.rs:148` |
| `OverIsFinal`, `CompatibleWhenEstablished`, `WS2Pv2_not_so` | the closes for an unexpected CONNECT and for incompatible features are built and dropped | `W2/ws2p-protocol/src/controller/on_message/connect_msg.rs:84`, `:96` |
| `EndIsTold`, same | `on_close` is empty: the orchestrator is not told that an established connection has ended | `W2/ws2p/src/controllers/handler.rs:189` |
| `EstablishedIsAnnounced`, `RemoteIsKnown`, same | only an OK that comes after the ACK announces the connection; an OK of a node whose CONNECT was not taken ends the process | `W2/ws2p-protocol/src/controller/on_message/ok_msg.rs:40`, `:47` |
| `BlocksAreAnswered`, `Requests_not_so` | blocks and chunks that remote nodes ask for are fetched and never sent | `W1/responses/received.rs:98` |
| `HeadIsCurrent`, same | the node's own head is not taken back after a branch that failed | `W1/responses/received.rs:34` |
| `CountIsShown`, `ShownIsEstablished`, same | a connection first seen established is not counted; some closes are announced to nobody | `lib/modules/tui/lib.rs:547`, `W1/ws_connections/messages.rs:272` |
| `HashesAreChecked`, `LocalSync_not_so` | hashes are checked only *with* `--unsafe`, which "not check blocks inner hashs" | `B/sync/mod.rs:294`, `C/network/cli/sync.rs:41` |
| `SyncResumes`, same | a synchronisation on databases that are not empty always ends with "The first block must have number equal to zero !" | `B/sync/mod.rs:302` |
| `ShortFileIsRead`, same | without `--end` the target is the last place of the last file, full or not: a short one ends the process ("safe unwrap because not empty") | `B/sync/download/json_reader_worker.rs:84` |
| `AlreadyIsWhole`, `RerunIsWhole`, same | the databases are saved by several threads; after a kill the next command looks at the blocks alone, says "already synchronized" without the others, or applies everything again to identities and a graph that are there | `B/sync/mod.rs:418` |
| `FinishedAtTarget`, same | a source that lacks a block ends the command as a success below its target: what counts is that the jobs have finished | `B/sync/mod.rs:442` |
| `CommandsAreAtomic`, `Profile_not_so` | two commands at a time that write the same file lose an update, a kill between the two steps of a write loses the file (for the others the run has the property) | `C/conf/src/lib.rs:703` |
| `NoCommandFails`, same | two first runs race for the directories of the profile | `C/conf/src/lib.rs:488`, `:517` |
| `ResetAllResets`, `ResetDataResets`, same | a configuration that cannot be read cannot be reset either; the data of `g1` are removed, whatever the currency | `C/core/src/commands/reset.rs:64` |
| `ServerKeyIsSaved`, same | a key that the wizard or a clear leaves out is drawn at each start and not written | `C/conf/src/keys.rs` |
| `RevertIsPossible`, `Documents_not_so` | the result of reducing a transaction is dropped, so undoing a block with one is fatal | `TD/documents/block.rs:376`, `B/fork/revert_block.rs:79` |
| `ReturnIsPossible`, same | a block kept reduced as a fork cannot be verified when its branch wins again | `B/dubp/check/hashs.rs:22` |
| `ServedIsRead`, same | a stored block is served with a null inner hash and a null dividend, which the peer's parser refuses | `W1/serializers/block.rs:63` |
| `AcceptedIsSigned`, same | the signature of a block is never verified | `B/dubp/check/hashs.rs:22` |
| `AlwaysValidIsSigned`, `UnsignedIsRefused`, same | a text that ends with a newline, or with several signatures, is cut in the wrong place and refused; one without a signature ends the process | `TD/text_document_traits.rs:67`, `TD/documents/identity.rs:288` |
| `DamageIsRefused`, same | an entry of a block that cannot be decoded ends the process in a parser that was to leave out what it cannot read; so does a short identity | `TD/parsers/certifications.rs:31`, `W1/parsers/memberships.rs:49` |
| `CurrencyIsKept`, same | the WS2P v1 parser calls every transaction's currency "g1", which shows in another currency only | `W1/parsers/blocks.rs:117` |
| `HashIsShared`, same | a transaction read from its text hashes its signatures twice | `TD/documents/transaction.rs:605` |
| `ConditionsAsWritten`, `Documents_not_so` | of `A && B \|\| C` the JSON reader takes `A` alone and drops the rest, while the text is kept and stored (for chains of one operator the run has the property) | `TD/documents/transaction.rs:330` |

Met while reading, without a property: a network head or a peer shows its node id
in hexadecimal and parses it as a decimal (`network_peer.rs:153`,
`network_head_v3.rs:141`); `--cautious` of the synchronisation does nothing;
`durs disable` of an essential module has no effect; the
`pending_network_requests` of the block-chain module only grow (`B/lib.rs:254`).

Because of `RollbackEnds` and `RevertedToCommonBlock`, `Blockchain` switches
branches only in corner cases (a rollback to a branch that replaces nothing), and
its properties about switching say that what remains is not corrupted, not that a
node follows the best branch. That statement belongs to the code as it should be.

Likewise `ApplicationIsExact` and `NewcomersUndone` start from databases that are
what the chain says (`Exact`), and `DividendSpendingUndone` from transactions that
are the first to destroy a source: after one of the reversals described above they
promise nothing, and `currency_blocks` keeps to one base. `QuietMeansCurrent`
speaks of runs without a failed branch, `HeadsGoForward` of the heads of other
nodes, `EstablishedIsShared` and `SameConnection` of two ends that run this code,
`FinishedIsWhole` and `SavedIsWhole` of commands that began on empty databases.
The other properties of the runs hold in every state.

## 7. Hazards

`PROJECT.json` lists each at its line with the properties that would catch it.
Where the code does go wrong the note names the property and configuration of
section 6. Those without a property say why: a matter of memory that no property
distinguishes, or a part that is left out (section 8). One is worth a word: an
orphan that waits for a block of the main branch is looked at only while that
block is the current one (`D/writers/block.rs:33`). `ForkOrphansFollow` therefore
speaks of waiting for fork blocks only.

## 8. What is not modelled

- The content of blocks is a verdict in `Blockchain`; `ApplyBlock` and `Currency`
  take legal blocks and have no files, so that a block refused half-way, or a
  reload of the databases that leaves `wot_index` behind, is in neither.
- The limit on certifications issued; the date and blockstamp fields of
  identities that nothing reads; in `Currency`, unlocking conditions other than
  one key (`UTXOConditions` has their forms).
- Distances, paths and centrality in the web of trust, which only the database
  explorer calls; the explorer itself, which only reads.
- A file of the databases cut short in the middle of a write, and one of length
  zero, which opens as an empty database. (`Profile` has both for its files.)
- `blockchain_db` written directly for old blocks during a synchronisation, and
  the expiry of certifications that stacking triggers.
- In the router: the thread that saves configurations (it is sent nothing), the
  limit on the duration of a run (never set), and the checks on reserved API names.
- In WS2P v1: the quota that underflows when preferred connections exceed it
  (`W1/ws_connections/mod.rs:93`), which needs more connections than the bounds
  have, and the priorities of endpoints. In WS2P v2: the service threads, which the
  server does not connect to its endpoints, and the binary format of messages.
- The grammar of JSON (a parsed object is a record), peer cards and endpoints as
  text, heads of version 3.
- The header of a block beyond its currency, number, issuer, dividend and previous
  block. The synchronisation endpoints of WS2P v1 that a user writes into the
  configuration by hand; no command does.
- Cryptography: a hash stands for what it is of, a signature for its key and its
  text.
- The drawing of the terminal interface, log files, the stop by a signal, the
  module template, and the rules engine, which nothing uses.

## 9. What is left

1. *Blocks and branches*: `ApplyBlock` and `Currency` composed with the saving of
   `Blockchain`, for the reload after a failed rollback and for a kill between the
   files of the identities, of the graph and of the currency.
2. *Abstract fork window*: a main chain and a set of branches inside a window,
   without nodes and slots, implemented by `ForkTree` (refinement checked, then
   its step lemma proved from `TreeInv`).
3. *Web of trust algorithms*: distance and paths as folds against their
   definitions over small graphs.
4. *Proofs*: `IndexMatchesGraph` of `ApplyBlock`, inductive with the shape of the
   blocks; the order of the four databases in
   `LocalSync`.
