----------------------------- MODULE LocalSync -----------------------------
(***************************************************************************)
(* durs sync: the block-chain read from the files of a local Duniter node. *)
(* A thread reads the blocks and sends them to the main thread, which      *)
(* applies them to the web of trust and shares the rest among three more   *)
(* threads, one for each group of databases.  Every group is saved once,   *)
(* file after file, by the thread that owns it, and the command ends when  *)
(* all have told.                                                          *)
(*                                                                         *)
(* The process may be killed between any two steps, and the command run    *)
(* again on what the databases then are.  Every profile of the build has   *)
(* panic = "abort": a fatal error of any thread ends the process.          *)
(*                                                                         *)
(* A block is its number; its content is given by the constants.  What the *)
(* queries do to the databases in detail is in ApplyBlock and Currency.    *)
(***************************************************************************)
EXTENDS Integers, FiniteSets, FiniteSetsExt, Sequences, SequencesExt, Functions, TLC

CONSTANTS
    Top,                \* the number of the last block of the source
    CHUNK_SIZE,         \* blocks of a file
    CHUNKS_STEP,        \* files parsed before their blocks are sent
    FORK_WINDOW_SIZE,
    SigValidity,        \* of the currency parameters
    MedianTime,         \* of each block
    Newcomers,          \* of each block, in their order
    Certs,              \* of each block: <<from, to, block of the document>>
    Wrong,              \* blocks whose hash is not that of their content
    NoEnd,              \* no --end option
    Scenarios           \* bound: commands to run, and how often to be killed

ASSUME SyncAssumption ==
    /\ {Top, SigValidity} \subseteq Nat
    /\ {CHUNK_SIZE, CHUNKS_STEP, FORK_WINDOW_SIZE} \subseteq Nat \ {0}
    /\ NoEnd \notin Nat
    /\ \A n \in 1 .. Top : MedianTime[n] >= MedianTime[n - 1]
    /\ \A s \in Scenarios : \A i \in DOMAIN s.commands : s.commands[i].workers \in 1 .. 4

VARIABLES
    disk,       \* the databases as they are saved, one file each (the graph is nodes
                \* and links; no orphan is ever stored here)
    job,        \* the jobs of the thread pool
    reader,     \* the reader: chunks and blocks it has before it
    main,       \* the main thread
    dbs,        \* the databases as the three workers hold them
    to_main,    \* the channel to the main thread
    to_job,     \* the channels to the workers
    todo        \* commands and kills to come

vars == <<disk, job, reader, main, dbs, to_main, to_job, todo>>

Number == 0 .. Top
Worker == {"blocks", "wot", "txs"}
PoolOrder == <<"reader", "blocks", "wot", "txs">>
Ended == {"off", "killed", "failed", "already", "finished"}

Empty == [blocks |-> {}, fork_tree |-> {}, fork_blocks |-> {},
          identities |-> <<>>, ms |-> {}, certs |-> {}, nodes |-> 0, links |-> {},
          tx |-> {}, utxos |-> {}, du |-> {}, balances |-> [n \in Number |-> 0], params |-> FALSE]

\* The files of each worker, in the order it saves them.
SaveOrder == [blocks |-> <<"blocks", "fork_tree", "fork_blocks">>, wot |-> <<"identities", "ms", "certs">>,
              txs |-> <<"tx", "utxos", "balances", "du">>]

\* The block whose number is one less than how many there are, if it is there;
\* block 0 of the default block stamp else.
HasCurrent == Cardinality(disk.blocks) - 1 \in disk.blocks
CurrentId == IF HasCurrent THEN Cardinality(disk.blocks) - 1 ELSE 0

-----------------------------------------------------------------------------
(* The command *)

Idle(pc) ==
    [pc |-> pc, command |-> main.command, fresh |-> main.fresh, target |-> 0, current |-> 0, params |-> FALSE,
     not_expiring |-> <<>>, last_expiring |-> -1, certs_db |-> {}, wot_index |-> <<>>,
     nodes |-> 0, links |-> {}, wait_jobs |-> 0]

\* The process ends; with it its threads, their channels and their memory.
Exit(pc) ==
    /\ main' = Idle(pc)
    /\ job' = [j \in DOMAIN job |-> "none"]
    /\ reader' = [pc |-> "target", chunk |-> 0, blocks |-> <<>>]
    /\ dbs' = Empty
    /\ to_main' = <<>> /\ to_job' = [w \in Worker |-> <<>>]

FatalError == Exit("failed") /\ UNCHANGED <<disk, todo>>

local_sync ==
    /\ main.pc \in Ended /\ todo.commands # <<>>
    /\ main' = [Idle("target") EXCEPT !.command = Head(todo.commands), !.fresh = (disk = Empty)]
    /\ job' = [job EXCEPT !["reader"] = "queued"]
    /\ todo' = [todo EXCEPT !.commands = Tail(@)]
    /\ UNCHANGED <<disk, reader, dbs, to_main, to_job>>

Kill ==
    /\ main.pc \notin Ended /\ todo.kills > 0
    /\ todo' = [todo EXCEPT !.kills = @ - 1]
    /\ Exit("killed") /\ UNCHANGED disk

Running == {j \in DOMAIN job : job[j] \notin {"none", "queued", "done"}}

\* The files of a worker are opened: what it holds is what they hold.
Opened(w) == [f \in DOMAIN dbs |-> IF f \in Range(SaveOrder[w]) THEN disk[f] ELSE dbs[f]]

\* The jobs start in the order they were given, as many as the machine has
\* processors (NB_SYNC_JOBS at most).  Two of the workers open their databases.
JobStarts(i) ==
    LET j == PoolOrder[i]
    IN  /\ job[j] = "queued" /\ \A k \in 1 .. i - 1 : job[PoolOrder[k]] # "queued"
        /\ Cardinality(Running) < main.command.workers
        /\ job' = [job EXCEPT ![j] = "running"]
        /\ dbs' = IF j \in {"wot", "txs"} THEN Opened(j) ELSE dbs
        /\ UNCHANGED <<disk, reader, main, to_main, to_job, todo>>

-----------------------------------------------------------------------------
(* The reader *)

\* The files of the source, by their number: the blocks of each, in its order.
files == main.command.files
Count == Cardinality(DOMAIN files)
MaxChunk == IF main.command.end = NoEnd THEN Count - 1 ELSE main.command.end \div CHUNK_SIZE
MaxBlock == IF main.command.end = NoEnd THEN Count * CHUNK_SIZE - 1 ELSE main.command.end
Position == (MaxBlock % CHUNK_SIZE) + 1

ReaderAt(pc) == job["reader"] = "running" /\ reader.pc = pc
Sends(message) == to_main' = Append(to_main, message)

ReaderFindsTarget ==
    /\ ReaderAt("target")
    /\ IF MaxChunk \in DOMAIN files /\ Position \in DOMAIN files[MaxChunk]
       THEN /\ Sends([type |-> "Target", number |-> files[MaxChunk][Position]])
            /\ reader' = [pc |-> "chunks", chunk |-> CurrentId \div CHUNK_SIZE, blocks |-> <<>>]
            /\ UNCHANGED <<disk, job, main, dbs, to_job, todo>>
       ELSE FatalError

\* A block is kept when it follows the current one, whatever came before it.
Follows(n) == (n > CurrentId \/ (n = 0 /\ ~HasCurrent)) /\ n <= MaxBlock

treat_json_chunks ==
    /\ ReaderAt("chunks") /\ reader.blocks = <<>> /\ reader.chunk <= MaxChunk
    /\ LET chunks == reader.chunk .. Min({reader.chunk + CHUNKS_STEP - 1, MaxChunk})
           read == FlattenSeq([k \in 1 .. Cardinality(chunks) |-> files[reader.chunk + k - 1]])
       IN  IF chunks \subseteq DOMAIN files
           THEN /\ reader' = [reader EXCEPT !.chunk = @ + CHUNKS_STEP,
                                            !.blocks = SelectSeq(read, Follows)]
                /\ UNCHANGED <<disk, job, main, dbs, to_main, to_job, todo>>
           ELSE FatalError

ReaderSendsBlock ==
    /\ ReaderAt("chunks") /\ reader.blocks # <<>>
    /\ Sends([type |-> "BlockDocument", number |-> Head(reader.blocks)])
    /\ reader' = [reader EXCEPT !.blocks = Tail(@)]
    /\ UNCHANGED <<disk, job, main, dbs, to_job, todo>>

ReaderFinishes ==
    /\ ReaderAt("chunks") /\ reader.blocks = <<>> /\ reader.chunk > MaxChunk
    /\ Sends([type |-> "DownloadFinish"])
    /\ job' = [job EXCEPT !["reader"] = "done"]
    /\ UNCHANGED <<disk, reader, main, dbs, to_job, todo>>

-----------------------------------------------------------------------------
(* The main thread *)

MainTakes(pc, types) ==
    /\ main.pc = pc
    /\ to_main # <<>> /\ Head(to_main).type \in types

\* The graph and its index are those of the main thread, the databases of
\* blocks are opened for the worker.
MainTakesTarget ==
    /\ MainTakes("target", {"Target"})
    /\ IF Head(to_main).number <= CurrentId
       THEN Exit("already") /\ UNCHANGED <<disk, todo>>
       ELSE /\ main' = [main EXCEPT !.pc = "apply", !.target = Head(to_main).number,
                                    !.wot_index = disk.identities, !.nodes = disk.nodes, !.links = disk.links]
            /\ dbs' = Opened("blocks")
            /\ job' = [j \in DOMAIN job |-> IF j \in Worker THEN "queued" ELSE job[j]]
            /\ to_main' = Tail(to_main)
            /\ UNCHANGED <<disk, reader, to_job, todo>>

\* verify_block_hashs is called when the option --unsafe is given.
Verified(n) == main.command.unsafe => n \notin Wrong

\* The first block the command applies must be that of the parameters.
HasParams(n) == main.params \/ n = 0

\* Mutant of ExpiringBlocks: the block whose limit is reached expires too.
ExpiringBlocksAtLimit(n) ==
    LET times == Append(main.not_expiring, MedianTime[n])
        gone == Max({k \in 0 .. Len(times) - 1 : \A i \in 1 .. k : times[i] <= MedianTime[n] - SigValidity})
    IN  main.last_expiring + 1 .. main.last_expiring + gone

\* Blocks leave the queue blocks_not_expiring from its front.
ExpiringBlocks(n) ==
    LET times == Append(main.not_expiring, MedianTime[n])
        gone == Max({k \in 0 .. Len(times) : \A i \in 1 .. k : times[i] < MedianTime[n] - SigValidity})
    IN  main.last_expiring + 1 .. main.last_expiring + gone

NewIndex(n) == [i \in {Newcomers[n][k] : k \in DOMAIN Newcomers[n]} |->
                   main.nodes + (CHOOSE k \in DOMAIN Newcomers[n] : Newcomers[n][k] = i) - 1]

\* apply_valid_block, with the certifications of the expiring blocks: the graph
\* is changed here, the queries go to the workers, block after block.
Link(index, c) == <<index[c[1]], index[c[2]]>>

WotQueries(index, n, expired) ==
    [k \in DOMAIN Newcomers[n] |-> [type |-> "CreateIdentity", who |-> Newcomers[n][k], ms |-> <<n, index[Newcomers[n][k]]>>]]
    \o SetToSeq({[type |-> "CreateCert", cert |-> <<c[3], Link(index, c)>>] : c \in Certs[n]})
    \o SetToSeq({[type |-> "ExpireCerts", created |-> c[1]] : c \in expired})

MainAppliesBlock ==
    /\ MainTakes("apply", {"BlockDocument"})
    /\ LET n == Head(to_main).number
           index == [i \in DOMAIN main.wot_index \cup DOMAIN NewIndex(n) |->
                        IF i \in DOMAIN NewIndex(n) THEN NewIndex(n)[i] ELSE main.wot_index[i]]
           expired == {c \in main.certs_db : c[1] \in ExpiringBlocks(n)}
           links == {Link(index, c) : c \in Certs[n]}
       IN  IF Verified(n) /\ HasParams(n) /\ links \cap main.links = {}
           THEN /\ main' = [main EXCEPT
                      !.pc = IF n >= main.target THEN "end" ELSE "apply",
                      !.current = n, !.params = TRUE,
                      !.not_expiring = SubSeq(Append(@, MedianTime[n]), Cardinality(ExpiringBlocks(n)) + 1, Len(@) + 1),
                      !.last_expiring = @ + Cardinality(ExpiringBlocks(n)),
                      !.certs_db = @ \cup {<<c[3], Link(index, c)>> : c \in Certs[n]},
                      !.wot_index = index,
                      !.nodes = @ + Len(Newcomers[n]),
                      !.links = (@ \cup links) \ {c[2] : c \in expired}]
                /\ to_main' = Tail(to_main)
                /\ to_job' = [blocks |-> Append(to_job["blocks"], [type |-> "WriteBlock", number |-> n]),
                              wot |-> to_job["wot"] \o WotQueries(index, n, expired),
                              txs |-> Append(to_job["txs"], [type |-> "WriteTx", number |-> n])]
                /\ UNCHANGED <<disk, job, reader, dbs, todo>>
           ELSE FatalError

\* Any other message ends the loop, whether the target was reached or not.
MainLeavesLoop ==
    /\ MainTakes("apply", {"Target", "DownloadFinish", "ApplyFinish"})
    /\ main' = [main EXCEPT !.pc = "end"]
    /\ to_main' = Tail(to_main)
    /\ UNCHANGED <<disk, job, reader, dbs, to_job, todo>>

MainSendsEnd ==
    /\ main.pc = "end"
    /\ main' = [main EXCEPT !.pc = "save params"]
    /\ to_job' = [w \in Worker |-> Append(to_job[w], [type |-> "End"])]
    /\ UNCHANGED <<disk, job, reader, dbs, to_main, todo>>

MainSavesParams ==
    /\ main.pc = "save params"
    /\ main' = [main EXCEPT !.pc = "save graph"]
    /\ disk' = [disk EXCEPT !.params = @ \/ main.params]
    /\ UNCHANGED <<job, reader, dbs, to_main, to_job, todo>>

\* Mutant of WaitJobs: as the comment has it, "Wait recv two finish signals".
WaitTwoJobs == 2

\* Mutant of WaitJobs: one message of every job, the reader's too.
WaitAllJobs == 4

\* NB_SYNC_JOBS - 1, however many threads the pool has.
WaitJobs == 3

MainSavesGraph ==
    /\ main.pc = "save graph"
    /\ main' = [main EXCEPT !.pc = "wait", !.wait_jobs = WaitJobs]
    /\ disk' = [disk EXCEPT !.nodes = main.nodes, !.links = main.links]
    /\ UNCHANGED <<job, reader, dbs, to_main, to_job, todo>>

MainWaits ==
    /\ MainTakes("wait", {"BlockDocument", "DownloadFinish", "ApplyFinish"})
    /\ IF Head(to_main).type # "ApplyFinish"
       THEN main' = main
       ELSE main' = [main EXCEPT !.wait_jobs = @ - 1]
    /\ to_main' = Tail(to_main)
    /\ UNCHANGED <<disk, job, reader, dbs, to_job, todo>>

MainFinishes ==
    /\ main.pc = "wait" /\ main.wait_jobs = 0
    /\ Exit("finished") /\ UNCHANGED <<disk, todo>>

-----------------------------------------------------------------------------
(* The workers *)

WorkerTakes(w, type) ==
    /\ job[w] = "running"
    /\ to_job[w] # <<>> /\ Head(to_job[w]).type = type
    /\ to_job' = [to_job EXCEPT ![w] = Tail(@)]

\* Only the blocks near the target enter the fork tree, whose main branch has
\* FORK_WINDOW_SIZE blocks at most (the first to come is the root).
InWindow(n) == n + FORK_WINDOW_SIZE >= main.target
Pruned(forks) == IF Cardinality(forks) > FORK_WINDOW_SIZE THEN forks \ {Min(forks)} ELSE forks

WriteBlock ==
    /\ WorkerTakes("blocks", "WriteBlock")
    /\ LET n == Head(to_job["blocks"]).number
           near == IF InWindow(n) THEN {n} ELSE {}
           tree == dbs.fork_tree \cup near
       IN  dbs' = [dbs EXCEPT !.blocks = @ \cup {n}, !.fork_tree = Pruned(tree),
                              !.fork_blocks = (@ \cup near) \ (tree \ Pruned(tree))]
    /\ UNCHANGED <<disk, job, reader, main, to_main, todo>>

WriteWot ==
    /\ \/ /\ WorkerTakes("wot", "CreateIdentity")
          /\ LET q == Head(to_job["wot"])
             IN  dbs' = [dbs EXCEPT !.ms = @ \cup {q.ms},
                     !.identities = [i \in DOMAIN @ \cup {q.who} |-> IF i = q.who THEN q.ms[2] ELSE @[i]]]
       \/ /\ WorkerTakes("wot", "CreateCert")
          /\ dbs' = [dbs EXCEPT !.certs = @ \cup {Head(to_job["wot"]).cert}]
       \/ /\ WorkerTakes("wot", "ExpireCerts")
          /\ dbs' = [dbs EXCEPT !.certs = {c \in @ : c[1] # Head(to_job["wot"]).created}]
    /\ UNCHANGED <<disk, job, reader, main, to_main, todo>>

\* The transaction of a block and its dividend are sources, and each adds to the
\* balances.
WriteTx ==
    /\ WorkerTakes("txs", "WriteTx")
    /\ LET n == Head(to_job["txs"]).number
       IN  dbs' = [dbs EXCEPT !.tx = @ \cup {n}, !.utxos = @ \cup {n}, !.du = @ \cup {n},
                              !.balances[n] = @ + 1]
    /\ UNCHANGED <<disk, job, reader, main, to_main, todo>>

\* A worker that saves is at one of its files.
WorkerEnds(w) ==
    /\ WorkerTakes(w, "End")
    /\ job' = [job EXCEPT ![w] = Head(SaveOrder[w])]
    /\ UNCHANGED <<disk, reader, main, dbs, to_main, todo>>

WorkerSaves(w) ==
    /\ \E i \in DOMAIN SaveOrder[w] :
          /\ job[w] = SaveOrder[w][i]
          /\ disk' = [disk EXCEPT ![job[w]] = dbs[job[w]]]
          /\ job' = [job EXCEPT ![w] = IF i = Len(SaveOrder[w]) THEN "saved" ELSE SaveOrder[w][i + 1]]
    /\ UNCHANGED <<reader, main, dbs, to_main, to_job, todo>>

WorkerFinishes(w) ==
    /\ job[w] = "saved"
    /\ job' = [job EXCEPT ![w] = "done"]
    /\ Sends([type |-> "ApplyFinish"])
    /\ UNCHANGED <<disk, reader, main, dbs, to_job, todo>>

-----------------------------------------------------------------------------
Init ==
    /\ disk = Empty /\ dbs = Empty
    /\ job = [j \in Range(PoolOrder) |-> "none"]
    /\ reader = [pc |-> "target", chunk |-> 0, blocks |-> <<>>]
    /\ todo \in Scenarios
    /\ main = [pc |-> "off", command |-> Head(todo.commands), fresh |-> FALSE, target |-> 0, current |-> 0,
               params |-> FALSE, not_expiring |-> <<>>, last_expiring |-> -1, certs_db |-> {},
               wot_index |-> <<>>, nodes |-> 0, links |-> {}, wait_jobs |-> 0]
    /\ to_main = <<>> /\ to_job = [w \in Worker |-> <<>>]

ReaderNext == ReaderFindsTarget \/ treat_json_chunks \/ ReaderSendsBlock \/ ReaderFinishes
MainNext == MainTakesTarget \/ MainAppliesBlock \/ MainLeavesLoop \/ MainSendsEnd \/ MainSavesParams
            \/ MainSavesGraph \/ MainWaits \/ MainFinishes
WorkerNext(w) ==
    \/ w = "blocks" /\ WriteBlock
    \/ w = "wot" /\ WriteWot
    \/ w = "txs" /\ WriteTx
    \/ WorkerEnds(w) \/ WorkerSaves(w) \/ WorkerFinishes(w)

Next ==
    \/ local_sync \/ Kill
    \/ \E i \in DOMAIN PoolOrder : JobStarts(i)
    \/ ReaderNext \/ MainNext
    \/ \E w \in Worker : WorkerNext(w)

\* The system runs every thread; nobody has to kill the process, nor to run
\* the command again.
Fairness ==
    /\ \A i \in DOMAIN PoolOrder : WF_vars(JobStarts(i))
    /\ WF_vars(ReaderNext) /\ WF_vars(MainNext)
    /\ \A w \in Worker : WF_vars(WorkerNext(w))

Spec == Init /\ [][Next]_vars
LiveSpec == Spec /\ Fairness

-----------------------------------------------------------------------------
(* Properties *)

\* What the source says of the databases once the blocks up to n are applied.
Expired(b, n) == MedianTime[b] < MedianTime[n] - SigValidity
NamesTo(n) == FlattenSeq([k \in 1 .. n + 1 |-> Newcomers[k - 1]])
IndexTo(n) == [i \in {NamesTo(n)[k] : k \in DOMAIN NamesTo(n)} |->
                  (CHOOSE k \in DOMAIN NamesTo(n) : NamesTo(n)[k] = i) - 1]
CertsTo(n) == {<<c[3], Link(IndexTo(n), c)>> : c \in {d \in UNION {Certs[b] : b \in 0 .. n} : ~Expired(d[3], n)}}

Whole(n) ==
    LET window == {b \in 0 .. n : b > n - FORK_WINDOW_SIZE}
    IN  [blocks |-> 0 .. n, fork_tree |-> window, fork_blocks |-> window,
         identities |-> IndexTo(n), certs |-> CertsTo(n),
         ms |-> UNION {{<<b, IndexTo(n)[i]>> : i \in Range(Newcomers[b])} : b \in 0 .. n},
         nodes |-> Len(NamesTo(n)), links |-> {c[2] : c \in CertsTo(n)},
         tx |-> 0 .. n, utxos |-> 0 .. n, du |-> 0 .. n,
         balances |-> [b \in Number |-> IF b <= n THEN 1 ELSE 0], params |-> TRUE]

\* Each file holds its blocks, the last one perhaps not all of them.
SoundFiles == files = [c \in 0 .. Count - 1 |->
    [k \in 1 .. Min({CHUNK_SIZE, Top + 1 - c * CHUNK_SIZE}) |-> c * CHUNK_SIZE + k - 1]]

TypeOK ==
    /\ disk.blocks \subseteq Number /\ dbs.blocks \subseteq Number
    /\ disk.fork_tree \cup disk.fork_blocks \subseteq Number
    /\ dbs.fork_tree \cup dbs.fork_blocks \subseteq Number
    /\ Cardinality(dbs.fork_tree) <= FORK_WINDOW_SIZE
    /\ job \in [Range(PoolOrder) -> {"none", "queued", "running", "saved", "done"} \cup DOMAIN Empty]
    /\ main.pc \in Ended \cup {"target", "apply", "end", "save params", "save graph", "wait"}
    /\ main.wait_jobs \in 0 .. Len(PoolOrder) /\ main.current \in Number
    /\ main.last_expiring \in -1 .. Top
    /\ \A i \in DOMAIN to_main : to_main[i].type \in {"Target", "BlockDocument", "DownloadFinish", "ApplyFinish"}
    /\ \A w \in Worker : Len(to_job[w]) <= 3 * (Top + 2)

\* A command on sound files that began with empty databases and says that
\* all jobs have finished leaves all of them as the source has it, whatever the order in
\* which the threads ran and however few of them ran at the same time.
FinishedIsWhole == main.pc = "finished" /\ main.fresh /\ SoundFiles => disk = Whole(MaxBlock)

\* Wherever such a command is stopped, each of its databases is as it was or
\* as the whole source has it: no file holds a part of the chain.
SavedIsWhole ==
    main.pc \in Ended /\ main.fresh /\ SoundFiles =>
        \A d \in DOMAIN disk : disk[d] = Empty[d] \/ disk[d] = Whole(MaxBlock)[d]

\* All or nothing, database by database, and all when the command says so.
SyncIsWhole == TypeOK /\ FinishedIsWhole /\ SavedIsWhole

\* Certifications leave the graph at the block where they expire, and not
\* before: the queue of blocks and its counter agree with the dates.
ExpiredInTime == main.pc = "apply" /\ main.fresh /\ main.params =>
    /\ main.links = {c[2] : c \in CertsTo(main.current)}
    /\ main.last_expiring = Cardinality({b \in 0 .. main.current : Expired(b, main.current)}) - 1

\* Every command ends, whatever the number of threads.
EverySyncEnds == main.pc = "target" ~> main.pc \in Ended

-----------------------------------------------------------------------------
(* What comments, documentation or names of the code say and the code does *)
(* not do: the README names the configuration that shows each.             *)

\* "Your durs node is already synchronized."
AlreadyIsWhole == main.pc = "already" => disk = Whole(CurrentId)

\* "unsafe mode (not check blocks inner hashs, very dangerous)": without that
\* option no block is saved whose hash is wrong.
HashesAreChecked == main.pc = "finished" /\ ~main.command.unsafe => disk.blocks \cap Wrong = {}

\* The reader starts after the local current block: a command on the databases
\* an earlier one left goes on from there.
SyncResumes == main.pc = "failed" /\ ~main.fresh => ~SoundFiles

\* A source is read whose last file does not hold CHUNK_SIZE blocks yet.
ShortFileIsRead == main.pc = "failed" /\ main.fresh => ~SoundFiles \/ main.command.unsafe

\* A command run again after one that was killed leaves what it would have left
\* without it.
RerunIsWhole == main.pc = "finished" /\ SoundFiles => disk = Whole(MaxBlock)

\* "All sync jobs finish": the command ends so only when the block it went for
\* is the current block.
FinishedAtTarget == main.pc = "finished" => MaxBlock \in disk.blocks
=============================================================================
