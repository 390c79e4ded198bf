---------------------------- MODULE MCLocalSync ----------------------------
(* A chain of five blocks in files of two.  Two identities come with the    *)
(* first block, one with the third; certifications of the first blocks     *)
(* expire at the last ones.                                                *)
EXTENDS LocalSync

Time == <<0, 1, 1, 4, 5>>
MCMedianTime == [n \in 0 .. 4 |-> Time[n + 1]]
MCNewcomers == [n \in 0 .. 4 |-> IF n = 0 THEN <<"alice", "bob">> ELSE IF n = 2 THEN <<"carol">> ELSE <<>>]
MCCerts == [n \in 0 .. 4 |->
    CASE n = 0 -> {<<"alice", "bob", 0>>, <<"bob", "alice", 0>>}
      [] n = 2 -> {<<"alice", "carol", 1>>, <<"bob", "carol", 2>>}
      [] OTHER -> {}]

Chunks(last) == [c \in 0 .. last |-> IF c = 2 THEN <<4>> ELSE <<2 * c, 2 * c + 1>>]
Sync(chunks, end, unsafe, nb) == [files |-> chunks, end |-> end, unsafe |-> unsafe, workers |-> nb]
Once(command) == [commands |-> <<command>>, kills |-> 0]

\* Whole files on four processors, with --end on one or two; a source whose
\* last file is short, or lacks a file or a block; a command killed and run again,
\* which is then told of more blocks.
MCScenarios == {
    Once(Sync(Chunks(1), NoEnd, TRUE, 4)),
    Once(Sync(Chunks(2), 4, FALSE, 1)), Once(Sync(Chunks(2), 4, FALSE, 2)),
    Once(Sync(Chunks(2), NoEnd, FALSE, 4)),
    Once(Sync(1 :> <<2, 3>> @@ 2 :> <<4>>, 4, FALSE, 4)),
    Once(Sync(0 :> <<0, 1>> @@ 1 :> <<3>>, 2, FALSE, 4)),
    [commands |-> <<Sync(Chunks(1), NoEnd, FALSE, 3), Sync(Chunks(1), NoEnd, FALSE, 2), Sync(Chunks(2), 4, FALSE, 1)>>,
     kills |-> 1]}

MCWrong == {3}
=============================================================================
