---------------------------- MODULE MCBlockchain ----------------------------
(***************************************************************************)
(* Instances of Blockchain for TLC.  A block is named after its branch and *)
(* its height: a0 a1 a2 ... is one branch, c2 c3 ... leaves it after a1.   *)
(* Each run takes the blocks it needs (Block) and the messages that bring  *)
(* them (Batches).                                                         *)
(***************************************************************************)
EXTENDS Blockchain

At(number, previous) == [number |-> number, previous |-> previous]

Universe == [a0 |-> At(0, NoBlock), a1 |-> At(1, "a0"), a2 |-> At(2, "a1"),
             a3 |-> At(3, "a2"), a4 |-> At(4, "a3"),
             b1 |-> At(1, "a0"), b2 |-> At(2, "b1"), b3 |-> At(3, "b2"),
             c2 |-> At(2, "a1"), c3 |-> At(3, "c2"), d3 |-> At(3, "c2"),
             x2 |-> At(2, "a1"), f2 |-> At(2, "a1")]

MCNumber == [b \in Block |-> Universe[b].number]
MCPrevious == [b \in Block |-> Universe[b].previous]
\* A block is five minutes younger than the one before.
MCMedianTime == [b \in Block |-> 300 * Universe[b].number]

\* One block per message (ReceiveDocuments, FindNextBlock), and the answers to
\* a request for a chunk of blocks of one branch.
Singles == {<<b>> : b \in Block}
Chunk(b, c) == {<<b, c>>}
ForkBatches == Singles \cup Chunk("a1", "a2") \cup Chunk("c2", "c3")
FaultBatches == Singles \cup Chunk("a1", "a2") \cup Chunk("b2", "b3")
SplitBatches == {<<"a0">>, <<"a0", "a1">>, <<"b1", "b2">>,
                 <<"a0", "a1", "a2">>, <<"b1", "b2", "b3">>}
=============================================================================
