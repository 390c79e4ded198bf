--------------------------- MODULE CurrencyProofs ---------------------------
(***************************************************************************)
(* What is proved of Currency, for all keys, dividends, transfers and      *)
(* bounds: whatever blocks are applied and undone, the sources in the      *)
(* databases are those that the chain created and nobody spent, and the    *)
(* index of each address has those of utxos_db (SourcesAgree).             *)
(*                                                                         *)
(* Amounts play no part: whether a transaction can be undone depends on    *)
(* them, what it leaves of the sources does not.                           *)
(***************************************************************************)
EXTENDS Currency, SequenceLemmas

-----------------------------------------------------------------------------
(* The invariant. *)

\* What the blocks up to the n-th have created, spent and lost.
CreatedTo(n) == UNION {CreatedAt(i) : i \in 1 .. n}
SpentTo(n) == UNION {SpentAt(i) : i \in 1 .. n}
LostTo(n) == UNION {chain[i].garbage : i \in 1 .. n}

\* The sources that are to be spent, once for all; those of transactions.
HeldTo(n) == CreatedTo(n) \ SpentTo(n)
Outputs(sources) == {s \in sources : ~IsUD(s)}

\* Transactions are numbered in their order, their outputs go to keys.
DocumentOK(doc) ==
    /\ doc.outputs \in Seq(Range(doc.outputs))
    /\ \A i \in DOMAIN doc.outputs : doc.outputs[i].owner \in PubKey

TxsOK ==
    /\ IsFiniteSet(DOMAIN txs) /\ DOMAIN txs = 1 .. Cardinality(DOMAIN txs)
    /\ \A id \in DOMAIN txs : DocumentOK(txs[id].doc)

\* A block has one transaction at most, which spends what the blocks before it
\* left to be spent, and which is in no block before it.  What it destroyed with its
\* inputs, and what the protocol takes at this block, was there as well.
TxOfBlock(n, id) ==
    /\ id \in DOMAIN txs /\ \A i \in 1 .. n - 1 : id \notin chain[i].txs
    /\ InputsOf(txs[id].doc) # {} /\ InputsOf(txs[id].doc) \subseteq HeldTo(n - 1) \ LostTo(n)
    /\ txs[id].sources_destroyed \subseteq Outputs(HeldTo(n - 1))

BlockFollows(n) ==
    /\ chain[n].txs = {} \/ \E id : chain[n].txs = {id}
    /\ \A id \in chain[n].txs : TxOfBlock(n, id)
    /\ chain[n].garbage \subseteq HeldTo(n - 1)

ChainOK == chain \in Seq(Range(chain)) /\ \A n \in DOMAIN chain : BlockFollows(n)

\* The databases have what is to be spent, each address what is its own.
IsBalances(b) == b = [p \in PubKey |-> [balance |-> b[p].balance, sources |-> b[p].sources]]
IsMoney(m) == m = [balances |-> m.balances, utxos |-> m.utxos, dus |-> m.dus] /\ IsBalances(m.balances)
DividendsKept(m, held) == m.dus = {d \in Member \X Nat : UDSource(d[1], d[2]) \in held}
Indexed(m) ==
    \A p \in PubKey : m.balances[p].sources = {s \in DOMAIN m.utxos : m.utxos[s].owner = p}
Kept(m, held) ==
    IsMoney(m) /\ DOMAIN m.utxos = Outputs(held) /\ DividendsKept(m, held) /\ Indexed(m)
AsWritten(m) == \A s \in DOMAIN m.utxos : m.utxos[s] = Output(s)

IInv == TxsOK /\ ChainOK /\ Kept(money, HeldTo(Len(chain))) /\ AsWritten(money)
-----------------------------------------------------------------------------
(* Sources, and what a part of the chain makes of them. *)

\* Dividends and outputs are told apart, and one from another.
LEMMA SourcesDiffer ==
    /\ \A p, h : IsUD(UDSource(p, h)) /\ UDSource(p, h)[2] = p /\ UDSource(p, h)[3] = h
    /\ \A id, i : ~IsUD(UTXOSource(id, i)) /\ UTXOSource(id, i)[2] = id /\ UTXOSource(id, i)[3] = i
BY DEF IsUD, UDSource, UTXOSource

\* One block more.
LEMMA OneBlockMore ==
    ASSUME NEW n \in Nat
    PROVE  /\ CreatedTo(0) = {} /\ SpentTo(0) = {} /\ LostTo(0) = {}
           /\ CreatedTo(n + 1) = CreatedTo(n) \cup CreatedAt(n + 1)
           /\ SpentTo(n + 1) = SpentTo(n) \cup SpentAt(n + 1)
           /\ LostTo(n + 1) = LostTo(n) \cup chain[n + 1].garbage
<1>1. 1 .. n + 1 = (1 .. n) \cup {n + 1} /\ 1 .. 0 = {}
  OBVIOUS
<1> QED BY <1>1 DEF CreatedTo, SpentTo, LostTo

\* Fewer blocks.
LEMMA FewerBlocks ==
    ASSUME NEW n \in Nat, NEW k \in Nat, k <= n
    PROVE  CreatedTo(k) \subseteq CreatedTo(n) /\ SpentTo(k) \subseteq SpentTo(n) /\ LostTo(k) \subseteq LostTo(n)
<1>1. 1 .. k \subseteq 1 .. n
  OBVIOUS
<1> QED BY <1>1 DEF CreatedTo, SpentTo, LostTo

\* What is created by the blocks up to the n-th.
LEMMA CreatedBy ==
    ASSUME NEW n \in Nat, NEW s \in CreatedTo(n)
    PROVE  \/ \E p \in Member, i \in 1 .. n : s = UDSource(p, i - 1)
           \/ \E i \in 1 .. n : \E id \in chain[i].txs : \E j \in DOMAIN txs[id].doc.outputs : s = UTXOSource(id, j)
<1>1. PICK i \in 1 .. n : s \in CreatedAt(i)
  BY DEF CreatedTo
<1>2. CASE s \in Dividends(chain[i].dividend, i - 1)
  BY <1>2 DEF Dividends
<1>3. CASE \E id \in chain[i].txs : s \in OutputsOf(id)
  BY <1>3 DEF OutputsOf
<1> QED BY <1>1, <1>2, <1>3 DEF CreatedAt

\* The first n blocks stay, with their transactions.
SameTo(n) == \A i \in 1 .. n : chain'[i] = chain[i] /\ \A id \in chain[i].txs : txs'[id] = txs[id]

LEMMA SameBlocks ==
    ASSUME NEW n \in Nat, SameTo(n)
    PROVE  /\ CreatedTo(n)' = CreatedTo(n) /\ SpentTo(n)' = SpentTo(n) /\ LostTo(n)' = LostTo(n)
           /\ HeldTo(n)' = HeldTo(n)
<1>1. ASSUME NEW i \in 1 .. n
      PROVE  CreatedAt(i)' = CreatedAt(i) /\ SpentAt(i)' = SpentAt(i) /\ chain'[i].garbage = chain[i].garbage
  <2>1. chain'[i] = chain[i] /\ \A id \in chain[i].txs : txs'[id] = txs[id]
    BY DEF SameTo
  <2>2. \A id \in chain[i].txs : OutputsOf(id)' = OutputsOf(id) /\ InputsOf(txs[id].doc)' = InputsOf(txs[id].doc)
    BY <2>1 DEF OutputsOf, InputsOf
  <2>3. CreatedAt(i)' = CreatedAt(i)
    BY <2>1, <2>2 DEF CreatedAt
  <2>4. SpentAt(i)' = SpentAt(i)
    BY <2>1, <2>2 DEF SpentAt, InputsOf
  <2> QED BY <2>1, <2>3, <2>4
<1>2. CreatedTo(n)' = CreatedTo(n) /\ SpentTo(n)' = SpentTo(n) /\ LostTo(n)' = LostTo(n)
  BY <1>1 DEF CreatedTo, SpentTo, LostTo
<1> QED BY <1>2 DEF HeldTo

\* They still follow one another.
LEMMA SameFollow ==
    ASSUME NEW n \in Nat, SameTo(n), DOMAIN txs \subseteq DOMAIN txs',
           NEW k \in 1 .. n, BlockFollows(k)
    PROVE  BlockFollows(k)'
<1>1. k \in Nat /\ k - 1 \in Nat /\ k <= n /\ k - 1 <= n
  OBVIOUS
<1>2. SameTo(k) /\ SameTo(k - 1)
  BY <1>1 DEF SameTo
<1>3. HeldTo(k - 1)' = HeldTo(k - 1) /\ LostTo(k)' = LostTo(k)
  BY <1>1, <1>2, SameBlocks
<1>4. chain'[k] = chain[k] /\ \A id \in chain[k].txs : txs'[id] = txs[id]
  BY DEF SameTo
<1>5. ASSUME NEW id \in chain[k].txs PROVE TxOfBlock(k, id)'
  <2>1. TxOfBlock(k, id)
    BY DEF BlockFollows
  <2>2. \A i \in 1 .. k - 1 : chain'[i] = chain[i]
    BY <1>2 DEF SameTo
  <2> QED BY <1>3, <1>4, <2>1, <2>2 DEF TxOfBlock, InputsOf, Outputs
<1> QED BY <1>3, <1>4, <1>5 DEF BlockFollows

\* What was lost was created, and is not spent.
LEMMA LostIsHeld ==
    ASSUME ChainOK, NEW n \in DOMAIN chain
    PROVE  chain[n].garbage \subseteq HeldTo(Len(chain))
<1> DEFINE N == Len(chain)
<1>1. N \in Nat /\ n \in 1 .. N /\ DOMAIN chain = 1 .. N
  BY DEF ChainOK
<1> SUFFICES ASSUME NEW s \in chain[n].garbage PROVE s \in CreatedTo(N) /\ s \notin SpentTo(N)
  BY DEF HeldTo
<1>2. s \in CreatedTo(n - 1) /\ s \notin SpentTo(n - 1)
  BY DEF ChainOK, BlockFollows, HeldTo
<1>3. s \in CreatedTo(N)
  BY <1>1, <1>2, FewerBlocks
<1>4. ASSUME NEW m \in 1 .. N, s \in SpentAt(m) PROVE FALSE
  <2>1. PICK id \in chain[m].txs : s \in InputsOf(txs[id].doc)
    BY <1>4 DEF SpentAt
  <2>2. CASE m <= n - 1
    BY <1>1, <1>2, <1>4, <2>2 DEF SpentTo
  <2>3. CASE m >= n
    <3>1. s \in LostTo(m)
      BY <1>1, <2>3 DEF LostTo
    <3>2. TxOfBlock(m, id)
      BY <1>1, <2>1 DEF ChainOK, BlockFollows
    <3> QED BY <2>1, <3>1, <3>2 DEF TxOfBlock
  <2> QED BY <1>1, <2>2, <2>3
<1> QED BY <1>3, <1>4 DEF SpentTo

\* The sources that are not spent, and those that were lost.
LEMMA UnspentOrLost == ASSUME ChainOK PROVE Unspent \cup Lost = HeldTo(Len(chain))
<1>1. DOMAIN chain = 1 .. Len(chain)
  BY DEF ChainOK
<1>2. Created = CreatedTo(Len(chain)) /\ Spent = SpentTo(Len(chain))
  BY <1>1 DEF Created, Spent, CreatedTo, SpentTo
<1>3. Lost \subseteq HeldTo(Len(chain))
  BY LostIsHeld DEF Lost
<1> QED BY <1>2, <1>3 DEF Unspent, HeldTo

-----------------------------------------------------------------------------
(* A block comes or goes. *)

\* A sequence, whatever its elements are.
LEMMA AnySequence == ASSUME NEW S, NEW s \in Seq(S) PROVE s \in Seq(Range(s)) /\ DOMAIN s = 1 .. Len(s)
<1>1. Len(s) \in Nat /\ s \in [1 .. Len(s) -> Range(s)]
  BY DEF Range
<1> QED BY <1>1, SequenceOf

\* The sources to be spent are dividends or outputs.
LEMMA HeldAreSources ==
    ASSUME NEW n \in Nat
    PROVE  /\ \A s \in CreatedTo(n) : IsUD(s) => s = UDSource(s[2], s[3]) /\ <<s[2], s[3]>> \in Member \X Nat
           /\ \A s \in CreatedTo(n) : ~IsUD(s) =>
                 /\ \E i \in 1 .. n : s[2] \in chain[i].txs
                 /\ s = UTXOSource(s[2], s[3]) /\ s[3] \in DOMAIN txs[s[2]].doc.outputs
           /\ \A p : \A h \in Nat : h >= n => UDSource(p, h) \notin CreatedTo(n)
<1>1. ASSUME NEW s \in CreatedTo(n), IsUD(s)
      PROVE  s = UDSource(s[2], s[3]) /\ <<s[2], s[3]>> \in Member \X Nat
  <2>1. PICK p \in Member, i \in 1 .. n : s = UDSource(p, i - 1)
    BY <1>1, CreatedBy, SourcesDiffer
  <2>2. i - 1 \in Nat
    OBVIOUS
  <2> QED BY <2>1, <2>2, SourcesDiffer
<1>2. ASSUME NEW p, NEW h \in Nat, h >= n, UDSource(p, h) \in CreatedTo(n) PROVE FALSE
  <2>1. PICK q \in Member, i \in 1 .. n : UDSource(p, h) = UDSource(q, i - 1)
    BY <1>2, CreatedBy, SourcesDiffer
  <2>2. h = i - 1
    BY <2>1, SourcesDiffer
  <2> QED BY <1>2, <2>2
<1>3. ASSUME NEW s \in CreatedTo(n), ~IsUD(s)
      PROVE  /\ \E i \in 1 .. n : s[2] \in chain[i].txs
             /\ s = UTXOSource(s[2], s[3]) /\ s[3] \in DOMAIN txs[s[2]].doc.outputs
  <2>1. PICK i \in 1 .. n : \E id \in chain[i].txs : \E j \in DOMAIN txs[id].doc.outputs : s = UTXOSource(id, j)
    BY <1>3, CreatedBy, SourcesDiffer
  <2>2. PICK id \in chain[i].txs : \E j \in DOMAIN txs[id].doc.outputs : s = UTXOSource(id, j)
    BY <2>1
  <2>3. PICK j \in DOMAIN txs[id].doc.outputs : s = UTXOSource(id, j)
    BY <2>2
  <2>4. s[2] = id /\ s[3] = j
    BY <2>3, SourcesDiffer
  <2> QED BY <2>3, <2>4
<1> QED BY <1>1, <1>2, <1>3

\* What was spent had been created.
LEMMA SpentWasCreated ==
    ASSUME ChainOK, NEW n \in Nat, n <= Len(chain)
    PROVE  SpentTo(n) \subseteq CreatedTo(n)
<1> SUFFICES ASSUME NEW i \in 1 .. n, NEW s \in SpentAt(i) PROVE s \in CreatedTo(n)
  BY DEF SpentTo
<1>1. i \in DOMAIN chain /\ i - 1 \in Nat /\ i - 1 <= n
  BY DEF ChainOK
<1>2. PICK id \in chain[i].txs : s \in InputsOf(txs[id].doc)
  BY DEF SpentAt
<1>3. s \in HeldTo(i - 1)
  BY <1>1, <1>2 DEF ChainOK, BlockFollows, TxOfBlock
<1> QED BY <1>1, <1>3, FewerBlocks DEF HeldTo

\* What the last block creates is new; what is to be spent after it.
LEMMA HeldAfter ==
    ASSUME ChainOK, NEW n \in Nat, n + 1 = Len(chain)
    PROVE  /\ CreatedAt(n + 1) \cap CreatedTo(n) = {} /\ SpentAt(n + 1) \subseteq HeldTo(n)
           /\ HeldTo(n + 1) = (HeldTo(n) \ SpentAt(n + 1)) \cup CreatedAt(n + 1)
<1>1. n + 1 \in DOMAIN chain /\ (n + 1) - 1 = n /\ n <= Len(chain)
  BY DEF ChainOK
<1>2. BlockFollows(n + 1)
  BY <1>1 DEF ChainOK
<1>3. \A id \in chain[n + 1].txs : InputsOf(txs[id].doc) \subseteq HeldTo(n) /\ \A i \in 1 .. n : id \notin chain[i].txs
  BY <1>1, <1>2 DEF BlockFollows, TxOfBlock
<1>4. SpentAt(n + 1) \subseteq HeldTo(n)
  BY <1>3 DEF SpentAt
<1>5. ASSUME NEW s \in CreatedAt(n + 1), s \in CreatedTo(n) PROVE FALSE
  <2>1. CASE s \in Dividends(chain[n + 1].dividend, n)
    <3>1. \E p : s = UDSource(p, n)
      BY <2>1 DEF Dividends
    <3> QED BY <1>5, <3>1, HeldAreSources
  <2>2. CASE \E id \in chain[n + 1].txs : s \in OutputsOf(id)
    <3>1. PICK id \in chain[n + 1].txs : s \in OutputsOf(id)
      BY <2>2
    <3>2. ~IsUD(s) /\ s[2] = id
      BY <3>1, SourcesDiffer DEF OutputsOf
    <3> QED BY <1>3, <1>5, <3>2, HeldAreSources
  <2> QED BY <1>1, <2>1, <2>2 DEF CreatedAt
<1>6. SpentTo(n) \subseteq CreatedTo(n)
  BY <1>1, SpentWasCreated
<1>7. CreatedTo(n + 1) = CreatedTo(n) \cup CreatedAt(n + 1) /\ SpentTo(n + 1) = SpentTo(n) \cup SpentAt(n + 1)
  BY OneBlockMore
<1> QED BY <1>4, <1>5, <1>6, <1>7 DEF HeldTo

\* The same of the next state.
LEMMA HeldAfterNext ==
    (ChainOK => \A n \in Nat : n + 1 = Len(chain) =>
                  HeldTo(n + 1) = (HeldTo(n) \ SpentAt(n + 1)) \cup CreatedAt(n + 1))'
<1>1. ChainOK => \A n \in Nat : n + 1 = Len(chain) =>
                   HeldTo(n + 1) = (HeldTo(n) \ SpentAt(n + 1)) \cup CreatedAt(n + 1)
  BY HeldAfter
<1> QED BY <1>1, PTL

\* A block is put on top.
LEMMA OnTop ==
    ASSUME ChainOK, NEW n \in Nat, n = Len(chain), NEW b, chain' = Append(chain, b),
           \A i \in DOMAIN chain : \A id \in chain[i].txs : txs'[id] = txs[id]
    PROVE  /\ Len(chain') = n + 1 /\ SameTo(n)
           /\ chain'[n + 1] = b /\ chain' \in Seq(Range(chain'))
<1>1. chain \in Seq(Range(chain))
  BY DEF ChainOK
<1>2. chain' \in Seq(Range(chain) \cup {b}) /\ Len(chain') = n + 1
  <2>1. chain \in Seq(Range(chain) \cup {b})
    BY <1>1
  <2> QED BY <2>1
<1>3. chain'[n + 1] = b /\ \A i \in 1 .. n : chain'[i] = chain[i]
  BY <1>1
<1>4. SameTo(n)
  BY <1>1, <1>3 DEF SameTo
<1> QED BY <1>2, <1>3, <1>4, AnySequence

\* It follows the others, what is to be spent changes with it.
LEMMA BlockComes ==
    ASSUME ChainOK, NEW n \in Nat, n = Len(chain), NEW b, chain' = Append(chain, b),
           DOMAIN txs \subseteq DOMAIN txs',
           \A i \in DOMAIN chain : \A id \in chain[i].txs : txs'[id] = txs[id],
           BlockFollows(n + 1)'
    PROVE  /\ ChainOK'
           /\ HeldTo(Len(chain))' = (HeldTo(n) \ SpentAt(n + 1)') \cup CreatedAt(n + 1)'
<1>1. Len(chain') = n + 1 /\ SameTo(n) /\ chain' \in Seq(Range(chain'))
  BY OnTop
<1>2. \A k \in 1 .. n : BlockFollows(k)'
  <2> SUFFICES ASSUME NEW k \in 1 .. n PROVE BlockFollows(k)'
    OBVIOUS
  <2>1. BlockFollows(k)
    BY DEF ChainOK
  <2> QED BY <1>1, <2>1, SameFollow
<1>3. DOMAIN chain' = 1 .. n + 1
  BY <1>1
<1>4. ChainOK'
  <2>1. \A k \in DOMAIN chain' : BlockFollows(k)'
    <3> SUFFICES ASSUME NEW k \in 1 .. n + 1 PROVE BlockFollows(k)'
      BY <1>3
    <3>1. CASE k = n + 1
      BY <3>1
    <3>2. CASE k \in 1 .. n
      BY <1>2, <3>2
    <3> QED BY <3>1, <3>2
  <2> QED BY <1>1, <2>1 DEF ChainOK
<1>5. HeldTo(n)' = HeldTo(n)
  BY <1>1, SameBlocks
<1>6. HeldTo(n + 1)' = (HeldTo(n)' \ SpentAt(n + 1)') \cup CreatedAt(n + 1)'
  BY <1>1, <1>4, HeldAfterNext
<1>7. HeldTo(Len(chain))' = HeldTo(n + 1)'
  BY <1>1
<1> QED BY <1>4, <1>5, <1>6, <1>7

\* The last block goes.
LEMMA BlockGoes ==
    ASSUME ChainOK, NEW n \in Nat, n + 1 = Len(chain), chain' = Front(chain), txs' = txs
    PROVE  ChainOK' /\ HeldTo(Len(chain))' = HeldTo(n)
<1>1. chain \in Seq(Range(chain))
  BY DEF ChainOK
<1>2. chain' \in Seq(Range(chain)) /\ Len(chain') = n /\ \A i \in 1 .. n : chain'[i] = chain[i]
  BY <1>1 DEF Front
<1>3. SameTo(n)
  BY <1>2 DEF SameTo
<1>4. \A k \in 1 .. n : BlockFollows(k)'
  <2> SUFFICES ASSUME NEW k \in 1 .. n PROVE BlockFollows(k)'
    OBVIOUS
  <2>1. k \in DOMAIN chain
    BY <1>1
  <2>2. BlockFollows(k)
    BY <2>1 DEF ChainOK
  <2>3. DOMAIN txs \subseteq DOMAIN txs'
    OBVIOUS
  <2> QED BY <1>3, <2>2, <2>3, SameFollow
<1>5. chain' \in Seq(Range(chain')) /\ DOMAIN chain' = 1 .. n
  BY <1>2, AnySequence
<1>6. HeldTo(n)' = HeldTo(n)
  BY <1>3, SameBlocks
<1>7. HeldTo(Len(chain))' = HeldTo(n)'
  BY <1>2
<1> QED BY <1>4, <1>5, <1>6, <1>7 DEF ChainOK

-----------------------------------------------------------------------------
(* The outputs of a transaction, one by one. *)

\* One output comes to its owner; all of them.
SupplyOne(b, output, source) ==
    [b EXCEPT ![output.owner] =
        [balance |-> Add(@.balance, output.amount), sources |-> @.sources \cup {source}]]

With(b, output, source, p) == IF p = output.owner THEN b[p].sources \cup {source} ELSE b[p].sources

LEMMA SupplyOneSources ==
    ASSUME NEW b, IsBalances(b), NEW output, NEW source, output.owner \in PubKey
    PROVE  LET done == SupplyOne(b, output, source)
           IN  IsBalances(done) /\ \A p \in PubKey : done[p].sources = With(b, output, source, p)
<1> DEFINE o == output.owner
           Cell == [balance |-> Add(b[o].balance, output.amount), sources |-> b[o].sources \cup {source}]
<1>1. DOMAIN b = PubKey /\ \A p \in PubKey : b[p] = [balance |-> b[p].balance, sources |-> b[p].sources]
  BY DEF IsBalances
<1>2. SupplyOne(b, output, source) = [b EXCEPT ![o] = Cell]
  BY DEF SupplyOne
<1>3. Cell = [balance |-> Cell.balance, sources |-> Cell.sources] /\ Cell.sources = b[o].sources \cup {source}
  OBVIOUS
<1> HIDE DEF Cell, o
<1> DEFINE done == [b EXCEPT ![o] = Cell]
<1>4. done = [p \in PubKey |-> IF p = o THEN Cell ELSE b[p]]
  BY <1>1 DEF IsBalances
<1> HIDE DEF done
<1>5. \A p \in PubKey : done[p] = [balance |-> done[p].balance, sources |-> done[p].sources]
  BY <1>1, <1>3, <1>4
<1>6. IsBalances(done)
  <2>1. done = [p \in PubKey |-> done[p]]
    BY <1>4
  <2> QED BY <1>5, <2>1 DEF IsBalances
<1>7. \A p \in PubKey : done[p].sources = With(b, output, source, p)
  BY <1>3, <1>4 DEF With, o
<1> QED BY <1>2, <1>6, <1>7 DEF done, o

LEMMA SupplySteps ==
    ASSUME NEW bals, NEW id, NEW outputs, outputs \in Seq(Range(outputs))
    PROVE  \E at : /\ at[0] = bals /\ at[Len(outputs)] = Supply(bals, id, outputs)
                   /\ \A k \in 1 .. Len(outputs) : at[k] = SupplyOne(at[k - 1], outputs[k], UTXOSource(id, k))
<1> DEFINE s == [i \in DOMAIN outputs |-> i]
           Step(f, S) == IF S = {} THEN bals ELSE SupplyOne(f[S \ {Max(S)}], outputs[s[Max(S)]], UTXOSource(id, s[Max(S)]))
           Folds(f, n) == f = [S \in SUBSET (1 .. n) |-> Step(f, S)]
           X == {n \in Nat : \E f : Folds(f, n)}
           iter == CHOOSE f : f = [S \in SUBSET DOMAIN s |-> Step(f, S)]
<1>1. 0 \in X
  <2> DEFINE f == [S \in SUBSET (1 .. 0) |-> bals]
  <2>1. \A S \in SUBSET (1 .. 0) : S = {}
    OBVIOUS
  <2>2. \A S \in SUBSET (1 .. 0) : Step(f, S) = bals
    BY <2>1
  <2>3. [S \in SUBSET (1 .. 0) |-> Step(f, S)] = f
    <3> HIDE DEF Step
    <3> QED BY <2>2
  <2> HIDE DEF f, Step
  <2> QED BY <2>3
<1>2. ASSUME NEW n \in Nat, n \in X PROVE n + 1 \in X
  <2>1. PICK f : Folds(f, n)
    BY <1>2
  <2> DEFINE g == [S \in SUBSET (1 .. n + 1) |-> Step(f, S)]
  <2>2. \A S \in SUBSET (1 .. n) : g[S] = f[S]
    <3> HIDE DEF Step
    <3>1. SUBSET (1 .. n) \subseteq SUBSET (1 .. n + 1)
      OBVIOUS
    <3> QED BY <2>1, <3>1
  <2>3. \A S \in SUBSET (1 .. n + 1) : Step(g, S) = Step(f, S)
    <3> HIDE DEF g
    <3> SUFFICES ASSUME NEW S \in SUBSET (1 .. n + 1), S # {} PROVE Step(g, S) = Step(f, S)
      OBVIOUS
    <3>1. S \ {Max(S)} \in SUBSET (1 .. n)
      BY LastPosition
    <3>2. g[S \ {Max(S)}] = f[S \ {Max(S)}]
      BY <2>2, <3>1
    <3> QED BY <3>2
  <2>4. g = [S \in SUBSET (1 .. n + 1) |-> Step(g, S)]
    <3>1. [S \in SUBSET (1 .. n + 1) |-> Step(f, S)] = [S \in SUBSET (1 .. n + 1) |-> Step(g, S)]
      <4> HIDE DEF Step, g
      <4> QED BY <2>3
    <3>2. g = [S \in SUBSET (1 .. n + 1) |-> Step(f, S)]
      OBVIOUS
    <3> HIDE DEF Step, g
    <3> QED BY <3>1, <3>2
  <2> HIDE DEF g, Step
  <2> QED BY <2>4
<1>3. DOMAIN s = 1 .. Len(outputs) /\ Len(outputs) \in Nat
  OBVIOUS
<1>4. iter = [S \in SUBSET (1 .. Len(outputs)) |-> Step(iter, S)]
  <2>1. Nat \subseteq X
    <3> HIDE DEF X
    <3> QED BY <1>1, <1>2, Induction
  <2>2. \E f : f = [S \in SUBSET (1 .. Len(outputs)) |-> Step(f, S)]
    <3> HIDE DEF Step
    <3> QED BY <1>3, <2>1
  <2> HIDE DEF Step
  <2> QED BY <1>3, <2>2
<1>5. Supply(bals, id, outputs) = iter[DOMAIN s]
  BY DEF Supply, SupplyOne, FoldLeftDomain, FoldLeft, MapThenFoldSet
<1> HIDE DEF iter
<1> DEFINE at == [k \in 0 .. Len(outputs) |-> iter[1 .. k]]
<1>6. at[0] = bals
  <2>1. 1 .. 0 = {} /\ {} \in SUBSET (1 .. Len(outputs)) /\ 0 \in 0 .. Len(outputs)
    BY <1>3
  <2>2. iter[{}] = Step(iter, {})
    <3> HIDE DEF Step
    <3> QED BY <1>4, <2>1
  <2> QED BY <2>1, <2>2
<1>7. at[Len(outputs)] = iter[DOMAIN s]
  <2>1. Len(outputs) \in 0 .. Len(outputs)
    BY <1>3
  <2> QED BY <1>3, <2>1
<1>8. ASSUME NEW k \in 1 .. Len(outputs) PROVE at[k] = SupplyOne(at[k - 1], outputs[k], UTXOSource(id, k))
  <2>1. /\ k - 1 \in Nat /\ (k - 1) + 1 = k /\ k - 1 \in 0 .. Len(outputs) /\ k \in 0 .. Len(outputs)
        /\ 1 .. k \in SUBSET (1 .. Len(outputs)) /\ 1 .. k # {}
    <3>1. k - 1 \in Nat /\ (k - 1) + 1 = k /\ k - 1 \in 0 .. Len(outputs) /\ k \in 0 .. Len(outputs)
      BY <1>3
    <3>2. \A i \in 1 .. k : i \in 1 .. Len(outputs)
      BY <1>3
    <3>3. k \in 1 .. k
      OBVIOUS
    <3> QED BY <3>1, <3>2, <3>3
  <2>2. Max(1 .. k) = k /\ (1 .. k) \ {k} = 1 .. (k - 1)
    BY <2>1, LastPosition
  <2>3. iter[1 .. k] = Step(iter, 1 .. k)
    <3> HIDE DEF Step
    <3> QED BY <1>4, <2>1
  <2>4. s[k] = k
    BY <1>3
  <2> QED BY <2>1, <2>2, <2>3, <2>4
<1> HIDE DEF at, s
<1> QED BY <1>5, <1>6, <1>7, <1>8

\* Each key has its outputs with its sources.
LEMMA SupplySources ==
    ASSUME NEW bals, IsBalances(bals), NEW id, NEW outputs, outputs \in Seq(Range(outputs)),
           \A i \in DOMAIN outputs : outputs[i].owner \in PubKey
    PROVE  LET done == Supply(bals, id, outputs)
           IN  /\ IsBalances(done)
               /\ \A p \in PubKey : done[p].sources =
                     bals[p].sources \cup {UTXOSource(id, i) : i \in {j \in DOMAIN outputs : outputs[j].owner = p}}
<1> DEFINE Own(p, k) == {UTXOSource(id, i) : i \in {j \in 1 .. k : outputs[j].owner = p}}
<1>1. PICK at : /\ at[0] = bals /\ at[Len(outputs)] = Supply(bals, id, outputs)
                /\ \A k \in 1 .. Len(outputs) : at[k] = SupplyOne(at[k - 1], outputs[k], UTXOSource(id, k))
  BY SupplySteps
<1> DEFINE Done(k) == IsBalances(at[k]) /\ \A p \in PubKey : at[k][p].sources = bals[p].sources \cup Own(p, k)
           X == {k \in Nat : k <= Len(outputs) => Done(k)}
<1>2. 0 \in X
  <2>1. \A p \in PubKey : Own(p, 0) = {}
    OBVIOUS
  <2> HIDE DEF Own
  <2> QED BY <1>1, <2>1
<1>3. ASSUME NEW k \in Nat, k \in X PROVE k + 1 \in X
  <2> SUFFICES ASSUME k + 1 <= Len(outputs) PROVE Done(k + 1)
    OBVIOUS
  <2>1. k + 1 \in 1 .. Len(outputs) /\ k + 1 \in DOMAIN outputs /\ Done(k)
    BY <1>3
  <2>2. at[k + 1] = SupplyOne(at[k], outputs[k + 1], UTXOSource(id, k + 1)) /\ outputs[k + 1].owner \in PubKey
    BY <1>1, <2>1
  <2>3. /\ IsBalances(at[k + 1])
        /\ \A p \in PubKey : at[k + 1][p].sources =
               IF p = outputs[k + 1].owner THEN at[k][p].sources \cup {UTXOSource(id, k + 1)} ELSE at[k][p].sources
    <3> HIDE DEF Own
    <3>1. IsBalances(at[k])
      BY <2>1
    <3> DEFINE b == at[k]
               x == outputs[k + 1]
               source == UTXOSource(id, k + 1)
    <3>2. IsBalances(b) /\ x.owner \in PubKey /\ at[k + 1] = SupplyOne(b, x, source)
      BY <2>2, <3>1
    <3> HIDE DEF b, x, source
    <3> DEFINE done == SupplyOne(b, x, source)
    <3>3. IsBalances(done) /\ \A p \in PubKey : done[p].sources = With(b, x, source, p)
      BY <3>2, SupplyOneSources, Zenon
    <3> HIDE DEF done
    <3>4. at[k + 1] = done
      BY <3>2 DEF done
    <3> QED BY <3>3, <3>4 DEF b, x, source, With
  <2>4. ASSUME NEW p \in PubKey PROVE at[k + 1][p].sources = bals[p].sources \cup Own(p, k + 1)
    <3>1. at[k + 1][p].sources = IF p = outputs[k + 1].owner THEN at[k][p].sources \cup {UTXOSource(id, k + 1)}
                                 ELSE at[k][p].sources
      BY <2>3
    <3>2. 1 .. k + 1 = (1 .. k) \cup {k + 1}
      OBVIOUS
    <3>3. Own(p, k + 1) = IF p = outputs[k + 1].owner THEN Own(p, k) \cup {UTXOSource(id, k + 1)} ELSE Own(p, k)
      BY <3>2
    <3>4. at[k][p].sources = bals[p].sources \cup Own(p, k)
      BY <2>1
    <3> HIDE DEF Own
    <3> QED BY <3>1, <3>3, <3>4
  <2> QED BY <2>3, <2>4
<1>4. Done(Len(outputs))
  <2> HIDE DEF Done
  <2>1. Nat \subseteq X
    <3> HIDE DEF X
    <3> QED BY <1>2, <1>3, Induction
  <2>2. Len(outputs) \in Nat
    OBVIOUS
  <2> QED BY <2>1, <2>2
<1>5. 1 .. Len(outputs) = DOMAIN outputs
  OBVIOUS
<1> QED BY <1>1, <1>4, <1>5

\* One output leaves its owner; all of them.
WithdrawOne(b, output, source) ==
    [b EXCEPT ![output.owner] =
        [balance |-> Sub(@.balance, output.amount), sources |-> @.sources \ {source}]]

Without(b, output, source, p) == IF p = output.owner THEN b[p].sources \ {source} ELSE b[p].sources

LEMMA WithdrawOneSources ==
    ASSUME NEW b, IsBalances(b), NEW output, NEW source, output.owner \in PubKey
    PROVE  LET done == WithdrawOne(b, output, source)
           IN  IsBalances(done) /\ \A p \in PubKey : done[p].sources = Without(b, output, source, p)
<1> DEFINE o == output.owner
           Cell == [balance |-> Sub(b[o].balance, output.amount), sources |-> b[o].sources \ {source}]
<1>1. DOMAIN b = PubKey /\ \A p \in PubKey : b[p] = [balance |-> b[p].balance, sources |-> b[p].sources]
  BY DEF IsBalances
<1>2. WithdrawOne(b, output, source) = [b EXCEPT ![o] = Cell]
  BY DEF WithdrawOne
<1>3. Cell = [balance |-> Cell.balance, sources |-> Cell.sources] /\ Cell.sources = b[o].sources \ {source}
  OBVIOUS
<1> HIDE DEF Cell, o
<1> DEFINE done == [b EXCEPT ![o] = Cell]
<1>4. done = [p \in PubKey |-> IF p = o THEN Cell ELSE b[p]]
  BY <1>1 DEF IsBalances
<1> HIDE DEF done
<1>5. \A p \in PubKey : done[p] = [balance |-> done[p].balance, sources |-> done[p].sources]
  BY <1>1, <1>3, <1>4
<1>6. IsBalances(done)
  <2>1. done = [p \in PubKey |-> done[p]]
    BY <1>4
  <2> QED BY <1>5, <2>1 DEF IsBalances
<1>7. \A p \in PubKey : done[p].sources = Without(b, output, source, p)
  BY <1>3, <1>4 DEF Without, o
<1> QED BY <1>2, <1>6, <1>7 DEF done, o

LEMMA WithdrawSteps ==
    ASSUME NEW bals, NEW id, NEW outputs, outputs \in Seq(Range(outputs))
    PROVE  \E at : /\ at[0] = bals /\ at[Len(outputs)] = Withdraw(bals, id, outputs, Len(outputs))
                   /\ \A k \in 1 .. Len(outputs) : at[k] = WithdrawOne(at[k - 1], outputs[k], UTXOSource(id, k))
<1> DEFINE s == [i \in DOMAIN outputs |-> i]
           Step(f, S) == IF S = {} THEN bals ELSE WithdrawOne(f[S \ {Max(S)}], outputs[s[Max(S)]], UTXOSource(id, s[Max(S)]))
           Folds(f, n) == f = [S \in SUBSET (1 .. n) |-> Step(f, S)]
           X == {n \in Nat : \E f : Folds(f, n)}
           iter == CHOOSE f : f = [S \in SUBSET DOMAIN s |-> Step(f, S)]
<1>1. 0 \in X
  <2> DEFINE f == [S \in SUBSET (1 .. 0) |-> bals]
  <2>1. \A S \in SUBSET (1 .. 0) : S = {}
    OBVIOUS
  <2>2. \A S \in SUBSET (1 .. 0) : Step(f, S) = bals
    BY <2>1
  <2>3. [S \in SUBSET (1 .. 0) |-> Step(f, S)] = f
    <3> HIDE DEF Step
    <3> QED BY <2>2
  <2> HIDE DEF f, Step
  <2> QED BY <2>3
<1>2. ASSUME NEW n \in Nat, n \in X PROVE n + 1 \in X
  <2>1. PICK f : Folds(f, n)
    BY <1>2
  <2> DEFINE g == [S \in SUBSET (1 .. n + 1) |-> Step(f, S)]
  <2>2. \A S \in SUBSET (1 .. n) : g[S] = f[S]
    <3> HIDE DEF Step
    <3>1. SUBSET (1 .. n) \subseteq SUBSET (1 .. n + 1)
      OBVIOUS
    <3> QED BY <2>1, <3>1
  <2>3. \A S \in SUBSET (1 .. n + 1) : Step(g, S) = Step(f, S)
    <3> HIDE DEF g
    <3> SUFFICES ASSUME NEW S \in SUBSET (1 .. n + 1), S # {} PROVE Step(g, S) = Step(f, S)
      OBVIOUS
    <3>1. S \ {Max(S)} \in SUBSET (1 .. n)
      BY LastPosition
    <3>2. g[S \ {Max(S)}] = f[S \ {Max(S)}]
      BY <2>2, <3>1
    <3> QED BY <3>2
  <2>4. g = [S \in SUBSET (1 .. n + 1) |-> Step(g, S)]
    <3>1. [S \in SUBSET (1 .. n + 1) |-> Step(f, S)] = [S \in SUBSET (1 .. n + 1) |-> Step(g, S)]
      <4> HIDE DEF Step, g
      <4> QED BY <2>3
    <3>2. g = [S \in SUBSET (1 .. n + 1) |-> Step(f, S)]
      OBVIOUS
    <3> HIDE DEF Step, g
    <3> QED BY <3>1, <3>2
  <2> HIDE DEF g, Step
  <2> QED BY <2>4
<1>3. DOMAIN s = 1 .. Len(outputs) /\ Len(outputs) \in Nat
  OBVIOUS
<1>4. iter = [S \in SUBSET (1 .. Len(outputs)) |-> Step(iter, S)]
  <2>1. Nat \subseteq X
    <3> HIDE DEF X
    <3> QED BY <1>1, <1>2, Induction
  <2>2. \E f : f = [S \in SUBSET (1 .. Len(outputs)) |-> Step(f, S)]
    <3> HIDE DEF Step
    <3> QED BY <1>3, <2>1
  <2> HIDE DEF Step
  <2> QED BY <1>3, <2>2
<1>5. Withdraw(bals, id, outputs, Len(outputs)) = iter[DOMAIN s]
  <2>1. SubSeq(outputs, 1, Len(outputs)) = outputs
    OBVIOUS
  <2> HIDE DEF iter
  <2>2. Withdraw(bals, id, outputs, Len(outputs)) =
          FoldLeftDomain(LAMBDA b, i : WithdrawOne(b, outputs[i], UTXOSource(id, i)), bals, outputs)
    BY <2>1 DEF Withdraw, WithdrawOne
  <2>3. FoldLeftDomain(LAMBDA b, i : WithdrawOne(b, outputs[i], UTXOSource(id, i)), bals, outputs) = iter[DOMAIN s]
    BY DEF iter, FoldLeftDomain, FoldLeft, MapThenFoldSet
  <2> QED BY <2>2, <2>3
<1> HIDE DEF iter
<1> DEFINE at == [k \in 0 .. Len(outputs) |-> iter[1 .. k]]
<1>6. at[0] = bals
  <2>1. 1 .. 0 = {} /\ {} \in SUBSET (1 .. Len(outputs)) /\ 0 \in 0 .. Len(outputs)
    BY <1>3
  <2>2. iter[{}] = Step(iter, {})
    <3> HIDE DEF Step
    <3> QED BY <1>4, <2>1
  <2> QED BY <2>1, <2>2
<1>7. at[Len(outputs)] = iter[DOMAIN s]
  <2>1. Len(outputs) \in 0 .. Len(outputs)
    BY <1>3
  <2> QED BY <1>3, <2>1
<1>8. ASSUME NEW k \in 1 .. Len(outputs) PROVE at[k] = WithdrawOne(at[k - 1], outputs[k], UTXOSource(id, k))
  <2>1. /\ k - 1 \in Nat /\ (k - 1) + 1 = k /\ k - 1 \in 0 .. Len(outputs) /\ k \in 0 .. Len(outputs)
        /\ 1 .. k \in SUBSET (1 .. Len(outputs)) /\ 1 .. k # {}
    <3>1. k - 1 \in Nat /\ (k - 1) + 1 = k /\ k - 1 \in 0 .. Len(outputs) /\ k \in 0 .. Len(outputs)
      BY <1>3
    <3>2. \A i \in 1 .. k : i \in 1 .. Len(outputs)
      BY <1>3
    <3>3. k \in 1 .. k
      OBVIOUS
    <3> QED BY <3>1, <3>2, <3>3
  <2>2. Max(1 .. k) = k /\ (1 .. k) \ {k} = 1 .. (k - 1)
    BY <2>1, LastPosition
  <2>3. iter[1 .. k] = Step(iter, 1 .. k)
    <3> HIDE DEF Step
    <3> QED BY <1>4, <2>1
  <2>4. s[k] = k
    BY <1>3
  <2> QED BY <2>1, <2>2, <2>3, <2>4
<1> HIDE DEF at, s
<1> QED BY <1>5, <1>6, <1>7, <1>8

\* No key has its outputs any more.
LEMMA WithdrawSources ==
    ASSUME NEW bals, IsBalances(bals), NEW id, NEW outputs, outputs \in Seq(Range(outputs)),
           \A i \in DOMAIN outputs : outputs[i].owner \in PubKey
    PROVE  LET done == Withdraw(bals, id, outputs, Len(outputs))
           IN  /\ IsBalances(done)
               /\ \A p \in PubKey : done[p].sources =
                     bals[p].sources \ {UTXOSource(id, i) : i \in {j \in DOMAIN outputs : outputs[j].owner = p}}
<1> DEFINE Own(p, k) == {UTXOSource(id, i) : i \in {j \in 1 .. k : outputs[j].owner = p}}
<1>1. PICK at : /\ at[0] = bals /\ at[Len(outputs)] = Withdraw(bals, id, outputs, Len(outputs))
                /\ \A k \in 1 .. Len(outputs) : at[k] = WithdrawOne(at[k - 1], outputs[k], UTXOSource(id, k))
  BY WithdrawSteps
<1> DEFINE Done(k) == IsBalances(at[k]) /\ \A p \in PubKey : at[k][p].sources = bals[p].sources \ Own(p, k)
           X == {k \in Nat : k <= Len(outputs) => Done(k)}
<1>2. 0 \in X
  <2>1. \A p \in PubKey : Own(p, 0) = {}
    OBVIOUS
  <2> HIDE DEF Own
  <2> QED BY <1>1, <2>1
<1>3. ASSUME NEW k \in Nat, k \in X PROVE k + 1 \in X
  <2> SUFFICES ASSUME k + 1 <= Len(outputs) PROVE Done(k + 1)
    OBVIOUS
  <2>1. k + 1 \in 1 .. Len(outputs) /\ k + 1 \in DOMAIN outputs /\ Done(k)
    BY <1>3
  <2>2. at[k + 1] = WithdrawOne(at[k], outputs[k + 1], UTXOSource(id, k + 1)) /\ outputs[k + 1].owner \in PubKey
    BY <1>1, <2>1
  <2>3. /\ IsBalances(at[k + 1])
        /\ \A p \in PubKey : at[k + 1][p].sources =
               IF p = outputs[k + 1].owner THEN at[k][p].sources \ {UTXOSource(id, k + 1)} ELSE at[k][p].sources
    <3> HIDE DEF Own
    <3>1. IsBalances(at[k])
      BY <2>1
    <3> DEFINE b == at[k]
               x == outputs[k + 1]
               source == UTXOSource(id, k + 1)
    <3>2. IsBalances(b) /\ x.owner \in PubKey /\ at[k + 1] = WithdrawOne(b, x, source)
      BY <2>2, <3>1
    <3> HIDE DEF b, x, source
    <3> DEFINE done == WithdrawOne(b, x, source)
    <3>3. IsBalances(done) /\ \A p \in PubKey : done[p].sources = Without(b, x, source, p)
      BY <3>2, WithdrawOneSources, Zenon
    <3> HIDE DEF done
    <3>4. at[k + 1] = done
      BY <3>2 DEF done
    <3> QED BY <3>3, <3>4 DEF b, x, source, Without
  <2>4. ASSUME NEW p \in PubKey PROVE at[k + 1][p].sources = bals[p].sources \ Own(p, k + 1)
    <3>1. at[k + 1][p].sources = IF p = outputs[k + 1].owner THEN at[k][p].sources \ {UTXOSource(id, k + 1)}
                                 ELSE at[k][p].sources
      BY <2>3
    <3>2. 1 .. k + 1 = (1 .. k) \cup {k + 1}
      OBVIOUS
    <3>3. Own(p, k + 1) = IF p = outputs[k + 1].owner THEN Own(p, k) \cup {UTXOSource(id, k + 1)} ELSE Own(p, k)
      BY <3>2
    <3>4. at[k][p].sources = bals[p].sources \ Own(p, k)
      BY <2>1
    <3> HIDE DEF Own
    <3> QED BY <3>1, <3>3, <3>4
  <2> QED BY <2>3, <2>4
<1>4. Done(Len(outputs))
  <2> HIDE DEF Done
  <2>1. Nat \subseteq X
    <3> HIDE DEF X
    <3> QED BY <1>2, <1>3, Induction
  <2>2. Len(outputs) \in Nat
    OBVIOUS
  <2> QED BY <2>1, <2>2
<1>5. 1 .. Len(outputs) = DOMAIN outputs
  OBVIOUS
<1> QED BY <1>1, <1>4, <1>5

-----------------------------------------------------------------------------
(* Each part of a block: the databases keep what is to be spent. *)

\* What it is for the databases to keep the sources to be spent, part by part.
LEMMA KeptInParts ==
    ASSUME NEW B, NEW U, NEW D, NEW held
    PROVE  Kept([balances |-> B, utxos |-> U, dus |-> D], held)
             <=> /\ IsBalances(B) /\ DOMAIN U = Outputs(held)
                 /\ D = {d \in Member \X Nat : UDSource(d[1], d[2]) \in held}
                 /\ \A p \in PubKey : B[p].sources = {s \in DOMAIN U : U[s].owner = p}
BY DEF Kept, IsMoney, DividendsKept, Indexed

\* The sources of a dividend are dividends, those of a block.
LEMMA DividendSources ==
    ASSUME NEW held, NEW du, NEW h \in Nat, du # Zero
    PROVE  /\ Outputs(held \cup Dividends(du, h)) = Outputs(held)
           /\ \A d \in Member \X Nat : UDSource(d[1], d[2]) \in Dividends(du, h) <=> d \in Member \X {h}
<1>1. Dividends(du, h) = {UDSource(p, h) : p \in Member}
  BY DEF Dividends
<1>2. \A s \in Dividends(du, h) : IsUD(s)
  BY <1>1, SourcesDiffer
<1>3. ASSUME NEW d \in Member \X Nat
      PROVE  UDSource(d[1], d[2]) \in Dividends(du, h) <=> d \in Member \X {h}
  BY <1>1 DEF UDSource
<1> QED BY <1>2, <1>3 DEF Outputs

\* The balances of the members change, no source does.
LEMMA BalancesOnly ==
    ASSUME NEW b, IsBalances(b), NEW a
    PROVE  LET done == [p \in PubKey |-> IF p \in Member THEN [b[p] EXCEPT !.balance = a[p]] ELSE b[p]]
           IN  IsBalances(done) /\ \A p \in PubKey : done[p].sources = b[p].sources
<1> DEFINE done == [p \in PubKey |-> IF p \in Member THEN [b[p] EXCEPT !.balance = a[p]] ELSE b[p]]
<1>1. \A p \in PubKey : b[p] = [balance |-> b[p].balance, sources |-> b[p].sources]
  BY DEF IsBalances
<1>2. ASSUME NEW p \in PubKey
      PROVE  done[p] = [balance |-> done[p].balance, sources |-> done[p].sources] /\ done[p].sources = b[p].sources
  <2>1. PICK x, y : b[p] = [balance |-> x, sources |-> y]
    BY <1>1
  <2>2. [b[p] EXCEPT !.balance = a[p]] = [balance |-> a[p], sources |-> y]
    BY <2>1
  <2>3. done[p] = IF p \in Member THEN [balance |-> a[p], sources |-> y] ELSE [balance |-> x, sources |-> y]
    BY <2>1, <2>2
  <2> HIDE DEF done
  <2> QED BY <2>1, <2>3
<1>3. done = [p \in PubKey |-> done[p]]
  OBVIOUS
<1> HIDE DEF done
<1>4. IsBalances(done)
  BY <1>2, <1>3 DEF IsBalances
<1> QED BY <1>2, <1>4 DEF done

\* A dividend comes.
LEMMA DividendsCome ==
    ASSUME NEW m, NEW held, Kept(m, held), NEW du, NEW h \in Nat
    PROVE  LET done == CreateUD(m, du, h)
           IN  Kept(done, held \cup Dividends(du, h)) /\ done.utxos = m.utxos
<1>1. CASE du = Zero
  <2>1. Dividends(du, h) = {} /\ CreateUD(m, du, h) = m
    BY <1>1 DEF Dividends, CreateUD
  <2> QED BY <2>1
<1>2. CASE du # Zero
  <2> DEFINE a == [p \in PubKey |-> Add(m.balances[p].balance, du)]
             B == [p \in PubKey |-> IF p \in Member THEN [m.balances[p] EXCEPT !.balance = a[p]] ELSE m.balances[p]]
             D == m.dus \cup (Member \X {h})
  <2>2. CreateUD(m, du, h) = [balances |-> B, utxos |-> m.utxos, dus |-> D]
    <3>1. B = [p \in PubKey |-> IF p \in Member THEN [m.balances[p] EXCEPT !.balance = Add(@, du)] ELSE m.balances[p]]
      OBVIOUS
    <3> QED BY <1>2, <3>1 DEF CreateUD
  <2>3. IsBalances(B) /\ \A p \in PubKey : B[p].sources = m.balances[p].sources
    <3>1. IsBalances(m.balances)
      BY DEF Kept, IsMoney
    <3> HIDE DEF a
    <3> QED BY <3>1, BalancesOnly
  <2>4. DOMAIN m.utxos = Outputs(held \cup Dividends(du, h))
    BY <1>2, DividendSources DEF Kept
  <2>5. D = {d \in Member \X Nat : UDSource(d[1], d[2]) \in held \cup Dividends(du, h)}
    <3>1. m.dus = {d \in Member \X Nat : UDSource(d[1], d[2]) \in held}
      BY DEF Kept, DividendsKept
    <3>2. \A d \in Member \X Nat : d \in D <=> UDSource(d[1], d[2]) \in held \cup Dividends(du, h)
      BY <1>2, <3>1, DividendSources
    <3>3. D \subseteq Member \X Nat
      BY <3>1
    <3> HIDE DEF D
    <3> QED BY <3>2, <3>3
  <2>6. \A p \in PubKey : m.balances[p].sources = {s \in DOMAIN m.utxos : m.utxos[s].owner = p}
    BY DEF Kept, Indexed
  <2> HIDE DEF B, D
  <2>7. Kept([balances |-> B, utxos |-> m.utxos, dus |-> D], held \cup Dividends(du, h))
    <3> DEFINE now == held \cup Dividends(du, h)
    <3>1. DOMAIN m.utxos = Outputs(now) /\ D = {d \in Member \X Nat : UDSource(d[1], d[2]) \in now}
      BY <2>4, <2>5
    <3> HIDE DEF now
    <3>2. Kept([balances |-> B, utxos |-> m.utxos, dus |-> D], now)
      BY <2>3, <2>6, <3>1, KeptInParts
    <3> QED BY <3>2 DEF now
  <2> QED BY <2>2, <2>7
<1> QED BY <1>1, <1>2

\* A dividend goes.
LEMMA DividendsLeave ==
    ASSUME NEW m, NEW held, NEW du, NEW h \in Nat,
           Kept(m, held \cup Dividends(du, h)), held \cap Dividends(du, h) = {}
    PROVE  LET done == RevertUD(m, du, h)
           IN  Kept(done, held) /\ done.utxos = m.utxos
<1>1. CASE du = Zero
  <2>1. held \cup Dividends(du, h) = held /\ RevertUD(m, du, h) = m
    BY <1>1 DEF Dividends, RevertUD
  <2> QED BY <2>1
<1>2. CASE du # Zero
  <2> DEFINE a == [p \in PubKey |-> Sub(m.balances[p].balance, du)]
             B == [p \in PubKey |-> IF p \in Member THEN [m.balances[p] EXCEPT !.balance = a[p]] ELSE m.balances[p]]
             D == m.dus \ (Member \X {h})
  <2>2. RevertUD(m, du, h) = [balances |-> B, utxos |-> m.utxos, dus |-> D]
    <3>1. B = [p \in PubKey |-> IF p \in Member THEN [m.balances[p] EXCEPT !.balance = Sub(@, du)] ELSE m.balances[p]]
      OBVIOUS
    <3> QED BY <1>2, <3>1 DEF RevertUD
  <2>3. IsBalances(B) /\ \A p \in PubKey : B[p].sources = m.balances[p].sources
    <3>1. IsBalances(m.balances)
      BY DEF Kept, IsMoney
    <3> HIDE DEF a
    <3> QED BY <3>1, BalancesOnly
  <2>4. DOMAIN m.utxos = Outputs(held)
    BY <1>2, DividendSources DEF Kept
  <2>5. D = {d \in Member \X Nat : UDSource(d[1], d[2]) \in held}
    <3>1. m.dus = {d \in Member \X Nat : UDSource(d[1], d[2]) \in held \cup Dividends(du, h)}
      BY DEF Kept, DividendsKept
    <3>2. \A d \in Member \X Nat : d \in m.dus /\ d \notin Member \X {h} <=> UDSource(d[1], d[2]) \in held
      BY <1>2, <3>1, DividendSources
    <3>3. D \subseteq Member \X Nat
      BY <3>1
    <3> QED BY <3>2, <3>3
  <2>6. \A p \in PubKey : m.balances[p].sources = {s \in DOMAIN m.utxos : m.utxos[s].owner = p}
    BY DEF Kept, Indexed
  <2> HIDE DEF B, D
  <2>7. Kept([balances |-> B, utxos |-> m.utxos, dus |-> D], held)
    BY <2>3, <2>4, <2>5, <2>6, KeptInParts
  <2> QED BY <2>2, <2>7
<1> QED BY <1>1, <1>2

\* What a transaction spends leaves the addresses, whatever is left of their balances.
LEMMA ConsumeSources ==
    ASSUME NEW m, NEW held, Kept(m, held), NEW tx
    PROVE  LET done == Consume(m, tx)
           IN  IsBalances(done) /\ \A p \in PubKey : done[p].sources = m.balances[p].sources \ InputsOf(tx)
<1> DEFINE done == Consume(m, tx)
<1>1. \A p \in PubKey : m.balances[p] = [balance |-> m.balances[p].balance, sources |-> m.balances[p].sources]
  BY DEF Kept, IsMoney, IsBalances
<1>2. ASSUME NEW p \in PubKey, NEW s \in m.balances[p].sources, s \in InputsOf(tx)
      PROVE  p \in Addresses(m, tx) /\ s \in InputsAt(m, tx, p)
  <2>1. s \in DOMAIN m.utxos /\ m.utxos[s].owner = p /\ ~IsUD(s)
    BY DEF Kept, Indexed, Outputs
  <2>2. AddressOf(m, s) = p
    BY <2>1 DEF AddressOf
  <2> QED BY <1>2, <2>2 DEF Addresses, InputsAt
<1>3. ASSUME NEW p \in PubKey
      PROVE  /\ done[p] = [balance |-> done[p].balance, sources |-> done[p].sources]
             /\ done[p].sources = m.balances[p].sources \ InputsOf(tx)
  <2>1. CASE p \notin Addresses(m, tx)
    <3>1. done[p] = m.balances[p]
      BY <2>1 DEF Consume
    <3>2. m.balances[p].sources \cap InputsOf(tx) = {}
      BY <1>2, <2>1
    <3> HIDE DEF done
    <3> QED BY <1>1, <3>1, <3>2
  <2>2. CASE p \in Addresses(m, tx)
    <3>1. PICK left : done[p] = [balance |-> left, sources |-> m.balances[p].sources \ InputsAt(m, tx, p)]
      BY <2>2 DEF Consume
    <3>2. m.balances[p].sources \ InputsAt(m, tx, p) = m.balances[p].sources \ InputsOf(tx)
      BY <1>2 DEF InputsAt
    <3> HIDE DEF done
    <3> QED BY <3>1, <3>2
  <2> QED BY <2>1, <2>2
<1>4. done = [p \in PubKey |-> done[p]]
  BY DEF Consume
<1> HIDE DEF done
<1>5. IsBalances(done)
  BY <1>3, <1>4 DEF IsBalances
<1> QED BY <1>3, <1>5 DEF done

\* The outputs of a transaction.
OutputsFrom(id, tx) == {UTXOSource(id, i) : i \in DOMAIN tx.outputs}

LEMMA OutputsTable ==
    ASSUME NEW id, NEW tx
    PROVE  /\ DOMAIN OutputsIn(id, tx) = OutputsFrom(id, tx)
           /\ \A i \in DOMAIN tx.outputs : OutputsIn(id, tx)[UTXOSource(id, i)] = tx.outputs[i]
           /\ \A s \in OutputsFrom(id, tx) : OutputsIn(id, tx)[s] = tx.outputs[s[3]] /\ ~IsUD(s) /\ s[2] = id
BY SourcesDiffer DEF OutputsIn, OutputsFrom

\* A transaction is written.
LEMMA TxWritten ==
    ASSUME NEW m, NEW held, Kept(m, held), NEW id, NEW tx, DocumentOK(tx),
           \A s \in held : IsUD(s) => s = UDSource(s[2], s[3]),
           InputsOf(tx) \subseteq held, OutputsFrom(id, tx) \cap held = {}
    PROVE  LET done == WriteTx(m, id, tx)
           IN  /\ Kept(done, (held \ InputsOf(tx)) \cup OutputsFrom(id, tx))
               /\ \A s \in OutputsFrom(id, tx) : done.utxos[s] = tx.outputs[s[3]]
               /\ \A s \in DOMAIN m.utxos \ InputsOf(tx) : done.utxos[s] = m.utxos[s]
<1> DEFINE B == Supply(Consume(m, tx), id, tx.outputs)
           rest == Restrict(m.utxos, DOMAIN m.utxos \ InputsOf(tx))
           U == Over(OutputsIn(id, tx), rest)
           D == m.dus \ {<<s[2], s[3]>> : s \in UDsOf(tx)}
           now == (held \ InputsOf(tx)) \cup OutputsFrom(id, tx)
<1>1. WriteTx(m, id, tx) = [balances |-> B, utxos |-> U, dus |-> D]
  BY DEF WriteTx
<1>2. DOMAIN m.utxos = Outputs(held)
  BY DEF Kept
<1>3. DOMAIN rest = Outputs(held) \ InputsOf(tx) /\ \A s \in DOMAIN rest : rest[s] = m.utxos[s]
  BY <1>2 DEF Restrict
<1> HIDE DEF rest
<1>4. /\ DOMAIN U = OutputsFrom(id, tx) \cup (Outputs(held) \ InputsOf(tx))
      /\ \A s \in OutputsFrom(id, tx) : s \notin DOMAIN rest
      /\ \A s \in Outputs(held) \ InputsOf(tx) : U[s] = m.utxos[s]
  <2> DEFINE new == OutputsIn(id, tx)
  <2>1. DOMAIN new = OutputsFrom(id, tx) /\ \A s \in OutputsFrom(id, tx) : s \notin DOMAIN rest
    BY <1>3, OutputsTable DEF Outputs
  <2> HIDE DEF new
  <2>2. DOMAIN Over(new, rest) = DOMAIN new \cup DOMAIN rest /\ \A s \in DOMAIN rest : Over(new, rest)[s] = rest[s]
    BY DEF Over
  <2>3. U = Over(new, rest)
    BY DEF new
  <2> HIDE DEF U
  <2> QED BY <1>3, <2>1, <2>2, <2>3
<1>5. \A i \in DOMAIN tx.outputs : UTXOSource(id, i) \in OutputsFrom(id, tx) /\ U[UTXOSource(id, i)] = tx.outputs[i]
  <2> SUFFICES ASSUME NEW i \in DOMAIN tx.outputs
               PROVE  UTXOSource(id, i) \in OutputsFrom(id, tx) /\ U[UTXOSource(id, i)] = tx.outputs[i]
    OBVIOUS
  <2>1. UTXOSource(id, i) \in OutputsFrom(id, tx)
    BY DEF OutputsFrom
  <2>2. UTXOSource(id, i) \in DOMAIN OutputsIn(id, tx) \ DOMAIN rest
    BY <1>4, <2>1, OutputsTable
  <2>3. U[UTXOSource(id, i)] = OutputsIn(id, tx)[UTXOSource(id, i)]
    BY <2>2 DEF Over
  <2> QED BY <2>1, <2>3, OutputsTable
<1>6. DOMAIN U = Outputs(now)
  BY <1>4, OutputsTable DEF Outputs
<1>7. /\ IsBalances(B)
      /\ \A p \in PubKey : B[p].sources = (m.balances[p].sources \ InputsOf(tx))
               \cup {UTXOSource(id, i) : i \in {j \in DOMAIN tx.outputs : tx.outputs[j].owner = p}}
  <2> DEFINE b == Consume(m, tx)
             outputs == tx.outputs
  <2>1. IsBalances(b) /\ \A p \in PubKey : b[p].sources = m.balances[p].sources \ InputsOf(tx)
    BY ConsumeSources
  <2>2. outputs \in Seq(Range(outputs)) /\ \A i \in DOMAIN outputs : outputs[i].owner \in PubKey
    BY DEF DocumentOK
  <2> HIDE DEF b, outputs
  <2>3. LET done == Supply(b, id, outputs)
        IN  /\ IsBalances(done)
            /\ \A p \in PubKey : done[p].sources =
                  b[p].sources \cup {UTXOSource(id, i) : i \in {j \in DOMAIN outputs : outputs[j].owner = p}}
    BY <2>1, <2>2, SupplySources
  <2> QED BY <2>1, <2>3 DEF b, outputs
<1> HIDE DEF U, B
<1>8. ASSUME NEW p \in PubKey PROVE B[p].sources = {s \in DOMAIN U : U[s].owner = p}
  <2>1. m.balances[p].sources = {s \in Outputs(held) : m.utxos[s].owner = p}
    BY <1>2 DEF Kept, Indexed
  <2>2. {s \in DOMAIN U : U[s].owner = p} =
          {s \in Outputs(held) \ InputsOf(tx) : U[s].owner = p} \cup {s \in OutputsFrom(id, tx) : U[s].owner = p}
    BY <1>4
  <2>3. {s \in OutputsFrom(id, tx) : U[s].owner = p} =
          {UTXOSource(id, i) : i \in {j \in DOMAIN tx.outputs : tx.outputs[j].owner = p}}
    BY <1>5 DEF OutputsFrom
  <2>4. {s \in Outputs(held) \ InputsOf(tx) : U[s].owner = p} = m.balances[p].sources \ InputsOf(tx)
    BY <1>4, <2>1
  <2> QED BY <1>7, <2>2, <2>3, <2>4
<1>9. D = {d \in Member \X Nat : UDSource(d[1], d[2]) \in now}
  <2>1. m.dus = {d \in Member \X Nat : UDSource(d[1], d[2]) \in held}
    BY DEF Kept, DividendsKept
  <2>2. ASSUME NEW d \in Member \X Nat, UDSource(d[1], d[2]) \in held
        PROVE  d \in {<<s[2], s[3]>> : s \in UDsOf(tx)} <=> UDSource(d[1], d[2]) \in InputsOf(tx)
    <3>1. ASSUME NEW s \in UDsOf(tx), d = <<s[2], s[3]>> PROVE UDSource(d[1], d[2]) \in InputsOf(tx)
      <4>1. s \in held /\ s \in InputsOf(tx) /\ s = UDSource(s[2], s[3])
        BY DEF UDsOf
      <4> QED BY <3>1, <4>1
    <3>2. ASSUME UDSource(d[1], d[2]) \in InputsOf(tx) PROVE d \in {<<s[2], s[3]>> : s \in UDsOf(tx)}
      <4>1. UDSource(d[1], d[2]) \in UDsOf(tx)
        BY <3>2, SourcesDiffer DEF UDsOf
      <4>2. d = <<UDSource(d[1], d[2])[2], UDSource(d[1], d[2])[3]>>
        BY SourcesDiffer
      <4> QED BY <4>1, <4>2
    <3> QED BY <3>1, <3>2
  <2>3. \A d : UDSource(d[1], d[2]) \notin OutputsFrom(id, tx)
    BY SourcesDiffer DEF OutputsFrom
  <2>4. \A d \in Member \X Nat : d \in D <=> UDSource(d[1], d[2]) \in now
    BY <2>1, <2>2, <2>3
  <2>5. D \subseteq Member \X Nat
    BY <2>1
  <2> HIDE DEF D, now
  <2> QED BY <2>4, <2>5
<1>10. Kept([balances |-> B, utxos |-> U, dus |-> D], now)
  <2> HIDE DEF D, now
  <2> QED BY <1>6, <1>7, <1>8, <1>9, KeptInParts
<1>11. \A s \in OutputsFrom(id, tx) : U[s] = tx.outputs[s[3]]
  BY <1>5, SourcesDiffer DEF OutputsFrom
<1>12. \A s \in DOMAIN m.utxos \ InputsOf(tx) : U[s] = m.utxos[s]
  BY <1>2, <1>4
<1> HIDE DEF D, now
<1> QED BY <1>1, <1>10, <1>11, <1>12 DEF now

\* A transaction that spent dividends only, as every one that can be undone, gives
\* its inputs back; what it destroyed of the addresses it emptied never left the tables.
LEMMA TxTakenBack ==
    ASSUME NEW m, NEW held, NEW id, DocumentOK(txs[id].doc),
           Kept(m, (held \ InputsOf(txs[id].doc)) \cup OutputsOf(id)), AsWritten(m),
           \A s \in held : IsUD(s) => s = UDSource(s[2], s[3]) /\ <<s[2], s[3]>> \in Member \X Nat,
           InputsOf(txs[id].doc) \subseteq held, OutputsOf(id) \cap held = {},
           txs[id].sources_destroyed \subseteq Outputs(held),
           KnownInputs(WithoutOutputs(m, id), txs[id].doc)
    PROVE  LET done == RevertTx(m, id)
           IN  Kept(done, held) /\ \A s \in DOMAIN done.utxos : s \in DOMAIN m.utxos /\ done.utxos[s] = m.utxos[s]
<1> DEFINE tx == txs[id].doc
           w == WithoutOutputs(m, id)
           destroyed == txs[id].sources_destroyed
           B == Recreate(w, tx, destroyed)
           U == Over([s \in InputsOf(tx) \ UDsOf(tx) |-> Output(s)], w.utxos)
           D == m.dus \cup {<<s[2], s[3]>> : s \in UDsOf(tx)}
<1>1. RevertTx(m, id) = [balances |-> B, utxos |-> U, dus |-> D]
  BY DEF RevertTx
<1>2. OutputsOf(id) = OutputsFrom(id, tx) /\ \A s \in OutputsOf(id) : ~IsUD(s)
  BY SourcesDiffer DEF OutputsOf, OutputsFrom
<1>3. DOMAIN m.utxos = Outputs(held \ InputsOf(tx)) \cup OutputsOf(id)
  BY <1>2 DEF Kept, Outputs
<1>4. /\ DOMAIN w.utxos = Outputs(held \ InputsOf(tx)) /\ \A s \in DOMAIN w.utxos : w.utxos[s] = m.utxos[s]
      /\ w.balances = Withdraw(m.balances, id, tx.outputs, Len(tx.outputs))
  BY <1>3 DEF WithoutOutputs, Restrict, Outputs
<1>5. /\ IsBalances(w.balances)
      /\ \A p \in PubKey : w.balances[p].sources = m.balances[p].sources
               \ {UTXOSource(id, i) : i \in {j \in DOMAIN tx.outputs : tx.outputs[j].owner = p}}
  <2> DEFINE b == m.balances
             outputs == tx.outputs
  <2>1. IsBalances(b)
    BY DEF Kept, IsMoney
  <2>2. outputs \in Seq(Range(outputs)) /\ \A i \in DOMAIN outputs : outputs[i].owner \in PubKey
    BY DEF DocumentOK
  <2> HIDE DEF b, outputs
  <2>3. LET done == Withdraw(b, id, outputs, Len(outputs))
        IN  /\ IsBalances(done)
            /\ \A p \in PubKey : done[p].sources =
                  b[p].sources \ {UTXOSource(id, i) : i \in {j \in DOMAIN outputs : outputs[j].owner = p}}
    BY <2>1, <2>2, WithdrawSources
  <2>4. w.balances = Withdraw(b, id, outputs, Len(outputs))
    BY <1>4 DEF b, outputs
  <2> HIDE DEF w
  <2> QED BY <2>3, <2>4 DEF b, outputs
<1>14. KnownInputs(w, tx)
  OBVIOUS
<1> HIDE DEF w
<1>6. ASSUME NEW p \in PubKey PROVE w.balances[p].sources = {s \in DOMAIN w.utxos : w.utxos[s].owner = p}
  <2>1. m.balances[p].sources = {s \in DOMAIN m.utxos : m.utxos[s].owner = p}
    BY DEF Kept, Indexed
  <2>2. ASSUME NEW s \in OutputsOf(id), m.utxos[s].owner = p
        PROVE  s \in {UTXOSource(id, i) : i \in {j \in DOMAIN tx.outputs : tx.outputs[j].owner = p}}
    <3>1. PICK i \in DOMAIN tx.outputs : s = UTXOSource(id, i)
      BY DEF OutputsOf
    <3>2. m.utxos[s] = Output(s)
      BY <1>3 DEF AsWritten
    <3>3. Output(s) = tx.outputs[i]
      BY <3>1, SourcesDiffer DEF Output
    <3> QED BY <2>2, <3>1, <3>2, <3>3
  <2>3. {UTXOSource(id, i) : i \in {j \in DOMAIN tx.outputs : tx.outputs[j].owner = p}} \subseteq OutputsOf(id)
    BY DEF OutputsOf
  <2>4. OutputsOf(id) \cap Outputs(held \ InputsOf(tx)) = {}
    BY DEF Outputs
  <2> DEFINE own == {UTXOSource(id, i) : i \in {j \in DOMAIN tx.outputs : tx.outputs[j].owner = p}}
  <2>5. \A s \in OutputsOf(id) : m.utxos[s].owner = p => s \in own
    BY <2>2
  <2>6. own \subseteq OutputsOf(id) /\ w.balances[p].sources = m.balances[p].sources \ own
    BY <1>5, <2>3
  <2> HIDE DEF own
  <2>7. w.balances[p].sources = {s \in Outputs(held \ InputsOf(tx)) : m.utxos[s].owner = p}
    BY <1>3, <2>1, <2>4, <2>5, <2>6
  <2> QED BY <1>4, <2>7
<1>7. \A s \in InputsOf(tx) : IsUD(s)
  BY <1>4, <1>14 DEF KnownInputs, Outputs
<1>8. InputsOf(tx) = UDsOf(tx)
  BY <1>7 DEF UDsOf
<1>9. DOMAIN U = Outputs(held) /\ \A s \in DOMAIN U : s \in DOMAIN m.utxos /\ U[s] = m.utxos[s]
  <2> DEFINE back == [s \in InputsOf(tx) \ UDsOf(tx) |-> Output(s)]
  <2>1. DOMAIN back = {}
    BY <1>8
  <2> HIDE DEF back
  <2>2. /\ DOMAIN Over(back, w.utxos) = DOMAIN w.utxos
        /\ \A s \in DOMAIN w.utxos : Over(back, w.utxos)[s] = w.utxos[s]
    <3> DEFINE stay == w.utxos
    <3> HIDE DEF stay
    <3>1. /\ DOMAIN Over(back, stay) = DOMAIN back \cup DOMAIN stay
          /\ \A s \in DOMAIN stay : Over(back, stay)[s] = stay[s]
      BY DEF Over
    <3>2. DOMAIN back \cup DOMAIN stay = DOMAIN stay
      BY <2>1
    <3> QED BY <3>1, <3>2 DEF stay
  <2>3. Outputs(held \ InputsOf(tx)) = Outputs(held)
    BY <1>7 DEF Outputs
  <2>4. U = Over(back, w.utxos)
    BY DEF back
  <2> HIDE DEF U
  <2> QED BY <1>3, <1>4, <2>2, <2>3, <2>4
<1>10. IsBalances(B) /\ \A p \in PubKey : B[p].sources = w.balances[p].sources
  <2>1. ASSUME NEW p \in PubKey, NEW s \in destroyed, Output(s).owner = p PROVE s \in w.balances[p].sources
    <3>1. s \in Outputs(held \ InputsOf(tx))
      BY <1>7 DEF Outputs
    <3>2. w.utxos[s].owner = p
      BY <1>3, <1>4, <2>1, <3>1 DEF AsWritten
    <3> QED BY <1>4, <1>6, <3>1, <3>2
  <2>2. ASSUME NEW p \in PubKey
        PROVE  /\ B[p] = [balance |-> B[p].balance, sources |-> B[p].sources]
               /\ B[p].sources = w.balances[p].sources
    <3>1. w.balances[p] = [balance |-> w.balances[p].balance, sources |-> w.balances[p].sources]
      BY <1>5 DEF IsBalances
    <3>2. CASE p \notin Addresses(w, tx)
      <4>1. B[p] = w.balances[p]
        BY <3>2 DEF Recreate
      <4> HIDE DEF B
      <4> QED BY <3>1, <4>1
    <3>3. CASE p \in Addresses(w, tx)
      <4> DEFINE back == {s \in destroyed : Output(s).owner = p}
      <4>1. PICK total : B[p] = [balance |-> total,
                                 sources |-> w.balances[p].sources \cup back \cup (InputsAt(w, tx, p) \ UDsOf(tx))]
        BY <3>3 DEF Recreate
      <4>2. InputsAt(w, tx, p) \ UDsOf(tx) = {}
        BY <1>8 DEF InputsAt
      <4>3. back \subseteq w.balances[p].sources
        BY <2>1
      <4> HIDE DEF B, back
      <4> QED BY <4>1, <4>2, <4>3
    <3> QED BY <3>2, <3>3
  <2>3. B = [p \in PubKey |-> B[p]]
    BY DEF Recreate
  <2> HIDE DEF B
  <2>4. IsBalances(B)
    BY <2>2, <2>3 DEF IsBalances
  <2> QED BY <2>2, <2>4
<1>11. \A p \in PubKey : B[p].sources = {s \in DOMAIN U : U[s].owner = p}
  <2>1. DOMAIN U = DOMAIN w.utxos /\ \A s \in DOMAIN U : U[s] = w.utxos[s]
    <3>1. Outputs(held \ InputsOf(tx)) = Outputs(held)
      BY <1>7 DEF Outputs
    <3> HIDE DEF U
    <3> QED BY <1>4, <1>9, <3>1
  <2> HIDE DEF U, B
  <2> QED BY <1>6, <1>10, <2>1
<1>12. D = {d \in Member \X Nat : UDSource(d[1], d[2]) \in held}
  <2>1. m.dus = {d \in Member \X Nat : UDSource(d[1], d[2]) \in (held \ InputsOf(tx)) \cup OutputsOf(id)}
    BY DEF Kept, DividendsKept
  <2>2. \A d : UDSource(d[1], d[2]) \notin OutputsOf(id)
    BY <1>2, SourcesDiffer
  <2>3. {<<s[2], s[3]>> : s \in UDsOf(tx)} \subseteq Member \X Nat
    BY <1>8, SourcesDiffer DEF UDsOf
  <2>4. ASSUME NEW d \in Member \X Nat
        PROVE  d \in {<<s[2], s[3]>> : s \in UDsOf(tx)} <=> UDSource(d[1], d[2]) \in InputsOf(tx)
    <3>1. ASSUME NEW s \in UDsOf(tx), d = <<s[2], s[3]>> PROVE UDSource(d[1], d[2]) \in InputsOf(tx)
      <4>1. s \in held /\ s \in InputsOf(tx) /\ s = UDSource(s[2], s[3])
        BY DEF UDsOf
      <4> QED BY <3>1, <4>1
    <3>2. ASSUME UDSource(d[1], d[2]) \in InputsOf(tx) PROVE d \in {<<s[2], s[3]>> : s \in UDsOf(tx)}
      <4>1. UDSource(d[1], d[2]) \in UDsOf(tx)
        BY <1>8, <3>2
      <4>2. d = <<UDSource(d[1], d[2])[2], UDSource(d[1], d[2])[3]>>
        BY SourcesDiffer
      <4> QED BY <4>1, <4>2
    <3> QED BY <3>1, <3>2
  <2>5. \A d \in Member \X Nat : d \in D <=> UDSource(d[1], d[2]) \in held
    BY <2>1, <2>2, <2>4
  <2>6. D \subseteq Member \X Nat
    BY <2>1, <2>3
  <2> HIDE DEF D
  <2> QED BY <2>5, <2>6
<1> HIDE DEF B, U, D
<1>13. Kept([balances |-> B, utxos |-> U, dus |-> D], held)
  BY <1>9, <1>10, <1>11, <1>12, KeptInParts
<1> QED BY <1>1, <1>9, <1>13

-----------------------------------------------------------------------------
(* The steps. *)

\* What the invariant says of the sources to be spent.
LEMMA HeldNow ==
    ASSUME IInv, NEW n \in Nat, n = Len(chain)
    PROVE  /\ Unspent \subseteq HeldTo(n) \ LostTo(n) /\ Garbage \subseteq HeldTo(n)
           /\ \A s \in HeldTo(n) : IsUD(s) => s = UDSource(s[2], s[3]) /\ <<s[2], s[3]>> \in Member \X Nat
           /\ \A s \in HeldTo(n) : ~IsUD(s) => s[2] \in DOMAIN txs /\ Output(s).owner \in PubKey
           /\ \A i \in 1 .. n : chain[i].txs \subseteq DOMAIN txs
<1>1. DOMAIN chain = 1 .. n
  BY DEF IInv, ChainOK
<1>2. Unspent \subseteq HeldTo(n) \ LostTo(n)
  <2>1. Unspent \subseteq HeldTo(n)
    BY UnspentOrLost DEF IInv
  <2>2. Lost = LostTo(n)
    BY <1>1 DEF Lost, LostTo
  <2> QED BY <2>1, <2>2 DEF Unspent
<1>3. Garbage \subseteq HeldTo(n)
  BY <1>2 DEF Garbage, OwnedBy
<1>4. ASSUME NEW i \in 1 .. n PROVE chain[i].txs \subseteq DOMAIN txs
  BY <1>1 DEF IInv, ChainOK, BlockFollows, TxOfBlock
<1>5. ASSUME NEW s \in HeldTo(n), ~IsUD(s) PROVE s[2] \in DOMAIN txs /\ Output(s).owner \in PubKey
  <2>1. s \in CreatedTo(n)
    BY DEF HeldTo
  <2>2. s[2] \in DOMAIN txs /\ s[3] \in DOMAIN txs[s[2]].doc.outputs
    BY <1>4, <1>5, <2>1, HeldAreSources
  <2> QED BY <2>2 DEF IInv, TxsOK, DocumentOK, Output
<1>6. \A s \in HeldTo(n) : IsUD(s) => s = UDSource(s[2], s[3]) /\ <<s[2], s[3]>> \in Member \X Nat
  BY HeldAreSources DEF HeldTo
<1> QED BY <1>2, <1>3, <1>4, <1>5, <1>6

\* A legal transaction has inputs, all unspent; its outputs go to keys.
LEMMA LegalDocument ==
    ASSUME NEW d \in Documents
    PROVE  DocumentOK(d) /\ InputsOf(d) # {} /\ InputsOf(d) \subseteq Unspent \ Garbage
<1>1. PICK p \in PubKey : d \in {Document(p, S, q, k) : S \in SourceSets(p), q \in PubKey, k \in Transfers}
  BY DEF Documents
<1>2. PICK S \in SourceSets(p), q \in PubKey, k \in Transfers : d = Document(p, S, q, k)
  BY <1>1
<1>3. S \subseteq Unspent \ Garbage
  BY DEF SourceSets, Spendable, OwnedBy, kSubset
<1>4. S # {}
  <2>1. Cardinality(S) = 1 \/ Cardinality(S) = 2
    BY DEF SourceSets, kSubset
  <2>2. Cardinality({}) = 0
    BY FS_EmptySet
  <2> QED BY <2>1, <2>2
<1>5. InputsOf(d) = S
  BY <1>2 DEF Document, InputsOf
<1>6. DocumentOK(d)
  <2>1. PICK a, b : d.outputs = <<[owner |-> q, amount |-> a]>>
                    \/ d.outputs = <<[owner |-> q, amount |-> a], [owner |-> p, amount |-> b]>>
    BY <1>2 DEF Document
  <2> DEFINE outputs == d.outputs
             T == [owner : PubKey, amount : {a, b}]
             x == [owner |-> q, amount |-> a]
             y == [owner |-> p, amount |-> b]
  <2>2. x \in T /\ y \in T /\ \A o \in T : o.owner \in PubKey
    OBVIOUS
  <2>3. outputs = <<x>> \/ outputs = <<x, y>>
    BY <2>1
  <2> HIDE DEF outputs, T, x, y
  <2>4. <<x>> \in Seq(T) /\ <<x, y>> \in Seq(T)
    BY <2>2
  <2>5. outputs \in Seq(T)
    BY <2>3, <2>4
  <2>6. outputs \in Seq(Range(outputs)) /\ \A i \in DOMAIN outputs : outputs[i].owner \in PubKey
    BY <2>2, <2>5, AnySequence
  <2> QED BY <2>6 DEF DocumentOK, outputs
<1> QED BY <1>3, <1>4, <1>5, <1>6

\* It is in no block, though it may have been in one that was undone.
LEMMA NewInChain ==
    ASSUME IInv, NEW d \in Documents, NEW n \in Nat, n = Len(chain)
    PROVE  /\ \A i \in 1 .. n : Identifier(d) \notin chain[i].txs
           /\ \/ Identifier(d) \in DOMAIN txs /\ txs[Identifier(d)].doc = d
              \/ Identifier(d) = Cardinality(DOMAIN txs) + 1 /\ Identifier(d) \notin DOMAIN txs
<1>1. DOMAIN chain = 1 .. n
  BY DEF IInv, ChainOK
<1>2. CASE \E id \in DOMAIN txs : txs[id].doc = d
  <2>1. Identifier(d) \in DOMAIN txs /\ txs[Identifier(d)].doc = d
    BY <1>2 DEF Identifier
  <2>2. ASSUME NEW i \in 1 .. n, Identifier(d) \in chain[i].txs PROVE FALSE
    <3>1. InputsOf(d) \subseteq SpentAt(i)
      BY <2>1, <2>2 DEF SpentAt
    <3>2. InputsOf(d) \subseteq Spent
      BY <1>1, <3>1 DEF Spent
    <3>3. InputsOf(d) \cap Spent = {}
      BY LegalDocument DEF Unspent
    <3> QED BY <3>2, <3>3, LegalDocument
  <2> QED BY <2>1, <2>2
<1>3. CASE ~ \E id \in DOMAIN txs : txs[id].doc = d
  <2>1. Identifier(d) = Cardinality(DOMAIN txs) + 1
    BY <1>3 DEF Identifier
  <2>2. Cardinality(DOMAIN txs) \in Nat /\ DOMAIN txs = 1 .. Cardinality(DOMAIN txs)
    BY FS_CardinalityType DEF IInv, TxsOK
  <2>3. Identifier(d) \notin DOMAIN txs
    BY <2>1, <2>2
  <2> QED BY <2>1, <2>3, HeldNow
<1> QED BY <1>2, <1>3

\* Nothing of it changes.
LEMMA Unchanged == IInv /\ UNCHANGED <<chain, money, txs>> => IInv'
<1> SUFFICES ASSUME IInv, UNCHANGED <<chain, money, txs>> PROVE IInv'
  OBVIOUS
<1>1. TxsOK' /\ AsWritten(money)'
  BY DEF IInv, TxsOK, AsWritten, Output
<1>2. \A n \in Nat : n <= Len(chain) => SameTo(n)
  BY DEF SameTo
<1>3. Len(chain) \in Nat /\ HeldTo(Len(chain))' = HeldTo(Len(chain))
  <2>1. PICK n \in Nat : n = Len(chain)
    BY DEF IInv, ChainOK
  <2>2. HeldTo(n)' = HeldTo(n)
    BY <1>2, <2>1, SameBlocks
  <2>3. HeldTo(Len(chain))' = HeldTo(n)' /\ HeldTo(Len(chain)) = HeldTo(n)
    BY <2>1
  <2> QED BY <2>1, <2>2, <2>3
<1>4. ChainOK'
  <2>1. \A k \in DOMAIN chain : BlockFollows(k)'
    <3> SUFFICES ASSUME NEW k \in DOMAIN chain PROVE BlockFollows(k)'
      OBVIOUS
    <3>1. PICK n \in Nat : n = Len(chain) /\ DOMAIN chain = 1 .. n
      BY DEF IInv, ChainOK
    <3>2. SameTo(n) /\ BlockFollows(k) /\ k \in 1 .. n /\ DOMAIN txs \subseteq DOMAIN txs'
      BY <1>2, <3>1 DEF IInv, ChainOK
    <3> QED BY <3>2, SameFollow
  <2> QED BY <2>1 DEF IInv, ChainOK
<1>5. Kept(money, HeldTo(Len(chain)))'
  <2> DEFINE now == HeldTo(Len(chain))
  <2>1. now' = now /\ Kept(money, now)
    BY <1>3 DEF IInv
  <2> HIDE DEF now
  <2>2. Kept(money, now)'
    BY <2>1 DEF Kept, IsMoney, DividendsKept, Indexed
  <2> QED BY <2>2 DEF now
<1> QED BY <1>1, <1>4, <1>5 DEF IInv

\* A block without a transaction.
LEMMA ApplyBlockKeeps == ASSUME IInv, ApplyBlock PROVE IInv'
<1>1. PICK n \in Nat : n = Len(chain)
  BY DEF IInv, ChainOK
<1>2. PICK du \in Dividend : /\ money' = CreateUD(money, du, Len(chain))
                             /\ AppendBlock(du, {}) /\ UNCHANGED <<txs, failed>>
  BY DEF ApplyBlock
<1> DEFINE b == [dividend |-> du, txs |-> {}, garbage |-> Garbage]
<1>3. chain' = Append(chain, b) /\ txs' = txs
  BY <1>2 DEF AppendBlock
<1>4. b.txs = {} /\ b.garbage = Garbage /\ b.dividend = du
  OBVIOUS
<1> HIDE DEF b
<1>5. ChainOK /\ SameTo(n) /\ chain'[n + 1] = b
  BY <1>1, <1>3, OnTop DEF IInv
<1>6. HeldTo(n)' = HeldTo(n)
  BY <1>5, SameBlocks
<1>7. BlockFollows(n + 1)'
  <2>1. (n + 1) - 1 = n /\ Garbage \subseteq HeldTo(n)
    BY <1>1, HeldNow
  <2> QED BY <1>4, <1>5, <1>6, <2>1 DEF BlockFollows
<1>8. CreatedAt(n + 1)' = Dividends(du, n) /\ SpentAt(n + 1)' = {}
  <2>1. (n + 1) - 1 = n
    OBVIOUS
  <2> QED BY <1>4, <1>5, <2>1 DEF CreatedAt, SpentAt, Dividends
<1>9. ChainOK' /\ HeldTo(Len(chain))' = HeldTo(n) \cup Dividends(du, n)
  BY <1>1, <1>3, <1>5, <1>7, <1>8, BlockComes
<1>10. Kept(money', HeldTo(n) \cup Dividends(du, n)) /\ money'.utxos = money.utxos
  <2>1. Kept(money, HeldTo(n)) /\ money' = CreateUD(money, du, n)
    BY <1>1, <1>2 DEF IInv
  <2> QED BY <2>1, DividendsCome
<1>11. TxsOK' /\ AsWritten(money)'
  BY <1>3, <1>10 DEF IInv, TxsOK, AsWritten, Output
<1> QED BY <1>9, <1>10, <1>11 DEF IInv, Kept, IsMoney, DividendsKept, Indexed

\* One transaction more, or the same again.
LEMMA OneTransactionMore ==
    ASSUME TxsOK, NEW id, NEW new, DOMAIN new = {id}, DocumentOK(new[id].doc),
           \/ id \in DOMAIN txs /\ txs[id].doc = new[id].doc
           \/ id = Cardinality(DOMAIN txs) + 1,
           txs' = Over(txs, new)
    PROVE  /\ TxsOK' /\ DOMAIN txs' = DOMAIN txs \cup {id} /\ txs'[id] = new[id]
           /\ \A i \in DOMAIN txs : txs'[i].doc = txs[i].doc /\ (i # id => txs'[i] = txs[i])
<1>1. PICK N \in Nat : N = Cardinality(DOMAIN txs) /\ DOMAIN txs = 1 .. N
  BY FS_CardinalityType DEF TxsOK
<1>2. /\ DOMAIN txs' = DOMAIN txs \cup {id} /\ txs'[id] = new[id]
      /\ \A i \in DOMAIN txs \ {id} : txs'[i] = txs[i]
  BY DEF Over
<1>3. \A i \in DOMAIN txs : txs'[i].doc = txs[i].doc /\ (i # id => txs'[i] = txs[i])
  <2> SUFFICES ASSUME NEW i \in DOMAIN txs PROVE txs'[i].doc = txs[i].doc /\ (i # id => txs'[i] = txs[i])
    OBVIOUS
  <2>1. CASE i = id
    <3>1. id # N + 1
      <4>1. \A x \in 1 .. N : x # N + 1
        OBVIOUS
      <4>2. id \in 1 .. N
        BY <1>1, <2>1
      <4> QED BY <4>1, <4>2
    <3> QED BY <1>1, <1>2, <2>1, <3>1
  <2>2. CASE i # id
    BY <1>2, <2>2
  <2> QED BY <2>1, <2>2
<1>4. \A i \in DOMAIN txs' : DocumentOK(txs'[i].doc)
  BY <1>1, <1>2, <1>3 DEF TxsOK
<1>5. IsFiniteSet(DOMAIN txs') /\ DOMAIN txs' = 1 .. Cardinality(DOMAIN txs')
  <2>1. CASE id \in DOMAIN txs
    <3>1. DOMAIN txs' = DOMAIN txs
      BY <1>2, <2>1
    <3> QED BY <3>1 DEF TxsOK
  <2>2. CASE id = N + 1
    <3>1. DOMAIN txs' = 1 .. N + 1
      <4>1. 1 .. N + 1 = (1 .. N) \cup {N + 1}
        OBVIOUS
      <4> QED BY <1>1, <1>2, <2>2, <4>1
    <3>2. IsFiniteSet(1 .. N + 1) /\ Cardinality(1 .. N + 1) = N + 1
      BY <1>1, FS_Interval
    <3> QED BY <3>1, <3>2
  <2> QED BY <1>1, <2>1, <2>2
<1> QED BY <1>2, <1>3, <1>4, <1>5 DEF TxsOK

\* What a transaction destroys is in the table of outputs.
LEMMA DestroyedAreOutputs ==
    ASSUME NEW m, NEW held, Kept(m, held), NEW tx, InputsOf(tx) \subseteq held,
           \A s \in held : IsUD(s) => s[2] \in Member,
           \A s \in DOMAIN m.utxos : m.utxos[s].owner \in PubKey
    PROVE  SourcesDestroyed(m, tx) \subseteq Outputs(held)
<1> SUFFICES ASSUME NEW p \in Emptied(m, tx), NEW s \in m.balances[p].sources PROVE s \in Outputs(held)
  BY DEF SourcesDestroyed
<1>1. PICK t \in InputsOf(tx) : p = AddressOf(m, t)
  BY DEF Emptied, Addresses
<1>2. p \in PubKey
  <2>1. CASE IsUD(t)
    BY <1>1, <2>1, CurrencyAssumption DEF AddressOf
  <2>2. CASE ~IsUD(t)
    <3>1. t \in DOMAIN m.utxos
      BY <2>2 DEF Kept, Outputs
    <3> QED BY <1>1, <2>2, <3>1 DEF AddressOf
  <2> QED BY <2>1, <2>2
<1>3. s \in DOMAIN m.utxos
  BY <1>2 DEF Kept, Indexed
<1> QED BY <1>3 DEF Kept

\* A block with a transaction.
LEMMA ApplyBlockWithTxKeeps == ASSUME IInv, ApplyBlockWithTx PROVE IInv'
<1>1. PICK n \in Nat : n = Len(chain)
  BY DEF IInv, ChainOK
<1>2. PICK du \in Dividend, d \in Documents :
        LET m == CreateUD(money, du, Len(chain))
            id == Identifier(d)
        IN  IF KnownInputs(m, d)
            THEN /\ money' = WriteTx(m, id, d)
                 /\ txs' = Over(txs, [i \in {id} |->
                               [doc |-> d, sources_destroyed |-> SourcesDestroyed(m, d)]])
                 /\ AppendBlock(du, {id})
            ELSE UNCHANGED <<chain, money, txs>>
  BY DEF ApplyBlockWithTx
<1>3. PICK m : m = CreateUD(money, du, n)
  OBVIOUS
<1>4. PICK id : id = Identifier(d)
  OBVIOUS
<1>5. PICK destroyed : destroyed = SourcesDestroyed(m, d)
  OBVIOUS
<1>6. PICK b : b = [dividend |-> du, txs |-> {id}, garbage |-> Garbage]
  OBVIOUS
<1> DEFINE held == HeldTo(n) \cup Dividends(du, n)
<1>7. CASE ~KnownInputs(m, d)
  BY <1>1, <1>2, <1>7, <1>3, Unchanged
<1>8. CASE KnownInputs(m, d)
  <2>1. /\ money' = WriteTx(m, id, d) /\ chain' = Append(chain, b)
        /\ txs' = Over(txs, [i \in {id} |-> [doc |-> d, sources_destroyed |-> destroyed]])
    BY <1>1, <1>2, <1>8, <1>3, <1>4, <1>5, <1>6 DEF AppendBlock
  <2>2. b.txs = {id} /\ b.garbage = Garbage /\ b.dividend = du
    BY <1>6
  <2>3. DocumentOK(d) /\ InputsOf(d) # {} /\ InputsOf(d) \subseteq HeldTo(n) \ (LostTo(n) \cup Garbage)
    BY <1>1, LegalDocument, HeldNow
  <2>4. /\ \A i \in 1 .. n : id \notin chain[i].txs
        /\ \/ id \in DOMAIN txs /\ txs[id].doc = d
           \/ id = Cardinality(DOMAIN txs) + 1
    BY <1>1, <1>4, NewInChain
  <2>5. Kept(m, held) /\ m.utxos = money.utxos
    BY <1>1, <1>3, DividendsCome DEF IInv
  <2>6. Outputs(held) = Outputs(HeldTo(n))
    <3>1. \A s \in Dividends(du, n) : IsUD(s)
      BY SourcesDiffer DEF Dividends
    <3> QED BY <3>1 DEF Outputs
  <2>7. /\ \A s \in held : IsUD(s) => s = UDSource(s[2], s[3]) /\ s[2] \in Member
        /\ \A s \in Outputs(held) : s[2] \in DOMAIN txs /\ Output(s).owner \in PubKey
    <3>1. \A s \in Dividends(du, n) : s = UDSource(s[2], s[3]) /\ s[2] \in Member
      BY SourcesDiffer DEF Dividends
    <3>2. \A s \in HeldTo(n) : IsUD(s) => s = UDSource(s[2], s[3]) /\ s[2] \in Member
      BY <1>1, HeldNow
    <3>3. \A s \in HeldTo(n) : ~IsUD(s) => s[2] \in DOMAIN txs /\ Output(s).owner \in PubKey
      BY <1>1, HeldNow
    <3> QED BY <2>6, <3>1, <3>2, <3>3 DEF Outputs
  <2>8. DOMAIN m.utxos = Outputs(held) /\ \A s \in DOMAIN m.utxos : m.utxos[s] = Output(s)
    BY <2>5 DEF Kept, IInv, AsWritten
  <2>9. destroyed \subseteq Outputs(HeldTo(n))
    <3>1. \A s \in DOMAIN m.utxos : m.utxos[s].owner \in PubKey
      BY <2>7, <2>8
    <3>2. InputsOf(d) \subseteq held
      BY <2>3
    <3> HIDE DEF held
    <3> QED BY <1>5, <2>5, <2>6, <2>7, <3>1, <3>2, DestroyedAreOutputs
  <2>10. /\ TxsOK' /\ DOMAIN txs' = DOMAIN txs \cup {id}
         /\ txs'[id].doc = d /\ txs'[id].sources_destroyed = destroyed
         /\ \A i \in DOMAIN txs : txs'[i].doc = txs[i].doc /\ (i # id => txs'[i] = txs[i])
    <3> DEFINE new == [i \in {id} |-> [doc |-> d, sources_destroyed |-> destroyed]]
    <3>1. DOMAIN new = {id} /\ new[id].doc = d /\ new[id].sources_destroyed = destroyed /\ txs' = Over(txs, new)
      BY <2>1
    <3> HIDE DEF new
    <3>2. /\ TxsOK' /\ DOMAIN txs' = DOMAIN txs \cup {id} /\ txs'[id] = new[id]
          /\ \A i \in DOMAIN txs : txs'[i].doc = txs[i].doc /\ (i # id => txs'[i] = txs[i])
      BY <2>3, <2>4, <3>1, OneTransactionMore DEF IInv
    <3> QED BY <3>1, <3>2
  <2>11. \A i \in DOMAIN chain : \A x \in chain[i].txs : txs'[x] = txs[x]
    <3>1. DOMAIN chain = 1 .. n /\ \A i \in 1 .. n : chain[i].txs \subseteq DOMAIN txs
      BY <1>1, HeldNow DEF IInv, ChainOK
    <3> QED BY <2>4, <2>10, <3>1
  <2>12. ChainOK /\ Len(chain') = n + 1 /\ SameTo(n) /\ chain'[n + 1] = b
    BY <1>1, <2>1, <2>11, OnTop DEF IInv
  <2>13. HeldTo(n)' = HeldTo(n) /\ LostTo(n)' = LostTo(n)
    BY <2>12, SameBlocks
  <2>14. LostTo(n + 1)' = LostTo(n) \cup Garbage
    <3>1. 1 .. n + 1 = (1 .. n) \cup {n + 1}
      OBVIOUS
    <3>2. LostTo(n + 1)' = LostTo(n)' \cup chain'[n + 1].garbage
      BY <3>1 DEF LostTo
    <3> QED BY <2>2, <2>12, <2>13, <3>2
  <2>15. BlockFollows(n + 1)'
    <3>1. (n + 1) - 1 = n /\ Garbage \subseteq HeldTo(n)
      BY <1>1, HeldNow
    <3>2. TxOfBlock(n + 1, id)'
      <4>1. \A i \in 1 .. n : chain'[i] = chain[i]
        BY <2>12 DEF SameTo
      <4>2. id \in DOMAIN txs' /\ \A i \in 1 .. n : id \notin chain'[i].txs
        BY <2>4, <2>10, <4>1
      <4>3. InputsOf(txs'[id].doc) = InputsOf(d)
        BY <2>10
      <4>4. InputsOf(d) # {} /\ InputsOf(d) \subseteq HeldTo(n)' \ LostTo(n + 1)'
        BY <2>3, <2>13, <2>14
      <4>5. txs'[id].sources_destroyed \subseteq Outputs(HeldTo(n))'
        BY <2>9, <2>10, <2>13 DEF Outputs
      <4> QED BY <3>1, <4>2, <4>3, <4>4, <4>5 DEF TxOfBlock, InputsOf
    <3> QED BY <2>2, <2>12, <2>13, <3>1, <3>2 DEF BlockFollows
  <2>16. CreatedAt(n + 1)' = Dividends(du, n) \cup OutputsFrom(id, d) /\ SpentAt(n + 1)' = InputsOf(d)
    <3>1. (n + 1) - 1 = n /\ chain'[n + 1].txs = {id} /\ chain'[n + 1].dividend = du
      BY <2>2, <2>12
    <3>2. OutputsOf(id)' = OutputsFrom(id, d) /\ InputsOf(txs[id].doc)' = InputsOf(d)
      BY <2>10 DEF OutputsOf, OutputsFrom, InputsOf
    <3>3. CreatedAt(n + 1)' = Dividends(du, n) \cup OutputsFrom(id, d)
      BY <3>1, <3>2 DEF CreatedAt, Dividends
    <3>4. SpentAt(n + 1)' = InputsOf(d)
      BY <3>1, <3>2 DEF SpentAt, InputsOf
    <3> QED BY <3>3, <3>4
  <2>17. ChainOK' /\ HeldTo(Len(chain))' = (HeldTo(n) \ InputsOf(d)) \cup (Dividends(du, n) \cup OutputsFrom(id, d))
    <3>1. DOMAIN txs \subseteq DOMAIN txs'
      BY <2>10
    <3> QED BY <1>1, <2>1, <2>11, <2>12, <2>15, <2>16, <3>1, BlockComes
  <2>18. OutputsFrom(id, d) \cap held = {} /\ Dividends(du, n) \cap HeldTo(n) = {}
    <3>1. ASSUME NEW s \in OutputsFrom(id, d), s \in HeldTo(n) PROVE FALSE
      <4>1. ~IsUD(s) /\ s[2] = id
        BY SourcesDiffer DEF OutputsFrom
      <4>2. s \in CreatedTo(n)
        BY <3>1 DEF HeldTo
      <4> QED BY <2>4, <4>1, <4>2, HeldAreSources
    <3>2. ASSUME NEW s \in Dividends(du, n), s \in HeldTo(n) PROVE FALSE
      <4>1. \E p : s = UDSource(p, n)
        BY DEF Dividends
      <4>2. s \in CreatedTo(n)
        BY <3>2 DEF HeldTo
      <4> QED BY <4>1, <4>2, HeldAreSources
    <3>3. \A s \in Dividends(du, n) : s \notin OutputsFrom(id, d)
      BY SourcesDiffer DEF Dividends, OutputsFrom
    <3> QED BY <3>1, <3>2, <3>3
  <2>19. /\ Kept(money', (held \ InputsOf(d)) \cup OutputsFrom(id, d))
         /\ \A s \in OutputsFrom(id, d) : money'.utxos[s] = d.outputs[s[3]]
         /\ \A s \in DOMAIN m.utxos \ InputsOf(d) : money'.utxos[s] = m.utxos[s]
    <3>1. InputsOf(d) \subseteq held
      BY <2>3
    <3>2. money' = WriteTx(m, id, d)
      BY <2>1
    <3> HIDE DEF held
    <3> DEFINE done == WriteTx(m, id, d)
    <3>3. /\ Kept(done, (held \ InputsOf(d)) \cup OutputsFrom(id, d))
          /\ \A s \in OutputsFrom(id, d) : done.utxos[s] = d.outputs[s[3]]
          /\ \A s \in DOMAIN m.utxos \ InputsOf(d) : done.utxos[s] = m.utxos[s]
      <4>1. Kept(m, held) /\ DocumentOK(d) /\ OutputsFrom(id, d) \cap held = {}
        BY <2>3, <2>5, <2>18
      <4>2. \A s \in held : IsUD(s) => s = UDSource(s[2], s[3])
        BY <2>7
      <4> QED BY <3>1, <4>1, <4>2, TxWritten
    <3> HIDE DEF done
    <3> QED BY <3>2, <3>3 DEF done
  <2>20. (held \ InputsOf(d)) \cup OutputsFrom(id, d) = HeldTo(Len(chain))'
    BY <2>3, <2>17, <2>18
  <2>21. AsWritten(money)'
    <3>1. DOMAIN money'.utxos = Outputs((held \ InputsOf(d)) \cup OutputsFrom(id, d))
      BY <2>19 DEF Kept
    <3>2. ASSUME NEW s \in OutputsFrom(id, d) PROVE money'.utxos[s] = Output(s)'
      <4>1. s[2] = id
        BY SourcesDiffer DEF OutputsFrom
      <4> QED BY <2>10, <2>19, <4>1 DEF Output
    <3>3. ASSUME NEW s \in Outputs(held) \ InputsOf(d) PROVE money'.utxos[s] = Output(s)'
      <4>1. money'.utxos[s] = Output(s)
        BY <2>8, <2>19
      <4>2. txs'[s[2]].doc = txs[s[2]].doc
        BY <2>7, <2>10
      <4> QED BY <4>1, <4>2 DEF Output
    <3> HIDE DEF held
    <3>4. \A s \in DOMAIN money'.utxos : s \in OutputsFrom(id, d) \/ s \in Outputs(held) \ InputsOf(d)
      BY <3>1 DEF Outputs
    <3> QED BY <3>2, <3>3, <3>4 DEF AsWritten
  <2> HIDE DEF held
  <2>22. Kept(money, HeldTo(Len(chain)))'
    BY <2>19, <2>20 DEF Kept, IsMoney, DividendsKept, Indexed
  <2> QED BY <2>10, <2>17, <2>21, <2>22 DEF IInv
<1> QED BY <1>7, <1>8

\* The last block undone.
LEMMA RevertBlockKeeps == ASSUME IInv, RevertBlock PROVE IInv'
<1>1. PICK n \in Nat : n + 1 = Len(chain)
  <2>1. chain \in Seq(Range(chain)) /\ chain # << >>
    BY DEF IInv, ChainOK, RevertBlock
  <2>2. Len(chain) - 1 \in Nat
    BY <2>1
  <2> QED BY <2>2
<1>2. PICK b : b = Last(chain)
  OBVIOUS
<1>3. PICK m : m = IF b.txs = {} THEN money ELSE RevertTx(money, CHOOSE id \in b.txs : TRUE)
  OBVIOUS
<1>4. \/ UNCHANGED <<chain, money, txs>>
      \/ /\ \A id \in b.txs : KnownInputs(WithoutOutputs(money, id), txs[id].doc)
         /\ money' = RevertUD(m, b.dividend, Len(chain) - 1)
         /\ chain' = Front(chain) /\ txs' = txs
  BY <1>2, <1>3 DEF RevertBlock
<1>5. CASE UNCHANGED <<chain, money, txs>>
  BY <1>5, Unchanged
<1>6. CASE /\ \A id \in b.txs : KnownInputs(WithoutOutputs(money, id), txs[id].doc)
           /\ money' = RevertUD(m, b.dividend, Len(chain) - 1)
           /\ chain' = Front(chain) /\ txs' = txs
  <2> DEFINE held == HeldTo(n) \cup Dividends(b.dividend, n)
  <2>1. ChainOK /\ TxsOK /\ AsWritten(money) /\ Kept(money, HeldTo(n + 1))
    BY <1>1 DEF IInv
  <2>2. chain[n + 1] = b /\ n + 1 \in DOMAIN chain /\ (n + 1) - 1 = n /\ Len(chain) - 1 = n
    BY <1>1, <1>2 DEF IInv, ChainOK, Last
  <2>3. /\ CreatedAt(n + 1) \cap CreatedTo(n) = {} /\ SpentAt(n + 1) \subseteq HeldTo(n)
        /\ HeldTo(n + 1) = (HeldTo(n) \ SpentAt(n + 1)) \cup CreatedAt(n + 1)
    BY <1>1, <2>1, HeldAfter
  <2>4. BlockFollows(n + 1)
    BY <2>1, <2>2 DEF ChainOK
  <2>5. Dividends(b.dividend, n) \subseteq CreatedAt(n + 1)
    BY <2>2 DEF CreatedAt
  <2>6. Kept(m, held) /\ \A s \in DOMAIN m.utxos : m.utxos[s] = Output(s)
    <3>1. CASE b.txs = {}
      <4>1. CreatedAt(n + 1) = Dividends(b.dividend, n) /\ SpentAt(n + 1) = {}
        BY <2>2, <3>1 DEF CreatedAt, SpentAt
      <4>2. HeldTo(n + 1) = held /\ m = money
        BY <1>3, <2>3, <3>1, <4>1
      <4> HIDE DEF held
      <4> QED BY <2>1, <4>2 DEF AsWritten
    <3>2. CASE \E id : b.txs = {id}
      <4>1. PICK id : b.txs = {id}
        BY <3>2
      <4>2. m = RevertTx(money, id) /\ KnownInputs(WithoutOutputs(money, id), txs[id].doc)
        BY <1>3, <1>6, <4>1
      <4>3. TxOfBlock(n + 1, id) /\ id \in DOMAIN txs
        BY <2>2, <2>4, <4>1 DEF BlockFollows, TxOfBlock
      <4>4. DocumentOK(txs[id].doc)
        BY <2>1, <4>3 DEF TxsOK
      <4>5. CreatedAt(n + 1) = Dividends(b.dividend, n) \cup OutputsOf(id) /\ SpentAt(n + 1) = InputsOf(txs[id].doc)
        BY <2>2, <4>1 DEF CreatedAt, SpentAt
      <4>6. \A s \in Dividends(b.dividend, n) : IsUD(s) /\ s = UDSource(s[2], s[3]) /\ <<s[2], s[3]>> \in Member \X Nat
        BY SourcesDiffer DEF Dividends
      <4>7. \A s \in OutputsOf(id) : ~IsUD(s)
        BY SourcesDiffer DEF OutputsOf
      <4>8. InputsOf(txs[id].doc) \subseteq held /\ OutputsOf(id) \cap held = {}
        BY <2>3, <4>5, <4>6, <4>7 DEF HeldTo
      <4>9. HeldTo(n + 1) = (held \ InputsOf(txs[id].doc)) \cup OutputsOf(id)
        BY <2>3, <4>5 DEF HeldTo
      <4>10. \A s \in held : IsUD(s) => s = UDSource(s[2], s[3]) /\ <<s[2], s[3]>> \in Member \X Nat
        BY <4>6, HeldAreSources DEF HeldTo
      <4>11. txs[id].sources_destroyed \subseteq Outputs(held)
        BY <2>2, <4>3 DEF TxOfBlock, Outputs
      <4> HIDE DEF held
      <4>12. Kept(money, (held \ InputsOf(txs[id].doc)) \cup OutputsOf(id)) /\ AsWritten(money)
        BY <2>1, <4>9
      <4> DEFINE done == RevertTx(money, id)
      <4>13. Kept(done, held) /\ \A s \in DOMAIN done.utxos : s \in DOMAIN money.utxos /\ done.utxos[s] = money.utxos[s]
        BY <4>2, <4>4, <4>8, <4>10, <4>11, <4>12, TxTakenBack
      <4> HIDE DEF done
      <4>14. m = done
        BY <4>2 DEF done
      <4> QED BY <4>12, <4>13, <4>14 DEF AsWritten
    <3> QED BY <2>2, <2>4, <3>1, <3>2 DEF BlockFollows
  <2>7. Kept(money', HeldTo(n)) /\ money'.utxos = m.utxos
    <3>1. HeldTo(n) \cap Dividends(b.dividend, n) = {}
      BY <2>3, <2>5 DEF HeldTo
    <3>2. money' = RevertUD(m, b.dividend, n)
      BY <1>6, <2>2
    <3> QED BY <2>6, <3>1, <3>2, DividendsLeave
  <2>8. ChainOK' /\ HeldTo(Len(chain))' = HeldTo(n)
    BY <1>1, <1>6, <2>1, BlockGoes
  <2>9. Kept(money, HeldTo(Len(chain)))'
    BY <2>7, <2>8 DEF Kept, IsMoney, DividendsKept, Indexed
  <2>10. TxsOK' /\ AsWritten(money)'
    BY <1>6, <2>1, <2>6, <2>7 DEF TxsOK, AsWritten, Output
  <2> QED BY <2>8, <2>9, <2>10 DEF IInv
<1> QED BY <1>4, <1>5, <1>6

-----------------------------------------------------------------------------
(* The theorems. *)

\* A node starts with no block and no source.
LEMMA InitHas == Init => IInv
<1> SUFFICES ASSUME Init PROVE IInv
  OBVIOUS
<1>1. chain = << >> /\ txs = << >> /\ Len(chain) = 0
  BY DEF Init
<1>2. HeldTo(0) = {} /\ Outputs({}) = {}
  BY OneBlockMore DEF HeldTo, Outputs
<1>3. TxsOK
  <2>1. DOMAIN txs = {} /\ 1 .. 0 = {} /\ IsFiniteSet({}) /\ Cardinality({}) = 0
    BY <1>1, FS_EmptySet
  <2> QED BY <2>1 DEF TxsOK
<1>4. ChainOK
  <2>1. << >> \in Seq(Range(chain)) /\ DOMAIN chain = {}
    BY <1>1
  <2> QED BY <1>1, <2>1 DEF ChainOK
<1>5. Kept(money, {}) /\ AsWritten(money)
  <2> DEFINE B == [p \in PubKey |-> [balance |-> Zero, sources |-> {}]]
             U == << >>
  <2>1. money = [balances |-> B, utxos |-> U, dus |-> {}]
    BY DEF Init
  <2>2. DOMAIN U = {} /\ IsBalances(B) /\ \A p \in PubKey : B[p].sources = {}
    BY DEF IsBalances
  <2> HIDE DEF B, U
  <2>3. Kept([balances |-> B, utxos |-> U, dus |-> {}], {})
    <3>1. DOMAIN U = Outputs({}) /\ {} = {d \in Member \X Nat : UDSource(d[1], d[2]) \in {}}
      BY <1>2, <2>2
    <3>2. \A p \in PubKey : B[p].sources = {s \in DOMAIN U : U[s].owner = p}
      BY <2>2
    <3> QED BY <2>2, <3>1, <3>2, KeptInParts
  <2> QED BY <2>1, <2>2, <2>3 DEF AsWritten
<1> QED BY <1>1, <1>2, <1>3, <1>4, <1>5 DEF IInv

\* The invariant: whatever blocks are applied and undone, with or without an error.
THEOREM IInvAlways == Spec => []IInv
<1>1. IInv /\ [Next]_vars => IInv'
  <2> SUFFICES ASSUME IInv, [Next]_vars PROVE IInv'
    OBVIOUS
  <2>1. CASE ApplyBlock
    BY <2>1, ApplyBlockKeeps
  <2>2. CASE ApplyBlockWithTx
    BY <2>2, ApplyBlockWithTxKeeps
  <2>3. CASE RevertBlock
    BY <2>3, RevertBlockKeeps
  <2>4. CASE UNCHANGED vars
    BY <2>4, Unchanged DEF vars
  <2> QED BY <2>1, <2>2, <2>3, <2>4 DEF Next
<1> QED BY <1>1, InitHas, PTL DEF Spec

\* It says what the databases have: the sources that the chain created and nobody
\* spent, and for each address the outputs that are its own.
LEMMA AgreeFrom == IInv => SourcesAgree
<1> SUFFICES ASSUME IInv PROVE SourcesAgree
  OBVIOUS
<1>1. PICK n \in Nat : n = Len(chain)
  BY DEF IInv, ChainOK
<1>2. Kept(money, HeldTo(n)) /\ Unspent \cup Lost = HeldTo(n)
  BY <1>1, UnspentOrLost DEF IInv
<1>3. UtxosIndexed
  BY <1>2 DEF Kept, Indexed, UtxosIndexed
<1>4. {UDSource(d[1], d[2]) : d \in money.dus} = {s \in HeldTo(n) : IsUD(s)}
  <2>1. money.dus = {d \in Member \X Nat : UDSource(d[1], d[2]) \in HeldTo(n)}
    BY <1>2 DEF Kept, DividendsKept
  <2>2. ASSUME NEW s \in HeldTo(n), IsUD(s) PROVE s \in {UDSource(d[1], d[2]) : d \in money.dus}
    <3>1. s = UDSource(s[2], s[3]) /\ <<s[2], s[3]>> \in Member \X Nat
      BY <1>1, <2>2, HeldNow
    <3>2. <<s[2], s[3]>> \in money.dus /\ s = UDSource(<<s[2], s[3]>>[1], <<s[2], s[3]>>[2])
      BY <2>1, <3>1
    <3> QED BY <3>2
  <2> QED BY <2>1, <2>2, SourcesDiffer
<1>5. SourcesAsChain
  BY <1>2, <1>4 DEF Kept, Outputs, SourcesAsChain
<1> QED BY <1>3, <1>5 DEF SourcesAgree

\* After any blocks applied and undone, the sources in utxos_db and du_db are what the
\* chain created and nobody spent, and balances_db has those of each address.
THEOREM SourcesAlwaysAgree == Spec => []SourcesAgree
BY IInvAlways, AgreeFrom, PTL
=============================================================================
