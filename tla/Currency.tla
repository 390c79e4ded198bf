------------------------------ MODULE Currency ------------------------------
(***************************************************************************)
(* The money of a node: dividends, unspent outputs and the balance of each *)
(* address, as blocks write them and as undoing a block takes them back    *)
(* (create_du, apply_and_write_tx, revert_tx).                             *)
(*                                                                         *)
(* An address is a key alone; an input or an output knows its amount.  A   *)
(* block is one action, saved at its end; failed is the fatal error that   *)
(* stops the process before.  Blocks obey the protocol: they spend sources *)
(* that the chain, not the databases, says are unspent (Unspent).          *)
(* A transaction is undone with its whole document, as the unit test of    *)
(* the writers does; a stored block has only its hash (see Documents).     *)
(***************************************************************************)
EXTENDS Integers, FiniteSets, FiniteSetsExt, Sequences, SequencesExt, Functions

CONSTANTS
    PubKey,
    Member,             \* the keys that receive dividends
    UD,                 \* amounts of dividends, [amount, base]
    Transfers,          \* amounts a transaction sends
    MIN_BALANCE,        \* an address with less than this is emptied
    MaxHeight,          \* bound: height of the highest block
    MaxTxs,             \* bound: different transactions
    MaxReverts          \* bound: blocks undone in the whole history

ASSUME CurrencyAssumption ==
    /\ Member \subseteq PubKey
    /\ UD \subseteq [amount : Nat, base : Nat]
    /\ Transfers \subseteq Nat /\ {MIN_BALANCE, MaxHeight, MaxTxs, MaxReverts} \subseteq Nat

VARIABLES
    chain,      \* the blocks
    money,      \* balances_db, utxos_db and du_db
    txs,        \* tx_db: transaction -> [doc, sources_destroyed]
    failed,     \* the process has died of a fatal error
    reverts,    \* how many blocks were undone
    past        \* history: money before each block of the chain

vars == <<chain, money, txs, failed, reverts, past>>

\* The functions f and g, g before f.
Over(f, g) == [x \in DOMAIN f \cup DOMAIN g |-> IF x \in DOMAIN g THEN g[x] ELSE f[x]]

-----------------------------------------------------------------------------
(* Amounts (SourceAmount): two amounts are brought to the greater base.    *)

ToBase(s, base) == [amount |-> s.amount \div (10 ^ (base - s.base)), base |-> base]

Lesser(s, t) == IF s.base > t.base THEN t ELSE s
Greater(s, t) == IF s.base > t.base THEN s ELSE t

Add(s, t) ==
    LET max == Greater(s, t)
    IN  [max EXCEPT !.amount = @ + ToBase(Lesser(s, t), max.base).amount]

Sub(s, t) ==
    LET max == Greater(s, t)
    IN  [max EXCEPT !.amount = ToBase(Lesser(s, t), max.base).amount - @]

\* The derived order, by which the code compares: the amount first, then the base.
AtLeast(s, t) == s.amount > t.amount \/ (s.amount = t.amount /\ s.base >= t.base)

Zero == [amount |-> 0, base |-> 0]
Total(amounts, sources) == FoldSet(LAMBDA s, total : Add(total, amounts[s]), Zero, sources)

\* What an amount is worth, and sums of that.
Worth(s) == s.amount * 10 ^ s.base

-----------------------------------------------------------------------------
(* Sources: a dividend of a member, or an output of a transaction.  A      *)
(* transaction document has inputs (source -> amount) and outputs.         *)

IsUD(s) == s[1] = "D"
UDSource(p, h) == <<"D", p, h>>
UTXOSource(id, i) == <<"T", id, i>>

InputsOf(tx) == DOMAIN tx.inputs
UDsOf(tx) == {s \in InputsOf(tx) : IsUD(s)}
OutputsOf(id) == {UTXOSource(id, i) : i \in DOMAIN txs[id].doc.outputs}
Output(s) == txs[s[2]].doc.outputs[s[3]]

\* What the chain says: the sources its blocks have created and spent, and those
\* the protocol has taken from addresses that a block left under the minimum.
Dividends(du, h) == IF du = Zero THEN {} ELSE {UDSource(p, h) : p \in Member}
CreatedAt(n) == Dividends(chain[n].dividend, n - 1) \cup UNION {OutputsOf(id) : id \in chain[n].txs}
SpentAt(n) == UNION {InputsOf(txs[id].doc) : id \in chain[n].txs}

Created == UNION {CreatedAt(n) : n \in DOMAIN chain}
Spent == UNION {SpentAt(n) : n \in DOMAIN chain}
Lost == UNION {chain[n].garbage : n \in DOMAIN chain}
Unspent == Created \ (Spent \cup Lost)

Owner(s) == IF IsUD(s) THEN s[2] ELSE Output(s).owner
AmountOf(s) == IF IsUD(s) THEN chain[s[3] + 1].dividend ELSE Output(s).amount
OwnedBy(p) == {s \in Unspent : Owner(s) = p}
Wealth(p) == MapThenSumSet(LAMBDA s : Worth(AmountOf(s)), OwnedBy(p))
Garbage == UNION {OwnedBy(p) : p \in {q \in PubKey : Wealth(q) < MIN_BALANCE}}

-----------------------------------------------------------------------------
(* The databases: m is money, or what a part of the block has made of it.  *)

\* Dividends come to the members, or are taken back (create_du).

CreateUD(m, du, h) ==
    IF du = Zero THEN m
    ELSE [balances |-> [p \in PubKey |-> IF p \in Member THEN [m.balances[p] EXCEPT !.balance = Add(@, du)]
                                                          ELSE m.balances[p]],
          utxos |-> m.utxos,
          dus |-> m.dus \cup (Member \X {h})]

RevertUD(m, du, h) ==
    IF du = Zero THEN m
    ELSE [balances |-> [p \in PubKey |-> IF p \in Member THEN [m.balances[p] EXCEPT !.balance = Sub(@, du)]
                                                          ELSE m.balances[p]],
          utxos |-> m.utxos,
          dus |-> m.dus \ (Member \X {h})]

\* The address a source is found under.
AddressOf(m, s) == IF IsUD(s) THEN s[2] ELSE m.utxos[s].owner
Addresses(m, tx) == {AddressOf(m, s) : s \in InputsOf(tx)}
InputsAt(m, tx, p) == {s \in InputsOf(tx) : AddressOf(m, s) = p}
KnownInputs(m, tx) == \A s \in InputsOf(tx) : IsUD(s) \/ s \in DOMAIN m.utxos

\* Writing a transaction (apply_and_write_tx).  An address is emptied when less
\* than the minimum is left without its inputs, whatever comes back to it.
Left(m, tx, p) == Sub(m.balances[p].balance, Total(tx.inputs, InputsAt(m, tx, p)))
\* Mutant: the minimum is taken for ten units instead of one.
EmptiedTooSoon(m, tx) ==
    {p \in Addresses(m, tx) : Left(m, tx, p).amount < 10 * MIN_BALANCE}

Emptied(m, tx) == {p \in Addresses(m, tx) : Left(m, tx, p).amount < MIN_BALANCE}

SourcesDestroyed(m, tx) == UNION {m.balances[p].sources : p \in Emptied(m, tx)}

Consume(m, tx) ==
    [p \in PubKey |->
        IF p \notin Addresses(m, tx) THEN m.balances[p]
        ELSE [balance |-> IF p \in Emptied(m, tx) THEN [Left(m, tx, p) EXCEPT !.amount = 0]
                                                  ELSE Left(m, tx, p),
              sources |-> m.balances[p].sources \ InputsAt(m, tx, p)]]

Supply(bals, id, outputs) ==
    FoldLeftDomain(LAMBDA b, i :
        [b EXCEPT ![outputs[i].owner] =
            [balance |-> Add(@.balance, outputs[i].amount),
             sources |-> @.sources \cup {UTXOSource(id, i)}]],
        bals, outputs)

OutputsIn(id, tx) == [s \in {UTXOSource(id, i) : i \in DOMAIN tx.outputs} |-> tx.outputs[s[3]]]

\* Mutant: the outputs that were spent stay.
WriteTxOnTop(m, id, tx) ==
    [balances |-> Supply(Consume(m, tx), id, tx.outputs),
     utxos |-> Over(m.utxos, OutputsIn(id, tx)),
     dus |-> m.dus \ {<<s[2], s[3]>> : s \in UDsOf(tx)}]

WriteTx(m, id, tx) ==
    [balances |-> Supply(Consume(m, tx), id, tx.outputs),
     utxos |-> Over(OutputsIn(id, tx), Restrict(m.utxos, DOMAIN m.utxos \ InputsOf(tx))),
     dus |-> m.dus \ {<<s[2], s[3]>> : s \in UDsOf(tx)}]

\* Taking a transaction back (revert_tx): its outputs leave their owners in
\* turn, then its inputs and the sources it destroyed return to theirs.
Withdraw(bals, id, outputs, last) ==
    FoldLeftDomain(LAMBDA b, i :
        [b EXCEPT ![outputs[i].owner] =
            [balance |-> Sub(@.balance, outputs[i].amount),
             sources |-> @.sources \ {UTXOSource(id, i)}]],
        bals, SubSeq(outputs, 1, last))

Covered(m, id, outputs) ==
    \A i \in DOMAIN outputs :
        AtLeast(Withdraw(m.balances, id, outputs, i - 1)[outputs[i].owner].balance,
                outputs[i].amount)

WithoutOutputs(m, id) ==
    LET outputs == txs[id].doc.outputs
    IN  [balances |-> Withdraw(m.balances, id, outputs, Len(outputs)),
         utxos |-> Restrict(m.utxos, DOMAIN m.utxos \ OutputsOf(id)),
         dus |-> m.dus]

\* Mutant: the sources a transaction destroyed are not given back.
RecreateInputs(m, tx, destroyed) ==
    [p \in PubKey |->
        IF p \notin Addresses(m, tx) THEN m.balances[p]
        ELSE LET inputs == InputsAt(m, tx, p)
             IN  [balance |-> Add(m.balances[p].balance, Total(tx.inputs, inputs)),
                  sources |-> m.balances[p].sources \cup (inputs \ UDsOf(tx))]]

Recreate(m, tx, destroyed) ==
    [p \in PubKey |->
        IF p \notin Addresses(m, tx) THEN m.balances[p]
        ELSE LET back == {s \in destroyed : Output(s).owner = p}
                 inputs == InputsAt(m, tx, p)
                 total == Add(Add(m.balances[p].balance, Total(tx.inputs, inputs)),
                              Total([s \in back |-> Output(s).amount], back))
             IN  [balance |-> total,
                  sources |-> m.balances[p].sources \cup back \cup (inputs \ UDsOf(tx))]]

RevertTx(m, id) ==
    LET tx == txs[id].doc
        w == WithoutOutputs(m, id)
    IN  [balances |-> Recreate(w, tx, txs[id].sources_destroyed),
         utxos |-> Over([s \in InputsOf(tx) \ UDsOf(tx) |-> Output(s)], w.utxos),
         dus |-> m.dus \cup {<<s[2], s[3]>> : s \in UDsOf(tx)}]

-----------------------------------------------------------------------------
(* Blocks: a dividend, a transaction, both or neither.                     *)

\* Legal transactions: one or two unspent sources of one key and one base, a
\* transfer, and what is left of them comes back.
Spendable(p) == OwnedBy(p) \ Garbage
SourceSets(p) ==
    {S \in kSubset(1, Spendable(p)) \cup kSubset(2, Spendable(p)) :
        \A s, t \in S : AmountOf(s).base = AmountOf(t).base}

Document(p, S, q, n) ==
    LET total == Total([s \in S |-> AmountOf(s)], S)
        To(key, amount) == [owner |-> key, amount |-> [total EXCEPT !.amount = amount]]
    IN  [inputs |-> [s \in S |-> AmountOf(s)],
         outputs |-> IF n = total.amount THEN <<To(q, n)>>
                                         ELSE <<To(q, n), To(p, total.amount - n)>>]

Documents ==
    {d \in UNION {{Document(p, S, q, n) : S \in SourceSets(p), q \in PubKey, n \in Transfers}
                    : p \in PubKey} :
        \A i \in DOMAIN d.outputs : d.outputs[i].amount.amount > 0}

\* A transaction that a revert has put out of the chain keeps its hash.
Identifier(d) ==
    IF \E id \in DOMAIN txs : txs[id].doc = d THEN CHOOSE id \in DOMAIN txs : txs[id].doc = d
                                              ELSE Cardinality(DOMAIN txs) + 1

\* The base of the dividends never goes down.
Dividend == {Zero} \cup {u \in UD : \A b \in Range(chain) : b.dividend.base <= u.base}

AppendBlock(du, ids) ==
    /\ chain' = Append(chain, [dividend |-> du, txs |-> ids, garbage |-> Garbage])
    /\ past' = Append(past, money)
    /\ UNCHANGED reverts

\* A block without a transaction.
ApplyBlock ==
    /\ ~failed /\ Len(chain) <= MaxHeight
    /\ \E du \in Dividend :
        /\ money' = CreateUD(money, du, Len(chain))
        /\ AppendBlock(du, {})
        /\ UNCHANGED <<txs, failed>>

\* A block with one: the dividend first, then the transaction.
ApplyBlockWithTx ==
    /\ ~failed /\ Len(chain) <= MaxHeight
    /\ \E du \in Dividend, d \in Documents :
        LET m == CreateUD(money, du, Len(chain))
            id == Identifier(d)
        IN  /\ id <= MaxTxs
            /\ IF KnownInputs(m, d)
               THEN /\ money' = WriteTx(m, id, d)
                    /\ txs' = Over(txs, [i \in {id} |->
                                   [doc |-> d, sources_destroyed |-> SourcesDestroyed(m, d)]])
                    /\ AppendBlock(du, {id})
                    /\ UNCHANGED failed
               ELSE failed' = TRUE /\ UNCHANGED <<chain, money, txs, reverts, past>>

\* Undoing the last block: its transaction first, then its dividend.
RevertBlock ==
    LET b == Last(chain)
        Undone(id) == txs[id].doc
        fatal == \E id \in b.txs :
                    \/ ~ Covered(money, id, Undone(id).outputs)
                    \/ ~ KnownInputs(WithoutOutputs(money, id), Undone(id))
        m == IF b.txs = {} THEN money ELSE RevertTx(money, CHOOSE id \in b.txs : TRUE)
    IN  /\ ~failed /\ chain # << >>
        /\ reverts < MaxReverts /\ reverts' = reverts + 1
        /\ IF fatal
           THEN failed' = TRUE /\ UNCHANGED <<chain, money, txs, past>>
           ELSE /\ money' = RevertUD(m, b.dividend, Len(chain) - 1)
                /\ chain' = Front(chain)
                /\ past' = Front(past)
                /\ UNCHANGED <<txs, failed>>

-----------------------------------------------------------------------------

Init ==
    /\ chain = << >>
    /\ money = [balances |-> [p \in PubKey |-> [balance |-> Zero, sources |-> {}]],
                utxos |-> << >>, dus |-> {}]
    /\ txs = << >>
    /\ failed = FALSE /\ reverts = 0
    /\ past = << >>

Next == ApplyBlock \/ ApplyBlockWithTx \/ RevertBlock

Spec == Init /\ [][Next]_vars

-----------------------------------------------------------------------------
(* Properties.                                                             *)

Amount == [amount : Nat, base : Nat]

\* The databases hold what their types allow, and no amount is negative.
TypeOK ==
    /\ \A p \in PubKey : money.balances[p].balance \in Amount
    /\ \A p \in PubKey : \A s \in money.balances[p].sources : s[2] \in DOMAIN txs
    /\ \A s \in DOMAIN money.utxos : money.utxos[s].owner \in PubKey
    /\ money.dus \subseteq Member \X (0..(Len(chain) - 1))
    /\ Len(past) = Len(chain) /\ reverts \in 0..MaxReverts /\ failed \in BOOLEAN

\* The unspent outputs of an address, which balances_db keeps beside its balance,
\* are those that utxos_db has for it: a wallet is never told of another's money.
UtxosIndexed ==
    \A p \in PubKey :
        money.balances[p].sources = {s \in DOMAIN money.utxos : money.utxos[s].owner = p}

\* After any blocks applied and undone, the sources in utxos_db and du_db are what
\* the chain created and nobody spent: no money is spent twice or lost on the way
\* (the outputs that the protocol took from poor addresses stay in utxos_db).
SourcesAsChain ==
    DOMAIN money.utxos \cup {UDSource(d[1], d[2]) : d \in money.dus} = Unspent \cup Lost

\* The three places where a source is written agree with the chain.
SourcesAgree == UtxosIndexed /\ SourcesAsChain

\* No balance is negative.  It never exceeds the sources of its address, and every
\* transaction that spent from it explains a difference of less than the minimum (the
\* remainder is zeroed before the change of the transaction comes back).
BalanceWithinDust == TypeOK /\
    \A p \in PubKey :
        LET held == money.balances[p].sources \cup {UDSource(d[1], d[2]) : d \in {e \in money.dus : e[1] = p}}
            missing == MapThenSumSet(LAMBDA s : Worth(AmountOf(s)), held)
                        - Worth(money.balances[p].balance)
            spending == {i \in DOMAIN chain : \E id \in chain[i].txs :
                            \E s \in InputsOf(txs[id].doc) : Owner(s) = p}
        IN  0 <= missing /\ missing <= (MIN_BALANCE - 1) * Cardinality(spending)

\* Sources that a transaction of the chain destroyed before the last block.
DestroyedBefore == UNION {UNION {txs[id].sources_destroyed : id \in b.txs} : b \in Range(Front(chain))}
DestroyedLast == UNION {txs[id].sources_destroyed : id \in Last(chain).txs}

\* Undoing a block that spent dividends at most gives back, exactly, the balances
\* and sources from before it, those that it was the first to destroy included.
DividendSpendingUndone ==
    [][RevertBlock /\ (\A id \in Last(chain).txs : UDsOf(txs[id].doc) = InputsOf(txs[id].doc))
          /\ DestroyedLast \cap DestroyedBefore = {}
        => ~failed' /\ money' = Last(past)]_vars

\* A source is destroyed by one transaction, which gives it back when it is undone.
DestroyedOnce == chain # << >> => DestroyedLast \cap DestroyedBefore = {}

\* A legal block can be applied, and the last block undone, without a fatal error.
NeverFatal == ~failed
=============================================================================
