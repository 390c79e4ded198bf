--------------------------- MODULE BlockDocuments ---------------------------
(***************************************************************************)
(* The life of a document and of the block that carries it: an author      *)
(* signs the document; it is read again from its text; a block is made     *)
(* with it, hashed and signed; a node reads the block from JSON, checks    *)
(* its hashes, stores it, may undo it, return to it, and serve it.         *)
(* The node is documents/block.rs, the two JSON parsers, and what          *)
(* check_and_apply_block, apply_valid_block, revert_block and the writers  *)
(* do to the document of the block; what blocks do to the web of trust and *)
(* to the sources is in ApplyBlock and Currency.                           *)
(***************************************************************************)
EXTENDS Documents
LOCAL INSTANCE SequencesExt

CONSTANTS
  Fields,        \* what authors write: the fields of builders
  SigningKeys,   \* the sequences of keys they sign with
  Numbers,       \* numbers of blocks
  Dividends,     \* dividends of blocks; NoDividend is None
  Nonces,        \* nonces
  NoDividend,
  Undecodable    \* an entry of a block with a key or a signature that cannot be decoded

ASSUME BlocksAssumption == Numbers \subseteq Nat /\ Dividends \subseteq Nat \cup {NoDividend}

Sections == {"identities", "joiners", "actives", "leavers", "revoked", "certifications", "transactions"}
Parsers == {"sync", "ws2p_v1"}

VARIABLES
  wrote,    \* [fields, keys] of the author, or <<>>
  doc,      \* the document as the author, or the reader of its text, has it; or <<>>
  way,      \* "built" or "text": where doc comes from
  newline,  \* whether the text read ended with a newline
  block,    \* the block being made; or <<>>
  made,     \* the inner text of the block when its inner hash was last computed
  received, \* the block a node has read from JSON; or <<>>
  forked,   \* its copy in fork_blocks_db; or <<>>
  stored,   \* its copy in blockchain_db; or <<>>
  txs,      \* tx_db: a set of [hash, doc]
  fatal     \* the line on which the node died, or ""

vars == <<wrote, doc, way, newline, block, made, received, forked, stored, txs, fatal>>
making == <<wrote, doc, way, newline>>
node == <<received, forked, stored, txs, fatal>>

(***************************************************************************)
(* Blocks.                                                                 *)
(***************************************************************************)
Sectioned(d) == CASE d.fields.type = "Identity" -> {"identities"}
                  [] d.fields.type = "Membership" ->
                       IF d.fields.membership = "IN" THEN {"joiners", "actives"} ELSE {"leavers"}
                  [] d.fields.type = "Revocation" -> {"revoked"}
                  [] d.fields.type = "Certification" -> {"certifications"}
                  [] d.fields.type = "Transaction" -> {"transactions"}

NewBlock(section, d, number, dividend) ==
  [currency |-> d.fields.currency, issuer |-> d.fields.issuers[1], number |-> number,
   dividend |-> dividend, previous |-> "previous",
   content |-> [s \in Sections |-> IF s = section THEN <<d>> ELSE <<>>],
   inner_hash |-> Nothing, nonce |-> 0, signature |-> Nothing, hash |-> Nothing, signed |-> Nothing]

(* A transaction of a block may be replaced by its hash: such an entry is  *)
(* [tx_hash |-> hash], and the inner text leaves it out.                   *)
IsTxHash(d) == "tx_hash" \in DOMAIN d
CompactSection(b, s) ==
  LET docs == SelectSeq(b.content[s], LAMBDA d : ~IsTxHash(d))
  IN [i \in DOMAIN docs |-> Compact(docs[i])]

\* generate_compact_inner_text: a dividend of zero is not written, nor is the previous
\* block in the first block. The other lines of the header (version, difficulty, times,
\* counts, parameters) are copied by every parser as the number is, and are left out.
InnerText(b) ==
  [currency |-> b.currency, number |-> b.number, issuer |-> b.issuer,
   dividend |-> IF b.dividend = NoDividend THEN 0 ELSE b.dividend,
   previous |-> IF b.number > 0 THEN b.previous ELSE "",
   content |-> [s \in Sections |-> CompactSection(b, s)]]

WillHashed(b) == <<b.inner_hash, b.nonce>>
InnerHashed(b) == [b EXCEPT !.inner_hash = HashOf(InnerText(b))]
Filled(b, nonce) == [b EXCEPT !.nonce = nonce, !.signed = <<b.inner_hash, nonce>>]
Signed(b, key) == [b EXCEPT !.signed = WillHashed(b), !.signature = Sign(key, WillHashed(b))]
BlockHash(b) == HashOf(<<WillHashed(b), b.signature>>)
Hashed(b) == [b EXCEPT !.hash = BlockHash(b)]
VerifyInnerHash(b) == b.inner_hash # Nothing /\ b.inner_hash = HashOf(InnerText(b))
VerifyHash(b) == b.hash # Nothing /\ b.hash = BlockHash(b)


\* reduce: what TxDocOrTxHash::reduce returns is dropped, so the transactions stay whole.
ReduceBlock(b) ==
  [b EXCEPT !.inner_hash = Nothing, !.signed = Nothing,
            !.content = [s \in Sections |->
              IF s \in {"identities", "joiners", "actives", "leavers"}
              THEN [i \in DOMAIN @[s] |-> ReduceDocument(@[s][i])] ELSE @[s]]]

(***************************************************************************)
(* Blocks in JSON. Entries are compact documents, transactions are objects. *)
(* Another program may write an entry otherwise: with too few elements, or *)
(* with a key or a signature that cannot be decoded.                       *)
(***************************************************************************)
TooShort == <<>>
Damages == {TooShort, Undecodable}
JsonEntry(s, d) == IF s = "transactions" THEN TransactionJson(d) ELSE Compact(d)
BlockJson(b, dividend, inner_hash) ==
  [currency |-> b.currency, issuer |-> b.issuer, number |-> b.number, dividend |-> dividend, previous |-> b.previous,
   content |-> [s \in Sections |-> [i \in DOMAIN b.content[s] |-> JsonEntry(s, b.content[s][i])]],
   inner_hash |-> inner_hash, nonce |-> b.nonce, signature |-> b.signature, hash |-> b.hash]
PublishedJson(b) == BlockJson(b, b.dividend, b.inner_hash)
\* What this program serves: the dividend is always null.
ServedJson(b) == BlockJson(b, NoDividend, b.inner_hash)
DamagedJson(j, s, damage) == [j EXCEPT !.content[s] = [i \in DOMAIN @ |-> damage]]

Membership(s) == IF s = "leavers" THEN "OUT" ELSE "IN"
ReadEntry(parser, currency, s, e) ==
  CASE s = "identities" -> ReadCompactIdentity(currency, e)
    [] s \in {"joiners", "actives", "leavers"} -> ReadCompactMembership(currency, Membership(s), e)
    [] s \in {"revoked", "certifications"} -> [compact |-> e]
    [] s = "transactions" -> ReadTransactionJson(IF parser = "ws2p_v1" THEN "g1" ELSE e.currency, e)

\* Certifications and revocations that are too short are left out by both parsers,
\* memberships by WS2P v1 alone.
LeftOut(parser) == IF parser = "sync" THEN {"revoked", "certifications"}
                   ELSE {"revoked", "certifications", "joiners", "actives", "leavers"}
ReadSection(parser, j, s) ==
  LET entries == SelectSeq(j.content[s], LAMBDA e : e # TooShort)
  IN [i \in DOMAIN entries |-> ReadEntry(parser, j.currency, s, entries[i])]

\* Both parsers index the elements of an identity without counting them; where they count,
\* and leave out, they unwrap what is decoded.
ReadPanics(parser, j) ==
  \/ TooShort \in ToSet(j.content["identities"])
  \/ \E s \in LeftOut(parser) : Undecodable \in ToSet(j.content[s])

\* A null inner hash, an entry that is damaged in another way and an output that cannot be
\* read make the whole block unreadable; so does, for WS2P v1, a transaction without hash.
Readable(parser, j) ==
  /\ j.inner_hash # Nothing
  /\ \A s \in Sections \ LeftOut(parser) : Damages \cap ToSet(j.content[s]) = {}
  /\ \A t \in ToSet(j.content["transactions"]) :
       TransactionReadable(t) /\ (parser = "ws2p_v1" => t.hash # Nothing)

ParseBlock(parser, j) ==
  [currency |-> j.currency, issuer |-> j.issuer, number |-> j.number, dividend |-> j.dividend, previous |-> j.previous,
   content |-> [s \in Sections |-> ReadSection(parser, j, s)],
   inner_hash |-> j.inner_hash, nonce |-> j.nonce, signature |-> j.signature, hash |-> j.hash,
   signed |-> IF parser = "sync" THEN Nothing ELSE <<j.inner_hash, j.nonce>>]
-----------------------------------------------------------------------------
Init ==
  /\ wrote = <<>> /\ doc = <<>> /\ way = "built" /\ newline = FALSE
  /\ block = <<>> /\ made = <<>>
  /\ received = <<>> /\ forked = <<>> /\ stored = <<>> /\ txs = {} /\ fatal = ""

\* An author fills a builder and signs, with the right keys or not.
Write(f, keys) ==
  /\ wrote = <<>>
  /\ wrote' = [fields |-> f, keys |-> keys] /\ doc' = BuildAndSign(f, keys)
  /\ UNCHANGED <<way, newline, block, made, node>>

\* The text of the document with its signatures, ended by a newline or not.
SignedText(d, nl) ==
  Front(d.text) \o Lines("ed25519_sig", "", d.signatures)
  \o IF nl \/ d.signatures = <<>> THEN <<EmptyLine>> ELSE <<>>

\* DUBPDocument::parse of that text: an error gives no document, an unsigned one panics.
ReadText(nl) ==
  /\ doc # <<>> /\ way = "built" /\ block = <<>>
  /\ LET text == SignedText(doc, nl)
     IN /\ doc' = IF Grammatical(text) /\ ~ParserPanics(text) THEN ParseDocument(text) ELSE <<>>
        /\ fatal' = IF ParserPanics(text) THEN "from_pest_pair" ELSE fatal
  /\ way' = "text" /\ newline' = nl
  /\ UNCHANGED <<wrote, block, made, received, forked, stored, txs>>

HashTransaction ==
  /\ doc # <<>> /\ block = <<>> /\ doc.fields.type = "Transaction" /\ doc.hash = Nothing
  /\ doc' = ComputeHash(doc)
  /\ UNCHANGED <<wrote, way, newline, block, made, node>>

\* A block of the author, with this document; its functions are called in any order that
\* their expectations allow.
Compose(section, number, dividend) ==
  /\ doc # <<>> /\ block = <<>> /\ doc.signatures # <<>>
  /\ block' = NewBlock(section, doc, number, dividend)
  /\ UNCHANGED <<making, made, node>>

Unpublished == block # <<>> /\ received = <<>> /\ stored = <<>> /\ forked = <<>> /\ fatal = ""

ComputeInnerHash ==
  /\ Unpublished
  /\ block' = InnerHashed(block) /\ made' = InnerText(block)
  /\ UNCHANGED <<making, node>>

FillInnerHashAndNonceStr(nonce) ==
  /\ Unpublished /\ block.inner_hash # Nothing
  /\ block' = Filled(block, nonce)
  /\ UNCHANGED <<making, made, node>>

SignBlock ==
  /\ Unpublished /\ block.inner_hash # Nothing
  /\ block' = Signed(block, block.issuer)
  /\ UNCHANGED <<making, made, node>>

ComputeBlockHash ==
  /\ Unpublished /\ block.inner_hash # Nothing /\ block.signature # Nothing
  /\ block' = Hashed(block)
  /\ UNCHANGED <<making, made, node>>

\* A node reads the block that its author publishes; one section may be damaged.
Receive(parser, damaged, damage) ==
  /\ Unpublished /\ block.hash # Nothing
  /\ LET j == IF damaged \in Sections THEN DamagedJson(PublishedJson(block), damaged, damage)
              ELSE PublishedJson(block)
     IN \/ /\ ReadPanics(parser, j) /\ fatal' = "parse_json_block" /\ UNCHANGED received
        \/ /\ ~ReadPanics(parser, j) /\ Readable(parser, j)
           /\ received' = ParseBlock(parser, j) /\ UNCHANGED fatal
  /\ UNCHANGED <<making, block, made, forked, stored, txs>>

(***************************************************************************)
(* check_and_apply_block of b: the hashes, then apply_valid_block, whose   *)
(* block is reduced and stored, in blockchain_db and in fork_blocks_db.    *)
(***************************************************************************)
WrittenTxs(b) ==
  LET docs == ToSet(SelectSeq(b.content["transactions"], LAMBDA d : ~IsTxHash(d)))
  IN {[hash |-> GetHash(d), doc |-> ReduceDocument(d)] : d \in docs}

\* A mistake: the hash of the block without its inner hash.
VerifyHashOnly(b) == VerifyHash(b)
VerifyBlockHashs(b) == VerifyInnerHash(b) /\ VerifyHash(b)

CheckAndApply(b) ==
  \/ /\ b.inner_hash = Nothing
     /\ fatal' = "verify_block_hashs" /\ UNCHANGED <<stored, forked, txs>>
  \/ /\ b.inner_hash # Nothing /\ VerifyBlockHashs(b)
     /\ stored' = ReduceBlock(b) /\ forked' = ReduceBlock(b)
     /\ txs' = txs \cup WrittenTxs(b) /\ UNCHANGED fatal
  \/ /\ b.inner_hash # Nothing /\ ~VerifyBlockHashs(b)
     /\ UNCHANGED <<stored, forked, txs, fatal>>

\* The block is the next one of the block-chain.
ApplyReceived ==
  /\ received # <<>> /\ stored = <<>> /\ forked = <<>> /\ fatal = ""
  /\ CheckAndApply(received) /\ received' = <<>>
  /\ UNCHANGED <<making, block, made>>

\* The block is of another branch: it is kept as it was received.
KeepFork ==
  /\ received # <<>> /\ stored = <<>> /\ forked = <<>> /\ fatal = ""
  /\ received.inner_hash # Nothing /\ VerifyBlockHashs(received)
  /\ forked' = received /\ received' = <<>>
  /\ UNCHANGED <<making, block, made, stored, txs, fatal>>

\* Its branch becomes the main one: apply_rollback takes it from fork_blocks_db.
ApplyFork ==
  /\ forked # <<>> /\ stored = <<>> /\ fatal = ""
  /\ CheckAndApply(forked)
  /\ UNCHANGED <<making, block, made, received>>

\* The branch loses: revert_block wants every transaction as a hash; the block leaves
\* blockchain_db, fork_blocks_db keeps its copy.
RevertBlock ==
  /\ stored # <<>> /\ fatal = ""
  /\ IF \A d \in ToSet(stored.content["transactions"]) : IsTxHash(d)
     THEN stored' = <<>> /\ fatal' = fatal
     ELSE fatal' = "revert_block" /\ stored' = stored
  /\ UNCHANGED <<making, block, made, received, forked, txs>>

Next ==
  \/ \E f \in Fields, keys \in SigningKeys : Write(f, keys)
  \/ \E nl \in BOOLEAN : ReadText(nl)
  \/ HashTransaction
  \/ \E n \in Numbers, dividend \in Dividends :
       doc # <<>> /\ \E s \in Sectioned(doc) : Compose(s, n, dividend)
  \/ ComputeInnerHash
  \/ \E nonce \in Nonces : FillInnerHashAndNonceStr(nonce)
  \/ SignBlock \/ ComputeBlockHash
  \/ \E parser \in Parsers, s \in Sections \cup {"none"}, d \in Damages : Receive(parser, s, d)
  \/ ApplyReceived \/ KeepFork \/ ApplyFork \/ RevertBlock

Spec == Init /\ [][Next]_vars
-----------------------------------------------------------------------------
(***************************************************************************)
(* Properties.                                                             *)
(***************************************************************************)
Copies == {b \in {received, forked, stored} : b # <<>>}
\* The full documents in hand: the author's or reader's, and those the copies of the block hold.
Full(b, s) == {d \in ToSet(b.content[s]) : "fields" \in DOMAIN d}
FullDocs == {d \in {doc} : d # <<>>} \cup UNION {Full(b, s) : b \in Copies, s \in Sections}
Transactions == {d \in FullDocs \cup {t.doc : t \in txs} : d.fields.type = "Transaction"}

\* Every variable has its kind, and what is stored is a block whose hashes were computed.
TypeOK ==
  /\ wrote # <<>> => wrote \in [fields : Fields, keys : SigningKeys]
  /\ way \in {"built", "text"} /\ newline \in BOOLEAN
  /\ fatal \in {"", "from_pest_pair", "parse_json_block", "verify_block_hashs", "revert_block"}
  /\ \A b \in Copies : b.hash # Nothing /\ b.number \in Numbers /\ DOMAIN b.content = Sections
  /\ stored # <<>> => forked # <<>> /\ stored.inner_hash = Nothing

\* A document says what its author wrote, whether it is read from its text, from a line of a
\* block or from JSON (the parsers place two keys, two blockstamps and two signatures by position).
Wording(f) == IF f.type = "Transaction" THEN [f EXCEPT !.outputs = OutputTexts(@)] ELSE f
ReadAsWritten == \A d \in FullDocs : Wording(d.fields) = Wording(wrote.fields)

\* A document enters a block with the same line, whichever way it came to the author of the block
\* (to_compact_document of a built and of a parsed document).
SameInBlock == doc # <<>> /\ doc.signatures # <<>> =>
  Compact(doc) = Compact(BuildAndSign(wrote.fields, wrote.keys))

WellEnded(d) == IF d = doc /\ way = "text" THEN ~newline ELSE Len(d.signatures) = 1
SignersOf(d) == SubSeq(wrote.keys, 1, Len(d.signatures))
\* A document is valid when, and only when, its issuers signed it (verify_signatures on what
\* as_text_without_signature leaves). Two kinds of documents escape: a text that ends with a newline,
\* and a transaction with several signatures that was not read from its text.
ValidIsSigned ==
  \A d \in FullDocs : d.text # Nothing /\ WellEnded(d) =>
    (VerifySignatures(d) = "Valid" <=> SignersOf(d) = wrote.fields.issuers)

\* A transaction has one hash, for its author, for both parsers and in tx_db, where the hash is the
\* key; a transaction read from its text is another matter (its signatures are hashed twice).
TxHashIsShared ==
  way = "built" /\ Transactions # {} =>
    LET hashes == {d.hash : d \in Transactions} \cup {t.hash : t \in txs}
    IN hashes \ {Nothing} \subseteq {TransactionHash(BuildAndSign(wrote.fields, wrote.keys))}

\* The text of an output survives reading, reducing and storing: it is what hashes cover.
OutputsKeepTheirText ==
  \A d \in Transactions : OutputTexts(d.fields.outputs) = OutputTexts(wrote.fields.outputs)

\* The conditions a node works with let an output be spent exactly when those its author wrote do.
ConditionsAsWritten ==
  \A d \in Transactions : \A i \in DOMAIN d.fields.outputs, met \in SUBSET Conditions :
    Spendable(d.fields.outputs[i].conditions.conditions, met)
      <=> Spendable(wrote.fields.outputs[i].conditions.conditions, met)

\* A block that a node keeps, on its chain or in a fork, holds all that its author hashed: what a
\* parser left out or misplaced is seen by verify_block_hashs.
AcceptedIsWhole == \A b \in {forked, stored} \ {<<>>} : InnerText(b) = made

\* A stored block has been reduced, and still verifies once revert_block has computed its inner hash
\* again (revert_block.rs:84): reducing takes nothing that the hash covers.
ReducedIsIntact == stored # <<>> => VerifyHash(InnerHashed(stored))

\* All forms of a document say the same: text, line of a block, JSON, reduced.
FormsAgree == TypeOK /\ ReadAsWritten /\ SameInBlock /\ OutputsKeepTheirText

\* What a node keeps of a block is what its author hashed, before and after it is reduced.
KeptIsWhole == AcceptedIsWhole /\ ReducedIsIntact

(***************************************************************************)
(* What the code does not guarantee.                                       *)
(***************************************************************************)
\* Texts that end with a newline and transactions of several issuers are verified too.
AlwaysValidIsSigned ==
  \A d \in FullDocs : d.text # Nothing /\ SignersOf(d) = wrote.fields.issuers =>
    VerifySignatures(d) = "Valid"
\* A transaction is of the currency that its author wrote.
CurrencyIsKept == \A d \in Transactions : d.fields.currency = wrote.fields.currency
\* A transaction read from its text has the hash that its author computes.
HashIsShared ==
  \A t \in txs : t.hash = TransactionHash(BuildAndSign(wrote.fields, wrote.keys))
\* A document that is not signed is refused, not fatal.
UnsignedIsRefused == fatal # "from_pest_pair"
\* Nor is a block with a damaged entry.
DamageIsRefused == fatal # "parse_json_block"
\* A block can be undone, and its branch can be returned to.
RevertIsPossible == fatal # "revert_block"
ReturnIsPossible == fatal # "verify_block_hashs"
\* A block that a node serves can be read by its peer.
ServedIsRead == stored # <<>> => Readable("ws2p_v1", ServedJson(stored))
\* A block that a node accepts is signed by its issuer.
AcceptedIsSigned == \A b \in {forked, stored} \ {<<>>} :
  b.signature = Sign(b.issuer, <<HashOf(InnerText(b)), b.nonce>>)
=============================================================================
