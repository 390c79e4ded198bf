------------------------------ MODULE Documents ------------------------------
(***************************************************************************)
(* The documents of the protocol as texts, as JSON and as lines of a       *)
(* block: the crate dubp-documents.                                        *)
(* A text is the sequence of what its newlines separate: a line is a triple *)
(* of the grammar's rule for its value, its label and its value; a text    *)
(* that ends with a newline ends with EmptyLine. A signature is the pair of *)
(* the key and the text it signs, a hash stands for the text it is of:     *)
(* neither can be had from anything else.                                  *)
(***************************************************************************)
EXTENDS UTXOConditions
LOCAL INSTANCE SequencesExt

Line(rule, label, value) == <<rule, label, value>>
EmptyLine == Line("nl", "", "")
Lines(rule, label, values) == [i \in DOMAIN values |-> Line(rule, label, values[i])]
Sign(key, text) == <<key, text>>
HashOf(text) == <<"hash", text>>
Nothing == <<>>       \* None, for a text or a hash

(***************************************************************************)
(* A builder holds the fields of a document; the document adds its text,   *)
(* its signatures and, for a transaction, its hash.                        *)
(***************************************************************************)
IdentityText(f) ==
  << Line("type", "Type", "Identity"), Line("currency", "Currency", f.currency),
     Line("pubkey", "Issuer", f.issuers[1]), Line("uid", "UniqueID", f.username),
     Line("blockstamp", "Timestamp", f.blockstamp), EmptyLine >>

MembershipText(f) ==
  << Line("type", "Type", "Membership"), Line("currency", "Currency", f.currency),
     Line("pubkey", "Issuer", f.issuers[1]), Line("blockstamp", "Block", f.blockstamp),
     Line("membership", "Membership", f.membership), Line("uid", "UserID", f.username),
     Line("blockstamp", "CertTS", f.identity_blockstamp), EmptyLine >>

CertificationText(f) ==
  << Line("type", "Type", "Certification"), Line("currency", "Currency", f.currency),
     Line("pubkey", "Issuer", f.issuers[1]), Line("pubkey", "IdtyIssuer", f.target),
     Line("uid", "IdtyUniqueID", f.username),
     Line("blockstamp", "IdtyTimestamp", f.identity_blockstamp),
     Line("ed25519_sig", "IdtySignature", f.identity_sig),
     Line("blockstamp", "CertTimestamp", f.blockstamp), EmptyLine >>

RevocationText(f) ==
  << Line("type", "Type", "Revocation"), Line("currency", "Currency", f.currency),
     Line("pubkey", "Issuer", f.issuers[1]), Line("uid", "IdtyUniqueID", f.username),
     Line("blockstamp", "IdtyTimestamp", f.identity_blockstamp),
     Line("ed25519_sig", "IdtySignature", f.identity_sig), EmptyLine >>

\* Inputs and unlocks are opaque; an output is its amount and the text of its conditions.
OutputText(o) == <<o.amount, UTXOText(o.conditions)>>
OutputTexts(outputs) == [i \in DOMAIN outputs |-> OutputText(outputs[i])]

TransactionText(f) ==
  << Line("type", "Type", "Transaction"), Line("currency", "Currency", f.currency),
     Line("blockstamp", "Blockstamp", f.blockstamp), Line("tx_locktime", "Locktime", f.locktime) >>
  \o Lines("pubkey", "Issuers", f.issuers) \o Lines("tx_input", "Inputs", f.inputs)
  \o Lines("tx_unlock", "Unlocks", f.unlocks)
  \o Lines("tx_output", "Outputs", OutputTexts(f.outputs))
  \o << Line("tx_comment", "Comment", f.comment), EmptyLine >>

GenerateText(f) == CASE f.type = "Identity" -> IdentityText(f)
                     [] f.type = "Membership" -> MembershipText(f)
                     [] f.type = "Certification" -> CertificationText(f)
                     [] f.type = "Revocation" -> RevocationText(f)
                     [] f.type = "Transaction" -> TransactionText(f)

Document(f, text, sigs, hash) == [fields |-> f, text |-> text, signatures |-> sigs, hash |-> hash]
BuildWithSignature(f, sigs, hash) == Document(f, GenerateText(f), sigs, hash)
BuildAndSign(f, keys) ==
  BuildWithSignature(f, [i \in DOMAIN keys |-> Sign(keys[i], GenerateText(f))], Nothing)

(***************************************************************************)
(* The parsers of texts collect the values of each rule in the order in    *)
(* which they come, and place them by position.                            *)
(***************************************************************************)
Of(rule, text) ==
  LET lines == SelectSeq(text, LAMBDA l : l[1] = rule) IN [i \in DOMAIN lines |-> lines[i][3]]

ParseIdentity(text) ==
  [type |-> "Identity", currency |-> Of("currency", text)[1], issuers |-> Of("pubkey", text),
   username |-> Of("uid", text)[1], blockstamp |-> Of("blockstamp", text)[1]]

ParseMembership(text) ==
  [type |-> "Membership", currency |-> Of("currency", text)[1], issuers |-> Of("pubkey", text),
   blockstamp |-> Of("blockstamp", text)[1], membership |-> Of("membership", text)[1],
   username |-> Of("uid", text)[1], identity_blockstamp |-> Of("blockstamp", text)[2]]

ParseCertification(text) ==
  [type |-> "Certification", currency |-> Of("currency", text)[1],
   issuers |-> << Of("pubkey", text)[1] >>, target |-> Of("pubkey", text)[2],
   username |-> Of("uid", text)[1], identity_blockstamp |-> Of("blockstamp", text)[1],
   identity_sig |-> Of("ed25519_sig", text)[1], blockstamp |-> Of("blockstamp", text)[2]]

ParseRevocation(text) ==
  [type |-> "Revocation", currency |-> Of("currency", text)[1], issuers |-> Of("pubkey", text),
   username |-> Of("uid", text)[1], identity_blockstamp |-> Of("blockstamp", text)[1],
   identity_sig |-> Of("ed25519_sig", text)[1]]

ParseOutputs(values, Read(_)) ==
  [i \in DOMAIN values |-> [amount |-> values[i][1], conditions |-> Read(values[i][2])]]

ParseTransaction(text) ==
  [type |-> "Transaction", currency |-> Of("currency", text)[1],
   blockstamp |-> Of("blockstamp", text)[1], locktime |-> Of("tx_locktime", text)[1],
   issuers |-> Of("pubkey", text), inputs |-> Of("tx_input", text),
   unlocks |-> Of("tx_unlock", text),
   outputs |-> ParseOutputs(Of("tx_output", text), FromRawText),
   comment |-> Of("tx_comment", text)[1]]

\* DUBPDocument::parse: the grammar tells the type of the document.
ParseFields(text) == LET type == Of("type", text)[1]
                     IN CASE type = "Identity" -> ParseIdentity(text)
                          [] type = "Membership" -> ParseMembership(text)
                          [] type = "Certification" -> ParseCertification(text)
                          [] type = "Revocation" -> ParseRevocation(text)
                          [] type = "Transaction" -> ParseTransaction(text)

\* How many signatures of the text belong to the document it cites.
CitedSigs(fields) == IF fields.type \in {"Certification", "Revocation"} THEN 1 ELSE 0

\* A transaction takes all the signatures; the other parsers take one, and panic without it.
ParsedSigs(text) ==
  LET fields == ParseFields(text)
      sigs == Of("ed25519_sig", text)
  IN CASE fields.type = "Transaction" -> sigs
       [] fields.type \in {"Identity", "Membership"} -> << Last(sigs) >>
       [] OTHER -> << sigs[CitedSigs(fields) + 1] >>

\* The grammar: one signature at most but for a transaction; every output can be read.
Grammatical(text) ==
  LET fields == ParseFields(text)
  IN IF fields.type = "Transaction"
     THEN \A i \in DOMAIN fields.outputs : fields.outputs[i].conditions # NoOutput
     ELSE Len(Of("ed25519_sig", text)) <= CitedSigs(fields) + 1

ParserPanics(text) ==
  LET fields == ParseFields(text)
  IN fields.type # "Transaction" /\ Len(Of("ed25519_sig", text)) <= CitedSigs(fields)

ParseDocument(text) == Document(ParseFields(text), text, ParsedSigs(text), Nothing)

(***************************************************************************)
(* Signatures and hashes.                                                  *)
(***************************************************************************)
\* A mistake: the newline before the signatures goes with them.
TextCutShort(doc) == SubSeq(doc.text, 1, Len(doc.text) - Len(doc.signatures))
\* as_text_without_signature: one line is taken from the end for each signature, the
\* newline before the first of them stays.
TextWithoutSignature(doc) ==
  SubSeq(doc.text, 1, Len(doc.text) - Len(doc.signatures)) \o <<EmptyLine>>

VerifySignatures(doc) ==
  CASE Len(doc.fields.issuers) # Len(doc.signatures) -> "IncompletePairs"
    [] Len(doc.fields.issuers) = Len(doc.signatures)
       /\ \A i \in DOMAIN doc.signatures :
            doc.signatures[i] = Sign(doc.fields.issuers[i], TextWithoutSignature(doc)) -> "Valid"
    [] OTHER -> "Invalid"

\* compute_hash: the hash of the text followed by the signatures. Without its text a document
\* cannot be hashed (a fatal error): only reducing takes it away, and no reduced copy is hashed.
TransactionHash(doc) == HashOf(doc.text \o Lines("ed25519_sig", "", doc.signatures))
ComputeHash(doc) == [doc EXCEPT !.hash = TransactionHash(doc)]
\* A mistake: the signatures are forgotten.
GetHashOfText(doc) == IF doc.hash = Nothing THEN HashOf(doc.text) ELSE doc.hash
\* get_hash: the hash the document came with is taken for its hash.
GetHash(doc) == IF doc.hash = Nothing THEN TransactionHash(doc) ELSE doc.hash

ReduceOutputs(outputs) ==
  [i \in DOMAIN outputs |-> [outputs[i] EXCEPT !.conditions = ReduceUTXO(@)]]

ReduceDocument(doc) ==
  CASE doc.fields.type \in {"Identity", "Membership"} -> [doc EXCEPT !.text = Nothing]
    [] doc.fields.type = "Transaction" ->
         [doc EXCEPT !.text = Nothing, !.hash = Nothing, !.fields.outputs = ReduceOutputs(@)]
    [] OTHER -> doc

(***************************************************************************)
(* Compact documents: the lines of a block.                                *)
(***************************************************************************)
CompactIdentity(f, sig) == <<f.issuers[1], sig, f.blockstamp, f.username>>
CompactMembership(f, sig) == <<f.issuers[1], sig, f.blockstamp, f.identity_blockstamp, f.username>>
CompactCertification(f, sig) == <<f.issuers[1], f.target, f.blockstamp[1], sig>>
CompactRevocation(f, sig) == <<f.issuers[1], sig>>
CompactTransaction(doc) ==
  LET f == doc.fields
  IN <<f.locktime, f.blockstamp, f.issuers, f.inputs, f.unlocks, OutputTexts(f.outputs), f.comment,
       doc.signatures>>

\* TextDocumentFormat: a document read from a block is already compact.
Compact(doc) ==
  IF "compact" \in DOMAIN doc THEN doc.compact
  ELSE CASE doc.fields.type = "Identity" -> CompactIdentity(doc.fields, doc.signatures[1])
         [] doc.fields.type = "Membership" -> CompactMembership(doc.fields, doc.signatures[1])
         [] doc.fields.type = "Certification" -> CompactCertification(doc.fields, doc.signatures[1])
         [] doc.fields.type = "Revocation" -> CompactRevocation(doc.fields, doc.signatures[1])
         [] doc.fields.type = "Transaction" -> CompactTransaction(doc)

ReadCompactIdentity(currency, e) ==
  BuildWithSignature([type |-> "Identity", currency |-> currency, issuers |-> <<e[1]>>,
                      username |-> e[4], blockstamp |-> e[3]], <<e[2]>>, Nothing)

\* A mistake: the two blockstamps of a membership swapped.
ReadSwappedMembership(currency, membership, e) ==
  BuildWithSignature([type |-> "Membership", currency |-> currency, issuers |-> <<e[1]>>,
                      blockstamp |-> e[4], membership |-> membership, username |-> e[5],
                      identity_blockstamp |-> e[3]], <<e[2]>>, Nothing)
ReadCompactMembership(currency, membership, e) ==
  BuildWithSignature([type |-> "Membership", currency |-> currency, issuers |-> <<e[1]>>,
                      blockstamp |-> e[3], membership |-> membership, username |-> e[5],
                      identity_blockstamp |-> e[4]], <<e[2]>>, Nothing)

(***************************************************************************)
(* Transactions in JSON.                                                   *)
(***************************************************************************)
TransactionJson(doc) ==
  LET f == doc.fields
  IN [currency |-> f.currency, blockstamp |-> f.blockstamp, locktime |-> f.locktime,
      issuers |-> f.issuers, inputs |-> f.inputs, unlocks |-> f.unlocks,
      outputs |-> OutputTexts(f.outputs), comment |-> f.comment, signatures |-> doc.signatures,
      hash |-> doc.hash]

\* The synchronisation reads the currency of the transaction, WS2P v1 puts "g1" in its
\* place; the hash is taken from the JSON, and only WS2P v1 insists on one.
ReadTransactionJson(currency, j) ==
  BuildWithSignature([type |-> "Transaction", currency |-> currency, blockstamp |-> j.blockstamp,
                      locktime |-> j.locktime, issuers |-> j.issuers, inputs |-> j.inputs,
                      unlocks |-> j.unlocks, outputs |-> ParseOutputs(j.outputs, FromJson),
                      comment |-> j.comment], j.signatures, j.hash)

TransactionReadable(j) ==
  \A i \in DOMAIN j.outputs : FromJson(j.outputs[i][2]) # NoOutput
=============================================================================
