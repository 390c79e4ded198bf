---------------------------- MODULE MCDocuments ----------------------------
(***************************************************************************)
(* An identity, memberships in and out, a certification, a revocation, and *)
(* transactions of one and of two issuers with the conditions other        *)
(* programs write: with brackets or bare, chains of three, one operator    *)
(* inside brackets of the other. Everything is of the currency g1, but for *)
(* a transaction that comes with the mixed conditions.                     *)
(***************************************************************************)
EXTENDS BlockDocuments

CONSTANT GroupSet   \* which groups of conditions: "chains" or "mixed"

Stamp1 == <<1, "H1">>
Stamp2 == <<2, "H2">>
AnIdentity == [type |-> "Identity", currency |-> "g1", issuers |-> <<"A">>, username |-> "a",
               blockstamp |-> Stamp1]
Target == [AnIdentity EXCEPT !.issuers = <<"B">>, !.username = "b"]
IdtySig == Sign("B", IdentityText(Target))

Memberships ==
  {[type |-> "Membership", currency |-> "g1", issuers |-> <<"A">>, blockstamp |-> Stamp2,
    membership |-> m, username |-> "a", identity_blockstamp |-> Stamp1] : m \in {"IN", "OUT"}}
ACertification ==
  [type |-> "Certification", currency |-> "g1", issuers |-> <<"A">>, target |-> "B",
   username |-> "b", identity_blockstamp |-> Stamp1, identity_sig |-> IdtySig, blockstamp |-> Stamp2]
ARevocation ==
  [type |-> "Revocation", currency |-> "g1", issuers |-> <<"B">>, username |-> "b",
   identity_blockstamp |-> Stamp1, identity_sig |-> IdtySig]

C(c) == Single(c)
And == Pair("&&", C("sigA"), C("sigB"))
Or3 == Pair("||", C("sigA"), Pair("||", C("sigB"), C("csv")))
Chains == {C("sigA"), And, Brackets(And), Or3, Pair("||", Brackets(And), C("csv")),
           Brackets(Pair("&&", C("csv"), Brackets(Or3)))}
\* One operator next to the other, without brackets.
Mixed == {Pair("||", And, C("csv"))}
Groups == IF GroupSet = "chains" THEN Chains ELSE Chains \cup Mixed

Transaction(issuers, g) ==
  [type |-> "Transaction", currency |-> "g1", blockstamp |-> Stamp1, locktime |-> 0,
   issuers |-> issuers, inputs |-> <<"input">>, unlocks |-> <<"0:SIG(0)">>,
   outputs |-> <<[amount |-> 1, conditions |-> UTXO(<<>>, g)],
                 [amount |-> 2, conditions |-> UTXO(<<>>, C("sigB"))]>>,
   comment |-> "comment"]

MCFields == {AnIdentity, ACertification, ARevocation} \cup Memberships
            \cup {Transaction(<<"A">>, g) : g \in Groups} \cup {Transaction(<<"A", "B">>, And)}
            \cup IF GroupSet = "mixed"
                 THEN {[Transaction(<<"A">>, C("sigA")) EXCEPT !.currency = "g1-test"]} ELSE {}
MCSigningKeys == {<<>>, <<"A">>, <<"B">>, <<"A", "B">>, <<"B", "A">>}
=============================================================================
