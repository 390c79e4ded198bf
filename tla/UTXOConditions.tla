--------------------------- MODULE UTXOConditions ---------------------------
(***************************************************************************)
(* The conditions under which the output of a transaction can be spent:    *)
(* how documents/transaction.rs writes them, reads them and stores them.   *)
(* A text is a sequence of tokens: brackets, the two operators, and, for   *)
(* each single condition c, a token c that stands for the text up to its   *)
(* closing bracket (SIG(key, XHX(hash, CSV(duration or CLTV(timestamp).    *)
(***************************************************************************)
EXTENDS Naturals, Sequences
LOCAL INSTANCE SequencesExt

CONSTANT Conditions   \* the single conditions

(* UTXOConditionsGroup: Single, Brackets, And ("&&") and Or ("||").        *)
Single(c) == <<"single", c>>
Brackets(g) == <<"brackets", g>>
Pair(op, left, right) == <<op, left, right>>

\* The text of a group: the operators are written bare, only Brackets writes brackets.
RECURSIVE GroupText(_)
GroupText(g) == CASE g[1] = "single" -> <<g[2], ")">>
                  [] g[1] = "brackets" -> <<"(">> \o GroupText(g[2]) \o <<")">>
                  [] OTHER -> GroupText(g[2]) \o <<g[1]>> \o GroupText(g[3])

\* A mistake: what is between the first and the last group is lost.
ChainEnds(op, groups) == Pair(op, Head(groups), Last(groups))
\* new_and_chain, new_or_chain: the last two groups are joined until two are left.
Chain(op, groups) == FoldRight(LAMBDA g, rest : Pair(op, g, rest), Front(groups), Last(groups))

(***************************************************************************)
(* Reading the text t from token i on. What is read starts there; next is  *)
(* the first token after it, 0 when nothing can be read. As the grammar    *)
(* says, alternatives are tried in order and never reconsidered.           *)
(***************************************************************************)
Unread == [group |-> <<>>, next |-> 0]
Token(t, i) == IF i \in DOMAIN t THEN t[i] ELSE ""

\* The closing bracket of a single condition may be missing; one that is there is taken.
ReadSingle(t, i) ==
  IF Token(t, i) \in Conditions
  THEN [group |-> Single(t[i]), next |-> IF Token(t, i + 1) = ")" THEN i + 2 ELSE i + 1]
  ELSE Unread

RECURSIVE ReadGroup(_, _), ReadChain(_, _, _)

\* As many groups as there are with op between them.
ReadChain(op, t, i) ==
  LET first == ReadGroup(t, i)
      rest == ReadChain(op, t, first.next + 1)
      alone == [groups |-> <<first.group>>, next |-> first.next]
  IN CASE first.next = 0 -> [groups |-> <<>>, next |-> 0]
       [] first.next > 0 /\ Token(t, first.next) # op -> alone
       [] OTHER -> IF rest.next = 0 THEN alone
                   ELSE [groups |-> <<first.group>> \o rest.groups, next |-> rest.next]

\* output_and_group and output_or_group: brackets around at least two groups.
ReadBracketed(op, t, i) ==
  LET chain == ReadChain(op, t, i + 1)
  IN IF Token(t, i) = "(" /\ Len(chain.groups) > 1 /\ Token(t, chain.next) = ")"
     THEN [group |-> Brackets(Chain(op, chain.groups)), next |-> chain.next + 1]
     ELSE Unread

ReadGroup(t, i) ==
  LET read == SelectSeq(<<ReadBracketed("&&", t, i), ReadBracketed("||", t, i), ReadSingle(t, i)>>,
                        LAMBDA r : r.next # 0)
  IN IF read = <<>> THEN Unread ELSE Head(read)

(***************************************************************************)
(* UTXOConditions: the group, and the text it was read from (<<>> when it  *)
(* is not kept), "because the original text may contain errors".           *)
(***************************************************************************)
UTXO(origin, group) == [origin_str |-> origin, conditions |-> group]
UTXOText(u) == IF u.origin_str # <<>> THEN u.origin_str ELSE GroupText(u.conditions)
NoOutput == UTXO(<<>>, <<>>)

\* In the raw text of a transaction the line of an output must be read to its end.
FromRawText(t) ==
  LET read == ReadGroup(t, 1)
  IN IF read.next = Len(t) + 1 THEN UTXO(t, read.group) ELSE NoOutput

\* In JSON the conditions are tried between brackets, then as they are; what follows
\* the part that can be read is ignored, and the text is kept whole.
FromJson(t) ==
  LET wrapped == ReadGroup(<<"(">> \o t \o <<")">>, 1)
      bare == ReadGroup(t, 1)
  IN CASE wrapped.next # 0 -> UTXO(t, wrapped.group)
       [] wrapped.next = 0 /\ bare.next # 0 -> UTXO(t, bare.group)
       [] OTHER -> NoOutput

\* reduce: the text goes when the group would be written the same.
ReduceUTXO(u) == IF u.origin_str = GroupText(u.conditions) THEN [u EXCEPT !.origin_str = <<>>] ELSE u

\* check: the text kept is the text of the group. Nothing in the repository calls it.
CheckUTXO(u) == u.origin_str = <<>> \/ u.origin_str = GroupText(u.conditions)

\* What a group means: whether it lets the output be spent when exactly the conditions met hold.
RECURSIVE Spendable(_, _)
Spendable(g, met) == CASE g[1] = "single" -> g[2] \in met
                       [] g[1] = "brackets" -> Spendable(g[2], met)
                       [] g[1] = "&&" -> Spendable(g[2], met) /\ Spendable(g[3], met)
                       [] g[1] = "||" -> Spendable(g[2], met) \/ Spendable(g[3], met)
=============================================================================
