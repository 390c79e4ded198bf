----------------------------- MODULE ApplyBlock -----------------------------
(***************************************************************************)
(* What a block does to the web of trust, the identities and the dividends *)
(* of a node, and what undoing it does: apply_valid_block and revert_block *)
(* with the queries they return, applied to the databases by the caller.   *)
(*                                                                         *)
(* The databases are one variable each.  A block is handled by one thread  *)
(* that saves at the end, so each block is one action; a fatal error or a  *)
(* panic on the way ends the process before anything is saved (failed).    *)
(*                                                                         *)
(* The blocks obey the rules of the protocol, which the code leaves to the *)
(* network (verify_block_validity): what a block may contain follows from  *)
(* the chain alone (StatusIn, Living), never from the databases.  These    *)
(* two are also the reference the properties compare the databases with.   *)
(*                                                                         *)
(* NodeId(k) of the code is k + 1 here.  Dates are heights of blocks.      *)
(***************************************************************************)
EXTENDS Integers, FiniteSets, FiniteSetsExt, Sequences, SequencesExt, Functions

CONSTANTS
    PubKey,
    SIG_VALIDITY,       \* a certification lives that many blocks
    MaxHeight,          \* bound: height of the highest block
    MaxEvents,          \* bound: events of one block
    MaxTerms,           \* bound: times an identity enters the web of trust
    MaxReverts,         \* bound: blocks undone in the whole history
    UsizeMax            \* the largest usize

ASSUME BlockEffectAssumption ==
    /\ {SIG_VALIDITY, MaxHeight, MaxEvents, MaxTerms, MaxReverts, UsizeMax} \subseteq Nat \ {0}

VARIABLES
    chain,          \* the applied blocks, the one of height n at n + 1
    syncing,        \* whether the first synchronisation is still running
    wot,            \* the graph: a sequence of nodes
    wot_index,      \* key -> node
    identities,     \* identities_db: key -> DALIdentity
    memberships,    \* ms_db: <<height of the membership document, node>>
    certs,          \* certs_db: <<height of the document, source, target>>
    dividends,      \* du_db: <<key, height of the block>>
    failed,         \* the process has died of a fatal error
    reverts         \* how many blocks were undone

dbs == <<wot, wot_index, identities, memberships, certs, dividends>>
vars == <<chain, syncing, dbs, failed, reverts>>

-----------------------------------------------------------------------------
(* Blocks.  A block is made of a set of events.  Of the joiners, a list in *)
(* the code, only the order of the newcomers matters: it gives them their  *)
(* nodes.                                                                  *)

Links == {l \in PubKey \X PubKey : l[1] # l[2]}

Event == ({"joiner", "active", "excluded", "revoked"} \X PubKey)
            \cup ({"certification"} \X Links)

Of(kind, events) == {e[2] : e \in {f \in events : f[1] = kind}}

Members(b) == b.joiners \cup b.actives
Height == Len(chain) - 1

\* A document refers to the head at the time it is written.
DocHeight(h) == IF h = 0 THEN 0 ELSE h - 1

\* What the blocks of chain c make of key p.
StatusIn(c, p) ==
    LET about == {i \in DOMAIN c : p \in Members(c[i]) \cup c[i].excluded \cup c[i].revoked}
        last == c[Max(about)]
    IN  CASE about = {} -> "unknown"
          [] about # {} /\ p \in last.revoked -> "revoked"
          [] about # {} /\ p \in last.excluded \ last.revoked -> "excluded"
          [] OTHER -> "member"

Status(p) == StatusIn(chain, p)

\* The certifications of chain c that have not expired at height h.
LivingAt(c, h) ==
    {l \in Links : \E n \in DOMAIN c : /\ l \in c[n].certifications
                                       /\ DocHeight(n - 1) + SIG_VALIDITY >= h}

\* The rules of the protocol for each event of the block after the chain.
Allowed(e) ==
    CASE e[1] = "joiner" -> Status(e[2]) \in {"unknown", "excluded"}
      [] e[1] \in {"active", "excluded"} -> Status(e[2]) = "member"
      [] e[1] = "revoked" -> Status(e[2]) \in {"member", "excluded"}
      [] e[1] = "certification" -> e[2] \notin LivingAt(chain, Height)

\* And for the block as a whole: the first has members; a key has one event, save
\* that a member can be excluded and revoked at once; certifications go from a
\* member to an identity that is not revoked.
Legal(b) ==
    /\ chain = << >> => b.joiners # {}
    /\ Members(b) \cap (b.excluded \cup b.revoked) = {}
    /\ \A l \in b.certifications :
            /\ StatusIn(Append(chain, b), l[1]) = "member"
            /\ StatusIn(Append(chain, b), l[2]) \in {"member", "excluded"}

\* Joiners with an identity document, in order, and the other members.
Newcomers(b) == Range(b.newcomers)
Renewers(b) == Members(b) \ Newcomers(b)

-----------------------------------------------------------------------------
(* The graph.                                                              *)

NewNode == [enabled |-> TRUE, links_source |-> {}, issued_count |-> 0]

add_nodes(w, n) == w \o [i \in 1..n |-> NewNode]

rem_nodes(w, n) == SubSeq(w, 1, Len(w) - n)

set_enabled(w, nodes, enabled) ==
    [i \in DOMAIN w |-> IF i \in nodes THEN [w[i] EXCEPT !.enabled = enabled] ELSE w[i]]

LinksOf(w) == {l \in (DOMAIN w) \X (DOMAIN w) : l[1] \in w[l[2]].links_source}

Issued(links, i) == Cardinality({l \in links : l[1] = i})

add_links(w, links) ==
    [i \in DOMAIN w |->
        [w[i] EXCEPT !.links_source = @ \cup {s \in DOMAIN w : <<s, i>> \in links},
                     !.issued_count = @ + Issued(links, i)]]

rem_links(w, links) ==
    [i \in DOMAIN w |->
        [w[i] EXCEPT !.links_source = @ \ {s \in DOMAIN w : <<s, i>> \in links},
                     !.issued_count = @ - Issued(links, i)]]

Enabled(w) == {i \in DOMAIN w : w[i].enabled}

\* The nodes of some keys, the links of some certifications.
Nodes(index, keys) == {index[p] : p \in keys}
NodeLinks(index, ls) == {<<index[l[1]], index[l[2]]>> : l \in ls}

\* Who receives the dividend, or gives it back: those enabled at that moment.
Receivers(w, index) == {p \in DOMAIN index : index[p] \in Enabled(w)}

-----------------------------------------------------------------------------
(* The identities.  Each operator is the new value of one identity; the    *)
(* states it is fatal in are left to Unfit below.                          *)

DALIdentityState == {"Member", "ExpireMember", "ExplicitRevoked", "ExplicitExpireRevoked"}

create_identity(node, h) ==
    [state |-> "Member", renewed_counts |-> <<0>>, wot_id |-> node,
     ms_created_block_id |-> DocHeight(h), ms_chainable_on |-> <<h>>,
     cert_chainable_on |-> << >>]

renewal_identity(idty, h) ==
    [idty EXCEPT !.state = "Member",
                 !.renewed_counts =
                    IF idty.state = "Member"
                    THEN [@ EXCEPT ![Len(@)] = (@ + 1) % (UsizeMax + 1)]
                    ELSE Append(@, 0),
                 !.ms_chainable_on = Append(@, h)]

revert_renewal(idty) ==
    LET count == (Last(idty.renewed_counts) + UsizeMax) % (UsizeMax + 1) \* minus one
    IN  [idty EXCEPT !.state = IF count > 0 THEN "Member" ELSE "ExpireMember",
                     !.renewed_counts = Append(Front(@), count),
                     !.ms_chainable_on = Front(@)]

exclude_identity(idty) == [idty EXCEPT !.state = "ExpireMember"]
revert_exclude(idty) == [idty EXCEPT !.state = "Member"]

revoke_identity(idty) ==
    [idty EXCEPT !.state = IF @ = "Member" THEN "ExplicitRevoked"
                                           ELSE "ExplicitExpireRevoked"]

revert_revoke(idty) ==
    [idty EXCEPT !.state = IF @ = "ExplicitRevoked" THEN "Member" ELSE "ExpireMember"]

write_certifications(idty, p, h, ls) ==
    [idty EXCEPT !.cert_chainable_on = @ \o [i \in 1..Issued(ls, p) |-> h]]

revert_certifications(idty, p, ls) ==
    [idty EXCEPT !.cert_chainable_on = SubSeq(@, 1, Len(@) - Issued(ls, p))]

\* One change to the identities of some keys.
Change(idties, keys, Op(_)) ==
    [p \in DOMAIN idties |-> IF p \in keys THEN Op(idties[p]) ELSE idties[p]]
\* Keys for which the change is fatal: not in one of the states it expects.
Unfit(idties, keys, states) ==
    {p \in keys : p \notin DOMAIN idties \/ idties[p].state \notin states}

-----------------------------------------------------------------------------
(* Applying a block (apply_valid_block, WotsDBsWriteQuery::apply).         *)

IndexAfter(b) ==
    [p \in DOMAIN wot_index \cup Newcomers(b) |->
        IF p \in Newcomers(b) THEN Len(wot) + CHOOSE i \in DOMAIN b.newcomers : b.newcomers[i] = p
                              ELSE wot_index[p]]

\* Certifications that expire with the block; only a synchronisation finds any.
find_expire_certs(h) ==
    IF syncing THEN {c \in certs : c[1] = h - SIG_VALIDITY - 1} ELSE {}

GraphAfter(b) ==
    LET index == IndexAfter(b)
        joined == set_enabled(add_nodes(wot, Len(b.newcomers)),
                              Nodes(index, Renewers(b)), TRUE)
        left == set_enabled(joined, Nodes(index, b.excluded \cup b.revoked), FALSE)
        certified == add_links(left, NodeLinks(index, b.certifications))
        expired == {<<c[2], c[3]>> : c \in b.expire_certs}
    IN  rem_links(certified, expired \cap LinksOf(certified))

Created(b, h) ==
    LET index == IndexAfter(b)
    IN  [p \in DOMAIN identities \cup Newcomers(b) |->
            IF p \in Newcomers(b) THEN create_identity(index[p], h)
                                         ELSE identities[p]]

ApplyRenewals(idties, b, h) ==
    Change(idties, Renewers(b), LAMBDA i : renewal_identity(i, h))
ApplyExclusions(idties, b) == Change(idties, b.excluded, exclude_identity)
ApplyRevocations(idties, b) == Change(idties, b.revoked, revoke_identity)
ApplyCertifications(idties, b, h) ==
    [p \in DOMAIN idties |-> write_certifications(idties[p], p, h, b.certifications)]

Apply(b) ==
    LET h == Len(chain)
        index == IndexAfter(b)
        renewed == ApplyRenewals(Created(b, h), b, h)
        excluded == ApplyExclusions(renewed, b)
        links == NodeLinks(index, b.certifications)
        fatal == \/ Unfit(Created(b, h), Renewers(b), {"Member", "ExpireMember"}) # {}
                 \/ Unfit(renewed, b.excluded, {"Member"}) # {}
                 \/ Unfit(excluded, b.revoked, {"Member", "ExpireMember"}) # {}
    IN  IF fatal
        THEN failed' = TRUE /\ UNCHANGED <<chain, syncing, dbs, reverts>>
        ELSE /\ chain' = Append(chain, b)
             /\ wot' = GraphAfter(b)
             /\ wot_index' = index
             /\ identities' = ApplyCertifications(ApplyRevocations(excluded, b), b, h)
             /\ memberships' = memberships \cup {<<DocHeight(h), index[p]>> : p \in Members(b)}
             /\ certs' = (certs \cup {<<DocHeight(h), l[1], l[2]>> : l \in links})
                            \ {c \in certs : \E e \in b.expire_certs : e[1] = c[1]}
             /\ dividends' = IF b.dividend
                             THEN dividends \cup (Receivers(wot', index) \X {h})
                             ELSE dividends
             /\ UNCHANGED <<syncing, failed, reverts>>

\* Bound: nobody joins more than MaxTerms times.
Terms(b) == \A p \in Renewers(b) \cap DOMAIN identities :
                Len(identities[p].renewed_counts) < MaxTerms

ApplyBlock ==
    /\ ~failed
    /\ Len(chain) <= MaxHeight
    /\ \E dividend \in BOOLEAN :
       \E n \in 0..(IF dividend THEN MaxEvents - 1 ELSE MaxEvents) :
       \E events \in kSubset(n, {e \in Event : Allowed(e)}) :
       \E newcomers \in SetToSeqs({p \in Of("joiner", events) : Status(p) = "unknown"}) :
        LET b == [joiners |-> Of("joiner", events),
                  newcomers |-> newcomers,
                  actives |-> Of("active", events),
                  excluded |-> Of("excluded", events),
                  revoked |-> Of("revoked", events),
                  certifications |-> Of("certification", events),
                  dividend |-> dividend,
                  expire_certs |-> find_expire_certs(Len(chain))]
        IN  Legal(b) /\ Terms(b) /\ Apply(b)

\* The first synchronisation is over: blocks come from the network from now on.
EndOfSync ==
    /\ ~failed /\ syncing /\ chain # << >>
    /\ syncing' = FALSE
    /\ UNCHANGED <<chain, dbs, failed, reverts>>

-----------------------------------------------------------------------------
(* Undoing the last block (revert_block, WotsDBsWriteQuery::apply), once   *)
(* and after those above it, as the comments of apply_rollback have it.    *)

GraphBefore(b) ==
    LET expired == {<<c[2], c[3]>> : c \in b.expire_certs}
        uncertified == rem_links(add_links(wot, expired),
                                 NodeLinks(wot_index, b.certifications))
        left == set_enabled(uncertified, Nodes(wot_index, b.excluded \cup b.revoked), FALSE)
        joined == set_enabled(left, Nodes(wot_index, Renewers(b)), TRUE)
    IN  rem_nodes(joined, Len(b.newcomers))

RevertCertifications(idties, b) ==
    [p \in DOMAIN idties |-> revert_certifications(idties[p], p, b.certifications)]
RevertRevocations(idties, b) == Change(idties, b.revoked, revert_revoke)
RevertExclusions(idties, b) == Change(idties, b.excluded, revert_exclude)
RevertRenewals(idties, b) == Change(idties, Renewers(b), revert_renewal)

\* Mutant: the certifications that had expired with the block are forgotten.
CertsLeft(b, h) ==
    certs \ {<<DocHeight(h), l[1], l[2]>> : l \in NodeLinks(wot_index, b.certifications)}

\* Certifications in certs_db once the expiries and the certifications are undone.
CertsBefore(b, h) ==
    (certs \cup b.expire_certs)
        \ {<<DocHeight(h), l[1], l[2]>> : l \in NodeLinks(wot_index, b.certifications)}

\* Mutant: the memberships of the newcomers stay.
MembershipsLeft(b, h) == memberships

\* A renewal writes its membership once more; a creation takes its own away.
MembershipsBefore(b, h) ==
    (memberships \cup {<<DocHeight(h), wot_index[p]>> : p \in Renewers(b)})
        \ {<<identities[p].ms_created_block_id, identities[p].wot_id>> : p \in Newcomers(b)}

DividendsBefore(b, h) ==
    IF b.dividend THEN dividends \ (Receivers(wot, wot_index) \X {h}) ELSE dividends

RevertBlock ==
    LET b == Last(chain)
        h == Height
        rest == DOMAIN wot_index \ Newcomers(b)
        uncertified == RevertCertifications(identities, b)
        unrevoked == RevertRevocations(uncertified, b)
        unexcluded == RevertExclusions(unrevoked, b)
        fatal == \/ ~ NodeLinks(wot_index, b.certifications) \subseteq LinksOf(wot)
                 \/ Unfit(uncertified, b.revoked, {"ExplicitRevoked", "ExplicitExpireRevoked"}) # {}
                 \/ Unfit(unrevoked, b.excluded, {"ExpireMember"}) # {}
                 \/ Unfit(unexcluded, Renewers(b), {"Member"}) # {}
    IN  /\ ~failed /\ ~syncing /\ chain # << >>
        /\ reverts < MaxReverts /\ reverts' = reverts + 1
        /\ IF fatal
           THEN failed' = TRUE /\ UNCHANGED <<chain, syncing, dbs>>
           ELSE /\ chain' = Front(chain)
                /\ wot' = GraphBefore(b)
                /\ wot_index' = Restrict(wot_index, rest)
                /\ identities' = Restrict(RevertRenewals(unexcluded, b), rest)
                /\ memberships' = MembershipsBefore(b, h)
                /\ certs' = CertsBefore(b, h)
                /\ dividends' = DividendsBefore(b, h)
                /\ UNCHANGED <<syncing, failed>>

-----------------------------------------------------------------------------

Init ==
    /\ chain = << >>
    /\ syncing = TRUE
    /\ wot = << >>
    /\ wot_index = << >>
    /\ identities = << >>
    /\ memberships = {} /\ certs = {} /\ dividends = {}
    /\ failed = FALSE /\ reverts = 0

Next == ApplyBlock \/ EndOfSync \/ RevertBlock

Spec == Init /\ [][Next]_vars

-----------------------------------------------------------------------------
(* Properties.                                                             *)

\* Every database holds what its type in the code allows.
TypeOK ==
    LET Node == [enabled : BOOLEAN, links_source : SUBSET (DOMAIN wot), issued_count : Nat]
        Identity == [state : DALIdentityState, renewed_counts : Seq(0..UsizeMax),
                     wot_id : DOMAIN wot, ms_created_block_id : Nat,
                     ms_chainable_on : Seq(Nat), cert_chainable_on : Seq(Nat)]
    IN  /\ wot \in Seq(Node)
        /\ DOMAIN wot_index \subseteq PubKey /\ Range(wot_index) \subseteq DOMAIN wot
        /\ DOMAIN identities \subseteq PubKey /\ Range(identities) \subseteq Identity
        /\ memberships \subseteq Nat \X (1..Cardinality(PubKey))
        /\ certs \subseteq Nat \X (DOMAIN wot) \X (DOMAIN wot)
        /\ dividends \subseteq PubKey \X Nat
        /\ failed \in BOOLEAN /\ syncing \in BOOLEAN /\ reverts \in 0..MaxReverts

\* Whatever was applied and reverted, the nodes of the graph are those of the
\* identities of the chain, one each, and the index the node keeps in memory is
\* the one it would rebuild from identities_db (get_wot_index) after a restart.
IndexMatchesGraph ==
    /\ DOMAIN wot_index = {p \in PubKey : Status(p) # "unknown"}
    /\ IsInjective(wot_index) /\ Range(wot_index) = DOMAIN wot
    /\ wot_index = [p \in DOMAIN identities |-> identities[p].wot_id]

\* Every certification of the chain that has not expired is in certs_db, which
\* would have it expire, and the graph has no link the chain never had.
CertificationsAsChain ==
    /\ \A n \in DOMAIN chain : \A l \in chain[n].certifications :
            DocHeight(n - 1) + SIG_VALIDITY >= Height =>
                <<DocHeight(n - 1), wot_index[l[1]], wot_index[l[2]]>> \in certs
    /\ LinksOf(wot) \subseteq
            NodeLinks(wot_index, UNION {b.certifications : b \in Range(chain)})

\* An identity is revoked exactly when a block of the chain revoked it.
RevokedAsChain ==
    \A p \in DOMAIN identities :
        Status(p) = "revoked" <=>
            identities[p].state \in {"ExplicitRevoked", "ExplicitExpireRevoked"}

\* The delays an identity must respect before its next membership or its next
\* certification count the blocks of the chain, those reverted being forgotten.
DelaysAsChain ==
    \A p \in DOMAIN identities :
        LET Heights(Count(_)) ==
                FlattenSeq([n \in DOMAIN chain |-> [i \in 1..Count(chain[n]) |-> n - 1]])
            Joined(b) == IF p \in Members(b) THEN 1 ELSE 0
            Certified(b) == Issued(b.certifications, p)
        IN  /\ identities[p].ms_chainable_on = Heights(Joined)
            /\ identities[p].cert_chainable_on = Heights(Certified)

\* What the chain says of members, of the memberships and of the dividends.
StateOf(status) ==
    CASE status = "member" -> {"Member"}
      [] status = "excluded" -> {"ExpireMember"}
      [] status = "revoked" -> {"ExplicitRevoked", "ExplicitExpireRevoked"}

MembersAsChain ==
    \A p \in DOMAIN identities :
        /\ identities[p].state \in StateOf(Status(p))
        /\ wot_index[p] \in Enabled(wot) <=> Status(p) = "member"

MembershipsOfChain ==
    UNION {{<<DocHeight(n - 1), wot_index[p]>> : p \in Members(chain[n])} : n \in DOMAIN chain}

Entitled == {d \in PubKey \X (0..Height) :
                /\ chain[d[2] + 1].dividend
                /\ StatusIn(SubSeq(chain, 1, d[2] + 1), d[1]) = "member"}

Exact == MembersAsChain /\ memberships = MembershipsOfChain /\ dividends = Entitled

\* Applying a legal block to databases that are what the chain says never fails
\* and leaves them what the longer chain says.
ApplicationIsExact == [][Exact /\ ApplyBlock => Exact' /\ ~failed']_vars

\* Undoing a block of newcomers, certifications and dividends restores them.
NewcomersUndone ==
    [][Exact /\ RevertBlock /\ Renewers(Last(chain)) = {}
          /\ Last(chain).excluded \cup Last(chain).revoked = {}
       => Exact' /\ ~failed']_vars

\* Graph, index, identities and certifications are what the chain says, whatever was
\* applied and undone on the way to it.
DatabasesAsChain ==
    TypeOK /\ IndexMatchesGraph /\ RevokedAsChain /\ CertificationsAsChain /\ DelaysAsChain

\* On databases that are what the chain says, a step leaves them so: any block
\* applied, and the reversals that the code gets right.
StepsAreExact == ApplicationIsExact /\ NewcomersUndone

\* Applying and reverting blocks that obey the protocol is never fatal.
NeverFatal == ~failed

\* Nobody keeps the dividend of a block that has left the chain.
DividendsOfChain ==
    \A d \in dividends : d[2] <= Height /\ chain[d[2] + 1].dividend

\* The memberships that are to expire are those the chain contains.
NoStaleMembership == memberships \subseteq MembershipsOfChain

\* A certification of the chain that has not expired is a link of the graph:
\* reverting a block only takes away what that block had brought.
CertificationsKept == NodeLinks(wot_index, LivingAt(chain, Height)) \subseteq LinksOf(wot)

\* A node's issued_count is the number of links it issued.
CountIsLinks ==
    \A i \in DOMAIN wot : wot[i].issued_count = Issued(LinksOf(wot), i)
=============================================================================
