------------------------------ MODULE Requests ------------------------------
(***************************************************************************)
(* What the nodes of the network, the WS2P v1 module, the block-chain      *)
(* module and the user interface ask and tell each other: a remote node    *)
(* asks for blocks, WS2P asks the block-chain module; the block-chain      *)
(* module asks for the next blocks, WS2P asks the established connections  *)
(* in turn; heads, uids and connection states go on to the interface.      *)
(*                                                                         *)
(* The router has two ways.  Its own thread delivers responses; events and *)
(* requests it passes to the broadcasting thread, so that a response may   *)
(* overtake those sent before it, and never the other way round (Router    *)
(* has both threads).  The block-chain module is sent no responses: what   *)
(* it is to receive is one queue.  The user interface sends nothing, so an *)
(* event changes it at once.  How a connection is negotiated is in WS2Pv1  *)
(* and what becomes of blocks in Blockchain: here a block is its number,   *)
(* and one that does not follow the current block is dropped.              *)
(***************************************************************************)
EXTENDS Integers, FiniteSets, Sequences, SequencesExt, FiniteSetsExt, Functions, Bags

CONSTANTS
    Node,               \* the remote nodes (endpoints and issuers of heads)
    Honest,             \* those that answer, in time, from the whole chain
    EndpointOrder,      \* ws2p_endpoints in the order of the hash map
    HasUid,             \* nodes whose key has an identity in the databases
    Self,               \* this node, as the issuer of its own head
    Top,                \* the number of the last block of the network's chain
    CHUNK_SIZE, MAX_BLOCKS_REQUEST,
    Budgets             \* bound: what there is to happen, in one of several ways

NoBlock == -1
NoHead == -2
ForkBlock == Top + 1            \* a block of a branch that turns out invalid
Body == {"GetCurrent", "GetBlock", "GetBlocks", "GetRequirementsPending"}
State == {"Close", "Established", "WSError", "Denial"}

ASSUME RequestsAssumption ==
    /\ Honest \subseteq Node /\ HasUid \subseteq Node /\ Self \notin Node
    /\ EndpointOrder \in Seq(Node)
    /\ IsInjective(EndpointOrder) /\ Range(EndpointOrder) = Node
    /\ Top \in Nat /\ {CHUNK_SIZE, MAX_BLOCKS_REQUEST} \subseteq Nat \ {0}
    /\ Budgets \subseteq
          [start : NoBlock .. Top, asks : SUBSET (Node \X Body), ends : SUBSET (Node \X STRING),
           heads : SUBSET [node : Node, block : Nat, step : Nat, sig : STRING, sig_v2 : STRING],
           forks : Nat, waiting : Nat, messages : Nat]

VARIABLES
    current,        \* the block-chain module's current block
    to_blockchain,  \* events and requests for the block-chain module
    broadcasting,   \* those for WS2P, with the broadcasting thread
    to_ws2p,        \* what has reached the main thread of WS2P: what that thread relayed, the
                    \* responses, and what the threads of its connections say
    ws2p,           \* the main thread's tables
    tui,            \* the user interface's tables
    remote,         \* the remote ends: connections, requests to answer, answers,
                    \* and the branches of theirs that turned out invalid
    budget          \* the block started from; what may still happen: asks, ends, heads and failing
                    \* forks; how many requests for blocks may wait, and how
                    \* many messages be on their way when a new one starts

vars == <<current, to_blockchain, broadcasting, to_ws2p, ws2p, tui, remote, budget>>

\* The functions f and g, g before f; the function f with v at k.
Over(f, g) == [x \in DOMAIN f \cup DOMAIN g |-> IF x \in DOMAIN g THEN g[x] ELSE f[x]]
Put(f, k, v) == Over(f, [x \in {k} |-> v])

-----------------------------------------------------------------------------
(* Heads: what a node announces of its block-chain, relayed from node to     *)
(* node (the step counts the relays), and the cache that keeps one of each   *)
(* node.  All heads in use are of version 2: a version 1 message and a       *)
(* version 2 message, each with a signature of its issuer.                   *)

\* Both signatures are the issuer's.
verify(head) == head.sig = "valid" /\ head.sig_v2 = "valid"

\* Mutant of Replaces: any other block will do.
ReplacesAny(head, cached) == head.block # cached.block \/ head.step < cached.step

\* A head replaces an older one of the same node, or one of the same block that
\* came through more relays.
Replaces(head, cached) ==
    \/ head.block > cached.block
    \/ head.block = cached.block /\ head.step < cached.step

\* NetworkHead::apply: TRUE when the head is to be kept.
Renews(cache, head) ==
    head.node \in DOMAIN cache => Replaces(head, cache[head.node])

-----------------------------------------------------------------------------
(* The user interface *)

StateChange(n, status, uid) == [event |-> "ConnectionStateChange", node |-> n, status |-> status, uid |-> uid]
ReceiveHeads(heads) == [event |-> "ReceiveHeads", heads |-> heads]

\* established_conns_count follows the changes of the endpoints already shown.
CountAfter(t, e) ==
    LET before == t.connections_status[e.node].status
    IN  IF e.status = "Established" /\ before \notin {"Established", "Unknown"}
        THEN t.established_conns_count + 1
        ELSE IF e.status # "Established" /\ before = "Established" /\ t.established_conns_count > 0
        THEN t.established_conns_count - 1
        ELSE t.established_conns_count

OnEvent(t, e) ==
    IF e.event = "ReceiveHeads"
    THEN [t EXCEPT !.heads_cache = Over(@, e.heads)]
    ELSE [t EXCEPT !.established_conns_count = CountAfter(t, e),
                   !.connections_status[e.node] = [status |-> e.status, uid |-> e.uid]]

send_network_event(e) == tui' = OnEvent(tui, e)

-----------------------------------------------------------------------------
(* The block-chain module *)

CurrentId == IF current = NoBlock THEN 0 ELSE current

\* No module answers GetConsensus, so the consensus stays at block 0 and the
\* last block asked for follows from the current one.  Each of the requests is
\* recorded in pending_network_requests, which nothing reads as no response
\* comes either (the blocks come as an event).
ChunkRequests ==
    LET first == IF current = NoBlock THEN 0 ELSE current + 1
        chunks == (CurrentId + MAX_BLOCKS_REQUEST - first) \div CHUNK_SIZE + 1
    IN  [i \in 1 .. chunks |-> [type |-> "GetBlocks", first |-> first + (i - 1) * CHUNK_SIZE]]

Roomy == Len(to_ws2p) + Len(broadcasting) + Len(to_blockchain) < budget.messages
Waiting == Cardinality(DOMAIN ws2p.requests_awaiting_response)
           + Len(SelectSeq(to_ws2p \o broadcasting, LAMBDA m : m.type \in {"GetBlocks", "ReqResponse"}))

\* The ways of the router to WS2P.
Broadcasts(messages) == broadcasting' = broadcasting \o messages /\ UNCHANGED to_ws2p
Responds(response) == to_ws2p' = to_ws2p \o response /\ UNCHANGED broadcasting

request_next_main_blocks ==
    /\ Waiting < budget.waiting /\ Roomy
    /\ Broadcasts(ChunkRequests)
    /\ UNCHANGED <<current, to_blockchain, ws2p, tui, remote, budget>>

Takes(queue, type) == queue # <<>> /\ Head(queue).type = type

BlockchainAnswers(response) ==
    /\ to_blockchain' = Tail(to_blockchain)
    /\ Responds(response)
    /\ UNCHANGED <<current, ws2p, tui, remote, budget>>

AnswerCurrentBlockstamp ==
    /\ Takes(to_blockchain, "CurrentBlockstamp")
    /\ BlockchainAnswers(<<[type |-> "CurrentBlockstamp", block |-> current]>>)

\* A request whose block is not in the database gets no response.
AnswerCurrentBlock ==
    /\ Takes(to_blockchain, "CurrentBlock")
    /\ BlockchainAnswers(IF current = NoBlock THEN <<>>
                         ELSE <<[type |-> "CurrentBlock", id |-> Head(to_blockchain).id]>>)

AnswerBlocks ==
    /\ Takes(to_blockchain, "BlockByNumber") \/ Takes(to_blockchain, "Chunk")
    /\ BlockchainAnswers(IF current = NoBlock THEN <<>>
                         ELSE <<[type |-> "BlocksResponse", id |-> Head(to_blockchain).id]>>)

AnswerUids ==
    /\ Takes(to_blockchain, "UIDs")
    /\ BlockchainAnswers(<<[type |-> "UIDs", keys |-> Head(to_blockchain).keys]>>)

\* ReceiveBlocks and ReceiveDocuments: the blocks that follow are stacked, with
\* an event each.
ReceiveBlocks ==
    /\ Takes(to_blockchain, "Blocks")
    /\ LET blocks == Head(to_blockchain).blocks
           reached == IF current + 1 \in blocks THEN Max(blocks) ELSE current
       IN  /\ current' = reached
           /\ Broadcasts([i \in 1 .. reached - current |->
                             [type |-> "StackUpValidBlock", block |-> current + i]])
    /\ to_blockchain' = Tail(to_blockchain)
    /\ UNCHANGED <<ws2p, tui, remote, budget>>

\* A branch is tried whose first block is valid and the second is not: the
\* events of its blocks are sent before the old branch is restored.
ForkFails ==
    /\ current # NoBlock /\ Roomy
    /\ budget.forks > 0 /\ budget' = [budget EXCEPT !.forks = @ - 1]
    /\ remote' = [remote EXCEPT !.forks = @ + 1]
    /\ Broadcasts(<<[type |-> "StackUpValidBlock", block |-> ForkBlock]>>)
    /\ UNCHANGED <<current, to_blockchain, ws2p, tui>>

-----------------------------------------------------------------------------
(* The broadcasting thread *)

\* The first of the events and requests for WS2P is relayed.
BroadcastingRelays ==
    /\ broadcasting # <<>>
    /\ broadcasting' = Tail(broadcasting)
    /\ to_ws2p' = Append(to_ws2p, Head(broadcasting))
    /\ UNCHANGED <<current, to_blockchain, ws2p, tui, remote, budget>>

-----------------------------------------------------------------------------
(* The main thread of WS2P: requests to the block-chain module *)

\* count_dal_requests numbers the requests: an identifier is one that no pending
\* request has, and only those of the pending requests are looked at again.
FirstFree(used) == CHOOSE i \in 1 .. Cardinality(used) + 1 :
                       i \notin used /\ \A j \in 1 .. i - 1 : j \in used
\* Mutant of NextDalRequest: the counter is not written back.
SameDalRequest == 1

NextDalRequest == FirstFree(DOMAIN ws2p.pending_received_requests)

send_dal_request(w, request) ==
    /\ to_blockchain' = Append(to_blockchain, request)
    /\ ws2p' = w

CurrentBlockstampRequest == [type |-> "CurrentBlockstamp"]
UidsRequest(keys) == [type |-> "UIDs", keys |-> keys]

\* The general state interval: the current blockstamp is asked for. What waits for the
\* block-chain module does not count as under way, or the answer would overtake nothing.
PrintState ==
    /\ Len(to_ws2p) + Len(broadcasting) < budget.messages
    /\ \A i \in DOMAIN to_blockchain : to_blockchain[i].type # "CurrentBlockstamp"
    /\ \A i \in DOMAIN to_ws2p : to_ws2p[i].type # "CurrentBlockstamp"
    /\ send_dal_request(ws2p, CurrentBlockstampRequest)
    /\ UNCHANGED <<current, broadcasting, to_ws2p, tui, remote, budget>>

-----------------------------------------------------------------------------
(* The main thread of WS2P: messages of other modules *)

WS2PTakes(type) == Takes(to_ws2p, type) /\ to_ws2p' = Tail(to_ws2p) /\ UNCHANGED broadcasting

MyHead(block) == [n \in {Self} |-> [block |-> block, step |-> 0, uid |-> FALSE]]

\* send_request_to_specific_node: what is sent to a connection that has ended
\* is lost.
Answerable == {q.id : q \in remote.to_answer}
              \cup {to_ws2p[i].id : i \in {j \in DOMAIN to_ws2p : to_ws2p[j].type = "ReqResponse"}}
FreshReqId == FirstFree(Answerable \cup DOMAIN ws2p.requests_awaiting_response)

Sent(r, n, body, first) ==
    IF n \in r.open
    THEN [r EXCEPT !.to_answer = @ \cup {[node |-> n, id |-> FreshReqId, body |-> body, first |-> first]}]
    ELSE r
Awaiting(w, n, body) ==
    [w EXCEPT !.requests_awaiting_response = Put(@, FreshReqId, [body |-> body, recipient |-> n])]

\* The connections take turns: next_receiver counts among the established ones,
\* and starts again, without counting, past the last.
EstablishedConns == {i \in DOMAIN EndpointOrder : ws2p.endpoints[EndpointOrder[i]] = "Established"}
HasTurn == ws2p.next_receiver < Cardinality(EstablishedConns)
Receiver ==
    EndpointOrder[CHOOSE i \in EstablishedConns :
        Cardinality({j \in EstablishedConns : j < i}) = IF HasTurn THEN ws2p.next_receiver ELSE 0]
\* Mutant of TurnTaken: the turn stays.
TurnKept(w) == [w EXCEPT !.next_receiver = IF HasTurn THEN @ ELSE 0]

TurnTaken(w) == [w EXCEPT !.next_receiver = IF HasTurn THEN @ + 1 ELSE 0]

receive_req ==
    /\ WS2PTakes("GetBlocks")
    /\ IF EstablishedConns = {}
       THEN ws2p' = TurnTaken(ws2p) /\ UNCHANGED remote
       ELSE /\ ws2p' = Awaiting(TurnTaken(ws2p), Receiver, "GetBlocks")
            /\ remote' = Sent(remote, Receiver, "GetBlocks", Head(to_ws2p).first)
    /\ UNCHANGED <<current, to_blockchain, tui, budget>>

\* Mutant of StackUpValidBlock: a block that a response has already told of is
\* passed over.
StackUpNewBlock ==
    /\ WS2PTakes("StackUpValidBlock")
    /\ LET block == Head(to_ws2p).block
       IN  IF block > ws2p.current_blockstamp
           THEN /\ ws2p' = [ws2p EXCEPT !.current_blockstamp = block, !.my_head = block]
                /\ send_network_event(ReceiveHeads(MyHead(block)))
           ELSE UNCHANGED <<ws2p, tui>>
    /\ UNCHANGED <<current, to_blockchain, remote, budget>>

\* The head of the new block also goes to every websocket.
StackUpValidBlock ==
    /\ WS2PTakes("StackUpValidBlock")
    /\ LET block == Head(to_ws2p).block
       IN  /\ ws2p' = [ws2p EXCEPT !.current_blockstamp = block, !.my_head = block]
           /\ send_network_event(ReceiveHeads(MyHead(block)))
    /\ UNCHANGED <<current, to_blockchain, remote, budget>>

ReceiveCurrentBlockstamp ==
    /\ WS2PTakes("CurrentBlockstamp")
    /\ LET block == Head(to_ws2p).block
           head == IF ws2p.my_head = NoHead THEN block ELSE ws2p.my_head
       IN  /\ ws2p' = [ws2p EXCEPT !.current_blockstamp = block, !.my_head = head]
           /\ send_network_event(ReceiveHeads(MyHead(head)))
    /\ UNCHANGED <<current, to_blockchain, remote, budget>>

\* Mutant of ToldAgain: only the connections whose heads are cached.
ToldAgainCached(keys) == keys \cap DOMAIN ws2p.heads_cache

ToldAgain(keys) == keys

\* The connections of the answered keys are told again, one by one, with their uids.
TellAgain(t, keys) ==
    FoldLeft(LAMBDA u, n : IF n \in ToldAgain(keys)
                           THEN OnEvent(u, StateChange(n, ws2p.endpoints[n], n \in HasUid)) ELSE u,
             t, EndpointOrder)

\* The cached heads take the uids and go on, then the connections.
ReceiveUids ==
    /\ WS2PTakes("UIDs")
    /\ LET keys == Head(to_ws2p).keys
           cached == keys \cap DOMAIN ws2p.heads_cache
           heads == [n \in DOMAIN ws2p.heads_cache |->
                        IF n \in keys \cap HasUid THEN [ws2p.heads_cache[n] EXCEPT !.uid = TRUE]
                        ELSE ws2p.heads_cache[n]]
       IN  /\ ws2p' = [ws2p EXCEPT !.heads_cache = heads,
                                   !.uids_cache = (@ \ cached) \cup (cached \cap HasUid)]
           /\ tui' = TellAgain(OnEvent(tui, ReceiveHeads(heads)), keys)
    /\ UNCHANGED <<current, to_blockchain, remote, budget>>

\* send_response: the answer goes to the websocket of the node that asked.
SendResponse(r, n, id, body) ==
    remote' = IF n \in r.open /\ ws2p.endpoints[n] = "Established"
              THEN [r EXCEPT !.answers = @ (+) SetToBag({<<n, id, body>>})] ELSE r

ReceiveCurrentBlock ==
    /\ WS2PTakes("CurrentBlock")
    /\ LET id == Head(to_ws2p).id
           pending == ws2p.pending_received_requests
       IN  IF id \in DOMAIN pending
           THEN /\ ws2p' = [ws2p EXCEPT !.pending_received_requests = Restrict(pending, DOMAIN pending \ {id})]
                /\ SendResponse(remote, pending[id].from, pending[id].req_id, "GetCurrent")
           ELSE UNCHANGED <<ws2p, remote>>
    /\ UNCHANGED <<current, to_blockchain, tui, budget>>

\* BlockByNumber and Chunk: the node that asked for them gets no answer, and
\* its request stays among the pending ones.
ReceiveOtherResponse ==
    /\ WS2PTakes("BlocksResponse")
    /\ UNCHANGED <<current, to_blockchain, ws2p, tui, remote, budget>>

-----------------------------------------------------------------------------
(* The main thread of WS2P: messages of its connections *)

\* check_timeout_requests, before every message of a connection: requests older
\* than WS2P_V1_REQUESTS_TIMEOUT_IN_SECS are forgotten.
Overdue(w) == {r \in DOMAIN w.requests_awaiting_response :
                  w.requests_awaiting_response[r].recipient \notin Honest \/ r \notin Answerable}

ForgetOverdue(w, old) ==
    [w EXCEPT !.requests_awaiting_response = Restrict(@, DOMAIN @ \ old)]

\* An answer to a forgotten request changes nothing: it need not come.
Late(old) == [remote EXCEPT !.to_answer = {q \in @ : q.id \notin old}]

ConnTakes(type, old) == WS2PTakes(type) /\ old \subseteq Overdue(ws2p)
From == Head(to_ws2p).from

\* The current block is asked of the new connection, its uid of the block-chain
\* module when it is not known.
ConnectionEstablished(old) ==
    /\ ConnTakes("Established", old)
    /\ LET forgotten == ForgetOverdue(ws2p, old)
           opened == Awaiting([forgotten EXCEPT !.endpoints[From] = "Established"], From, "GetCurrent")
       IN  IF From \in ws2p.uids_cache
           THEN ws2p' = opened /\ UNCHANGED to_blockchain
           ELSE send_dal_request(opened, UidsRequest({From}))
    /\ remote' = Sent(Late(old), From, "GetCurrent", 0)
    /\ send_network_event(StateChange(From, "Established", From \in ws2p.uids_cache))
    /\ UNCHANGED <<current, budget>>

\* The end of a connection, in the words of its thread: what the table records of
\* it (Denial stands for the three states a negotiation may have failed in), and
\* what is told.  Nobody is told of the connection that closes after a bad message
\* or at the remote node's wish.
EndState == [WSError |-> "Close", NegociationTimeout |-> "Denial", Timeout |-> "Close", Close |-> "Close"]
ToldState == [WSError |-> "WSError", NegociationTimeout |-> "Denial", Timeout |-> "Close"]

ConnectionEnds(end, old) ==
    /\ ConnTakes(end, old)
    /\ ws2p' = [ForgetOverdue(ws2p, old) EXCEPT !.endpoints[From] = EndState[end]]
    /\ IF end \in DOMAIN ToldState
       THEN send_network_event(StateChange(From, ToldState[end], From \in ws2p.uids_cache))
       ELSE UNCHANGED tui
    /\ remote' = Late(old)
    /\ UNCHANGED <<current, to_blockchain, budget>>

DalRequestFor == [GetCurrent |-> "CurrentBlock", GetBlock |-> "BlockByNumber", GetBlocks |-> "Chunk"]

receive_ws2p_v1_request(old) ==
    /\ ConnTakes("Request", old)
    /\ LET m == Head(to_ws2p)
           w == ForgetOverdue(ws2p, old)
       IN  IF m.body = "GetRequirementsPending"
           THEN /\ ws2p' = w /\ UNCHANGED to_blockchain
                /\ SendResponse(Late(old), m.from, m.id, m.body)
           ELSE /\ send_dal_request([w EXCEPT !.pending_received_requests =
                                        Put(@, NextDalRequest, [from |-> m.from, req_id |-> m.id])],
                                    [type |-> DalRequestFor[m.body], id |-> NextDalRequest])
                /\ remote' = Late(old)
    /\ UNCHANGED <<current, tui, budget>>

\* The heads that renew the cache go on, with the uids known so far; the uids of
\* their issuers are asked for.
ReceiveHeadsMessage(old) ==
    /\ ConnTakes("Heads", old)
    /\ LET w == ForgetOverdue(ws2p, old)
           head == Head(to_ws2p).head
           applied == verify(head) /\ Renews(w.heads_cache, head)
           entry == [block |-> head.block, step |-> head.step, uid |-> FALSE]
       IN  /\ send_dal_request(IF applied THEN [w EXCEPT !.heads_cache = Put(@, head.node, entry)] ELSE w,
                               UidsRequest(IF applied THEN {head.node} ELSE {}))
           /\ send_network_event(ReceiveHeads(IF applied
                 THEN [n \in {head.node} |-> [entry EXCEPT !.uid = n \in w.uids_cache]] ELSE <<>>))
    /\ remote' = Late(old)
    /\ UNCHANGED <<current, budget>>

\* WS2PSignal::Document: a block document goes on as an event.
ReceiveDocument(old) ==
    /\ ConnTakes("Document", old)
    /\ ws2p' = ForgetOverdue(ws2p, old)
    /\ to_blockchain' = Append(to_blockchain, [type |-> "Blocks", blocks |-> Head(to_ws2p).blocks])
    /\ remote' = Late(old)
    /\ UNCHANGED <<current, tui, budget>>

\* A response to a request that is still awaited; a chunk becomes an event.  The
\* current block of the remote node goes to the module that asked for it, WS2P
\* itself, which does not look at it.
ReceiveReqResponse(old) ==
    /\ ConnTakes("ReqResponse", old)
    /\ LET m == Head(to_ws2p)
           w == ForgetOverdue(ws2p, old)
           awaited == m.id \in DOMAIN w.requests_awaiting_response
       IN  /\ ws2p' = IF awaited THEN ForgetOverdue(w, {m.id}) ELSE w
           /\ IF awaited /\ w.requests_awaiting_response[m.id].body = "GetBlocks"
              THEN to_blockchain' = Append(to_blockchain, [type |-> "Blocks", blocks |-> m.blocks])
              ELSE UNCHANGED to_blockchain
    /\ remote' = Late(old)
    /\ UNCHANGED <<current, tui, budget>>

-----------------------------------------------------------------------------
(* The remote nodes *)

Says(message) == Roomy /\ to_ws2p' = Append(to_ws2p, message) /\ UNCHANGED broadcasting

\* A negotiation that ends well, or not.
RemoteOpens(n) ==
    /\ n \notin remote.open
    /\ remote' = [remote EXCEPT !.open = @ \cup {n}]
    /\ Says([type |-> "Established", from |-> n])
    /\ UNCHANGED <<current, to_blockchain, ws2p, tui, budget>>

RemoteEnds(n, end) ==
    /\ (end = "NegociationTimeout") = (n \notin remote.open)
    /\ <<n, end>> \in budget.ends /\ budget' = [budget EXCEPT !.ends = @ \ {<<n, end>>}]
    /\ remote' = [remote EXCEPT !.open = @ \ {n}, !.left = @ \cup {n},
                                !.to_answer = {q \in @ : q.node # n}]
    /\ Says([type |-> end, from |-> n])
    /\ UNCHANGED <<current, to_blockchain, ws2p, tui>>

RemoteAsks(n, body) ==
    /\ n \in remote.open
    /\ <<n, body>> \in budget.asks /\ budget' = [budget EXCEPT !.asks = @ \ {<<n, body>>}]
    /\ remote' = [remote EXCEPT !.asked = @ \cup {[node |-> n, body |-> body, exists |-> current # NoBlock]}]
    /\ Says([type |-> "Request", from |-> n, id |-> body, body |-> body])
    /\ UNCHANGED <<current, to_blockchain, ws2p, tui>>

\* The chunk from block q.first, as far as the chain goes.
RemoteAnswers(q) ==
    /\ q \in remote.to_answer
    /\ remote' = [remote EXCEPT !.to_answer = @ \ {q}]
    /\ Says([type |-> "ReqResponse", from |-> q.node, id |-> q.id,
             blocks |-> IF q.body = "GetBlocks" THEN q.first .. Min({q.first + CHUNK_SIZE - 1, Top}) ELSE {}])
    /\ UNCHANGED <<current, to_blockchain, ws2p, tui, budget>>

RemoteRelaysHead(n, head) ==
    /\ n \in remote.open
    /\ head \in budget.heads /\ budget' = [budget EXCEPT !.heads = @ \ {head}]
    /\ Says([type |-> "Heads", from |-> n, head |-> head])
    /\ UNCHANGED <<current, to_blockchain, ws2p, tui, remote>>

\* A node publishes the last block of the chain.
RemotePublishes(n) ==
    /\ n \in remote.open
    /\ \A i \in DOMAIN to_ws2p : to_ws2p[i].type # "Document"
    /\ \A i \in DOMAIN to_blockchain : to_blockchain[i].type # "Blocks"
    /\ Says([type |-> "Document", from |-> n, blocks |-> {Top}])
    /\ UNCHANGED <<current, to_blockchain, ws2p, tui, remote, budget>>

-----------------------------------------------------------------------------
Init ==
    /\ budget \in Budgets
    /\ current = budget.start
    /\ to_blockchain = <<CurrentBlockstampRequest>>
    /\ broadcasting = <<>>
    /\ to_ws2p = <<>>
    /\ ws2p = [current_blockstamp |-> NoBlock, my_head |-> NoHead,
               pending_received_requests |-> <<>>, requests_awaiting_response |-> <<>>,
               next_receiver |-> 0, heads_cache |-> <<>>, uids_cache |-> {},
               endpoints |-> [n \in Node |-> "Close"]]
    /\ tui = [connections_status |-> [n \in Node |-> [status |-> "Unknown", uid |-> FALSE]],
              established_conns_count |-> 0, heads_cache |-> <<>>]
    /\ remote = [open |-> {}, left |-> {}, asked |-> {}, to_answer |-> {}, answers |-> EmptyBag,
                 forks |-> 0]

BlockchainNext == AnswerCurrentBlockstamp \/ AnswerCurrentBlock \/ AnswerBlocks \/ AnswerUids \/ ReceiveBlocks

ModuleMessage == receive_req \/ StackUpValidBlock \/ ReceiveCurrentBlockstamp \/ ReceiveUids
                 \/ ReceiveCurrentBlock \/ ReceiveOtherResponse

ConnectionMessage(old) ==
    \/ ConnectionEstablished(old) \/ (\E end \in DOMAIN EndState : ConnectionEnds(end, old))
    \/ receive_ws2p_v1_request(old) \/ ReceiveHeadsMessage(old) \/ ReceiveDocument(old)
    \/ ReceiveReqResponse(old)

WS2PNext == ModuleMessage \/ \E old \in SUBSET Overdue(ws2p) : ConnectionMessage(old)

RemoteNext ==
    \/ \E n \in Node : RemoteOpens(n) \/ RemotePublishes(n)
    \/ \E n \in Node, end \in DOMAIN EndState : RemoteEnds(n, end)
    \/ \E n \in Node, body \in Body : RemoteAsks(n, body)
    \/ \E n \in Node : \E head \in budget.heads : RemoteRelaysHead(n, head)
    \/ \E q \in remote.to_answer : RemoteAnswers(q)

Next == BlockchainNext \/ BroadcastingRelays \/ WS2PNext \/ RemoteNext
        \/ request_next_main_blocks \/ PrintState \/ ForkFails

\* The loops of the two modules and of the broadcasting thread go on and the timers
\* elapse, however full the model lets the queues be; an honest node answers, and
\* connects again in the end.
Fairness ==
    /\ WF_vars(BlockchainNext) /\ WF_vars(BroadcastingRelays) /\ WF_vars(WS2PNext)
    /\ SF_vars(ConnectionMessage(Overdue(ws2p)))
    /\ SF_vars(request_next_main_blocks) /\ SF_vars(PrintState)
    /\ \A n \in Honest : /\ SF_vars(RemoteOpens(n)) /\ SF_vars(RemotePublishes(n))
                         /\ SF_vars(\E q \in remote.to_answer : q.node = n /\ RemoteAnswers(q))

Spec == Init /\ [][Next]_vars
LiveSpec == Spec /\ Fairness

-----------------------------------------------------------------------------
(* Properties *)

Block == NoBlock .. ForkBlock
Cached == [block : Nat, step : Nat, uid : BOOLEAN]

TypeOK ==
    /\ current \in NoBlock .. Top
    /\ \A i \in DOMAIN to_blockchain : to_blockchain[i].type \in
          {"CurrentBlockstamp", "CurrentBlock", "BlockByNumber", "Chunk", "UIDs", "Blocks"}
    /\ \A i \in DOMAIN broadcasting : broadcasting[i].type \in {"GetBlocks", "StackUpValidBlock"}
    /\ \A i \in DOMAIN to_ws2p : "from" \in DOMAIN to_ws2p[i] => to_ws2p[i].from \in Node
    /\ ws2p.current_blockstamp \in Block /\ ws2p.my_head \in Block \cup {NoHead}
    /\ ws2p.next_receiver \in 0 .. Cardinality(Node)
    /\ ws2p.uids_cache \subseteq HasUid
    /\ ws2p.endpoints \in [Node -> State]
    /\ DOMAIN ws2p.heads_cache \subseteq Node /\ Range(ws2p.heads_cache) \subseteq Cached
    /\ tui.connections_status \in [Node -> [status : State \cup {"Unknown"}, uid : BOOLEAN]]
    /\ tui.established_conns_count \in 0 .. Cardinality(Node)
    /\ remote.open \subseteq Node

Quiet == to_blockchain = <<>> /\ broadcasting = <<>> /\ to_ws2p = <<>>
Shown(n) == tui.connections_status[n].status = "Established"
AnsweredTo(n, body) == <<n, body, body>> \in BagToSet(remote.answers)

\* A request of a remote node is answered at most once, to that node, under its
\* identifier and with the kind of answer it asked for, whatever other requests
\* are on their way to the block-chain module and back.
AnswersAreAsked ==
    \A a \in DOMAIN remote.answers :
        /\ remote.answers[a] = 1
        /\ a[2] = a[3] /\ \E q \in remote.asked : q.node = a[1] /\ q.body = a[3]

\* With no message on its way, the three modules hold the same current block and
\* this node's head, the one relayed to the network, is of that block, whatever
\* responses have overtaken the blocks stacked before them.
QuietMeansCurrent ==
    Quiet /\ remote.forks = 0 =>
        /\ ws2p.current_blockstamp = current /\ ws2p.my_head = current
        /\ tui.heads_cache[Self].block = current

\* The interface shows every connection the network module holds Established,
\* and every head it keeps, in the same version.
NetworkIsShown ==
    /\ \A n \in Node : ws2p.endpoints[n] = "Established" => Shown(n)
    /\ \A n \in DOMAIN ws2p.heads_cache : LET h == ws2p.heads_cache[n] IN
          /\ n \in DOMAIN tui.heads_cache
          /\ tui.heads_cache[n].block = h.block /\ tui.heads_cache[n].step = h.step

\* The copies of one fact in the three modules agree.
ViewsAgree == TypeOK /\ QuietMeansCurrent /\ NetworkIsShown

\* What is shown of a remote node never goes back to an older head.
HeadsGoForward ==
    [][\A n \in Node \cap DOMAIN tui.heads_cache :
          tui.heads_cache'[n].block >= tui.heads_cache[n].block]_tui

\* A node that stays connected and asks for the current block gets it.
CurrentIsAnswered ==
    \A n \in Node :
        [node |-> n, body |-> "GetCurrent", exists |-> TRUE] \in remote.asked
            ~> (AnsweredTo(n, "GetCurrent") \/ n \in remote.left)

\* One honest node among those that never answer is enough: its turn comes and
\* the whole chain is stacked, and both modules end up with its last block.
CatchesUp == <>[](current = Top /\ ws2p.current_blockstamp = Top)

\* A connection that stays is shown with its member's name in the end.
UidIsShown ==
    \A n \in HasUid : (ws2p.endpoints[n] = "Established")
        ~> (tui.connections_status[n].uid \/ ws2p.endpoints[n] # "Established")

\* Questions get their answers while the connection they are about lasts.
QuestionsAreAnswered == CurrentIsAnswered /\ UidIsShown

-----------------------------------------------------------------------------
(* What comments, documentation or names of the code say and the code does *)
(* not do: the README names the configuration that shows each.             *)

\* "Number of established connections": established_conns_count is the number
\* of connections shown as established.
CountIsShown == tui.established_conns_count = Cardinality({n \in Node : Shown(n)})

\* No connection is shown that the network module has closed.
ShownIsEstablished == \A n \in Node : Shown(n) => ws2p.endpoints[n] = "Established"

\* This node's head is of its current block, whatever branches were tried.
HeadIsCurrent == Quiet => ws2p.my_head = current

\* A request for a block, or a chunk, that exists is answered.
BlocksAreAnswered ==
    \A n \in Node, body \in {"GetBlock", "GetBlocks"} :
        [node |-> n, body |-> body, exists |-> TRUE] \in remote.asked
            ~> (AnsweredTo(n, body) \/ n \in remote.left)
=============================================================================
