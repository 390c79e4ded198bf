------------------------------- MODULE WS2Pv1 -------------------------------
(***************************************************************************)
(* The outgoing connections of the WS2P v1 module.  One main thread keeps  *)
(* what it knows of every endpoint and a websocket per endpoint; each      *)
(* connection has a thread of its own that negotiates (CONNECT, ACK, OK)   *)
(* and tells the main thread through one channel.  The negotiation state   *)
(* exists twice: in the thread (conn[c].state) and, later, in the main     *)
(* thread (endpoints[e]), whose tables are by endpoint, not by connection. *)
(*                                                                         *)
(* The remote node may send what it likes in any order; a message with a   *)
(* bad signature is one of the others.  The events this module sends to    *)
(* other modules are left out.                                             *)
(***************************************************************************)
EXTENDS Naturals, FiniteSets, Sequences, SequencesExt, FiniteSetsExt

CONSTANTS
    Endpoint,           \* the WS2P endpoints of the network (node full ids)
    Issuer,             \* Issuer[e]: the key that announced endpoint e
    OwnKey,             \* the key of this node
    SyncEndpoints,      \* conf.sync_endpoints
    PreferedPubkeys,    \* conf.prefered_pubkeys
    NeedsSsl,           \* endpoints on port 443; this build has no ssl
    OutcomingQuota,     \* conf.outcoming_quota
    MaxConns,           \* bound: connections opened in a behaviour
    MaxChannel,         \* bound: messages waiting for the main thread
    MaxRequests,        \* bound: requests sent to remote nodes
    SavedTables,        \* what endpoints.bin may hold: tables of earlier runs
    NoConn              \* no websocket

Conn == 1 .. MaxConns
EndpointOrNone == Endpoint \cup {"none"}

\* WS2PConnectionState, in three classes: a negotiation under way, its end, and
\* "Absent" for an endpoint the table does not hold.
Negotiation == {"ConnectMessOk", "AckMessOk", "OkMessOkWaitingAckMess"}
EndpointState == Negotiation \cup {"Absent", "NeverTry", "WSError", "Unreachable",
                                   "NoResponse", "Denial", "Close", "Established"}
ThreadState == Negotiation \cup {"WaitingConnectMess", "Established"}

ASSUME WS2PAssumption ==
    /\ IsFiniteSet(Endpoint) /\ SyncEndpoints \subseteq Endpoint /\ NeedsSsl \subseteq Endpoint
    /\ DOMAIN Issuer = Endpoint
    /\ {OutcomingQuota, MaxConns, MaxChannel, MaxRequests} \subseteq Nat
    /\ SavedTables \subseteq [Endpoint -> EndpointState]
    /\ NoConn \notin 1 .. MaxConns

VARIABLES
    endpoints,      \* ws2p_endpoints: the recorded state of each endpoint
    websockets,     \* the connection whose Sender is kept for each endpoint
    channel,        \* the main thread's channel
    conn,           \* the connection threads
    awaiting,       \* requests_awaiting_response
    next_receiver,  \* whose turn it is to be asked for blocks
    node            \* status of the main thread, and counters of the bounds

vars == <<endpoints, websockets, channel, conn, awaiting, next_receiver, node>>
requests == <<awaiting, next_receiver>>

FreeThread == [ep |-> "none", phase |-> "free", state |-> "WaitingConnectMess", timers |-> {}]

TypeOK ==
    /\ endpoints \in [Endpoint -> EndpointState]
    /\ websockets \in [Endpoint -> Conn \cup {NoConn}]
    /\ \A i \in 1 .. Len(channel) : channel[i].conn \in Conn /\ channel[i].from \in Endpoint
    /\ conn \in [Conn -> [ep : EndpointOrNone, state : ThreadState,
                          phase : {"free", "dialled", "open", "closing", "closed"},
                          timers : SUBSET {"CONNECT", "EXPIRE"}]]
    /\ awaiting \subseteq [id : 1 .. MaxRequests, to : Endpoint,
                            body : {"GetCurrent", "GetBlocks"}, overdue : BOOLEAN]
    /\ next_receiver \in Nat
    /\ node \in [status : {"down", "running", "fatal"}, asked : 0 .. MaxRequests]

Running == node.status = "running"
Established(table) == {e \in Endpoint : table[e] = "Established"}

-----------------------------------------------------------------------------
(* Dialling *)

\* A thread is spawned for every endpoint of the set.  The endpoint's recorded
\* state does not say so.
connect_to_without_checking_quotas(threads, dialled) ==
    LET used == Cardinality({c \in Conn : threads[c].phase # "free"})
        order == SetToSeq(dialled)
    IN  [c \in Conn |-> IF c - used \in 1 .. Len(order)
                        THEN [FreeThread EXCEPT !.ep = order[c - used], !.phase = "dialled"]
                        ELSE threads[c]]

\* The endpoints one pass over the table can retain, in an unspecified order of
\* the hash map: of each issuer but this node's, the first that is not
\* Established; an Established one is counted when it comes before that.
Selections(table) ==
    LET known == {e \in Endpoint : table[e] # "Absent"}
        candidates == known \ Established(table)
        all(e) == Issuer[e] = OwnKey
    IN  {s \in [retained : SUBSET candidates, counted : SUBSET Established(table)] :
            /\ \A e \in candidates :
                  IF all(e) THEN e \in s.retained
                  ELSE Cardinality({f \in s.retained : Issuer[f] = Issuer[e]}) = 1
            /\ \A e \in Established(table) \ s.counted :
                  ~all(e) /\ \E f \in s.retained : Issuer[f] = Issuer[e]}

\* A retained endpoint on port 443 is not dialled when its last try did not fail.
Reachable(table, retained) ==
    {e \in retained : table[e] \in {"NeverTry", "Close", "Denial"}} \ NeedsSsl
Unreachable(table, retained) ==
    {e \in retained : table[e] \notin {"NeverTry", "Close", "Denial"}}

\* The preferred reachable endpoints go first, then the other reachable ones.
Rank(table, e) ==
    IF e \notin Reachable(table, {e}) THEN 3
    ELSE IF Issuer[e] \in PreferedPubkeys THEN 1 ELSE 2

\* What a wave may dial: as many as there are rooms, those of a better rank first.
\* The rooms are a usize: a count above the quota would not give zero but wrap.
Waves(table) ==
    {dialled \in SUBSET Endpoint : \E s \in Selections(table) :
        LET rooms == IF Cardinality(s.counted) <= OutcomingQuota
                     THEN OutcomingQuota - Cardinality(s.counted) ELSE Cardinality(Endpoint)
            offered == Reachable(table, s.retained) \cup Unreachable(table, s.retained)
        IN  /\ dialled \subseteq offered
            /\ Cardinality(dialled) = Min({rooms, Cardinality(offered)})
            /\ \A e \in dialled, f \in offered \ dialled : Rank(table, e) <= Rank(table, f)}

\* Every dialled endpoint has a thread: a bound on Conn, not a guard of the code.
HasThreads(threads, dialled) ==
    Cardinality({c \in Conn : threads[c].phase = "free"}) >= Cardinality(dialled)

\* Mutant: the states of the file are taken as they are.
LoadedAsSaved(file) ==
    [e \in Endpoint |->
        IF file[e] # "Absent" /\ e \notin NeedsSsl THEN file[e]
        ELSE IF e \in SyncEndpoints THEN "Close" ELSE "Absent"]

\* start: the endpoints of the configuration, then those of the file, where a
\* connection that was Established when the file was written is over.  Then a wave.
LoadedEndpoints(file) ==
    [e \in Endpoint |->
        IF file[e] # "Absent" /\ e \notin NeedsSsl
        THEN IF file[e] = "Established" THEN "Close" ELSE file[e]
        ELSE IF e \in SyncEndpoints THEN "Close" ELSE "Absent"]

Start ==
    /\ node.status = "down"
    /\ \E file \in SavedTables, dialled \in SUBSET Endpoint :
          /\ dialled \in Waves(LoadedEndpoints(file)) /\ HasThreads(conn, dialled)
          /\ endpoints' = LoadedEndpoints(file)
          /\ conn' = connect_to_without_checking_quotas(conn, dialled)
    /\ node' = [node EXCEPT !.status = "running"]
    /\ UNCHANGED <<websockets, channel, requests>>

\* A wave of the main loop, when its interval has elapsed.
ConnectingWave ==
    /\ Running
    /\ Cardinality(Established(endpoints)) < OutcomingQuota
    /\ \E dialled \in Waves(endpoints) :
          /\ dialled # {} /\ HasThreads(conn, dialled)
          /\ conn' = connect_to_without_checking_quotas(conn, dialled)
    /\ UNCHANGED <<endpoints, websockets, channel, requests, node>>

-----------------------------------------------------------------------------
(* A connection thread *)

Msg(c, payload, info) ==
    [payload |-> payload, from |-> conn[c].ep, conn |-> c, info |-> info]
Send(msg) == Len(channel) < MaxChannel /\ channel' = Append(channel, msg)

\* The thread of c goes on as in "thread" and only sends "msg" to the main thread.
Tell(c, thread, msg) ==
    /\ Send(msg) /\ conn' = [conn EXCEPT ![c] = thread]
    /\ UNCHANGED <<endpoints, websockets, requests>>

Listening(c) == Running /\ conn[c].phase \in {"open", "closing"}

\* on_open: two timeouts; our CONNECT leaves at once.
Open(c) ==
    /\ Running /\ conn[c].phase = "dialled"
    /\ Tell(c, [conn[c] EXCEPT !.phase = "open", !.timers = {"CONNECT", "EXPIRE"}],
            Msg(c, "WebsocketOk", "none"))
    /\ UNCHANGED node

\* ws::connect fails: its result is ignored and nobody is told.
DialFails(c) ==
    /\ Running /\ conn[c].phase = "dialled"
    /\ conn' = [conn EXCEPT ![c].phase = "closed"]
    /\ UNCHANGED <<endpoints, websockets, channel, requests, node>>

\* Mutant: an OK is enough once CONNECT is known.
AfterAuthOkEnds(state, auth) ==
    CASE auth = "CONNECT" /\ state = "WaitingConnectMess" -> "ConnectMessOk"
      [] auth = "ACK" /\ state \in {"ConnectMessOk", "OkMessOkWaitingAckMess"} -> "AckMessOk"
      [] auth = "OK" /\ state \in {"ConnectMessOk", "AckMessOk"} -> "Established"
      [] OTHER -> "Invalid"

\* What a message of the negotiation makes of the thread's state.
AfterAuth(state, auth) ==
    CASE auth = "CONNECT" /\ state = "WaitingConnectMess" -> "ConnectMessOk"
      [] auth = "ACK" /\ state = "ConnectMessOk" -> "AckMessOk"
      [] auth = "ACK" /\ state = "OkMessOkWaitingAckMess" -> "Established"
      [] auth = "OK" /\ state = "ConnectMessOk" -> "OkMessOkWaitingAckMess"
      [] auth = "OK" /\ state = "AckMessOk" -> "Established"
      [] OTHER -> "Invalid"

ValidMessage == [CONNECT |-> "ValidConnectMessage", ACK |-> "ValidAckMessage", OK |-> "ValidOk"]

\* on_message with a message of the negotiation.  Frames that arrive while a
\* close is under way are still handled.
HearAuth(c, auth) ==
    LET after == AfterAuth(conn[c].state, auth)
    IN  /\ Listening(c) /\ after # "Invalid"
        /\ Tell(c, [conn[c] EXCEPT !.state = after], Msg(c, ValidMessage[auth], after))
        /\ UNCHANGED node

\* An invalid, badly signed or unknown message, a head, a block document or a
\* request: all it does to these tables is that a request overdue is seen to be.
\* (A message taken for spam does not even reach the main thread.)
HearOther(c) ==
    /\ Listening(c) /\ \E r \in awaiting : r.overdue
    /\ Tell(c, conn[c], Msg(c, "Other", "none"))
    /\ UNCHANGED node

\* The remote node answers a request that was sent to it.
HearResponse(c, r) ==
    /\ Listening(c) /\ r.to = conn[c].ep
    /\ Tell(c, conn[c], Msg(c, "ReqResponse", r.id))
    /\ UNCHANGED node

\* A peer card lists the endpoints of one key.
HearPeerCard(c, key) ==
    /\ Listening(c) /\ \E e \in Endpoint : Issuer[e] = key /\ endpoints[e] = "Absent"
    /\ Tell(c, conn[c], Msg(c, "PeerCard", key))
    /\ UNCHANGED node

\* Mutant: the negotiation's timeout only looks for a silent remote node.
ConnectTimeoutOfSilence(c) ==
    /\ Listening(c) /\ "CONNECT" \in conn[c].timers
    /\ IF conn[c].state = "WaitingConnectMess"
       THEN Tell(c, [conn[c] EXCEPT !.phase = "closing", !.timers = {"EXPIRE"}],
                 Msg(c, "NegociationTimeout", "none"))
       ELSE /\ conn' = [conn EXCEPT ![c].timers = {"EXPIRE"}]
            /\ UNCHANGED <<endpoints, websockets, channel, requests>>
    /\ UNCHANGED node

\* on_timeout: the negotiation has lasted too long, or nothing has come for long.
ConnectTimeout(c) ==
    /\ Listening(c) /\ "CONNECT" \in conn[c].timers
    /\ IF conn[c].state # "Established"
       THEN Tell(c, [conn[c] EXCEPT !.phase = "closing", !.timers = {"EXPIRE"}],
                 Msg(c, "NegociationTimeout", "none"))
       ELSE /\ conn' = [conn EXCEPT ![c].timers = {"EXPIRE"}]
            /\ UNCHANGED <<endpoints, websockets, channel, requests>>
    /\ UNCHANGED node

\* EXPIRE is the longer of the two.  Each frame sets it anew; that a frame would do
\* so after it went off is left out.
ExpireTimeout(c) ==
    /\ Listening(c) /\ conn[c].timers = {"EXPIRE"}
    /\ Tell(c, [conn[c] EXCEPT !.phase = "closing", !.timers = {}], Msg(c, "Timeout", "none"))
    /\ UNCHANGED node

\* on_close: by the remote node, a network error or the end of our own close.
OnClose(c) ==
    /\ Listening(c)
    /\ Tell(c, [conn[c] EXCEPT !.phase = "closed", !.timers = {}], Msg(c, "Close", "none"))
    /\ UNCHANGED node

-----------------------------------------------------------------------------
(* The main thread: ws2p_recv_message_pretreatment, then the arm of main_loop *)

\* Every message first drops the requests that have waited too long.
check_timeout_requests == {r \in awaiting : ~r.overdue}

Deliver(payload, msg) ==
    /\ Running /\ channel # <<>>
    /\ msg = Head(channel) /\ msg.payload = payload
    /\ channel' = Tail(channel)

\* What sending to the websocket of e may come to: once the thread has ended, its
\* Sender fails as soon as the event loop is gone.
Sending(e) ==
    IF websockets[e] = NoConn THEN {"nowhere"}
    ELSE IF conn[websockets[e]].phase = "closed" THEN {"sent", "failed"} ELSE {"sent"}

\* The thread whose Sender is kept is asked to close.
CloseSocket(e) ==
    [c \in Conn |-> IF c = websockets[e] /\ conn[c].phase = "open"
                    THEN [conn[c] EXCEPT !.phase = "closing"] ELSE conn[c]]

\* close_connection: forgets the websocket; the state becomes "state".
close_connection(e, state) ==
    /\ endpoints' = [endpoints EXCEPT ![e] = state]
    /\ conn' = CloseSocket(e)
    /\ websockets' = [websockets EXCEPT ![e] = NoConn]

\* The signal WSError, and what the main loop makes of it.
WSError(e) == close_connection(e, "Close")

DeliverWebsocketOk(msg) ==
    /\ Deliver("WebsocketOk", msg)
    /\ websockets' = [websockets EXCEPT ![msg.from] = msg.conn]
    /\ awaiting' = check_timeout_requests
    /\ UNCHANGED <<endpoints, conn, next_receiver, node>>

\* The main thread records "state", unless the reply failed to leave.
RecordOrFail(e, state, reply) ==
    IF reply = "failed" THEN WSError(e)
    ELSE /\ endpoints' = [endpoints EXCEPT ![e] = state]
         /\ UNCHANGED <<websockets, conn>>

\* The ACK that answers CONNECT goes to the websocket of the endpoint; without one
\* the remote node has closed.
DeliverConnect(msg) ==
    /\ Deliver("ValidConnectMessage", msg)
    /\ \E reply \in Sending(msg.from) :
          RecordOrFail(msg.from, IF reply = "nowhere" THEN "Close" ELSE msg.info, reply)
    /\ awaiting' = check_timeout_requests
    /\ UNCHANGED <<next_receiver, node>>

\* The OK that answers ACK; without a websocket the main thread panics.  An ACK
\* that comes after OK ends the negotiation: nothing is sent, nothing announced.
DeliverAck(msg) ==
    /\ Deliver("ValidAckMessage", msg)
    /\ \E reply \in IF msg.info = "AckMessOk" THEN Sending(msg.from) ELSE {"none"} :
          /\ RecordOrFail(msg.from, msg.info, reply)
          /\ node' = IF reply = "nowhere" THEN [node EXCEPT !.status = "fatal"] ELSE node
    /\ awaiting' = check_timeout_requests
    /\ UNCHANGED next_receiver

\* send_request_to_specific_node: it is remembered when it could be sent.  Beyond
\* MaxRequests nothing is remembered.
send_request_to_specific_node(e, body, kept) ==
    \/ /\ "sent" \in Sending(e) /\ node.asked < MaxRequests
       /\ awaiting' = kept \cup {[id |-> node.asked + 1, to |-> e, body |-> body,
                                  overdue |-> FALSE]}
       /\ node' = [node EXCEPT !.asked = @ + 1]
    \/ /\ Sending(e) # {"sent"} \/ node.asked = MaxRequests
       /\ awaiting' = kept /\ UNCHANGED node

\* OK ends the negotiation (the node is asked for its current block), or comes
\* before ACK.  The code's last arm, for other states, is never taken.
DeliverOk(msg) ==
    LET e == msg.from
    IN  /\ Deliver("ValidOk", msg)
        /\ endpoints' = [endpoints EXCEPT ![e] = msg.info]
        /\ \/ /\ msg.info = "Established"
              /\ send_request_to_specific_node(e, "GetCurrent", check_timeout_requests)
           \/ /\ msg.info = "OkMessOkWaitingAckMess"
              /\ awaiting' = check_timeout_requests /\ UNCHANGED node
        /\ UNCHANGED <<websockets, conn, next_receiver>>

\* What the main thread records when a negotiation took too long depends on what
\* it had recorded; the thread's closing then ends in a Close.
StateAfterTimeout(state) ==
    CASE state \in {"AckMessOk", "ConnectMessOk"} -> "Denial"
      [] OTHER -> "Unreachable"

DeliverNegociationTimeout(msg) ==
    /\ Deliver("NegociationTimeout", msg)
    /\ close_connection(msg.from, StateAfterTimeout(endpoints[msg.from]))
    /\ awaiting' = check_timeout_requests
    /\ UNCHANGED <<next_receiver, node>>

DeliverTimeout(msg) ==
    /\ Deliver("Timeout", msg)
    /\ close_connection(msg.from, "Close")
    /\ awaiting' = check_timeout_requests
    /\ UNCHANGED <<next_receiver, node>>

DeliverClose(msg) ==
    /\ Deliver("Close", msg)
    /\ close_connection(msg.from, "Close")
    /\ awaiting' = check_timeout_requests
    /\ UNCHANGED <<next_receiver, node>>

\* connect_to, for each endpoint of the card the table does not hold.  No thread
\* left (MaxConns) is taken as a dial that fails.
DeliverPeerCard(msg) ==
    LET unknown == {e \in Endpoint \ NeedsSsl : Issuer[e] = msg.info /\ endpoints[e] = "Absent"}
        dialled == IF OutcomingQuota > Cardinality(Established(endpoints)) THEN unknown ELSE {}
    IN  /\ Deliver("PeerCard", msg)
        /\ endpoints' = [e \in Endpoint |-> IF e \in unknown THEN "NeverTry" ELSE endpoints[e]]
        /\ conn' = IF HasThreads(conn, dialled)
                   THEN connect_to_without_checking_quotas(conn, dialled) ELSE conn
        /\ awaiting' = check_timeout_requests
        /\ UNCHANGED <<websockets, next_receiver, node>>

\* An answer ends the request, unless the request has timed out before.
DeliverReqResponse(msg) ==
    /\ Deliver("ReqResponse", msg)
    /\ awaiting' = {r \in check_timeout_requests : r.id # msg.info}
    /\ UNCHANGED <<endpoints, websockets, conn, next_receiver, node>>

DeliverOther(msg) ==
    /\ Deliver("Other", msg)
    /\ awaiting' = check_timeout_requests
    /\ UNCHANGED <<endpoints, websockets, conn, next_receiver, node>>

-----------------------------------------------------------------------------
(* The main thread: messages of other modules, and time *)

\* The place of e among the Established endpoints, in the order of the hash map.
Place(e) ==
    LET order == SetToSeq(Endpoint)
        rank(f) == CHOOSE i \in DOMAIN order : order[i] = f
    IN  Cardinality({f \in Established(endpoints) : rank(f) <= rank(e)})

\* receive_req with GetBlocks: the Established endpoints take turns; past the last
\* one the first is asked and the turn starts over.  The turn is kept below
\* MaxRequests + 1, more requests than are sent.
GetBlocks ==
    LET inTurn == next_receiver < Cardinality(Established(endpoints))
        turn == IF inTurn THEN next_receiver + 1 ELSE 1
    IN  /\ Running /\ node.asked < MaxRequests
        /\ next_receiver' = IF inTurn THEN turn ELSE 0
        /\ \E e \in Established(endpoints) :
              Place(e) = turn /\ send_request_to_specific_node(e, "GetBlocks", awaiting)
        /\ UNCHANGED <<endpoints, websockets, channel, conn>>

\* WS2P_V1_REQUESTS_TIMEOUT_IN_SECS have passed since the request was sent.
RequestOverdue(r) ==
    /\ Running /\ ~r.overdue
    /\ awaiting' = (awaiting \ {r}) \cup {[r EXCEPT !.overdue = TRUE]}
    /\ UNCHANGED <<endpoints, websockets, channel, conn, next_receiver, node>>

-----------------------------------------------------------------------------
Init ==
    /\ endpoints = [e \in Endpoint |-> "Absent"]
    /\ websockets = [e \in Endpoint |-> NoConn]
    /\ channel = <<>>
    /\ conn = [c \in Conn |-> FreeThread]
    /\ awaiting = {} /\ next_receiver = 0
    /\ node = [status |-> "down", asked |-> 0]

MainThread ==
    \E msg \in {channel[i] : i \in 1 .. Min({1, Len(channel)})} :
        \/ DeliverWebsocketOk(msg) \/ DeliverConnect(msg) \/ DeliverAck(msg) \/ DeliverOk(msg)
        \/ DeliverNegociationTimeout(msg) \/ DeliverTimeout(msg) \/ DeliverClose(msg)
        \/ DeliverPeerCard(msg) \/ DeliverReqResponse(msg)
        \/ DeliverOther(msg)

Hear(c) ==
    \/ \E auth \in DOMAIN ValidMessage : HearAuth(c, auth)
    \/ HearOther(c)
    \/ \E r \in awaiting : HearResponse(c, r)
    \/ \E key \in {Issuer[e] : e \in Endpoint} : HearPeerCard(c, key)

Thread(c) ==
    Open(c) \/ DialFails(c) \/ Hear(c) \/ ConnectTimeout(c) \/ ExpireTimeout(c) \/ OnClose(c)

Next ==
    \/ Start \/ ConnectingWave \/ MainThread \/ GetBlocks
    \/ \E r \in awaiting : RequestOverdue(r)
    \/ \E c \in Conn : Thread(c)

Spec == Init /\ [][Next]_vars

\* The main thread reads its channel; a timer that is set goes off; a close that
\* is under way ends (the remote node answers it, or the connection breaks); a
\* dial comes to an end.  The remote node owes nothing else.
Fairness ==
    /\ WF_vars(MainThread)
    /\ \A c \in Conn :
          /\ WF_vars(ConnectTimeout(c))
          /\ WF_vars(conn[c].phase = "closing" /\ OnClose(c))
          /\ WF_vars(Open(c) \/ DialFails(c))
FairSpec == Spec /\ Fairness

-----------------------------------------------------------------------------
(* Properties *)

\* The main thread will still hear that connection c is over.
NotOver(c) ==
    \/ conn[c].phase # "closed"
    \/ \E i \in 1 .. Len(channel) : channel[i].conn = c /\ channel[i].payload = "Close"

\* An endpoint recorded as Established has a connection that went through the whole
\* negotiation and is not over: none counts towards the quota for good because of
\* a connection that ended, that was saved in the file or that negotiated only in
\* part.
EstablishedIsBacked ==
    \A e \in Established(endpoints) :
        \E c \in Conn : conn[c].ep = e /\ conn[c].state = "Established" /\ NotOver(c)

\* A kept websocket belongs to a connection to that endpoint that did open and is
\* not over for the main thread.
WebsocketIsLive ==
    \A e \in Endpoint : websockets[e] # NoConn =>
        LET c == websockets[e]
        IN  conn[c].ep = e /\ conn[c].phase \notin {"free", "dialled"} /\ NotOver(c)

\* The tables by endpoint follow the threads of the connections, through waves,
\* timers, closes and restarts.
TablesFollowThreads == TypeOK /\ EstablishedIsBacked /\ WebsocketIsLive

\* A connection that is open does not leave its endpoint in the middle of a negotiation for
\* ever: every thread that negotiates ends it or gives up, and the table follows.
Negotiating(e) ==
    /\ Running /\ endpoints[e] \in Negotiation
    /\ \E c \in Conn : conn[c].ep = e /\ conn[c].phase = "open"
NegotiationEnds ==
    \A e \in Endpoint : Negotiating(e) ~> endpoints[e] \notin Negotiation \/ ~Running

\* Every connection thread negotiates as WS2PHandshake promises: what it has heard
\* of the remote node follows from its state.
HeardIn(state) ==
    CASE state = "WaitingConnectMess" -> {}
      [] state = "ConnectMessOk" -> {"CONNECT"}
      [] state = "AckMessOk" -> {"CONNECT", "ACK"}
      [] state = "OkMessOkWaitingAckMess" -> {"CONNECT", "OK"}
      [] state = "Established" -> {"CONNECT", "ACK", "OK"}

Handshake == INSTANCE WS2PHandshake WITH
    Side <- Conn, heard <- [c \in Conn |-> HeardIn(conn[c].state)]
NegotiatesInOrder == Handshake!Spec

\* (Not so; WS2Pv1_not_so.cfg.)  An OK or ACK reply goes out on the connection whose challenge it signs.
RepliesOnOwnSocket ==
    channel # <<>> =>
        LET m == Head(channel)
        IN  m.payload \in {"ValidConnectMessage", "ValidAckMessage"} /\ websockets[m.from] # NoConn
                => websockets[m.from] = m.conn

\* (Not so; WS2Pv1_not_so.cfg.)  "Fatal error : no websocket for {}": an ACK always finds the websocket.
AckFindsWebsocket == node.status # "fatal"

=============================================================================
