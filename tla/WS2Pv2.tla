------------------------------- MODULE WS2Pv2 -------------------------------
(***************************************************************************)
(* One connection of WS2P v2: its two ends, each a controller behind a     *)
(* websocket handler, and the frames on their way.  Both ends run this     *)
(* code, or one of them is another implementation, which sends its CONNECT *)
(* when the connection opens and then what it likes.                       *)
(*                                                                         *)
(* A controller turns an event into an order for the handler: nothing, a   *)
(* message to send or a close, with the state each outcome leads to; the   *)
(* handler executes the order and tells the orchestrator every change of   *)
(* state.  Nothing is lost or reordered while the connection lives.        *)
(***************************************************************************)
EXTENDS Naturals, Sequences

CONSTANTS
    Setups,         \* nodes and connections considered: see Setup
    InvalidLimit,   \* WS2P_INVALID_MSGS_LIMIT
    MaxFaults,      \* bound: sends and closes that fail, broken connections
    MaxForeign      \* bound: messages of an end that does not run this code

Side == {"client", "server"}
Other(s) == IF s = "client" THEN "server" ELSE "client"

\* WS2PConnectionState; the states in Over are the ends of a connection.
Over == {"Unreachable", "Denial", "Close"}
State == Over \cup {"TryToOpenWS", "TryToSendConnectMsg", "WaitingConnectMsg",
    "ConnectMessOk", "AckMsgOk", "OkMsgOkWaitingAckMsg", "SecretFlagsOk",
    "SecretFlagsOkWaitingAckMsg", "Established"}

\* The flags of a CONNECT message, and whether it names a chunk.
Flags(type) ==
    CASE type = "OutgoingClient" -> {"CLIENT"}
      [] type \in {"SyncFromGenesis", "SyncFromBlock"} -> {"SYNC"}
      [] type = "SyncAskChunk" -> {"SYNC", "ASK_SYNC_CHUNK"}
      [] type = "SyncSendChunks" -> {"SYNC", "RES_SYNC_CHUNK"}
      [] type \in {"Incoming", "OutgoingServer"} -> {}
NamesChunk(type) == type = "SyncAskChunk"

\* from_flags: what the other end makes of them.
TypeFromFlags(flags, namesChunk) ==
    CASE "SYNC" \notin flags -> "OutgoingServer"
      [] "SYNC" \in flags /\ "ASK_SYNC_CHUNK" \in flags /\ namesChunk -> "SyncAskChunk"
      [] "SYNC" \in flags /\ "RES_SYNC_CHUNK" \in flags -> "SyncSendChunks"
      [] OTHER -> IF namesChunk THEN "SyncFromBlock" ELSE "SyncFromGenesis"

\* The end that does not run this code, if any; the type an outgoing connection is
\* opened with; whether the node it reaches is the one it expects; what each node
\* can do.
ConnectType == {"OutgoingClient", "OutgoingServer", "SyncFromGenesis", "SyncFromBlock",
                "SyncAskChunk", "SyncSendChunks"}
Feature == {"DEF", "LOW", "ABF"}
Setup == [foreign : {"none"} \cup Side, type : ConnectType, expected : BOOLEAN,
          features : [Side -> SUBSET Feature]]

ASSUME WS2Pv2Assumption ==
    /\ Setups \subseteq Setup
    /\ InvalidLimit \in Nat \ {0} /\ MaxFaults \in Nat /\ MaxForeign \in Nat

VARIABLES
    setup,          \* what does not change: the nodes, their features, the type
    ends,           \* the two controllers, each with the frames on their way to it
    sockets,        \* their websockets
    orchestrator,   \* what the orchestrator of each end was told; "gone" or not
    spent           \* faults and foreign messages so far

vars == <<setup, ends, sockets, orchestrator, spent>>

\* A BARE_CONNECT has no byte of features, which this code never sends.
Frame == {"CONNECT", "BARE_CONNECT", "ACK", "WRONG_ACK", "OK", "SECRET_FLAGS", "KO",
          "DATA", "INVALID", "CLOSE"}

ThisCode(s) == setup.foreign # s
TypeOf(s) == IF s = "client" THEN setup.type ELSE "Incoming"

TypeOK ==
    /\ setup \in Setups
    /\ ends \in [Side -> [state : State, remote : {"none"} \cup Side,
                          remote_type : ConnectType \cup {"none", "Incoming"},
                          features : (SUBSET Feature) \cup {{"none"}},
                          invalid : Nat, heard : SUBSET {"CONNECT", "ACK", "OK"},
                          frames : Seq(Frame)]]
    /\ sockets \in [Side -> {"opening", "open", "closing", "closed", "fatal"}]
    /\ orchestrator \in [Side -> [there : BOOLEAN, told : State, announced : ConnectType \cup {"none"}]]
    /\ spent \in [faults : 0 .. MaxFaults, foreign : 0 .. MaxForeign]

-----------------------------------------------------------------------------
(* The controller: what an event is turned into *)

Order(end, action, ok, fail) == [end |-> end, action |-> action, ok |-> ok, fail |-> fail]
NoOrder(end) == Order(end, "none", end.state, end.state)
CloseOrder(end, state) == Order(end, "close", state, state)
TimeoutOrder(end) == Order(end, "close", "Close", "Unreachable")

\* check_features_compatibility: what both have.  A remote node with LOW is refused
\* by one without it, and the merged features stay unknown.
MergedFeatures(mine, theirs, before) ==
    IF "LOW" \in theirs \ mine THEN before ELSE mine \cap theirs

\* A CONNECT message.  An outgoing end refuses a node it does not expect; every
\* other objection (a state in which none is expected, flags from an incoming node,
\* incompatible features) builds a close that is dropped: the ACK goes out.
HearConnect(s, end) ==
    LET from == Other(s)
        waited == end.state = "WaitingConnectMsg"
        type == IF s = "client" THEN "Incoming"
                ELSE TypeFromFlags(Flags(TypeOf(from)), NamesChunk(TypeOf(from)))
        known == [end EXCEPT !.remote = IF waited THEN from ELSE @,
                             !.remote_type = IF waited THEN type ELSE @]
        merged == MergedFeatures(setup.features[s], setup.features[from], end.features)
    IN  IF waited /\ s = "client" /\ ~setup.expected THEN CloseOrder(end, "Denial")
        ELSE Order([known EXCEPT !.features = merged, !.heard = {"CONNECT"}],
                   "ACK", "ConnectMessOk", "Unreachable")

\* The features of a CONNECT are read without a look at how many bytes there are: the
\* thread panics when there is none.
HearBareConnect(s, end) ==
    IF end.state = "WaitingConnectMsg" /\ s = "client" /\ ~setup.expected
    THEN CloseOrder(end, "Denial")
    ELSE Order(end, "fatal", end.state, end.state)

\* Mutant: an ACK ends the negotiation.
HearAckEnds(end, right) ==
    IF end.state \notin {"ConnectMessOk", "OkMsgOkWaitingAckMsg"} THEN CloseOrder(end, "Denial")
    ELSE Order([end EXCEPT !.heard = @ \cup {"ACK"}], "OK", "Established", "Unreachable")

\* Mutant: an ACK is taken in every state.
HearAckAnyTime(end, right) ==
    Order([end EXCEPT !.heard = @ \cup {"ACK"}], "OK",
          IF end.state = "OkMsgOkWaitingAckMsg" THEN "Established" ELSE "AckMsgOk", "Unreachable")

\* An ACK message; one that answers another challenge ends in Denial, with nothing
\* sent and the connection open.
HearAck(end, right) ==
    LET after == IF end.state = "ConnectMessOk" THEN "AckMsgOk" ELSE "Established"
    IN  IF end.state \notin {"ConnectMessOk", "OkMsgOkWaitingAckMsg"}
        THEN CloseOrder(end, "Denial")
        ELSE IF right
        THEN Order([end EXCEPT !.heard = @ \cup {"ACK"}], "OK", after, "Unreachable")
        ELSE NoOrder([end EXCEPT !.state = "Denial"])

\* Mutant: OK ends the negotiation before ACK too.
HearOkEnds(end) ==
    IF end.state \in {"ConnectMessOk", "SecretFlagsOkWaitingAckMsg", "AckMsgOk", "SecretFlagsOk"}
    THEN NoOrder([end EXCEPT !.state = "Established", !.heard = @ \cup {"OK"}])
    ELSE CloseOrder(end, "Denial")

\* Mutant: an ACK is awaited after OK, whether or not it has come.
HearOkThenAck(end) ==
    IF end.state \in {"ConnectMessOk", "SecretFlagsOkWaitingAckMsg", "AckMsgOk", "SecretFlagsOk"}
    THEN NoOrder([end EXCEPT !.state = "OkMsgOkWaitingAckMsg", !.heard = @ \cup {"OK"}])
    ELSE CloseOrder(end, "Denial")

\* An OK message.  It ends the negotiation with a node that is not known (its CONNECT
\* came when none was expected) only to end the process.
HearOk(end) ==
    CASE end.state \in {"AckMsgOk", "SecretFlagsOk"} /\ end.remote = "none" ->
            Order(end, "fatal", end.state, end.state)
      [] end.state \in {"ConnectMessOk", "SecretFlagsOkWaitingAckMsg"} ->
            NoOrder([end EXCEPT !.state = "OkMsgOkWaitingAckMsg", !.heard = @ \cup {"OK"}])
      [] end.state \in {"AckMsgOk", "SecretFlagsOk"} /\ end.remote # "none" ->
            NoOrder([end EXCEPT !.state = "Established", !.heard = @ \cup {"OK"}])
      [] OTHER -> CloseOrder(end, "Denial")

HearSecretFlags(end) ==
    CASE end.state = "ConnectMessOk" ->
            NoOrder([end EXCEPT !.state = "SecretFlagsOkWaitingAckMsg"])
      [] end.state = "AckMsgOk" -> NoOrder([end EXCEPT !.state = "SecretFlagsOk"])
      [] OTHER -> CloseOrder(end, "Denial")

\* A message that cannot be read or whose signature is wrong.
HearInvalid(end) ==
    IF end.invalid >= InvalidLimit THEN CloseOrder(end, "Denial") ELSE NoOrder(end)

\* on_message.  The spam counter compares the time with a value just set to it and
\* never counts.  Ko, text, and data before the end of a negotiation close; data after it
\* goes to the orchestrator, and closes when nobody listens.
Process(s, end, frame) ==
    CASE frame = "CONNECT" -> HearConnect(s, end)
      [] frame = "BARE_CONNECT" -> HearBareConnect(s, end)
      [] frame = "ACK" -> HearAck(end, TRUE)
      [] frame = "WRONG_ACK" -> HearAck(end, FALSE)
      [] frame = "OK" -> HearOk(end)
      [] frame = "SECRET_FLAGS" -> HearSecretFlags(end)
      [] frame = "DATA" /\ end.state = "Established" ->
            IF orchestrator[s].there THEN NoOrder(end) ELSE TimeoutOrder(end)
      [] frame = "INVALID" -> HearInvalid([end EXCEPT !.invalid = @ + 1])
      [] OTHER -> CloseOrder(end, "Denial")

-----------------------------------------------------------------------------
(* The handler *)

\* A change of state is told to the orchestrator, if it still listens.
Tell(known, state) == [known EXCEPT !.told = IF known.there THEN state ELSE @]

\* The end is in "state" from now on and its orchestrator is told; "frames" leave,
\* and a close frame if it closes.  What is sent once its websocket is closing is
\* dropped without an error.
After(s, end, state, frames, closes) ==
    LET sent == IF closes THEN Append(frames, "CLOSE") ELSE frames
    IN  /\ ends' = [ends EXCEPT
                ![s] = [end EXCEPT !.state = state],
                ![Other(s)].frames = IF sockets[s] = "closing" THEN @ ELSE @ \o sent]
        /\ orchestrator' = [orchestrator EXCEPT ![s] = Tell(@, state)]
        /\ sockets' = [sockets EXCEPT ![s] =
                          IF closes THEN "closing" ELSE IF @ = "opening" THEN "open" ELSE @]

Fault == spent.faults < MaxFaults /\ spent' = [spent EXCEPT !.faults = @ + 1]

\* A close, which fails when the queue of the event loop is full.
Close(s, order) ==
    \/ After(s, order.end, order.ok, <<>>, TRUE) /\ UNCHANGED spent
    \/ After(s, order.end, order.fail, <<>>, FALSE) /\ Fault

\* A message.  With no orchestrator to tell the new state, the connection is closed
\* in that state.  A send that fails is followed by a close, which may fail too.
SendMessage(s, order) ==
    \/ After(s, order.end, order.ok, <<order.action>>, ~orchestrator[s].there)
       /\ UNCHANGED spent
    \/ \E closes \in BOOLEAN : After(s, order.end, order.fail, <<>>, closes) /\ Fault

\* The type of the connection: its own for the end that opened it.
AnnouncedType(s, end) == IF s = "client" THEN TypeOf(s) ELSE end.remote_type

\* No order: the controller has changed its own state, and told so: that OK ends a
\* negotiation as NewConnEstablished, with the type of the connection.  When nobody
\* listens the handler closes.
Settle(s, end) ==
    LET known == Tell(orchestrator[s], end.state)
        new == end.state = "Established" /\ known.there
    IN  IF end.state = ends[s].state
        THEN ends' = [ends EXCEPT ![s] = end] /\ UNCHANGED <<orchestrator, sockets, spent>>
        ELSE IF ~known.there THEN Close(s, TimeoutOrder(end))
        ELSE /\ ends' = [ends EXCEPT ![s] = end]
             /\ orchestrator' = [orchestrator EXCEPT ![s] =
                    IF new THEN [known EXCEPT !.announced = AnnouncedType(s, end)] ELSE known]
             /\ UNCHANGED <<sockets, spent>>

\* The thread of s panics, and the connection ends with it.
Fatal(s) ==
    /\ sockets' = [side \in Side |-> IF side = s THEN "fatal" ELSE "closed"]
    /\ ends' = [side \in Side |-> [ends[side] EXCEPT !.frames = <<>>]]
    /\ UNCHANGED <<orchestrator, spent>>

\* exec_ws_action
Exec(s, order) ==
    /\ CASE order.action = "none" -> Settle(s, order.end)
         [] order.action = "fatal" -> Fatal(s)
         [] order.action = "close" -> Close(s, order)
         [] OTHER -> SendMessage(s, order)
    /\ UNCHANGED setup

-----------------------------------------------------------------------------
(* The events of an end that runs this code *)

Handles(s) == ThisCode(s) /\ sockets[s] \in {"open", "closing"}

\* on_open: TryToSendConnectMsg is told, CONNECT leaves.
OnOpen(s) ==
    LET end == [ends[s] EXCEPT !.state = "TryToSendConnectMsg"]
    IN  /\ ThisCode(s) /\ sockets[s] = "opening"
        /\ Exec(s, IF orchestrator[s].there
                   THEN Order(end, "CONNECT", "WaitingConnectMsg", "Unreachable")
                   ELSE TimeoutOrder(end))

\* on_message: also while a close of this end is under way.
OnMessage(s) ==
    /\ Handles(s) /\ ends[s].frames # <<>> /\ Head(ends[s].frames) # "CLOSE"
    /\ Exec(s, Process(s, [ends[s] EXCEPT !.frames = Tail(@)], Head(ends[s].frames)))

\* Mutant: only silence ends a connection.
CheckSilence(s) ==
    /\ Handles(s) /\ sockets[s] = "open" /\ ends[s].state = "Established"
    /\ Exec(s, TimeoutOrder(ends[s]))

\* on_timeout, each second: a negotiation that lasts too long, or a remote node that
\* has been silent for long, ends in a close.
CheckTimeouts(s) ==
    /\ Handles(s) /\ (sockets[s] = "open" \/ ends[s].state # "Close")
    /\ Exec(s, TimeoutOrder(ends[s]))

\* The close frame of the other end is answered.  on_close is empty: the controller
\* and the orchestrator are not told.
OnClose(s) ==
    /\ Handles(s) /\ ends[s].frames # <<>> /\ Head(ends[s].frames) = "CLOSE"
    /\ ends' = [ends EXCEPT ![s].frames = <<>>,
                            ![Other(s)].frames = IF sockets[s] = "open" THEN Append(@, "CLOSE") ELSE @]
    /\ sockets' = [sockets EXCEPT ![s] = "closed"]
    /\ UNCHANGED <<setup, orchestrator, spent>>

-----------------------------------------------------------------------------
(* The environment *)

\* The connection breaks, or is never made.
Break ==
    /\ Fault /\ \A s \in Side : sockets[s] \in {"opening", "open", "closing"}
    /\ sockets' = [s \in Side |-> "closed"]
    /\ ends' = [s \in Side |-> [ends[s] EXCEPT !.frames = <<>>]]
    /\ UNCHANGED <<setup, orchestrator>>

\* The orchestrator of s drops its receiver.
OrchestratorLeaves(s) ==
    /\ Fault /\ ThisCode(s) /\ orchestrator[s].there
    /\ orchestrator' = [orchestrator EXCEPT ![s].there = FALSE]
    /\ UNCHANGED <<setup, ends, sockets>>

\* An end of another implementation: CONNECT first and once, then anything; what it
\* is sent is of no account, but it answers a close.
ForeignOpens(s) ==
    /\ ~ThisCode(s) /\ sockets[s] = "opening"
    /\ sockets' = [sockets EXCEPT ![s] = "open"]
    /\ \E connect \in {"CONNECT", "BARE_CONNECT"} :
          ends' = [ends EXCEPT ![Other(s)].frames = Append(@, connect)]
    /\ UNCHANGED <<setup, orchestrator, spent>>

ForeignSends(s, frame) ==
    /\ ~ThisCode(s) /\ sockets[s] = "open"
    /\ spent.foreign < MaxForeign /\ spent' = [spent EXCEPT !.foreign = @ + 1]
    /\ ends' = [ends EXCEPT ![Other(s)].frames = Append(@, frame)]
    /\ sockets' = [sockets EXCEPT ![s] = IF frame = "CLOSE" THEN "closing" ELSE @]
    /\ UNCHANGED <<setup, orchestrator>>

ForeignReads(s) ==
    /\ ~ThisCode(s) /\ sockets[s] \in {"open", "closing"} /\ ends[s].frames # <<>>
    /\ LET closes == Head(ends[s].frames) = "CLOSE"
           answer == IF closes /\ sockets[s] = "open" THEN <<"CLOSE">> ELSE <<>>
       IN  /\ ends' = [ends EXCEPT ![s].frames = IF closes THEN <<>> ELSE Tail(@),
                                   ![Other(s)].frames = @ \o answer]
           /\ sockets' = [sockets EXCEPT ![s] = IF closes THEN "closed" ELSE @]
    /\ UNCHANGED <<setup, orchestrator, spent>>

-----------------------------------------------------------------------------
NewController ==
    [state |-> "TryToOpenWS", remote |-> "none", remote_type |-> "none",
     features |-> {"none"}, invalid |-> 0, heard |-> {}, frames |-> <<>>]

Init ==
    /\ setup \in Setups
    /\ ends = [s \in Side |-> NewController]
    /\ sockets = [s \in Side |-> "opening"]
    /\ orchestrator = [s \in Side |->
                        [there |-> TRUE, told |-> "TryToOpenWS", announced |-> "none"]]
    /\ spent = [faults |-> 0, foreign |-> 0]

End(s) == OnOpen(s) \/ OnMessage(s) \/ CheckTimeouts(s) \/ OnClose(s)

Next ==
    \/ Break
    \/ \E s \in Side :
          \/ End(s) \/ OrchestratorLeaves(s) \/ ForeignOpens(s) \/ ForeignReads(s)
          \/ \E frame \in Frame \ {"CONNECT"} : ForeignSends(s, frame)

Spec == Init /\ [][Next]_vars

\* The event loop of an end goes on and its timer of a second is never dropped; the
\* other end answers a close.
Fairness == \A s \in Side :
    /\ WF_vars(OnOpen(s)) /\ WF_vars(OnMessage(s) \/ OnClose(s)) /\ WF_vars(CheckTimeouts(s))
    /\ WF_vars(ForeignOpens(s)) /\ WF_vars(ForeignReads(s))
FairSpec == Spec /\ Fairness

-----------------------------------------------------------------------------
(* Properties *)

BothThisCode == setup.foreign = "none"

\* An end that is Established has the promise of the other: the other end took its
\* CONNECT and its ACK, and unless it has given up since it is Established or waits
\* for nothing but the OK that is on the way.
EstablishedIsShared ==
    \A s \in Side : BothThisCode /\ ends[s].state = "Established" =>
        {"CONNECT", "ACK"} \subseteq ends[Other(s)].heard

\* No end is Established towards a node, this code or not, that did not send its
\* CONNECT, answer the challenge and accept this end's answer.
EstablishedHeardAll ==
    \A s \in Side : ends[s].state = "Established" => ends[s].heard = {"CONNECT", "ACK", "OK"}

\* Both ends announce a connection to the orchestrator as the same type, when that
\* type is one the flags can tell (a client looks like a server, a synchronisation
\* from a block like one from the genesis); and each names the other node.
FlagsTell(type) == TypeFromFlags(Flags(type), NamesChunk(type)) = type
SameConnection ==
    \A s \in Side : orchestrator[s].announced # "none" /\ BothThisCode =>
        /\ FlagsTell(setup.type) => orchestrator[s].announced = setup.type
        /\ ends[s].remote = Other(s)

\* Features an end settles on are ones both nodes have, and the ends agree on them.
FeaturesAreShared ==
    \A s \in Side : ends[s].features # {"none"} =>
        ends[s].features = setup.features["client"] \cap setup.features["server"]

\* The two ends agree on what they have established: the negotiation, the type of the
\* connection, the nodes and the features.
EndsAgree == EstablishedIsShared /\ SameConnection /\ FeaturesAreShared

\* Nothing short of a fault or a timeout keeps two ends of this code from being
\* Established: when all is quiet both are.
Quiet == sockets = [s \in Side |-> "open"] /\ \A s \in Side : ends[s].frames = <<>>
QuietMeansEstablished ==
    BothThisCode /\ setup.expected /\ Quiet /\ spent.faults = 0
        => \A s \in Side : ends[s].state = "Established"

\* Every negotiation ends: in Established, in an end of the connection, or with the
\* loss of the websocket.
NegotiationOf(s) == ThisCode(s) /\ ends[s].state \notin Over \cup {"Established"}
NegotiationsEnd == \A s \in Side : NegotiationOf(s) ~> ~NegotiationOf(s) \/ sockets[s] \in {"closed", "fatal"}

\* Two ends of this code negotiate as WS2PHandshake promises.
Handshake == INSTANCE WS2PHandshake WITH heard <- [s \in Side |-> ends[s].heard]
NegotiatesInOrder == Handshake!Spec

\* (Not so; WS2Pv2_not_so.cfg.)  The orchestrator learns that a connection it was
\* told is established has ended.
EndIsTold ==
    \A s \in Side : orchestrator[s].there /\ orchestrator[s].told = "Established"
        => sockets[s] # "closed"

\* (Not so; WS2Pv2_not_so.cfg.)  "remote_node must be valued in
\* process_ws2p_v2p_ok_msg() !": the node is known when an OK ends the negotiation.
RemoteIsKnown ==
    \A s \in Side : /\ Handles(s) /\ ends[s].state \in {"AckMsgOk", "SecretFlagsOk"}
                    /\ ends[s].frames # <<>> /\ Head(ends[s].frames) = "OK"
                    => ends[s].remote # "none"

\* (Not so; WS2Pv2_not_so.cfg.)  "Unexpected CONNECT message !": an end that is over
\* does not negotiate again.
OverIsFinal == [][\A s \in Side : ends[s].state \in Over => ends'[s].state \in Over]_vars

\* (Not so; WS2Pv2_not_so.cfg.)  "Unsupported features !": ends whose features are
\* incompatible are not Established.
CompatibleWhenEstablished ==
    \A s \in Side : BothThisCode /\ ends[s].state = "Established" => ends[s].features # {"none"}

\* (Not so; WS2Pv2_not_so.cfg.)  Every established connection is announced.
EstablishedIsAnnounced ==
    \A s \in Side : ends[s].state = "Established" /\ orchestrator[s].there
        => orchestrator[s].announced # "none"
=============================================================================
