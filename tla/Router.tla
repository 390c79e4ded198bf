------------------------------- MODULE Router -------------------------------
(***************************************************************************)
(* The router of a node relays the messages that its modules exchange.     *)
(* Two threads share the work: the router thread answers to every module   *)
(* and relays responses; events and requests go on to the broadcasting     *)
(* thread, which knows who subscribed to what.  Modules register while     *)
(* messages already flow: what is sent in the first MAX_REGISTRATION_DELAY *)
(* seconds is kept for the modules that are not plugged yet.               *)
(*                                                                         *)
(* An mpsc channel is a sequence.  The threads of a module are reduced to  *)
(* what they send; what a module received stays in its inbox.              *)
(***************************************************************************)
EXTENDS Naturals, FiniteSets, Sequences, SequencesExt

CONSTANTS
    Module,                 \* names of the modules that will be plugged
    Blockchain,             \* the one that the core starts last
    Network,                \* those with the role InterNodesNetwork
    Interests,              \* Interests[m]: events it subscribes to, then its roles
    Message,                \* the events, requests and responses sent in this run
    MAX_REGISTRATION_DELAY, \* in ticks
    MaxTime,                \* bound: the clock stops here
    NoMessage               \* answered by a message that is no response

\* A message: its sender (from), the event type, role or module it is for (to)
\* and its place among the messages of that sender to that address (no, from 1).
\* A response answers a request; it alone is addressed to a module by its name.
MessageType == [kind : {"Event", "Request", "Response"}, from : Module,
                to : STRING, no : Nat, answers : STRING]

ASSUME MessageAssumption ==
    /\ Message \subseteq MessageType
    /\ \A msg \in Message : msg.kind = "Response" <=> msg.to \in Module
    /\ \A msg \in Message : msg.no > 0
    /\ \A one, two \in Message :
          one.from = two.from /\ one.to = two.to /\ one.no = two.no => one = two
    /\ Blockchain \in Module /\ Network \subseteq Module \ {Blockchain} /\ Network # {}
    /\ Interests \in [Module -> Seq(STRING)]
    /\ \A m \in Module : IsInjective(Interests[m])
    /\ {MAX_REGISTRATION_DELAY, MaxTime} \subseteq Nat

Address == (UNION {Range(Interests[m]) : m \in Module}) \cup {msg.to : msg \in Message}

VARIABLES
    now,                \* seconds since start_router
    router_channel,     \* from the modules and the core to the router thread
    broadcasting_channel, \* from the router thread to the broadcasting thread
    inbox,              \* inbox[m]: what was sent to module m so far
    modules_senders,    \* modules the router thread can reach
    router_pool,        \* its pool_msgs: responses for modules not plugged yet
    plugged,            \* modules the broadcasting thread can reach
    pool_msgs,          \* its events and requests, by address
    expected,           \* whether it knows how many modules to expect
    status,             \* of the two threads and of the process
    started,            \* modules that have sent their registration
    sent,               \* messages sent so far
    left,               \* modules that have stopped: their receiver is dropped
    handled,            \* history: the messages each thread has handled
    owed                \* history: owed[m]: the messages module m must have got

vars == <<now, router_channel, broadcasting_channel, inbox, modules_senders, router_pool,
          plugged, pool_msgs, expected, status, started, sent, left, handled, owed>>

-----------------------------------------------------------------------------
Stop == [kind |-> "Stop"]
ModulesCount == [kind |-> "ModulesCount"]
ModulesEndpoints == [kind |-> "ModulesEndpoints"]
ModuleRegistration(m) == [kind |-> "ModuleRegistration", static_name |-> m]

\* The two tests of the clock leave out one second between them.
Early == now < MAX_REGISTRATION_DELAY
Late == now > MAX_REGISTRATION_DELAY

Alive == status.process = "running"
Subscribed(m, msg) == Contains(Interests[m], msg.to)

TypeOK ==
    LET items == Message \cup {Stop, ModulesCount} \cup {ModuleRegistration(m) : m \in Module}
    IN  /\ now \in 0 .. MaxTime
        /\ router_channel \in Seq(items)
        /\ broadcasting_channel \in Seq({item \in items : item.kind # "Response"})
        /\ inbox \in [Module -> Seq(Message \cup {Stop, ModulesEndpoints})]
        /\ router_pool \in [Module -> Seq(Message)]
        /\ pool_msgs \in [Address -> Seq(Message)]
        /\ plugged \subseteq started /\ modules_senders \subseteq started
        /\ started \subseteq Module /\ left \subseteq Module /\ sent \subseteq Message
        /\ expected \in BOOLEAN
        /\ status \in [router : {"running", "stopped"}, broadcasting : {"running", "stopped"},
                       process : {"running", "relay failed", "router gone", "too few modules"}]

Init ==
    /\ now = 0
    /\ router_channel = <<>> /\ broadcasting_channel = <<>>
    /\ inbox = [m \in Module |-> <<>>]
    /\ modules_senders = {} /\ plugged = {}
    /\ router_pool = [m \in Module |-> <<>>]
    /\ pool_msgs = [a \in Address |-> <<>>]
    /\ expected = FALSE
    /\ status = [router |-> "running", broadcasting |-> "running", process |-> "running"]
    /\ started = {} /\ sent = {} /\ left = {}
    /\ handled = [router |-> {}, broadcasting |-> {}]
    /\ owed = [m \in Module |-> {}]

Tick ==
    /\ Alive /\ now < MaxTime
    /\ now' = now + 1
    /\ UNCHANGED <<router_channel, broadcasting_channel, inbox, modules_senders, router_pool,
                   plugged, pool_msgs, expected, status, started, sent, left, handled, owed>>

-----------------------------------------------------------------------------
(* The modules and the core.                                               *)

\* A send to the router: once its thread has ended, every module takes the
\* process down with it.
SendToRouter(items) ==
    IF status.router = "running"
    THEN router_channel' = router_channel \o items /\ UNCHANGED status
    ELSE status' = [status EXCEPT !.process = "router gone"] /\ UNCHANGED router_channel

Others == <<now, broadcasting_channel, inbox, modules_senders, router_pool, plugged,
            pool_msgs, expected, handled, owed>>

\* A module thread, started while the core goes on plugging, registers.
Register(m) ==
    /\ Alive /\ m \notin started \cup {Blockchain}
    /\ SendToRouter(<<ModuleRegistration(m)>>)
    /\ started' = started \cup {m}
    /\ UNCHANGED Others /\ UNCHANGED <<sent, left>>

\* When all modules are plugged, start() announces their number and registers
\* the block-chain module.
StartCore ==
    /\ Alive /\ Blockchain \notin started
    /\ SendToRouter(<<ModulesCount, ModuleRegistration(Blockchain)>>)
    /\ started' = started \cup {Blockchain}
    /\ UNCHANGED Others /\ UNCHANGED <<sent, left>>

\* The main thread of a network module does not wait for its proxy thread to
\* register; the block-chain module starts after its registration.
Send(msg) ==
    /\ Alive /\ msg \in Message \ sent
    /\ msg.from = Blockchain => Blockchain \in started
    /\ msg.from \notin left
    /\ msg.no > 1 => \E earlier \in sent :
          earlier.from = msg.from /\ earlier.to = msg.to /\ earlier.no = msg.no - 1
    /\ msg.answers # NoMessage =>
          \E i \in DOMAIN inbox[msg.from] :
              inbox[msg.from][i].kind = "Request" /\ inbox[msg.from][i].to = msg.answers
    /\ SendToRouter(<<msg>>)
    /\ sent' = sent \cup {msg}
    /\ UNCHANGED Others /\ UNCHANGED <<started, left>>

\* A module asks for the end, once.
RequestStop ==
    /\ Alive /\ started # {} /\ status.router = "running" /\ Stop \notin Range(router_channel)
    /\ SendToRouter(<<Stop>>)
    /\ UNCHANGED Others /\ UNCHANGED <<started, sent, left>>

\* The thread of a module ends at the stop message.
Leave(m) ==
    /\ Alive /\ m \notin left /\ Contains(inbox[m], Stop)
    /\ left' = left \cup {m}
    /\ UNCHANGED Others /\ UNCHANGED <<router_channel, status, started, sent>>

-----------------------------------------------------------------------------
(* The router thread.                                                      *)

NextItem == Head(router_channel)

RouterTakes(kinds) ==
    /\ Alive /\ status.router = "running" /\ router_channel # <<>>
    /\ NextItem.kind \in kinds
    /\ router_channel' = Tail(router_channel)
    /\ UNCHANGED <<now, plugged, pool_msgs, expected, started, sent, left>>

RelayedKinds == {"ModulesCount", "Event", "Request"}

RelayToBroadcasting ==
    /\ RouterTakes(RelayedKinds)
    /\ broadcasting_channel' = Append(broadcasting_channel, NextItem)
    /\ UNCHANGED <<inbox, modules_senders, router_pool, status, handled, owed>>

\* History: whom a message is for; a message is owed to the modules that are
\* registered when it comes, and to one that registers early all that came.
IsFor(msg, m) ==
    IF msg.kind = "Response" THEN msg.to = m ELSE Subscribed(m, msg) /\ msg.from # m

HandleMessage(thread, registered, msg) ==
    /\ handled' = [handled EXCEPT ![thread] = @ \cup {msg}]
    /\ owed' = [m \in Module |->
                   IF m \in registered /\ IsFor(msg, m) THEN owed[m] \cup {msg} ELSE owed[m]]

HandleRegistration(thread, m) ==
    /\ owed' = IF Early
               THEN [owed EXCEPT ![m] = @ \cup {msg \in handled[thread] : IsFor(msg, m)}]
               ELSE owed
    /\ UNCHANGED handled

\* A new module gets the responses kept for it.
RelayRegistration ==
    /\ RouterTakes({"ModuleRegistration"})
    /\ LET m == NextItem.static_name
       IN  /\ inbox' = [inbox EXCEPT ![m] = @ \o router_pool[m]]
           /\ router_pool' = [router_pool EXCEPT ![m] = <<>>]
           /\ modules_senders' = modules_senders \cup {m}
    /\ broadcasting_channel' = Append(broadcasting_channel, NextItem)
    /\ HandleRegistration("router", NextItem.static_name)
    /\ UNCHANGED status

KeepResponse(msg) ==
    router_pool' = IF Early THEN [router_pool EXCEPT ![msg.to] = Append(@, msg)]
                            ELSE [m \in Module |-> <<>>]

RelayResponse ==
    /\ RouterTakes({"Response"})
    /\ IF NextItem.to \in modules_senders
       THEN /\ inbox' = [inbox EXCEPT ![NextItem.to] = Append(@, NextItem)]
            /\ UNCHANGED router_pool
       ELSE KeepResponse(NextItem) /\ UNCHANGED inbox
    /\ HandleMessage("router", modules_senders, NextItem)
    /\ UNCHANGED <<broadcasting_channel, modules_senders, status>>

\* Mutant: the stop goes to the modules that the broadcasting thread serves.
StopReceiversBroadcasting == plugged

StopReceivers == modules_senders

RelayStop ==
    /\ RouterTakes({"Stop"})
    /\ broadcasting_channel' = Append(broadcasting_channel, Stop)
    /\ inbox' = [m \in Module |->
                    IF m \in StopReceivers THEN Append(inbox[m], Stop) ELSE inbox[m]]
    /\ status' = [status EXCEPT !.router = "stopped"]
    /\ UNCHANGED <<modules_senders, router_pool, handled, owed>>

RouterStep == RelayToBroadcasting \/ RelayRegistration \/ RelayResponse \/ RelayStop

-----------------------------------------------------------------------------
(* The broadcasting thread.                                                *)

BroadcastItem == Head(broadcasting_channel)

BroadcastingTakes(kinds) ==
    /\ Alive /\ status.broadcasting = "running" /\ broadcasting_channel # <<>>
    /\ BroadcastItem.kind \in kinds
    /\ broadcasting_channel' = Tail(broadcasting_channel)
    /\ UNCHANGED <<now, router_channel, modules_senders, router_pool, started, sent, left>>

\* After each item but the last: too few modules in time are fatal.
CheckDeadline(counted, registered) ==
    status' = IF Late /\ (~counted \/ registered # Module)
              THEN [status EXCEPT !.process = "too few modules"] ELSE status

\* What each module gets; a module that has left cannot get anything.
Deliver(news, registered) ==
    IF \E m \in left : news[m] # <<>>
    THEN /\ status' = [status EXCEPT !.process = "relay failed"]
         /\ UNCHANGED inbox
    ELSE /\ inbox' = [m \in Module |-> inbox[m] \o news[m]]
         /\ CheckDeadline(expected, registered)

CountModules ==
    /\ BroadcastingTakes({"ModulesCount"})
    /\ expected' = TRUE
    /\ CheckDeadline(TRUE, plugged)
    /\ UNCHANGED <<inbox, plugged, pool_msgs, handled, owed>>

\* Mutant: the pool is emptied for the first module that comes.
ForgetPool(m) == [a \in Address |-> IF Contains(Interests[m], a) THEN <<>> ELSE pool_msgs[a]]

PoolAfterRegistration(m) == pool_msgs

Pending(m) == FlattenSeq([i \in DOMAIN Interests[m] |-> pool_msgs[Interests[m][i]]])

Complete(m) == expected /\ plugged \cup {m} = Module

\* The new module gets the messages kept for its events, then for its roles.
\* When it is the last one, the endpoints of the node go to the network modules
\* among those plugged before it.
AdmitModule ==
    /\ BroadcastingTakes({"ModuleRegistration"})
    /\ LET m == BroadcastItem.static_name
       IN  /\ plugged' = plugged \cup {m}
           /\ pool_msgs' = PoolAfterRegistration(m)
           /\ Deliver([x \in Module |->
                  IF x = m THEN Pending(m)
                  ELSE IF Complete(m) /\ x \in Network \cap plugged THEN <<ModulesEndpoints>>
                  ELSE <<>>], plugged \cup {m})
    /\ HandleRegistration("broadcasting", BroadcastItem.static_name)
    /\ UNCHANGED expected

Receivers(msg) ==
    {m \in plugged : Subscribed(m, msg) /\ (msg.kind = "Event" => m # msg.from)}

\* Mutant: the last message kept is the first one relayed.
StoreMsgFirst(msg) ==
    IF Early THEN [pool_msgs EXCEPT ![msg.to] = <<msg>> \o @] ELSE [a \in Address |-> <<>>]

\* An early message is kept; the first one that is not empties the pool.
StoreMsg(msg) ==
    IF Early THEN [pool_msgs EXCEPT ![msg.to] = Append(@, msg)] ELSE [a \in Address |-> <<>>]

Broadcast ==
    /\ BroadcastingTakes({"Event", "Request"})
    /\ LET msg == BroadcastItem
       IN  /\ pool_msgs' = StoreMsg(msg)
           /\ Deliver([m \in Module |-> IF m \in Receivers(msg) THEN <<msg>> ELSE <<>>],
                      plugged)
           /\ HandleMessage("broadcasting", plugged, msg)
    /\ UNCHANGED <<plugged, expected>>

StopBroadcasting ==
    /\ BroadcastingTakes({"Stop"})
    /\ status' = [status EXCEPT !.broadcasting = "stopped"]
    /\ UNCHANGED <<inbox, plugged, pool_msgs, expected, handled, owed>>

BroadcastingStep == CountModules \/ AdmitModule \/ Broadcast \/ StopBroadcasting

-----------------------------------------------------------------------------
Next ==
    \/ Tick
    \/ \E m \in Module : Register(m) \/ Leave(m)
    \/ StartCore
    \/ \E msg \in Message : Send(msg)
    \/ RequestStop
    \/ RouterStep
    \/ BroadcastingStep

Spec == Init /\ [][Next]_vars

\* The threads of the router go on while there is something in their channel,
\* and a module ends when it finds the stop message.
LiveSpec ==
    /\ Spec
    /\ WF_vars(RouterStep) /\ WF_vars(BroadcastingStep)
    /\ \A m \in Module : WF_vars(Leave(m))

-----------------------------------------------------------------------------
(* Properties.                                                             *)

\* "Keep the message in memory to be able to send it back to modules not yet
\* plugged": in whatever order a message and the registration of a module it is
\* for reach the thread that relays it, the module has the message, unless the
\* registration comes second and late.
EarlyMessagesReach == Alive => \A m \in Module : owed[m] \subseteq Range(inbox[m])

\* No module gets a message twice, although it may be both kept and relayed:
\* neither one of another module, nor the endpoints of the node, nor the stop.
DeliveredOnce == \A m \in Module : IsInjective(inbox[m])

\* The messages of one module to one address reach each receiver in the order
\* they were sent, whether they were kept or relayed.
OrderKept ==
    \A m \in Module : \A i, j \in DOMAIN inbox[m] :
        LET one == inbox[m][i]
            two == inbox[m][j]
        IN  /\ i < j /\ {one, two} \subseteq Message
            /\ one.from = two.from /\ one.to = two.to
            => one.no < two.no

\* Each module gets each message once, in the order it was sent, whether kept or
\* relayed by one thread or the other.
DeliveredInOrder == TypeOK /\ DeliveredOnce /\ OrderKept

\* A node that is asked to stop ends: every module whose registration came
\* before the stop has ended, or the process has.
NodeStops ==
    (Alive /\ status.router = "stopped") ~> (~Alive \/ modules_senders \subseteq left)

\* "Send endpoints to network module": when all modules are plugged, every
\* network module has been sent the endpoints of the node.
EndpointsReachNetwork ==
    Alive /\ expected /\ plugged = Module =>
        \A m \in Network : Contains(inbox[m], ModulesEndpoints)
=============================================================================
