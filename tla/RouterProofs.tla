---------------------------- MODULE RouterProofs ----------------------------
(***************************************************************************)
(* Proofs about Router, for any modules, subscriptions and messages: a     *)
(* module has each message once and in the order it was sent, and the      *)
(* early ones reach it in whatever order it registers.                     *)
(*                                                                         *)
(* Two threads fill the inbox of a module, one from its channel and one    *)
(* from what the other passes on, and each empties a pool into it when the *)
(* module registers.  What is in the channels comes after what a thread    *)
(* has handled, whoever sent it (InPlace); a pool holds, in order, what    *)
(* its thread has handled (Kept); an inbox holds what the threads it is    *)
(* registered with have handled (Received), hence in order what each gave  *)
(* it; and what is in it from one thread is never to the address of what   *)
(* comes from the other.                                                   *)
(***************************************************************************)
EXTENDS Router, SequenceLemmas

Item == Message \cup {Stop, ModulesCount, ModulesEndpoints}
                \cup {ModuleRegistration(m) : m \in Module}

\* What may stand before what: never the same thing, nor two messages of one
\* module to one address in the wrong order.
Comes ==
    {pair \in Item \X Item :
        /\ pair[1] # pair[2]
        /\ {pair[1], pair[2]} \subseteq Message
              /\ pair[1].from = pair[2].from /\ pair[1].to = pair[2].to
           => pair[1].no < pair[2].no}

Before(X, Y) == \A x \in X, y \in Y : <<x, y>> \in Comes

Travelling == Range(router_channel) \cup Range(broadcasting_channel)
Handled == handled.router \cup handled.broadcasting

-----------------------------------------------------------------------------
(* The inductive invariant.                                                *)

Typed ==
    /\ TypeOK
    /\ handled \in [router : SUBSET {msg \in Message : msg.kind = "Response"},
                    broadcasting : SUBSET {msg \in Message : msg.kind # "Response"}]
    /\ owed \in [Module -> SUBSET Message]

\* A registration is in one channel or the other until its thread has it; the
\* router thread ends at the stop.
Registering ==
    /\ plugged \subseteq modules_senders
    /\ \A m \in Module :
          /\ ModuleRegistration(m) \in Range(router_channel) => m \in started \ modules_senders
          /\ ModuleRegistration(m) \in Range(broadcasting_channel)
                => m \in modules_senders \ plugged
    /\ ModulesCount \in Travelling => Blockchain \in started
    /\ status.router = "running" => Stop \notin Range(broadcasting_channel)

\* The messages of a module to an address are sent one after the other.
SentInTurn ==
    \A msg \in sent : \A k \in 1 .. msg.no :
        \E earlier \in sent : earlier.from = msg.from /\ earlier.to = msg.to /\ earlier.no = k

InPlace ==
    /\ Ordered(Comes, router_channel) /\ Ordered(Comes, broadcasting_channel)
    /\ Before(Range(broadcasting_channel), Range(router_channel))
    /\ Before(Handled, Travelling)
    /\ Handled \subseteq sent /\ Travelling \cap Message \subseteq sent

Kept ==
    /\ \A m \in Module :
          /\ Range(router_pool[m]) \subseteq {msg \in handled.router : msg.to = m}
          /\ Ordered(Comes, router_pool[m])
    /\ \A a \in Address :
          /\ Range(pool_msgs[a]) \subseteq {msg \in handled.broadcasting : msg.to = a}
          /\ Ordered(Comes, pool_msgs[a])
    /\ Early =>
          /\ \A msg \in handled.router :
                msg \in Range(router_pool[msg.to]) \cup Range(inbox[msg.to])
          /\ \A msg \in handled.broadcasting : msg \in Range(pool_msgs[msg.to])

Received ==
    \A m \in Module :
        /\ Ordered(Comes, inbox[m])
        /\ Range(inbox[m]) \subseteq Handled \cup {Stop, ModulesEndpoints}
        /\ m \notin modules_senders => inbox[m] = <<>>
        /\ m \notin plugged => Range(inbox[m]) \subseteq handled.router \cup {Stop}
        /\ ModulesEndpoints \in Range(inbox[m]) => plugged = Module
        /\ Stop \in Range(inbox[m]) => status.router = "stopped"

IInv == Typed /\ Registering /\ SentInTurn /\ InPlace /\ Kept /\ Received /\ EarlyMessagesReach

-----------------------------------------------------------------------------
(* What the parts of the invariant are about. *)

Sendable == Message \cup {Stop, ModulesCount} \cup {ModuleRegistration(m) : m \in Module}
Relayed == {item \in Sendable : item.kind # "Response"}
Receivable == Message \cup {Stop, ModulesEndpoints}
NotResponse == {msg \in Message : msg.kind # "Response"}
Response == {msg \in Message : msg.kind = "Response"}

\* The items are all different, and a message is of its three kinds.
LEMMA ItemsDiffer ==
    /\ {Stop, ModulesCount, ModulesEndpoints} \cap Message = {}
    /\ Stop # ModulesCount /\ Stop # ModulesEndpoints /\ ModulesCount # ModulesEndpoints
    /\ \A m \in Module :
          ModuleRegistration(m) \notin Message \cup {Stop, ModulesCount, ModulesEndpoints}
    /\ \A m, n \in Module : ModuleRegistration(m) = ModuleRegistration(n) => m = n
    /\ \A m : ModuleRegistration(m).kind = "ModuleRegistration"
              /\ ModuleRegistration(m).static_name = m
    /\ Stop.kind = "Stop" /\ ModulesCount.kind = "ModulesCount"
    /\ ModulesEndpoints.kind = "ModulesEndpoints"
<1>1. \A msg \in Message : msg.kind \in {"Event", "Request", "Response"}
  BY MessageAssumption DEF MessageType
<1>2. \A m : ModuleRegistration(m).kind = "ModuleRegistration"
             /\ ModuleRegistration(m).static_name = m
  BY DEF ModuleRegistration
<1>3. Stop.kind = "Stop" /\ ModulesCount.kind = "ModulesCount"
      /\ ModulesEndpoints.kind = "ModulesEndpoints"
  BY DEF Stop, ModulesCount, ModulesEndpoints
<1> QED BY <1>1, <1>2, <1>3

\* A message: its fields, and what tells it from another.
LEMMA Messages ==
    /\ \A msg \in Message : /\ msg.kind \in {"Event", "Request", "Response"}
                            /\ msg.from \in Module /\ msg.no \in Nat /\ msg.no > 0
                            /\ msg.to \in Address
                            /\ msg.kind = "Response" <=> msg.to \in Module
    /\ \A one, two \in Message :
          one.from = two.from /\ one.to = two.to /\ one.no = two.no => one = two
<1>1. \A msg \in Message : msg.to \in Address
  <2> DEFINE To == {msg.to : msg \in Message}
  <2>1. \A msg \in Message : msg.to \in To
    OBVIOUS
  <2>2. To \subseteq Address
    BY DEF Address
  <2> QED BY <2>1, <2>2
<1> QED BY <1>1, MessageAssumption DEF MessageType

\* What the item at the head of a channel is, by its kind.
LEMMA KindTells ==
    \A item \in Sendable :
        /\ item \in Item
        /\ item.kind \in {"Event", "Request", "Response"} => item \in Message
        /\ item.kind = "Stop" => item = Stop
        /\ item.kind = "ModulesCount" => item = ModulesCount
        /\ item.kind = "ModuleRegistration" =>
              item.static_name \in Module /\ item = ModuleRegistration(item.static_name)
BY ItemsDiffer, Messages DEF Sendable, Item

\* Whatever is no message may stand before and behind anything else.
LEMMA Apart ==
    ASSUME NEW x \in Item, NEW y \in Item, x # y,
           x \notin Message \/ y \notin Message \/ x.to # y.to
    PROVE  <<x, y>> \in Comes
BY DEF Comes

\* What it says that one item comes before another.
LEMMA ComesBefore ==
    ASSUME NEW x \in Message, NEW y \in Message, <<x, y>> \in Comes
    PROVE  x # y /\ (x.from = y.from /\ x.to = y.to => x.no < y.no)
BY DEF Comes

\* The types of the state, one by one.
LEMMA TypesOf ==
    ASSUME Typed
    PROVE  /\ router_channel \in Seq(Sendable) /\ broadcasting_channel \in Seq(Relayed)
           /\ \A m \in Module : inbox[m] \in Seq(Receivable) /\ router_pool[m] \in Seq(Message)
           /\ \A a \in Address : pool_msgs[a] \in Seq(Message)
           /\ handled.router \subseteq Response /\ handled.broadcasting \subseteq NotResponse
           /\ \A m \in Module : owed[m] \subseteq Message
           /\ now \in Nat
<1> USE DEF Sendable, Relayed, Receivable
<1>1. router_channel \in Seq(Sendable) /\ broadcasting_channel \in Seq(Relayed)
  BY DEF Typed, TypeOK
<1>2. \A m \in Module : inbox[m] \in Seq(Receivable) /\ router_pool[m] \in Seq(Message)
  BY DEF Typed, TypeOK
<1>3. \A a \in Address : pool_msgs[a] \in Seq(Message)
  BY DEF Typed, TypeOK
<1>4. handled.router \subseteq Response /\ handled.broadcasting \subseteq NotResponse
      /\ \A m \in Module : owed[m] \subseteq Message
  BY DEF Typed, Response, NotResponse
<1>5. now \in Nat
  <2>1. now \in 0 .. MaxTime
    BY DEF Typed, TypeOK
  <2> QED BY <2>1
<1> QED BY <1>1, <1>2, <1>3, <1>4, <1>5

\* What a sequence holds.
LEMMA RangeOf ==
    ASSUME NEW S, NEW s \in Seq(S)
    PROVE  Range(s) \subseteq S /\ \A e : Contains(s, e) <=> e \in Range(s)
BY DEF Range, Contains

\* What is in a channel, an inbox or a pool is an item.
LEMMA AllItems ==
    ASSUME Typed
    PROVE  Handled \subseteq Message /\ Travelling \subseteq Sendable /\ Travelling \subseteq Item
           /\ Message \subseteq Item
<1>1. Range(router_channel) \subseteq Sendable /\ Range(broadcasting_channel) \subseteq Relayed
  BY TypesOf, RangeOf
<1>2. Handled \subseteq Message
  BY TypesOf DEF Handled, Response, NotResponse
<1> QED BY <1>1, <1>2 DEF Sendable, Relayed, Item, Travelling

-----------------------------------------------------------------------------
(* What the modules and the core do. *)

\* A send to the router puts the items behind all that is on its way.
LEMMA Sending ==
    ASSUME Typed, Alive, InPlace, NEW items \in Seq(Sendable), SendToRouter(items),
           Ordered(Comes, items), Before(Handled \cup Travelling, Range(items)),
           UNCHANGED <<broadcasting_channel, handled>>
    PROVE  /\ router_channel' \in Seq(Sendable)
           /\ Range(router_channel') \subseteq Range(router_channel) \cup Range(items)
           /\ Ordered(Comes, router_channel') /\ Ordered(Comes, broadcasting_channel)'
           /\ Before(Range(broadcasting_channel), Range(router_channel))'
           /\ Before(Handled, Travelling)'
<1>1. router_channel' = router_channel \/ router_channel' = router_channel \o items
  BY DEF SendToRouter
<1>2. router_channel \in Seq(Sendable)
  BY TypesOf
<1>3. CASE router_channel' = router_channel
  BY <1>2, <1>3 DEF InPlace, Before, Handled, Travelling
<1>4. CASE router_channel' = router_channel \o items
  <2>1. Ordered(Comes, router_channel) /\ Before(Range(router_channel), Range(items))
    BY DEF InPlace, Before, Travelling
  <2>2. /\ router_channel' \in Seq(Sendable) /\ Ordered(Comes, router_channel')
        /\ Range(router_channel') = Range(router_channel) \cup Range(items)
    BY <1>2, <1>4, <2>1, Concatenation DEF Before
  <2>3. Before(Range(broadcasting_channel), Range(router_channel'))
        /\ Before(Handled, Range(router_channel') \cup Range(broadcasting_channel))
    BY <2>2 DEF InPlace, Before, Travelling
  <2> QED BY <2>2, <2>3 DEF InPlace, Handled, Travelling
<1> QED BY <1>1, <1>3, <1>4

\* What the modules and the core leave alone, and most of what the threads do.
LEMMA InboxesStay ==
    ASSUME IInv, status'.router = status.router, Alive' => Alive,
           UNCHANGED <<now, inbox, modules_senders, router_pool, plugged, pool_msgs, handled, owed>>
    PROVE  Kept' /\ Received' /\ EarlyMessagesReach'
<1>1. Kept'
  BY DEF IInv, Kept, Early
<1>2. Received'
  BY DEF IInv, Received, Handled
<1>3. EarlyMessagesReach'
  BY DEF IInv, EarlyMessagesReach
<1> QED BY <1>1, <1>2, <1>3

\* A send to the router leaves the router thread and the stop as they are.
LEMMA SendingStatus ==
    ASSUME Typed, Alive, NEW items, SendToRouter(items)
    PROVE  /\ status' \in [router : {"running", "stopped"}, broadcasting : {"running", "stopped"},
                       process : {"running", "relay failed", "router gone", "too few modules"}]
           /\ status'.router = status.router
           /\ router_channel' # router_channel => status' = status
BY DEF Typed, TypeOK, SendToRouter

\* A send keeps the invariant when what is sent is new.
LEMMA ModuleSends ==
    ASSUME IInv, Alive, NEW items \in Seq(Sendable), SendToRouter(items), UNCHANGED Others,
           Ordered(Comes, items), Before(Handled \cup Travelling, Range(items)),
           started \subseteq started', started' \subseteq Module,
           sent \subseteq sent', sent' \subseteq Message, SentInTurn', UNCHANGED left,
           Range(items) \cap Message \subseteq sent',
           \A m \in Module : ModuleRegistration(m) \in Range(items)
                                => m \in started' \ modules_senders,
           ModulesCount \in Range(items) => Blockchain \in started'
    PROVE  IInv'
<1>1. UNCHANGED <<now, broadcasting_channel, inbox, modules_senders, router_pool, plugged,
                  pool_msgs, expected, handled, owed>>
  BY DEF Others
<1>2. Typed /\ InPlace /\ Registering
  BY DEF IInv
<1>3. /\ router_channel' \in Seq(Sendable)
      /\ Range(router_channel') \subseteq Range(router_channel) \cup Range(items)
      /\ Ordered(Comes, router_channel') /\ Ordered(Comes, broadcasting_channel)'
      /\ Before(Range(broadcasting_channel), Range(router_channel))'
      /\ Before(Handled, Travelling)'
  BY <1>1, <1>2, Sending
<1>4. /\ status' \in [router : {"running", "stopped"}, broadcasting : {"running", "stopped"},
                      process : {"running", "relay failed", "router gone", "too few modules"}]
      /\ status'.router = status.router
  BY <1>2, SendingStatus
<1>5. Typed'
  <2>1. TypeOK'
    <3>1. plugged' \subseteq started' /\ modules_senders' \subseteq started'
      BY <1>1, <1>2 DEF Typed, TypeOK
    <3> HIDE DEF Others
    <3> QED BY <1>1, <1>2, <1>3, <1>4, <3>1 DEF Typed, TypeOK, Sendable
  <2> QED BY <1>1, <1>2, <2>1 DEF Typed
<1>6. Registering'
  <2>1. \A m \in Module : ModuleRegistration(m) \in Range(router_channel')
                            => m \in started' \ modules_senders'
    BY <1>1, <1>2, <1>3 DEF Registering
  <2>2. ModulesCount \in Travelling' => Blockchain \in started'
    BY <1>1, <1>2, <1>3 DEF Registering, Travelling
  <2> QED BY <1>1, <1>2, <1>4, <2>1, <2>2 DEF Registering
<1>7. InPlace'
  <2>1. Handled' \subseteq sent'
    BY <1>1, <1>2 DEF InPlace, Handled
  <2>2. Travelling' \cap Message \subseteq sent'
    BY <1>1, <1>2, <1>3 DEF InPlace, Travelling
  <2> QED BY <1>3, <2>1, <2>2 DEF InPlace
<1>8. Alive' => Alive
  OBVIOUS
<1>9. Kept' /\ Received' /\ EarlyMessagesReach'
  BY <1>1, <1>4, InboxesStay
<1> QED BY <1>5, <1>6, <1>7, <1>9 DEF IInv

\* A module that starts sends its registration, which no channel holds.
LEMMA RegisterStep ==
    ASSUME IInv, NEW m \in Module, Register(m) PROVE IInv'
<1> DEFINE items == <<ModuleRegistration(m)>>
<1>1. /\ Alive /\ m \notin started /\ SendToRouter(items) /\ started' = started \cup {m}
      /\ UNCHANGED Others /\ UNCHANGED <<sent, left>>
  BY DEF Register
<1>2. items \in Seq(Sendable) /\ Range(items) = {ModuleRegistration(m)} /\ Ordered(Comes, items)
  BY DEF Sendable, Range, Ordered
<1>3. ModuleRegistration(m) \notin Message /\ ModuleRegistration(m) # ModulesCount
      /\ \A n \in Module : ModuleRegistration(n) = ModuleRegistration(m) => n = m
  BY ItemsDiffer
<1>4. Typed /\ Registering /\ InPlace /\ SentInTurn
  BY DEF IInv
<1>5. started \subseteq Module /\ modules_senders \subseteq started /\ sent \subseteq Message
  BY <1>4 DEF Typed, TypeOK
<1>6. Before(Handled \cup Travelling, Range(items))
  <2> SUFFICES ASSUME NEW x \in Handled \cup Travelling PROVE <<x, ModuleRegistration(m)>> \in Comes
    BY <1>2 DEF Before
  <2>1. x \in Item /\ ModuleRegistration(m) \in Item
    BY <1>4, AllItems DEF Item
  <2>2. x # ModuleRegistration(m)
    <3>1. x \in Message \/ x \in Travelling
      BY <1>4, AllItems
    <3>2. ModuleRegistration(m) \notin Travelling
      BY <1>1, <1>4, <1>5 DEF Registering, Travelling
    <3> QED BY <1>3, <3>1, <3>2
  <2> QED BY <1>3, <2>1, <2>2, Apart
<1>7. SentInTurn'
  BY <1>1, <1>4 DEF SentInTurn
<1> HIDE DEF items
<1> QED BY <1>1, <1>2, <1>3, <1>4, <1>5, <1>6, <1>7, ModuleSends

\* The number of the modules is announced once, by the core.
LEMMA StartCoreStep ==
    ASSUME IInv, StartCore PROVE IInv'
<1> DEFINE m == Blockchain
           items == <<ModulesCount, ModuleRegistration(m)>>
<1>1. /\ Alive /\ m \notin started /\ SendToRouter(items) /\ started' = started \cup {m}
      /\ UNCHANGED Others /\ UNCHANGED <<sent, left>>
  BY DEF StartCore
<1>2. m \in Module
  BY MessageAssumption
<1>3. ModuleRegistration(m) \notin Message /\ ModuleRegistration(m) # ModulesCount
      /\ (\A n \in Module : ModuleRegistration(n) = ModuleRegistration(m) => n = m)
      /\ ModulesCount \notin Message
  BY <1>2, ItemsDiffer
<1>4. ModuleRegistration(m) \in Item /\ ModulesCount \in Item
  BY <1>2 DEF Item
<1>5. items \in Seq(Sendable) /\ Range(items) = {ModulesCount, ModuleRegistration(m)}
  BY <1>2 DEF Sendable, Range
<1>6. Ordered(Comes, items)
  <2>1. <<ModulesCount, ModuleRegistration(m)>> \in Comes
    BY <1>3, <1>4, Apart
  <2> QED BY <2>1 DEF Ordered
<1>7. Typed /\ Registering /\ InPlace /\ SentInTurn
  BY DEF IInv
<1>8. started \subseteq Module /\ modules_senders \subseteq started /\ sent \subseteq Message
  BY <1>7 DEF Typed, TypeOK
<1>9. Before(Handled \cup Travelling, Range(items))
  <2>1. ModuleRegistration(m) \notin Travelling /\ ModulesCount \notin Travelling
    BY <1>1, <1>2, <1>7, <1>8 DEF Registering, Travelling
  <2> SUFFICES ASSUME NEW x \in Handled \cup Travelling, NEW y \in Range(items)
               PROVE  <<x, y>> \in Comes
    BY DEF Before
  <2>2. x \in Item /\ (x \in Message \/ x \in Travelling)
    BY <1>7, AllItems
  <2>3. y \in Item /\ y \notin Message /\ y \notin Travelling
    BY <1>3, <1>4, <1>5, <2>1
  <2> QED BY <2>2, <2>3, Apart
<1>10. SentInTurn'
  BY <1>1, <1>7 DEF SentInTurn
<1>11. \A n \in Module : ModuleRegistration(n) \in Range(items)
                            => n \in started' \ modules_senders
  <2>1. m \in started' \ modules_senders
    BY <1>1, <1>8
  <2>2. \A n \in Module : ModuleRegistration(n) \in Range(items) => n = m
    BY <1>3, <1>5, ItemsDiffer
  <2> HIDE DEF items, m
  <2> QED BY <2>1, <2>2
<1>12. /\ started \subseteq started' /\ started' \subseteq Module /\ Blockchain \in started'
       /\ sent \subseteq sent' /\ sent' \subseteq Message /\ Range(items) \cap Message \subseteq sent'
  BY <1>1, <1>2, <1>3, <1>5, <1>8
<1> HIDE DEF items
<1> QED BY <1>1, <1>5, <1>6, <1>7, <1>9, <1>10, <1>11, <1>12, ModuleSends

\* What is sent comes behind what the same module sent to that address before.
LEMMA SendStep ==
    ASSUME IInv, NEW msg \in Message, Send(msg) PROVE IInv'
<1> DEFINE items == <<msg>>
<1>1. /\ Alive /\ msg \notin sent /\ SendToRouter(items) /\ sent' = sent \cup {msg}
      /\ UNCHANGED Others /\ UNCHANGED <<started, left>>
      /\ msg.no > 1 => \E earlier \in sent :
            earlier.from = msg.from /\ earlier.to = msg.to /\ earlier.no = msg.no - 1
  BY DEF Send
<1>2. items \in Seq(Sendable) /\ Range(items) = {msg} /\ Ordered(Comes, items)
  BY DEF Sendable, Range, Ordered
<1>3. Typed /\ Registering /\ InPlace /\ SentInTurn
  BY DEF IInv
<1>4. started \subseteq Module /\ modules_senders \subseteq started /\ sent \subseteq Message
  BY <1>3 DEF Typed, TypeOK
<1>5. ASSUME NEW x \in sent, x.from = msg.from, x.to = msg.to PROVE x.no < msg.no
  <2> SUFFICES ASSUME ~(x.no < msg.no) PROVE FALSE
    OBVIOUS
  <2>1. x.no \in Nat /\ msg.no \in Nat /\ msg.no > 0
    BY <1>4, Messages
  <2>2. msg.no \in 1 .. x.no
    BY <2>1
  <2>3. PICK earlier \in sent : earlier.from = x.from /\ earlier.to = x.to /\ earlier.no = msg.no
    BY <1>3, <2>2 DEF SentInTurn
  <2>4. earlier = msg
    BY <1>4, <1>5, <2>3, Messages
  <2> QED BY <1>1, <2>3, <2>4
<1>6. Before(Handled \cup Travelling, Range(items))
  <2> SUFFICES ASSUME NEW x \in Handled \cup Travelling PROVE <<x, msg>> \in Comes
    BY <1>2 DEF Before
  <2>1. x \in Item /\ msg \in Item /\ (x \in Message => x \in sent)
    BY <1>3, AllItems DEF InPlace
  <2>2. x # msg
    BY <1>1, <2>1
  <2> QED BY <1>5, <2>1, <2>2 DEF Comes
<1>7. SentInTurn'
  <2> SUFFICES ASSUME NEW y \in sent', NEW k \in 1 .. y.no
               PROVE  \E x \in sent' : x.from = y.from /\ x.to = y.to /\ x.no = k
    BY DEF SentInTurn
  <2>1. CASE y \in sent
    BY <1>1, <1>3, <2>1 DEF SentInTurn
  <2>2. CASE y = msg /\ k = msg.no
    BY <1>1, <2>2
  <2>3. CASE y = msg /\ k # msg.no
    <3>1. msg.no \in Nat /\ msg.no > 1 /\ k \in 1 .. (msg.no - 1)
      BY <2>3, Messages
    <3>2. PICK earlier \in sent :
             earlier.from = msg.from /\ earlier.to = msg.to /\ earlier.no = msg.no - 1
      BY <1>1, <3>1
    <3>3. \E x \in sent : x.from = earlier.from /\ x.to = earlier.to /\ x.no = k
      BY <1>3, <3>1, <3>2 DEF SentInTurn
    <3> QED BY <1>1, <2>3, <3>2, <3>3
  <2> QED BY <1>1, <2>1, <2>2, <2>3
<1>8. msg # ModulesCount /\ \A m \in Module : msg # ModuleRegistration(m)
  BY ItemsDiffer
<1> HIDE DEF items
<1> QED BY <1>1, <1>2, <1>3, <1>4, <1>6, <1>7, <1>8, ModuleSends

\* A stop is asked for once: none is on its way when it is.
LEMMA RequestStopStep ==
    ASSUME IInv, RequestStop PROVE IInv'
<1> DEFINE items == <<Stop>>
<1>1. /\ Alive /\ SendToRouter(items) /\ UNCHANGED Others /\ UNCHANGED <<started, sent, left>>
      /\ status.router = "running" /\ Stop \notin Range(router_channel)
  BY DEF RequestStop
<1>2. items \in Seq(Sendable) /\ Range(items) = {Stop} /\ Ordered(Comes, items)
  BY DEF Sendable, Range, Ordered
<1>3. Typed /\ Registering /\ InPlace /\ SentInTurn
  BY DEF IInv
<1>4. started \subseteq Module /\ modules_senders \subseteq started /\ sent \subseteq Message
  BY <1>3 DEF Typed, TypeOK
<1>5. Stop \notin Message /\ Stop # ModulesCount /\ \A m \in Module : Stop # ModuleRegistration(m)
  BY ItemsDiffer
<1>6. Before(Handled \cup Travelling, Range(items))
  <2> SUFFICES ASSUME NEW x \in Handled \cup Travelling PROVE <<x, Stop>> \in Comes
    BY <1>2 DEF Before
  <2>1. x \in Item /\ Stop \in Item /\ (x \in Message \/ x \in Travelling)
    BY <1>3, AllItems DEF Item
  <2>2. x # Stop
    BY <1>1, <1>3, <1>5, <2>1 DEF Registering, Travelling
  <2> QED BY <1>5, <2>1, <2>2, Apart
<1>7. SentInTurn'
  BY <1>1, <1>3 DEF SentInTurn
<1> HIDE DEF items
<1> QED BY <1>1, <1>2, <1>3, <1>4, <1>5, <1>6, <1>7, ModuleSends

\* A module that ends at the stop changes no channel, pool or inbox.
LEMMA LeaveStep ==
    ASSUME IInv, NEW m \in Module, Leave(m) PROVE IInv'
<1>1. /\ UNCHANGED Others /\ UNCHANGED <<router_channel, status, started, sent>> /\ Alive
      /\ left' = left \cup {m}
  BY DEF Leave
<1>2. UNCHANGED <<now, broadcasting_channel, inbox, modules_senders, router_pool, plugged,
                  pool_msgs, expected, handled, owed>>
  BY <1>1 DEF Others
<1>3. Kept' /\ Received' /\ EarlyMessagesReach'
  <2>1. status'.router = status.router /\ (Alive' => Alive)
    BY <1>1
  <2> QED BY <1>2, <2>1, InboxesStay
<1>4. Typed'
  BY <1>1, <1>2 DEF IInv, Typed, TypeOK
<1>5. Registering' /\ SentInTurn' /\ InPlace'
  BY <1>1, <1>2 DEF IInv, Registering, SentInTurn, InPlace, Handled, Travelling
<1> QED BY <1>3, <1>4, <1>5 DEF IInv

\* Time passes: nothing is sent and nothing is taken.
LEMMA TickStep ==
    ASSUME IInv, Tick PROVE IInv'
<1>1. /\ now < MaxTime /\ now' = now + 1 /\ Alive
      /\ UNCHANGED <<router_channel, broadcasting_channel, inbox, modules_senders, router_pool,
            plugged, pool_msgs, expected, status, started, sent, left, handled, owed>>
  BY DEF Tick
<1>2. now \in 0 .. MaxTime /\ MaxTime \in Nat /\ MAX_REGISTRATION_DELAY \in Nat
  BY MessageAssumption DEF IInv, Typed, TypeOK
<1>3. now' \in 0 .. MaxTime /\ (Early' => Early)
  BY <1>1, <1>2 DEF Early
<1>4. Typed'
  BY <1>1, <1>3 DEF IInv, Typed, TypeOK
<1>5. Registering' /\ SentInTurn' /\ InPlace' /\ Received' /\ EarlyMessagesReach'
  BY <1>1 DEF IInv, Registering, SentInTurn, InPlace, Handled, Travelling, Received,
              EarlyMessagesReach, Alive
<1>6. Kept'
  BY <1>1, <1>3 DEF IInv, Kept
<1> QED BY <1>4, <1>5, <1>6 DEF IInv

-----------------------------------------------------------------------------
(* What the router thread does. *)

\* The item it takes, and what it leaves in its channel.
LEMMA RouterHead ==
    ASSUME IInv, NEW kinds, RouterTakes(kinds)
    PROVE  /\ NextItem \in Sendable /\ NextItem.kind \in kinds
           /\ router_channel' \in Seq(Sendable) /\ Ordered(Comes, router_channel')
           /\ Range(router_channel) = {NextItem} \cup Range(router_channel')
           /\ NextItem \notin Range(router_channel')
           /\ Before({NextItem}, Range(router_channel'))
           /\ Alive /\ status.router = "running"
           /\ UNCHANGED <<now, plugged, pool_msgs, expected, started, sent, left>>
<1>1. /\ Alive /\ status.router = "running" /\ router_channel # <<>> /\ NextItem.kind \in kinds
      /\ router_channel' = Tail(router_channel) /\ NextItem = Head(router_channel)
      /\ UNCHANGED <<now, plugged, pool_msgs, expected, started, sent, left>>
  BY DEF RouterTakes, NextItem
<1>2. router_channel \in Seq(Sendable) /\ Ordered(Comes, router_channel)
  BY TypesOf DEF IInv, InPlace
<1>3. /\ NextItem \in Sendable /\ router_channel' \in Seq(Sendable)
      /\ Range(router_channel) = {NextItem} \cup Range(router_channel')
      /\ Ordered(Comes, router_channel')
      /\ \A y \in Range(router_channel') : <<NextItem, y>> \in Comes
  BY <1>1, <1>2, FirstAndRest
<1>4. NextItem \notin Range(router_channel')
  BY <1>3 DEF Comes
<1> QED BY <1>1, <1>3, <1>4 DEF Before

\* An item that it passes on is the last of all that the other thread will take.
LEMMA Passing ==
    ASSUME IInv, NEW kinds, RouterTakes(kinds), NextItem.kind # "Response",
           broadcasting_channel' = Append(broadcasting_channel, NextItem),
           UNCHANGED handled
    PROVE  /\ broadcasting_channel' \in Seq(Relayed)
           /\ Range(broadcasting_channel') = Range(broadcasting_channel) \cup {NextItem}
           /\ Travelling' = Travelling /\ InPlace'
<1>1. /\ NextItem \in Sendable /\ UNCHANGED sent
      /\ router_channel' \in Seq(Sendable) /\ Ordered(Comes, router_channel')
      /\ Range(router_channel) = {NextItem} \cup Range(router_channel')
      /\ Before({NextItem}, Range(router_channel'))
  BY RouterHead
<1>2. broadcasting_channel \in Seq(Relayed) /\ NextItem \in Relayed
  BY <1>1, TypesOf DEF IInv, Relayed
<1>3. /\ Ordered(Comes, broadcasting_channel) /\ Before(Handled, Travelling)
      /\ Before(Range(broadcasting_channel), Range(router_channel))
      /\ Handled \subseteq sent /\ Travelling \cap Message \subseteq sent
  BY DEF IInv, InPlace
<1>4. \A x \in Range(broadcasting_channel) : <<x, NextItem>> \in Comes
  BY <1>1, <1>3 DEF Before
<1>5. /\ broadcasting_channel' \in Seq(Relayed) /\ Ordered(Comes, broadcasting_channel')
      /\ Range(broadcasting_channel') = Range(broadcasting_channel) \cup {NextItem}
  BY <1>2, <1>3, <1>4, OneMore
<1>6. Travelling' = Travelling
  BY <1>1, <1>5 DEF Travelling
<1>7. Before(Range(broadcasting_channel'), Range(router_channel'))
  BY <1>1, <1>3, <1>5 DEF Before
<1>8. InPlace'
  BY <1>1, <1>3, <1>5, <1>6, <1>7 DEF InPlace, Handled
<1> QED BY <1>5, <1>6, <1>8

\* What is not for the router thread goes on to the other, behind all it has.
LEMMA RelayToBroadcastingStep ==
    ASSUME IInv, RelayToBroadcasting PROVE IInv'
<1>1. /\ RouterTakes(RelayedKinds)
      /\ broadcasting_channel' = Append(broadcasting_channel, NextItem)
      /\ UNCHANGED <<inbox, modules_senders, router_pool, status, handled, owed>>
  BY DEF RelayToBroadcasting
<1>2. /\ NextItem \in Sendable /\ NextItem.kind \in RelayedKinds /\ Alive
      /\ router_channel' \in Seq(Sendable)
      /\ Range(router_channel) = {NextItem} \cup Range(router_channel')
      /\ UNCHANGED <<now, plugged, pool_msgs, expected, started, sent, left>>
  BY <1>1, RouterHead
<1>3. NextItem # Stop /\ NextItem.kind # "Response" /\ \A m \in Module : NextItem # ModuleRegistration(m)
  BY <1>2, ItemsDiffer DEF RelayedKinds
<1>4. /\ broadcasting_channel' \in Seq(Relayed) /\ Travelling' = Travelling /\ InPlace'
      /\ Range(broadcasting_channel') = Range(broadcasting_channel) \cup {NextItem}
  BY <1>1, <1>3, Passing
<1>5. Kept' /\ Received' /\ EarlyMessagesReach'
  BY <1>1, <1>2, InboxesStay DEF Alive
<1>6. Typed'
  BY <1>1, <1>2, <1>4 DEF IInv, Typed, TypeOK, Sendable, Relayed
<1>7. Registering'
  BY <1>1, <1>2, <1>3, <1>4 DEF IInv, Registering
<1>8. SentInTurn'
  BY <1>2 DEF IInv, SentInTurn
<1> QED BY <1>4, <1>5, <1>6, <1>7, <1>8 DEF IInv

\* A module that registers has received nothing: it gets what was kept for it.
LEMMA RelayRegistrationStep ==
    ASSUME IInv, RelayRegistration PROVE IInv'
<1> DEFINE m == NextItem.static_name
<1>1. /\ RouterTakes({"ModuleRegistration"})
      /\ inbox' = [inbox EXCEPT ![m] = @ \o router_pool[m]]
      /\ router_pool' = [router_pool EXCEPT ![m] = <<>>]
      /\ modules_senders' = modules_senders \cup {m}
      /\ broadcasting_channel' = Append(broadcasting_channel, NextItem)
      /\ HandleRegistration("router", m)
      /\ UNCHANGED status
  BY DEF RelayRegistration
<1>2. /\ NextItem \in Sendable /\ NextItem.kind = "ModuleRegistration" /\ Alive
      /\ router_channel' \in Seq(Sendable)
      /\ Range(router_channel) = {NextItem} \cup Range(router_channel')
      /\ NextItem \notin Range(router_channel') /\ status.router = "running"
      /\ UNCHANGED <<now, plugged, pool_msgs, expected, started, sent, left>>
  BY <1>1, RouterHead
<1>3. m \in Module /\ NextItem = ModuleRegistration(m)
  BY <1>2, KindTells
<1>4. UNCHANGED handled
      /\ owed' = IF Early
                 THEN [owed EXCEPT ![m] = @ \cup {msg \in handled.router : IsFor(msg, m)}]
                 ELSE owed
  BY <1>1 DEF HandleRegistration
<1>5. /\ broadcasting_channel' \in Seq(Relayed) /\ Travelling' = Travelling /\ InPlace'
      /\ Range(broadcasting_channel') = Range(broadcasting_channel) \cup {NextItem}
  <2>1. NextItem.kind # "Response"
    BY <1>2
  <2> QED BY <1>1, <1>4, <2>1, Passing
<1> HIDE DEF m
<1>6. /\ Typed /\ Registering /\ Kept /\ Received /\ EarlyMessagesReach /\ SentInTurn
      /\ m \in started \ modules_senders
  BY <1>2, <1>3 DEF IInv, Registering
<1>7. inbox[m] = <<>> /\ router_pool[m] \in Seq(Message)
  BY <1>3, <1>6, TypesOf DEF Received
<1>8. /\ inbox' \in [Module -> Seq(Receivable)] /\ inbox'[m] = router_pool[m]
      /\ \A n \in Module : n # m => inbox'[n] = inbox[n]
  <2>1. inbox \in [Module -> Seq(Receivable)]
    BY <1>6 DEF Typed, TypeOK, Receivable
  <2>2. inbox[m] \o router_pool[m] = router_pool[m] /\ router_pool[m] \in Seq(Receivable)
    BY <1>7 DEF Receivable
  <2> QED BY <1>1, <1>3, <2>1, <2>2
<1>9. /\ router_pool' \in [Module -> Seq(Message)] /\ router_pool'[m] = <<>>
      /\ \A n \in Module : n # m => router_pool'[n] = router_pool[n]
  <2>1. router_pool \in [Module -> Seq(Message)]
    BY <1>6 DEF Typed, TypeOK
  <2>2. <<>> \in Seq(Message)
    OBVIOUS
  <2> QED BY <1>1, <1>3, <2>1, <2>2
<1>10. /\ owed' \in [Module -> SUBSET Message]
       /\ \A n \in Module : n # m => owed'[n] = owed[n]
       /\ owed'[m] \subseteq owed[m] \cup (IF Early THEN {msg \in handled.router : IsFor(msg, m)} ELSE {})
  <2>1. owed \in [Module -> SUBSET Message] /\ handled.router \subseteq Message
    BY <1>6 DEF Typed
  <2> QED BY <1>3, <1>4, <2>1
<1>11. Range(<<>>) = {} /\ Ordered(Comes, <<>>)
  BY DEF Range, Ordered
<1>12. Typed'
  <2>1. TypeOK'
    <3>1. modules_senders' \subseteq started' /\ plugged' \subseteq started'
      BY <1>1, <1>2, <1>6 DEF Typed, TypeOK
    <3>2. status' = status
      BY <1>1
    <3> QED BY <1>2, <1>5, <1>6, <1>8, <1>9, <3>1, <3>2
            DEF Typed, TypeOK, Sendable, Relayed, Receivable
  <2> QED BY <1>4, <1>6, <1>10, <2>1 DEF Typed
<1>13. Registering'
  <2>1. \A n \in Module : ModuleRegistration(n) = NextItem => n = m
    BY <1>3, ItemsDiffer
  <2>2. plugged' \subseteq modules_senders' /\ m \notin plugged'
    BY <1>1, <1>2, <1>6 DEF Registering
  <2>3. \A n \in Module : ModuleRegistration(n) \in Range(router_channel')
                            => n \in started' \ modules_senders'
    BY <1>1, <1>2, <1>3, <1>6 DEF Registering
  <2>4. \A n \in Module : ModuleRegistration(n) \in Range(broadcasting_channel')
                            => n \in modules_senders' \ plugged'
    BY <1>1, <1>2, <1>5, <1>6, <2>1, <2>2 DEF Registering
  <2>5. NextItem # Stop
    BY <1>3, ItemsDiffer
  <2> QED BY <1>1, <1>2, <1>5, <1>6, <2>2, <2>3, <2>4, <2>5 DEF Registering
<1>14. Kept'
  <2>1. \A n \in Module : /\ Range(router_pool'[n]) \subseteq {msg \in handled.router : msg.to = n}
                          /\ Ordered(Comes, router_pool'[n])
    BY <1>6, <1>9, <1>11 DEF Kept
  <2>2. ASSUME Early, NEW msg \in handled.router
        PROVE  msg \in Range(router_pool'[msg.to]) \cup Range(inbox'[msg.to])
    <3>1. msg \in Range(router_pool[msg.to]) \cup Range(inbox[msg.to]) /\ msg.to \in Module
      BY <1>6, <2>2, TypesOf, Messages DEF Kept, Response
    <3> QED BY <1>7, <1>8, <1>9, <1>11, <3>1
  <2> QED BY <1>2, <1>4, <1>6, <2>1, <2>2 DEF Kept, Early
<1>15. Received'
  <2>1. Range(inbox'[m]) \subseteq handled.router /\ Ordered(Comes, inbox'[m])
    BY <1>3, <1>6, <1>8 DEF Kept
  <2>2. \A x \in handled.router : x # Stop /\ x # ModulesEndpoints
    BY <1>6, TypesOf, ItemsDiffer DEF Response
  <2>3. \A n \in Module : n # m => /\ inbox'[n] = inbox[n]
                                   /\ n \in modules_senders' <=> n \in modules_senders
    BY <1>1, <1>8
  <2> SUFFICES ASSUME NEW n \in Module
               PROVE  /\ Ordered(Comes, inbox'[n])
                      /\ Range(inbox'[n]) \subseteq Handled \cup {Stop, ModulesEndpoints}
                      /\ n \notin modules_senders' => inbox'[n] = <<>>
                      /\ n \notin plugged => Range(inbox'[n]) \subseteq handled.router \cup {Stop}
                      /\ ModulesEndpoints \in Range(inbox'[n]) => plugged = Module
                      /\ Stop \in Range(inbox'[n]) => status.router = "stopped"
    BY <1>1, <1>2, <1>4 DEF Received, Handled
  <2>4. CASE n = m
    BY <1>1, <2>1, <2>2, <2>4 DEF Handled
  <2>5. CASE n # m
    BY <1>6, <2>3, <2>5 DEF Received
  <2> QED BY <2>4, <2>5
<1>16. EarlyMessagesReach'
  <2>1. \A n \in Module : owed[n] \subseteq Range(inbox[n])
    BY <1>2, <1>6 DEF EarlyMessagesReach
  <2>2. ASSUME Early, NEW msg \in handled.router, IsFor(msg, m) PROVE msg \in Range(inbox'[m])
    <3>1. msg.to = m
      BY <1>6, <2>2, TypesOf DEF IsFor, Response
    <3> QED BY <1>6, <1>7, <1>8, <1>11, <2>2, <3>1 DEF Kept
  <2>3. \A n \in Module : owed'[n] \subseteq Range(inbox'[n])
    BY <1>7, <1>8, <1>10, <1>11, <2>1, <2>2
  <2> QED BY <2>3 DEF EarlyMessagesReach
<1>17. SentInTurn'
  BY <1>2, <1>6 DEF SentInTurn
<1> QED BY <1>5, <1>12, <1>13, <1>14, <1>15, <1>16, <1>17 DEF IInv

\* What a thread has handled may stand before any message that it takes next.
LEMMA ReceivedBefore ==
    ASSUME IInv, NEW m \in Module, NEW x \in Range(inbox[m]), NEW y \in Travelling, y \in Message
    PROVE  <<x, y>> \in Comes
<1>1. x \in Handled \cup {Stop, ModulesEndpoints}
  BY DEF IInv, Received
<1>2. CASE x \in Handled
  BY <1>2 DEF IInv, InPlace, Before
<1>3. CASE x \in {Stop, ModulesEndpoints}
  <2>1. x \in Item /\ x \notin Message /\ y \in Item
    BY <1>3, ItemsDiffer DEF Item
  <2> QED BY <2>1, Apart
<1> QED BY <1>1, <1>2, <1>3

\* A response is added to the inbox of the module, or to what is kept for it.
LEMMA RelayResponseStep ==
    ASSUME IInv, RelayResponse PROVE IInv'
<1> DEFINE msg == NextItem
           to == msg.to
<1>1. /\ RouterTakes({"Response"})
      /\ IF to \in modules_senders
         THEN inbox' = [inbox EXCEPT ![to] = Append(@, msg)] /\ UNCHANGED router_pool
         ELSE KeepResponse(msg) /\ UNCHANGED inbox
      /\ HandleMessage("router", modules_senders, msg)
      /\ UNCHANGED <<broadcasting_channel, modules_senders, status>>
  BY DEF RelayResponse
<1>2. /\ msg \in Sendable /\ msg.kind = "Response" /\ Alive
      /\ router_channel' \in Seq(Sendable) /\ Ordered(Comes, router_channel')
      /\ Range(router_channel) = {msg} \cup Range(router_channel')
      /\ Before({msg}, Range(router_channel')) /\ status.router = "running"
      /\ UNCHANGED <<now, plugged, pool_msgs, expected, started, sent, left>>
  BY <1>1, RouterHead
<1>3. msg \in Message /\ msg \in Response /\ to \in Module /\ msg \in Item
  <2>1. msg \in Message
    BY <1>2, KindTells
  <2> QED BY <1>2, <2>1, Messages DEF Response, Item
<1>4. /\ handled' = [handled EXCEPT !.router = @ \cup {msg}]
      /\ owed' = [n \in Module |-> IF n \in modules_senders /\ IsFor(msg, n)
                                   THEN owed[n] \cup {msg} ELSE owed[n]]
  BY <1>1 DEF HandleMessage
<1>5. /\ Typed /\ Registering /\ Kept /\ Received /\ EarlyMessagesReach /\ SentInTurn /\ InPlace
  BY DEF IInv
<1>6. \A n \in Module : IsFor(msg, n) <=> n = to
  BY <1>2 DEF IsFor
<1> HIDE DEF to, msg
<1>7. /\ handled' \in [router : SUBSET Response, broadcasting : SUBSET NotResponse]
      /\ handled'.router = handled.router \cup {msg}
      /\ handled'.broadcasting = handled.broadcasting /\ Handled' = Handled \cup {msg}
  <2>1. handled \in [router : SUBSET Response, broadcasting : SUBSET NotResponse]
    BY <1>5 DEF Typed, Response, NotResponse
  <2>2. handled'.router = handled.router \cup {msg}
        /\ handled'.broadcasting = handled.broadcasting
    BY <1>4, <2>1
  <2>3. handled' \in [router : SUBSET Response, broadcasting : SUBSET NotResponse]
    BY <1>3, <1>4, <2>1
  <2> QED BY <2>2, <2>3 DEF Handled
<1>8. /\ owed' \in [Module -> SUBSET Message]
      /\ \A n \in Module : owed'[n] \subseteq owed[n] \cup (IF n \in modules_senders /\ n = to
                                                            THEN {msg} ELSE {})
  BY <1>3, <1>4, <1>5, <1>6 DEF Typed
<1>9. Travelling' \subseteq Travelling /\ msg \in Travelling
  BY <1>1, <1>2 DEF Travelling
<1>10. InPlace'
  <2>1. \A y \in Range(broadcasting_channel) : <<msg, y>> \in Comes
    <3> SUFFICES ASSUME NEW y \in Range(broadcasting_channel) PROVE <<msg, y>> \in Comes
      OBVIOUS
    <3>1. y \in Relayed /\ y \in Item
      BY <1>5, TypesOf, RangeOf, AllItems DEF Travelling
    <3>2. y # msg
      BY <1>3, <3>1 DEF Relayed, Response
    <3>3. y \in Message => y.to # msg.to
      BY <1>3, <3>1, Messages DEF Relayed, Response, to
    <3> QED BY <1>3, <3>1, <3>2, <3>3, Apart
  <2>2. Before(Handled', Travelling')
    BY <1>1, <1>2, <1>5, <1>7, <1>9, <2>1 DEF InPlace, Before, Travelling
  <2>3. Before(Range(broadcasting_channel'), Range(router_channel'))
    BY <1>1, <1>2, <1>5 DEF InPlace, Before
  <2>4. Handled' \subseteq sent' /\ Travelling' \cap Message \subseteq sent'
    BY <1>2, <1>3, <1>5, <1>7, <1>9 DEF InPlace
  <2> QED BY <1>1, <1>2, <1>5, <2>2, <2>3, <2>4 DEF InPlace
<1>11. Registering'
  <2>1. /\ Range(router_channel') \subseteq Range(router_channel)
        /\ UNCHANGED <<broadcasting_channel, modules_senders, plugged, started, status>>
    BY <1>1, <1>2
  <2> QED BY <1>5, <1>9, <2>1 DEF Registering
<1>12. SentInTurn'
  BY <1>2, <1>5 DEF SentInTurn
<1>13. \A x \in Range(inbox[to]) : <<x, msg>> \in Comes
  BY <1>3, <1>9, ReceivedBefore
<1>14. inbox \in [Module -> Seq(Receivable)] /\ router_pool \in [Module -> Seq(Message)]
  BY <1>5 DEF Typed, TypeOK, Receivable
<1>15. CASE to \in modules_senders
  <2>1. inbox' = [inbox EXCEPT ![to] = Append(@, msg)] /\ router_pool' = router_pool
    BY <1>1, <1>15
  <2>2. /\ Append(inbox[to], msg) \in Seq(Receivable)
        /\ Range(Append(inbox[to], msg)) = Range(inbox[to]) \cup {msg}
        /\ Ordered(Comes, Append(inbox[to], msg))
    <3>1. msg \in Receivable /\ inbox[to] \in Seq(Receivable) /\ Ordered(Comes, inbox[to])
      BY <1>3, <1>5, <1>14 DEF Receivable, Received
    <3> QED BY <1>13, <3>1, OneMore
  <2>3. /\ inbox' \in [Module -> Seq(Receivable)]
        /\ inbox'[to] = Append(inbox[to], msg)
        /\ \A n \in Module : n # to => inbox'[n] = inbox[n]
    BY <1>3, <1>14, <2>1, <2>2
  <2>4. Typed'
    <3>1. TypeOK'
      BY <1>1, <1>2, <1>5, <2>1, <2>3 DEF Typed, TypeOK, Sendable, Receivable
    <3> QED BY <1>7, <1>8, <3>1 DEF Typed, Response, NotResponse
  <2>5. Kept'
    <3>1. ASSUME Early, NEW x \in handled'.router
          PROVE  x \in Range(router_pool'[x.to]) \cup Range(inbox'[x.to])
      <4>1. CASE x = msg
        BY <1>3, <2>2, <2>3, <4>1 DEF to
      <4>2. CASE x \in handled.router
        <5>1. x \in Range(router_pool[x.to]) \cup Range(inbox[x.to]) /\ x.to \in Module
          BY <1>5, <3>1, <4>2, TypesOf, Messages DEF Kept, Response
        <5> QED BY <2>1, <2>2, <2>3, <5>1
      <4> QED BY <1>7, <3>1, <4>1, <4>2
    <3> QED BY <1>2, <1>5, <1>7, <2>1, <3>1 DEF Kept, Early
  <2>6. Received'
    <3> SUFFICES ASSUME NEW n \in Module
                 PROVE  /\ Ordered(Comes, inbox'[n])
                        /\ Range(inbox'[n]) \subseteq Handled' \cup {Stop, ModulesEndpoints}
                        /\ n \notin modules_senders => inbox'[n] = <<>>
                        /\ n \notin plugged => Range(inbox'[n]) \subseteq handled'.router \cup {Stop}
                        /\ ModulesEndpoints \in Range(inbox'[n]) => plugged = Module
                        /\ Stop \in Range(inbox'[n]) => status.router = "stopped"
      BY <1>1, <1>2 DEF Received
    <3>1. msg # Stop /\ msg # ModulesEndpoints
      BY <1>3, ItemsDiffer
    <3>2. CASE n = to
      BY <1>5, <1>7, <1>15, <2>2, <2>3, <3>1, <3>2 DEF Received
    <3>3. CASE n # to
      BY <1>5, <1>7, <2>3, <3>3 DEF Received
    <3> QED BY <3>2, <3>3
  <2>7. EarlyMessagesReach'
    <3>1. \A n \in Module : owed[n] \subseteq Range(inbox[n])
      BY <1>2, <1>5 DEF EarlyMessagesReach
    <3>2. \A n \in Module : owed'[n] \subseteq Range(inbox'[n])
      BY <1>8, <2>2, <2>3, <3>1
    <3> QED BY <3>2 DEF EarlyMessagesReach
  <2> QED BY <1>10, <1>11, <1>12, <2>4, <2>5, <2>6, <2>7 DEF IInv
<1>16. CASE to \notin modules_senders
  <2>1. KeepResponse(msg) /\ inbox' = inbox
    BY <1>1, <1>16
  <2>2. /\ Append(router_pool[to], msg) \in Seq(Message)
        /\ Range(Append(router_pool[to], msg)) = Range(router_pool[to]) \cup {msg}
        /\ Ordered(Comes, Append(router_pool[to], msg))
    <3>1. \A x \in Range(router_pool[to]) : <<x, msg>> \in Comes
      BY <1>3, <1>5, <1>9 DEF Kept, InPlace, Before, Handled
    <3>2. router_pool[to] \in Seq(Message) /\ Ordered(Comes, router_pool[to])
      BY <1>3, <1>5, <1>14 DEF Kept
    <3> QED BY <1>3, <3>1, <3>2, OneMore
  <2>3. /\ router_pool' \in [Module -> Seq(Message)]
        /\ \A n \in Module : \/ router_pool'[n] = <<>> /\ ~Early
                             \/ router_pool'[n] = router_pool[n] /\ n # to
                             \/ router_pool'[n] = Append(router_pool[n], msg) /\ n = to
    <3>1. CASE Early
      <4>1. router_pool' = [router_pool EXCEPT ![to] = Append(@, msg)]
        BY <2>1, <3>1 DEF KeepResponse, to
      <4> QED BY <1>3, <1>14, <2>2, <4>1
    <3>2. CASE ~Early
      BY <2>1, <3>2 DEF KeepResponse
    <3> QED BY <3>1, <3>2
  <2>4. Range(<<>>) = {} /\ Ordered(Comes, <<>>)
    BY DEF Range, Ordered
  <2>5. Typed'
    <3>1. TypeOK'
      BY <1>1, <1>2, <1>5, <2>1, <2>3 DEF Typed, TypeOK, Sendable, Receivable
    <3> QED BY <1>7, <1>8, <3>1 DEF Typed, Response, NotResponse
  <2>6. Kept'
    <3>1. ASSUME NEW n \in Module
          PROVE  /\ Range(router_pool'[n]) \subseteq {x \in handled'.router : x.to = n}
                 /\ Ordered(Comes, router_pool'[n])
      <4>1. Range(router_pool[n]) \subseteq {x \in handled'.router : x.to = n}
            /\ Ordered(Comes, router_pool[n])
        BY <1>5, <1>7 DEF Kept
      <4>2. msg \in {x \in handled'.router : x.to = to}
        BY <1>7 DEF to
      <4>3. CASE router_pool'[n] = Append(router_pool[n], msg) /\ n = to
        BY <2>2, <4>1, <4>2, <4>3
      <4> QED BY <2>3, <2>4, <4>1, <4>3
    <3>2. ASSUME Early, NEW x \in handled'.router
          PROVE  x \in Range(router_pool'[x.to]) \cup Range(inbox'[x.to])
      <4>1. CASE x = msg
        <5>1. router_pool'[to] = Append(router_pool[to], msg)
          BY <1>3, <2>3, <3>2
        <5> QED BY <2>2, <4>1, <5>1 DEF to
      <4>2. CASE x \in handled.router
        <5>1. x \in Range(router_pool[x.to]) \cup Range(inbox[x.to]) /\ x.to \in Module
          BY <1>5, <3>2, <4>2, TypesOf, Messages DEF Kept, Response
        <5> QED BY <2>1, <2>2, <2>3, <3>2, <5>1
      <4> QED BY <1>7, <3>2, <4>1, <4>2
    <3> QED BY <1>2, <1>5, <1>7, <3>1, <3>2 DEF Kept, Early
  <2>7. Received'
    BY <1>1, <1>2, <1>5, <1>7, <2>1 DEF Received
  <2>8. EarlyMessagesReach'
    <3>1. \A n \in Module : owed[n] \subseteq Range(inbox[n])
      BY <1>2, <1>5 DEF EarlyMessagesReach
    <3>2. \A n \in Module : owed'[n] \subseteq Range(inbox'[n])
      BY <1>8, <1>16, <2>1, <3>1
    <3> QED BY <3>2 DEF EarlyMessagesReach
  <2> QED BY <1>10, <1>11, <1>12, <2>5, <2>6, <2>7, <2>8 DEF IInv
<1> QED BY <1>15, <1>16

\* The stop is behind all that a module has received: the router thread ends at it.
LEMMA RelayStopStep ==
    ASSUME IInv, RelayStop PROVE IInv'
<1>1. /\ RouterTakes({"Stop"})
      /\ broadcasting_channel' = Append(broadcasting_channel, Stop)
      /\ inbox' = [m \in Module |->
                      IF m \in modules_senders THEN Append(inbox[m], Stop) ELSE inbox[m]]
      /\ status' = [status EXCEPT !.router = "stopped"]
      /\ UNCHANGED <<modules_senders, router_pool, handled, owed>>
  BY DEF RelayStop, StopReceivers
<1>2. /\ NextItem \in Sendable /\ NextItem.kind = "Stop" /\ Alive /\ status.router = "running"
      /\ router_channel' \in Seq(Sendable)
      /\ Range(router_channel) = {NextItem} \cup Range(router_channel')
      /\ UNCHANGED <<now, plugged, pool_msgs, expected, started, sent, left>>
  BY <1>1, RouterHead
<1>3. NextItem = Stop
  BY <1>2, KindTells
<1>4. /\ broadcasting_channel' \in Seq(Relayed) /\ Travelling' = Travelling /\ InPlace'
      /\ Range(broadcasting_channel') = Range(broadcasting_channel) \cup {Stop}
  <2>1. NextItem.kind # "Response"
    BY <1>2
  <2> QED BY <1>1, <1>3, <2>1, Passing
<1>5. Typed /\ Registering /\ Kept /\ Received /\ EarlyMessagesReach /\ SentInTurn
  BY DEF IInv
<1>6. /\ status' \in [router : {"running", "stopped"}, broadcasting : {"running", "stopped"},
                      process : {"running", "relay failed", "router gone", "too few modules"}]
      /\ status'.router = "stopped"
  BY <1>1, <1>5 DEF Typed, TypeOK
<1>7. inbox \in [Module -> Seq(Receivable)] /\ Stop \in Receivable
  BY <1>5 DEF Typed, TypeOK, Receivable
<1>8. ASSUME NEW m \in Module
      PROVE  /\ Append(inbox[m], Stop) \in Seq(Receivable)
             /\ Range(Append(inbox[m], Stop)) = Range(inbox[m]) \cup {Stop}
             /\ Ordered(Comes, Append(inbox[m], Stop))
  <2>1. ASSUME NEW x \in Range(inbox[m]) PROVE <<x, Stop>> \in Comes
    <3>1. x \in Receivable /\ x # Stop
      BY <1>2, <1>5, <1>7, RangeOf DEF Received
    <3> QED BY <3>1, ItemsDiffer, Apart DEF Receivable, Item
  <2>2. inbox[m] \in Seq(Receivable) /\ Ordered(Comes, inbox[m])
    BY <1>5, <1>7 DEF Received
  <2> QED BY <1>7, <2>1, <2>2, OneMore
<1>9. /\ inbox' \in [Module -> Seq(Receivable)]
      /\ \A m \in Module : /\ m \in modules_senders => inbox'[m] = Append(inbox[m], Stop)
                           /\ m \notin modules_senders => inbox'[m] = inbox[m]
  BY <1>1, <1>7, <1>8
<1>10. Typed'
  <2>1. TypeOK'
    BY <1>1, <1>2, <1>4, <1>5, <1>6, <1>9 DEF Typed, TypeOK, Sendable, Relayed, Receivable
  <2> QED BY <1>1, <1>5, <2>1 DEF Typed
<1>11. Registering'
  <2>1. \A m \in Module : ModuleRegistration(m) # Stop
    BY ItemsDiffer
  <2> QED BY <1>1, <1>2, <1>4, <1>5, <1>6, <2>1 DEF Registering
<1>12. SentInTurn'
  BY <1>2, <1>5 DEF SentInTurn
<1>13. \A m \in Module : Range(inbox[m]) \subseteq Range(inbox'[m])
                         /\ Range(inbox'[m]) \subseteq Range(inbox[m]) \cup {Stop}
  BY <1>8, <1>9
<1>14. Kept'
  <2>1. ASSUME Early, NEW x \in handled.router
        PROVE  x \in Range(router_pool[x.to]) \cup Range(inbox'[x.to])
    <3>1. x \in Range(router_pool[x.to]) \cup Range(inbox[x.to]) /\ x.to \in Module
      BY <1>5, <2>1, TypesOf, Messages DEF Kept, Response
    <3> QED BY <1>13, <3>1
  <2> QED BY <1>1, <1>2, <1>5, <2>1 DEF Kept, Early
<1>15. Received'
  <2> SUFFICES ASSUME NEW m \in Module
               PROVE  /\ Ordered(Comes, inbox'[m])
                      /\ Range(inbox'[m]) \subseteq Handled \cup {Stop, ModulesEndpoints}
                      /\ m \notin modules_senders => inbox'[m] = <<>>
                      /\ m \notin plugged => Range(inbox'[m]) \subseteq handled.router \cup {Stop}
                      /\ ModulesEndpoints \in Range(inbox'[m]) => plugged = Module
    BY <1>1, <1>2, <1>6 DEF Received, Handled
  <2>1. ModulesEndpoints # Stop
    BY ItemsDiffer
  <2>2. Ordered(Comes, inbox'[m])
    BY <1>5, <1>8, <1>9 DEF Received
  <2> QED BY <1>5, <1>9, <1>13, <2>1, <2>2 DEF Received
<1>16. EarlyMessagesReach'
  BY <1>1, <1>2, <1>5, <1>13 DEF EarlyMessagesReach
<1> QED BY <1>4, <1>10, <1>11, <1>12, <1>14, <1>15, <1>16 DEF IInv

-----------------------------------------------------------------------------
(* What the broadcasting thread does. *)

\* The item it takes, and what stays behind it.
LEMMA BroadcastingHead ==
    ASSUME IInv, NEW kinds, BroadcastingTakes(kinds)
    PROVE  /\ BroadcastItem \in Relayed /\ BroadcastItem.kind \in kinds
           /\ BroadcastItem \in Travelling
           /\ broadcasting_channel' \in Seq(Relayed) /\ Ordered(Comes, broadcasting_channel')
           /\ Range(broadcasting_channel) = {BroadcastItem} \cup Range(broadcasting_channel')
           /\ BroadcastItem \notin Range(broadcasting_channel')
           /\ Before({BroadcastItem}, Travelling') /\ Travelling' \subseteq Travelling
           /\ Before(Range(broadcasting_channel'), Range(router_channel')) /\ Alive
           /\ UNCHANGED <<now, router_channel, modules_senders, router_pool, started, sent, left>>
<1>1. /\ Alive /\ broadcasting_channel # <<>> /\ BroadcastItem.kind \in kinds
      /\ broadcasting_channel' = Tail(broadcasting_channel)
      /\ BroadcastItem = Head(broadcasting_channel)
      /\ UNCHANGED <<now, router_channel, modules_senders, router_pool, started, sent, left>>
  BY DEF BroadcastingTakes, BroadcastItem
<1>2. /\ broadcasting_channel \in Seq(Relayed) /\ Ordered(Comes, broadcasting_channel)
      /\ Before(Range(broadcasting_channel), Range(router_channel))
  BY TypesOf DEF IInv, InPlace
<1>3. /\ BroadcastItem \in Relayed /\ broadcasting_channel' \in Seq(Relayed)
      /\ Range(broadcasting_channel) = {BroadcastItem} \cup Range(broadcasting_channel')
      /\ Ordered(Comes, broadcasting_channel')
      /\ \A y \in Range(broadcasting_channel') : <<BroadcastItem, y>> \in Comes
  BY <1>1, <1>2, FirstAndRest
<1>4. BroadcastItem \notin Range(broadcasting_channel')
  BY <1>3 DEF Comes
<1>5. Before({BroadcastItem}, Travelling') /\ Travelling' \subseteq Travelling
      /\ BroadcastItem \in Travelling
  BY <1>1, <1>2, <1>3 DEF Before, Travelling
<1>6. Before(Range(broadcasting_channel'), Range(router_channel'))
  BY <1>1, <1>2, <1>3 DEF Before
<1> QED BY <1>1, <1>3, <1>4, <1>5, <1>6

\* What it leaves in the channels is in place, whatever it has handled.
LEMMA Taking ==
    ASSUME IInv, NEW kinds, BroadcastingTakes(kinds),
           \/ UNCHANGED handled
           \/ BroadcastItem \in Message /\ Handled' = Handled \cup {BroadcastItem}
    PROVE  InPlace'
<1>1. /\ Before({BroadcastItem}, Travelling') /\ Travelling' \subseteq Travelling
      /\ Ordered(Comes, broadcasting_channel') /\ BroadcastItem \in Travelling
      /\ Before(Range(broadcasting_channel'), Range(router_channel'))
      /\ UNCHANGED <<router_channel, sent>>
  BY BroadcastingHead
<1>2. /\ Before(Handled, Travelling) /\ Ordered(Comes, router_channel)
      /\ Handled \subseteq sent /\ Travelling \cap Message \subseteq sent
  BY DEF IInv, InPlace
<1>3. Before(Handled', Travelling') /\ Handled' \subseteq sent'
  <2>1. CASE UNCHANGED handled
    BY <1>1, <1>2, <2>1 DEF Before, Handled
  <2>2. CASE BroadcastItem \in Message /\ Handled' = Handled \cup {BroadcastItem}
    BY <1>1, <1>2, <2>2 DEF Before
  <2> QED BY <2>1, <2>2
<1> QED BY <1>1, <1>2, <1>3 DEF InPlace

\* Its status and what it may do to the process.
LEMMA DeadlineStatus ==
    ASSUME Typed, NEW counted, NEW registered, CheckDeadline(counted, registered)
    PROVE  /\ status' \in [router : {"running", "stopped"}, broadcasting : {"running", "stopped"},
                       process : {"running", "relay failed", "router gone", "too few modules"}]
           /\ status'.router = status.router
BY DEF Typed, TypeOK, CheckDeadline

\* The broadcasting thread learns the number of modules.
LEMMA CountModulesStep ==
    ASSUME IInv, CountModules PROVE IInv'
<1>1. /\ BroadcastingTakes({"ModulesCount"}) /\ expected' = TRUE
      /\ CheckDeadline(TRUE, plugged)
      /\ UNCHANGED <<inbox, plugged, pool_msgs, handled, owed>>
  BY DEF CountModules
<1>2. /\ broadcasting_channel' \in Seq(Relayed) /\ Travelling' \subseteq Travelling /\ Alive
      /\ Range(broadcasting_channel) = {BroadcastItem} \cup Range(broadcasting_channel')
      /\ UNCHANGED <<now, router_channel, modules_senders, router_pool, started, sent, left>>
  BY <1>1, BroadcastingHead
<1>3. /\ status' \in [router : {"running", "stopped"}, broadcasting : {"running", "stopped"},
                      process : {"running", "relay failed", "router gone", "too few modules"}]
      /\ status'.router = status.router
  BY <1>1, DeadlineStatus DEF IInv
<1>4. InPlace'
  BY <1>1, Taking
<1>5. Typed'
  BY <1>1, <1>2, <1>3 DEF IInv, Typed, TypeOK, Sendable, Relayed
<1>6. Registering'
  BY <1>1, <1>2, <1>3 DEF IInv, Registering
<1>7. Kept' /\ Received' /\ EarlyMessagesReach'
  BY <1>1, <1>2, <1>3, InboxesStay
<1>8. SentInTurn'
  BY <1>2 DEF IInv, SentInTurn
<1> QED BY <1>4, <1>5, <1>6, <1>7, <1>8 DEF IInv

\* The broadcasting thread ends at the stop and gives nothing to anyone.
LEMMA StopBroadcastingStep ==
    ASSUME IInv, StopBroadcasting PROVE IInv'
<1>1. /\ BroadcastingTakes({"Stop"})
      /\ status' = [status EXCEPT !.broadcasting = "stopped"]
      /\ UNCHANGED <<inbox, plugged, pool_msgs, expected, handled, owed>>
  BY DEF StopBroadcasting
<1>2. /\ broadcasting_channel' \in Seq(Relayed) /\ Travelling' \subseteq Travelling /\ Alive
      /\ Range(broadcasting_channel) = {BroadcastItem} \cup Range(broadcasting_channel')
      /\ UNCHANGED <<now, router_channel, modules_senders, router_pool, started, sent, left>>
  BY <1>1, BroadcastingHead
<1>3. /\ status' \in [router : {"running", "stopped"}, broadcasting : {"running", "stopped"},
                      process : {"running", "relay failed", "router gone", "too few modules"}]
      /\ status'.router = status.router
  BY <1>1 DEF IInv, Typed, TypeOK
<1>4. InPlace'
  BY <1>1, Taking
<1>5. Typed'
  BY <1>1, <1>2, <1>3 DEF IInv, Typed, TypeOK, Sendable, Relayed
<1>6. Registering'
  BY <1>1, <1>2, <1>3 DEF IInv, Registering
<1>7. Kept' /\ Received' /\ EarlyMessagesReach'
  BY <1>1, <1>2, <1>3, InboxesStay
<1>8. SentInTurn'
  BY <1>2 DEF IInv, SentInTurn
<1> QED BY <1>4, <1>5, <1>6, <1>7, <1>8 DEF IInv

\* What each module gets is added to its inbox, unless one cannot get it.
LEMMA Delivering ==
    ASSUME Typed, NEW news \in [Module -> Seq(Receivable)], NEW registered,
           Deliver(news, registered)
    PROVE  /\ status' \in [router : {"running", "stopped"}, broadcasting : {"running", "stopped"},
                       process : {"running", "relay failed", "router gone", "too few modules"}]
           /\ status'.router = status.router
           /\ inbox' \in [Module -> Seq(Receivable)]
           /\ \/ ~Alive' /\ inbox' = inbox
              \/ \A m \in Module : inbox'[m] = inbox[m] \o news[m]
<1>1. inbox \in [Module -> Seq(Receivable)]
  BY DEF Typed, TypeOK, Receivable
<1>2. CASE \E m \in left : news[m] # <<>>
  <2>1. status' = [status EXCEPT !.process = "relay failed"] /\ inbox' = inbox
    BY <1>2 DEF Deliver
  <2>2. /\ status' \in [router : {"running", "stopped"}, broadcasting : {"running", "stopped"},
                       process : {"running", "relay failed", "router gone", "too few modules"}]
        /\ status'.router = status.router /\ status'.process = "relay failed"
    BY <2>1 DEF Typed, TypeOK
  <2> QED BY <1>1, <2>1, <2>2 DEF Alive
<1>3. CASE ~\E m \in left : news[m] # <<>>
  <2>1. CheckDeadline(expected, registered) /\ inbox' = [m \in Module |-> inbox[m] \o news[m]]
    BY <1>3 DEF Deliver
  <2>2. \A m \in Module : inbox[m] \o news[m] \in Seq(Receivable)
    <3> SUFFICES ASSUME NEW m \in Module PROVE inbox[m] \o news[m] \in Seq(Receivable)
      OBVIOUS
    <3>1. inbox[m] \in Seq(Receivable) /\ news[m] \in Seq(Receivable)
      BY <1>1
    <3> QED BY <3>1
  <2> QED BY <2>1, <2>2, DeadlineStatus
<1> QED BY <1>2, <1>3

\* What is kept for a module that registers, for all its events and roles.
LEMMA PendingMessages ==
    ASSUME IInv, NEW m \in Module
    PROVE  /\ Pending(m) \in Seq(Message) /\ Ordered(Comes, Pending(m))
           /\ Range(Pending(m)) \subseteq handled.broadcasting
           /\ Early => \A msg \in handled.broadcasting :
                          Subscribed(m, msg) => msg \in Range(Pending(m))
<1> DEFINE D == DOMAIN Interests[m]
           seqs == [i \in D |-> pool_msgs[Interests[m][i]]]
<1>1. Interests[m] \in Seq(STRING) /\ IsInjective(Interests[m])
  BY MessageAssumption
<1>2. \A i \in D : Interests[m][i] \in Address
  <2>1. Range(Interests[m]) \subseteq Address
    BY DEF Address
  <2> QED BY <2>1 DEF Range
<1>3. Typed /\ Kept
  BY DEF IInv
<1>4. seqs \in Seq(Seq(Message)) /\ DOMAIN seqs = D
      /\ \A i \in D : seqs[i] = pool_msgs[Interests[m][i]]
  <2>1. D = 1 .. Len(Interests[m]) /\ Len(Interests[m]) \in Nat
    BY <1>1
  <2>2. \A i \in D : pool_msgs[Interests[m][i]] \in Seq(Message)
    BY <1>2, <1>3, TypesOf
  <2> HIDE DEF D
  <2> QED BY <2>1, <2>2
<1>5. \A i \in D : /\ Ordered(Comes, seqs[i])
                   /\ Range(seqs[i]) \subseteq {msg \in handled.broadcasting : msg.to = Interests[m][i]}
  BY <1>2, <1>3, <1>4 DEF Kept
<1>6. handled.broadcasting \subseteq Message /\ Message \subseteq Item
  BY <1>3, TypesOf, AllItems DEF NotResponse
<1>7. ASSUME NEW i \in D, NEW j \in D, i < j, NEW x \in Range(seqs[i]), NEW y \in Range(seqs[j])
      PROVE  <<x, y>> \in Comes
  <2>1. D \subseteq Int
    BY <1>1
  <2>2. Interests[m][i] # Interests[m][j]
    BY <1>1, <1>7, <2>1 DEF IsInjective
  <2>3. x \in Item /\ y \in Item /\ x.to # y.to
    BY <1>5, <1>6, <2>2
  <2> QED BY <2>3, Apart
<1> HIDE DEF seqs, D
<1>8. /\ FlattenSeq(seqs) \in Seq(Message) /\ Ordered(Comes, FlattenSeq(seqs))
      /\ Range(FlattenSeq(seqs)) = UNION {Range(seqs[i]) : i \in D}
  <2>1. \A i \in DOMAIN seqs : Ordered(Comes, seqs[i])
    BY <1>4, <1>5
  <2>2. \A i, j \in DOMAIN seqs : i < j =>
           \A x \in Range(seqs[i]), y \in Range(seqs[j]) : <<x, y>> \in Comes
    BY <1>4, <1>7
  <2>3. /\ FlattenSeq(seqs) \in Seq(Message) /\ Ordered(Comes, FlattenSeq(seqs))
        /\ Range(FlattenSeq(seqs)) = UNION {Range(seqs[i]) : i \in DOMAIN seqs}
    BY <1>4, <2>1, <2>2, FlattenInOrder
  <2> QED BY <1>4, <2>3
<1>9. Pending(m) = FlattenSeq(seqs)
  BY DEF Pending, seqs, D
<1>10. Range(Pending(m)) \subseteq handled.broadcasting
  BY <1>5, <1>8, <1>9
<1>11. ASSUME Early, NEW msg \in handled.broadcasting, Subscribed(m, msg)
       PROVE  msg \in Range(Pending(m))
  <2>1. PICK i \in D : msg.to = Interests[m][i]
    BY <1>11 DEF Subscribed, Contains, D
  <2>2. msg \in Range(seqs[i])
    BY <1>3, <1>4, <1>11, <2>1 DEF Kept
  <2> QED BY <1>8, <1>9, <2>2
<1> QED BY <1>8, <1>9, <1>10, <1>11

\* A module that is admitted has only what the router thread gave it, to other
\* addresses than what was kept for it; the endpoints are sent with the last one.
LEMMA AdmitModuleStep ==
    ASSUME IInv, AdmitModule PROVE IInv'
<1> DEFINE m == BroadcastItem.static_name
           news == [x \in Module |->
                      IF x = m THEN Pending(m)
                      ELSE IF Complete(m) /\ x \in Network \cap plugged THEN <<ModulesEndpoints>>
                      ELSE <<>>]
<1>1. /\ BroadcastingTakes({"ModuleRegistration"})
      /\ plugged' = plugged \cup {m} /\ pool_msgs' = pool_msgs
      /\ Deliver(news, plugged \cup {m}) /\ HandleRegistration("broadcasting", m)
      /\ UNCHANGED expected
  BY DEF AdmitModule, PoolAfterRegistration
<1>2. /\ BroadcastItem \in Relayed /\ BroadcastItem.kind = "ModuleRegistration" /\ Alive
      /\ broadcasting_channel' \in Seq(Relayed) /\ Travelling' \subseteq Travelling
      /\ Range(broadcasting_channel) = {BroadcastItem} \cup Range(broadcasting_channel')
      /\ BroadcastItem \notin Range(broadcasting_channel')
      /\ UNCHANGED <<now, router_channel, modules_senders, router_pool, started, sent, left>>
  BY <1>1, BroadcastingHead
<1>3. m \in Module /\ BroadcastItem = ModuleRegistration(m)
  BY <1>2, KindTells DEF Relayed
<1>4. UNCHANGED handled
      /\ owed' = IF Early
                 THEN [owed EXCEPT ![m] = @ \cup {msg \in handled.broadcasting : IsFor(msg, m)}]
                 ELSE owed
  BY <1>1 DEF HandleRegistration
<1>5. InPlace'
  BY <1>1, <1>4, Taking
<1> HIDE DEF m
<1>6. /\ Typed /\ Registering /\ Kept /\ Received /\ EarlyMessagesReach /\ SentInTurn
      /\ m \in modules_senders \ plugged
  BY <1>2, <1>3 DEF IInv, Registering
<1>7. /\ Pending(m) \in Seq(Message) /\ Ordered(Comes, Pending(m))
      /\ Range(Pending(m)) \subseteq handled.broadcasting
      /\ Early => \A msg \in handled.broadcasting :
                     Subscribed(m, msg) => msg \in Range(Pending(m))
  BY <1>3, PendingMessages
<1>8. /\ news \in [Module -> Seq(Receivable)] /\ news[m] = Pending(m)
      /\ \A n \in Module : n # m =>
            \/ news[n] = <<>>
            \/ news[n] = <<ModulesEndpoints>> /\ n \in plugged /\ plugged' = Module
  <2>1. Pending(m) \in Seq(Receivable) /\ <<ModulesEndpoints>> \in Seq(Receivable)
        /\ <<>> \in Seq(Receivable)
    BY <1>7 DEF Receivable
  <2> HIDE DEF Complete
  <2>2. Complete(m) => plugged' = Module
    BY <1>1 DEF Complete
  <2> QED BY <1>3, <2>1, <2>2
<1> HIDE DEF news
<1>9. /\ status' \in [router : {"running", "stopped"}, broadcasting : {"running", "stopped"},
                      process : {"running", "relay failed", "router gone", "too few modules"}]
      /\ status'.router = status.router /\ inbox' \in [Module -> Seq(Receivable)]
      /\ \/ ~Alive' /\ inbox' = inbox
         \/ \A n \in Module : inbox'[n] = inbox[n] \o news[n]
  BY <1>1, <1>6, <1>8, Delivering
<1>10. /\ owed' \in [Module -> SUBSET Message]
       /\ \A n \in Module : n # m => owed'[n] = owed[n]
       /\ owed'[m] \subseteq owed[m] \cup (IF Early THEN {msg \in handled.broadcasting : IsFor(msg, m)}
                                                    ELSE {})
  <2>1. owed \in [Module -> SUBSET Message] /\ handled.broadcasting \subseteq Message
    BY <1>6 DEF Typed
  <2> QED BY <1>3, <1>4, <2>1
<1>11. Typed'
  <2>1. TypeOK'
    <3>1. modules_senders' \subseteq started' /\ plugged' \subseteq started'
      BY <1>1, <1>2, <1>6 DEF Typed, TypeOK
    <3> QED BY <1>1, <1>2, <1>6, <1>9, <3>1 DEF Typed, TypeOK, Sendable, Relayed, Receivable
  <2> QED BY <1>4, <1>6, <1>10, <2>1 DEF Typed
<1>12. Registering'
  <2>1. plugged' \subseteq modules_senders'
    BY <1>1, <1>2, <1>6 DEF Registering
  <2>2. \A n \in Module : ModuleRegistration(n) \in Range(broadcasting_channel')
                            => n \in modules_senders' \ plugged'
    BY <1>1, <1>2, <1>3, <1>6 DEF Registering
  <2> QED BY <1>2, <1>6, <1>9, <2>1, <2>2 DEF Registering
<1>13. SentInTurn'
  BY <1>2, <1>6 DEF SentInTurn
<1>14. /\ inbox[m] \in Seq(Receivable) /\ Ordered(Comes, inbox[m])
       /\ Range(inbox[m]) \subseteq handled.router \cup {Stop}
  BY <1>3, <1>6, TypesOf DEF Received
<1>15. /\ Ordered(Comes, inbox[m] \o Pending(m))
       /\ Range(inbox[m] \o Pending(m)) = Range(inbox[m]) \cup Range(Pending(m))
  <2>1. ASSUME NEW x \in Range(inbox[m]), NEW y \in Range(Pending(m)) PROVE <<x, y>> \in Comes
    <3>1. y \in NotResponse /\ (x \in Response \/ x = Stop)
      BY <1>6, <1>7, <1>14, TypesOf
    <3>2. x \in Item /\ y \in Item /\ x # y
      BY <3>1, ItemsDiffer DEF NotResponse, Response, Item
    <3>3. x \in Message => x.to # y.to
      BY <3>1, Messages, ItemsDiffer DEF NotResponse, Response
    <3> QED BY <3>2, <3>3, Apart
  <2>2. Pending(m) \in Seq(Receivable)
    BY <1>7 DEF Receivable
  <2> QED BY <1>7, <1>14, <2>1, <2>2, Concatenation
<1>16. ASSUME NEW n \in Module, n \in plugged
       PROVE  /\ Ordered(Comes, inbox[n] \o <<ModulesEndpoints>>)
              /\ Range(inbox[n] \o <<ModulesEndpoints>>) = Range(inbox[n]) \cup {ModulesEndpoints}
  <2>1. inbox[n] \in Seq(Receivable) /\ Ordered(Comes, inbox[n])
        /\ ModulesEndpoints \notin Range(inbox[n])
    BY <1>3, <1>6, TypesOf DEF Received
  <2>2. ASSUME NEW x \in Range(inbox[n]) PROVE <<x, ModulesEndpoints>> \in Comes
    <3>1. x \in Receivable
      BY <2>1, RangeOf
    <3> QED BY <2>1, <3>1, ItemsDiffer, Apart DEF Receivable, Item
  <2>3. ModulesEndpoints \in Receivable
    BY DEF Receivable
  <2>4. inbox[n] \o <<ModulesEndpoints>> = Append(inbox[n], ModulesEndpoints)
    BY <2>1
  <2>5. /\ Range(Append(inbox[n], ModulesEndpoints)) = Range(inbox[n]) \cup {ModulesEndpoints}
        /\ Ordered(Comes, Append(inbox[n], ModulesEndpoints))
    BY <2>1, <2>2, <2>3, OneMore
  <2> QED BY <2>4, <2>5
<1>17. ASSUME NEW n \in Module, n # m
       PROVE  \/ inbox'[n] = inbox[n]
              \/ inbox'[n] = inbox[n] \o <<ModulesEndpoints>> /\ n \in plugged /\ plugged' = Module
  <2>1. inbox[n] \in Seq(Receivable)
    BY <1>6, TypesOf
  <2>2. inbox[n] \o <<>> = inbox[n]
    BY <2>1
  <2> QED BY <1>8, <1>9, <1>17, <2>2
<1>18. \A n \in Module : Range(inbox[n]) \subseteq Range(inbox'[n])
  BY <1>8, <1>9, <1>15, <1>16, <1>17
<1>19. Kept'
  <2>1. ASSUME Early, NEW x \in handled.router
        PROVE  x \in Range(router_pool[x.to]) \cup Range(inbox'[x.to])
    <3>1. x \in Range(router_pool[x.to]) \cup Range(inbox[x.to]) /\ x.to \in Module
      BY <1>6, <2>1, TypesOf, Messages DEF Kept, Response
    <3> QED BY <1>18, <3>1
  <2> QED BY <1>1, <1>2, <1>4, <1>6, <2>1 DEF Kept, Early
<1>20. Received'
  <2>1. ModulesEndpoints # Stop
    BY ItemsDiffer
  <2>2. \A x \in handled.router \cup handled.broadcasting : x # Stop /\ x # ModulesEndpoints
    BY <1>6, TypesOf, ItemsDiffer DEF Response, NotResponse
  <2> SUFFICES ASSUME NEW n \in Module
               PROVE  /\ Ordered(Comes, inbox'[n])
                      /\ Range(inbox'[n]) \subseteq Handled \cup {Stop, ModulesEndpoints}
                      /\ n \notin modules_senders => inbox'[n] = <<>>
                      /\ n \notin plugged' => Range(inbox'[n]) \subseteq handled.router \cup {Stop}
                      /\ ModulesEndpoints \in Range(inbox'[n]) => plugged' = Module
                      /\ Stop \in Range(inbox'[n]) => status.router = "stopped"
    BY <1>2, <1>4, <1>9 DEF Received, Handled
  <2>3. CASE inbox'[n] = inbox[n]
    BY <1>1, <1>3, <1>6, <2>3 DEF Received
  <2>4. CASE n = m /\ inbox'[n] = inbox[n] \o Pending(m)
    <3>1. Stop \in Range(inbox'[n]) => Stop \in Range(inbox[n])
      BY <1>7, <1>15, <2>2, <2>4
    <3>2. ModulesEndpoints \notin Range(inbox'[n])
      BY <1>7, <1>14, <1>15, <2>1, <2>2, <2>4
    <3>3. Range(inbox'[n]) \subseteq Handled \cup {Stop, ModulesEndpoints}
      BY <1>7, <1>14, <1>15, <2>4 DEF Handled
    <3> QED BY <1>1, <1>6, <1>15, <2>4, <3>1, <3>2, <3>3 DEF Received
  <2>5. CASE /\ inbox'[n] = inbox[n] \o <<ModulesEndpoints>>
             /\ n \in plugged /\ plugged' = Module
    <3>1. n \in modules_senders /\ n \in plugged'
      BY <1>1, <1>6, <2>5 DEF Registering
    <3> QED BY <1>6, <1>16, <2>1, <2>5, <3>1 DEF Received
  <2> QED BY <1>8, <1>9, <1>17, <2>3, <2>4, <2>5
<1>21. EarlyMessagesReach'
  <2> SUFFICES ASSUME Alive', NEW n \in Module PROVE owed'[n] \subseteq Range(inbox'[n])
    BY DEF EarlyMessagesReach
  <2>1. owed[n] \subseteq Range(inbox'[n])
    BY <1>2, <1>6, <1>18 DEF EarlyMessagesReach
  <2>2. ASSUME Early, NEW msg \in handled.broadcasting, IsFor(msg, m) PROVE msg \in Range(inbox'[m])
    <3>1. msg \in NotResponse
      BY <1>6, <2>2, TypesOf
    <3>2. Subscribed(m, msg)
      BY <2>2, <3>1 DEF IsFor, NotResponse
    <3> QED BY <1>3, <1>7, <1>8, <1>9, <1>15, <2>2, <3>2
  <2> QED BY <1>10, <2>1, <2>2
<1> QED BY <1>5, <1>11, <1>12, <1>13, <1>19, <1>20, <1>21 DEF IInv

\* A message is relayed to the modules plugged, and kept while it is early.
LEMMA BroadcastStep ==
    ASSUME IInv, Broadcast PROVE IInv'
<1> DEFINE msg == BroadcastItem
           to == msg.to
           news == [n \in Module |-> IF n \in Receivers(msg) THEN <<msg>> ELSE <<>>]
<1>1. /\ BroadcastingTakes({"Event", "Request"}) /\ pool_msgs' = StoreMsg(msg)
      /\ Deliver(news, plugged) /\ HandleMessage("broadcasting", plugged, msg)
      /\ UNCHANGED <<plugged, expected>>
  BY DEF Broadcast
<1>2. /\ msg \in Relayed /\ msg.kind \in {"Event", "Request"} /\ Alive /\ msg \in Travelling
      /\ broadcasting_channel' \in Seq(Relayed) /\ Travelling' \subseteq Travelling
      /\ Range(broadcasting_channel) = {msg} \cup Range(broadcasting_channel')
      /\ UNCHANGED <<now, router_channel, modules_senders, router_pool, started, sent, left>>
  BY <1>1, BroadcastingHead
<1>3. msg \in Message /\ msg \in NotResponse /\ to \in Address /\ to \notin Module
  <2>1. msg \in Message
    BY <1>2, KindTells DEF Relayed
  <2> QED BY <1>2, <2>1, Messages DEF NotResponse
<1>4. /\ handled' = [handled EXCEPT !.broadcasting = @ \cup {msg}]
      /\ owed' = [n \in Module |-> IF n \in plugged /\ IsFor(msg, n)
                                   THEN owed[n] \cup {msg} ELSE owed[n]]
  BY <1>1 DEF HandleMessage
<1>5. /\ Typed /\ Registering /\ Kept /\ Received /\ EarlyMessagesReach /\ SentInTurn /\ InPlace
  BY DEF IInv
<1>6. /\ \A n \in Module : n \in plugged /\ IsFor(msg, n) => n \in Receivers(msg)
      /\ Receivers(msg) \subseteq plugged
  BY <1>2 DEF IsFor, Receivers
<1>7. pool_msgs' = IF Early THEN [pool_msgs EXCEPT ![to] = Append(@, msg)]
                            ELSE [a \in Address |-> <<>>]
  BY <1>1 DEF StoreMsg
<1> HIDE DEF to, msg
<1>8. /\ handled' \in [router : SUBSET Response, broadcasting : SUBSET NotResponse]
      /\ handled'.broadcasting = handled.broadcasting \cup {msg}
      /\ handled'.router = handled.router /\ Handled' = Handled \cup {msg}
  <2>1. handled \in [router : SUBSET Response, broadcasting : SUBSET NotResponse]
    BY <1>5 DEF Typed, Response, NotResponse
  <2>2. handled'.broadcasting = handled.broadcasting \cup {msg}
        /\ handled'.router = handled.router
    BY <1>4, <2>1
  <2>3. handled' \in [router : SUBSET Response, broadcasting : SUBSET NotResponse]
    BY <1>3, <1>4, <2>1
  <2> QED BY <2>2, <2>3 DEF Handled
<1>9. /\ owed' \in [Module -> SUBSET Message]
      /\ \A n \in Module : owed'[n] \subseteq owed[n] \cup (IF n \in Receivers(msg)
                                                            THEN {msg} ELSE {})
  BY <1>3, <1>4, <1>5, <1>6 DEF Typed
<1>10. InPlace'
  BY <1>1, <1>3, <1>8, Taking DEF msg
<1>11. /\ news \in [Module -> Seq(Receivable)]
       /\ \A n \in Module : news[n] = IF n \in Receivers(msg) THEN <<msg>> ELSE <<>>
  <2>1. <<msg>> \in Seq(Receivable) /\ <<>> \in Seq(Receivable)
    BY <1>3 DEF Receivable
  <2> QED BY <2>1
<1> HIDE DEF news
<1>12. /\ status' \in [router : {"running", "stopped"}, broadcasting : {"running", "stopped"},
                       process : {"running", "relay failed", "router gone", "too few modules"}]
       /\ status'.router = status.router /\ inbox' \in [Module -> Seq(Receivable)]
       /\ \/ ~Alive' /\ inbox' = inbox
          \/ \A n \in Module : inbox'[n] = inbox[n] \o news[n]
  BY <1>1, <1>5, <1>11, Delivering
<1>13. /\ Append(pool_msgs[to], msg) \in Seq(Message)
       /\ Range(Append(pool_msgs[to], msg)) = Range(pool_msgs[to]) \cup {msg}
       /\ Ordered(Comes, Append(pool_msgs[to], msg))
  <2>1. \A x \in Range(pool_msgs[to]) : <<x, msg>> \in Comes
    BY <1>2, <1>3, <1>5 DEF Kept, InPlace, Before, Handled
  <2>2. pool_msgs[to] \in Seq(Message) /\ Ordered(Comes, pool_msgs[to])
    BY <1>3, <1>5, TypesOf DEF Kept
  <2> QED BY <1>3, <2>1, <2>2, OneMore
<1>14. /\ pool_msgs' \in [Address -> Seq(Message)]
       /\ \A a \in Address : \/ pool_msgs'[a] = <<>> /\ ~Early
                             \/ pool_msgs'[a] = pool_msgs[a] /\ a # to
                             \/ pool_msgs'[a] = Append(pool_msgs[a], msg) /\ a = to
  <2>1. pool_msgs \in [Address -> Seq(Message)]
    BY <1>5 DEF Typed, TypeOK
  <2>2. CASE Early
    BY <1>3, <1>7, <1>13, <2>1, <2>2
  <2>3. CASE ~Early
    BY <1>7, <2>3
  <2> QED BY <2>2, <2>3
<1>15. Typed'
  <2>1. TypeOK'
    BY <1>1, <1>2, <1>5, <1>12, <1>14 DEF Typed, TypeOK, Sendable, Relayed, Receivable
  <2> QED BY <1>8, <1>9, <2>1 DEF Typed, Response, NotResponse
<1>16. Registering'
  <2>1. Range(broadcasting_channel') \subseteq Range(broadcasting_channel)
    BY <1>2
  <2> QED BY <1>1, <1>2, <1>5, <1>12, <2>1 DEF Registering
<1>17. SentInTurn'
  BY <1>2, <1>5 DEF SentInTurn
<1>18. ASSUME NEW n \in Module
       PROVE  \/ inbox'[n] = inbox[n] /\ (Alive' => n \notin Receivers(msg))
              \/ /\ inbox'[n] = Append(inbox[n], msg) /\ n \in Receivers(msg)
                 /\ Range(Append(inbox[n], msg)) = Range(inbox[n]) \cup {msg}
                 /\ Ordered(Comes, Append(inbox[n], msg))
  <2>1. inbox[n] \in Seq(Receivable) /\ Ordered(Comes, inbox[n]) /\ msg \in Receivable
    BY <1>3, <1>5, TypesOf DEF Received, Receivable
  <2>2. \A x \in Range(inbox[n]) : <<x, msg>> \in Comes
    BY <1>2, <1>3, ReceivedBefore
  <2>3. /\ Range(Append(inbox[n], msg)) = Range(inbox[n]) \cup {msg}
        /\ Ordered(Comes, Append(inbox[n], msg))
    BY <2>1, <2>2, OneMore
  <2>4. inbox[n] \o <<>> = inbox[n] /\ inbox[n] \o <<msg>> = Append(inbox[n], msg)
    BY <2>1
  <2> QED BY <1>11, <1>12, <2>3, <2>4
<1>19. \A n \in Module : Range(inbox[n]) \subseteq Range(inbox'[n])
  BY <1>18
<1>20. Kept'
  <2>1. Range(<<>>) = {} /\ Ordered(Comes, <<>>)
    BY DEF Range, Ordered
  <2>2. ASSUME NEW a \in Address
        PROVE  /\ Range(pool_msgs'[a]) \subseteq {x \in handled'.broadcasting : x.to = a}
               /\ Ordered(Comes, pool_msgs'[a])
    <3>1. Range(pool_msgs[a]) \subseteq {x \in handled'.broadcasting : x.to = a}
          /\ Ordered(Comes, pool_msgs[a])
      BY <1>5, <1>8 DEF Kept
    <3>2. msg \in {x \in handled'.broadcasting : x.to = to}
      BY <1>8 DEF to
    <3>3. CASE pool_msgs'[a] = Append(pool_msgs[a], msg) /\ a = to
      BY <1>13, <3>1, <3>2, <3>3
    <3> QED BY <1>14, <2>1, <3>1, <3>3
  <2>3. ASSUME Early, NEW x \in handled.router
        PROVE  x \in Range(router_pool[x.to]) \cup Range(inbox'[x.to])
    <3>1. x \in Range(router_pool[x.to]) \cup Range(inbox[x.to]) /\ x.to \in Module
      BY <1>5, <2>3, TypesOf, Messages DEF Kept, Response
    <3> QED BY <1>19, <3>1
  <2>4. ASSUME Early, NEW x \in handled'.broadcasting PROVE x \in Range(pool_msgs'[x.to])
    <3>1. CASE x = msg
      <4>1. pool_msgs'[to] = Append(pool_msgs[to], msg)
        BY <1>3, <1>14, <2>4
      <4> QED BY <1>13, <3>1, <4>1 DEF to
    <3>2. CASE x \in handled.broadcasting
      <4>1. x \in Range(pool_msgs[x.to]) /\ x.to \in Address
        BY <1>5, <2>4, <3>2, TypesOf, Messages DEF Kept, NotResponse
      <4> QED BY <1>13, <1>14, <2>4, <4>1
    <3> QED BY <1>8, <2>4, <3>1, <3>2
  <2> QED BY <1>2, <1>5, <1>8, <2>2, <2>3, <2>4 DEF Kept, Early
<1>21. Received'
  <2>1. msg # Stop /\ msg # ModulesEndpoints
    BY <1>3, ItemsDiffer
  <2> SUFFICES ASSUME NEW n \in Module
               PROVE  /\ Ordered(Comes, inbox'[n])
                      /\ Range(inbox'[n]) \subseteq Handled' \cup {Stop, ModulesEndpoints}
                      /\ n \notin modules_senders => inbox'[n] = <<>>
                      /\ n \notin plugged => Range(inbox'[n]) \subseteq handled'.router \cup {Stop}
                      /\ ModulesEndpoints \in Range(inbox'[n]) => plugged = Module
                      /\ Stop \in Range(inbox'[n]) => status.router = "stopped"
    BY <1>1, <1>2, <1>12 DEF Received
  <2>2. CASE inbox'[n] = inbox[n]
    BY <1>5, <1>8, <2>2 DEF Received
  <2>3. CASE /\ inbox'[n] = Append(inbox[n], msg) /\ n \in Receivers(msg)
             /\ Range(Append(inbox[n], msg)) = Range(inbox[n]) \cup {msg}
             /\ Ordered(Comes, Append(inbox[n], msg))
    <3>1. n \in plugged /\ n \in modules_senders
      BY <1>5, <1>6, <2>3 DEF Registering
    <3> QED BY <1>5, <1>8, <2>1, <2>3, <3>1 DEF Received
  <2> QED BY <1>18, <2>2, <2>3
<1>22. EarlyMessagesReach'
  <2> SUFFICES ASSUME Alive', NEW n \in Module PROVE owed'[n] \subseteq Range(inbox'[n])
    BY DEF EarlyMessagesReach
  <2>1. owed[n] \subseteq Range(inbox[n])
    BY <1>2, <1>5 DEF EarlyMessagesReach
  <2> QED BY <1>9, <1>18, <2>1
<1> QED BY <1>10, <1>15, <1>16, <1>17, <1>20, <1>21, <1>22 DEF IInv

-----------------------------------------------------------------------------
(* The theorems. *)

\* At the start the channels, the pools and the inboxes are empty.
LEMMA Initially == Init => IInv
<1> SUFFICES ASSUME Init PROVE IInv
  OBVIOUS
<1>1. Range(<<>>) = {} /\ Ordered(Comes, <<>>)
  BY DEF Range, Ordered
<1>2. \A m \in Module : inbox[m] = <<>> /\ router_pool[m] = <<>> /\ owed[m] = {}
  BY DEF Init
<1>3. \A a \in Address : pool_msgs[a] = <<>>
  BY DEF Init
<1>4. /\ router_channel = <<>> /\ broadcasting_channel = <<>> /\ handled.router = {}
      /\ handled.broadcasting = {} /\ plugged = {} /\ modules_senders = {} /\ sent = {}
  BY DEF Init
<1>5. Typed
  <2>1. TypeOK
    <3>1. now \in 0 .. MaxTime
      BY MessageAssumption DEF Init
    <3>2. /\ status \in [router : {"running", "stopped"}, broadcasting : {"running", "stopped"},
                      process : {"running", "relay failed", "router gone", "too few modules"}]
          /\ expected \in BOOLEAN /\ started = {} /\ left = {}
      BY DEF Init
    <3>3. /\ inbox \in [Module -> Seq(Receivable)] /\ router_pool \in [Module -> Seq(Message)]
          /\ pool_msgs \in [Address -> Seq(Message)]
      BY DEF Init
    <3>4. router_channel \in Seq(Sendable) /\ broadcasting_channel \in Seq(Relayed)
      BY <1>4
    <3>5. /\ plugged \subseteq started /\ modules_senders \subseteq started
          /\ started \subseteq Module /\ left \subseteq Module /\ sent \subseteq Message
      BY <1>4, <3>2
    <3> QED BY <3>1, <3>2, <3>3, <3>4, <3>5 DEF TypeOK, Sendable, Relayed, Receivable
  <2>2. handled \in [router : SUBSET {msg \in Message : msg.kind = "Response"},
                     broadcasting : SUBSET {msg \in Message : msg.kind # "Response"}]
    BY DEF Init
  <2>3. owed \in [Module -> SUBSET Message]
    BY DEF Init
  <2> QED BY <2>1, <2>2, <2>3 DEF Typed
<1>6. Registering /\ SentInTurn
  BY <1>1, <1>4 DEF Registering, SentInTurn, Travelling
<1>7. InPlace
  BY <1>1, <1>4 DEF InPlace, Before, Handled, Travelling
<1>8. Kept
  BY <1>1, <1>2, <1>3, <1>4 DEF Kept
<1>9. Received
  BY <1>1, <1>2 DEF Received
<1>10. EarlyMessagesReach
  BY <1>2 DEF EarlyMessagesReach
<1> QED BY <1>5, <1>6, <1>7, <1>8, <1>9, <1>10 DEF IInv

\* Every step of the modules, of the core and of the two threads keeps it.
LEMMA EveryStep == IInv /\ [Next]_vars => IInv'
<1> SUFFICES ASSUME IInv, [Next]_vars PROVE IInv'
  OBVIOUS
<1>1. CASE Tick
  BY <1>1, TickStep
<1>2. ASSUME NEW m \in Module, Register(m) \/ Leave(m) PROVE IInv'
  BY <1>2, RegisterStep, LeaveStep
<1>3. CASE StartCore
  BY <1>3, StartCoreStep
<1>4. ASSUME NEW msg \in Message, Send(msg) PROVE IInv'
  BY <1>4, SendStep
<1>5. CASE RequestStop
  BY <1>5, RequestStopStep
<1>6. CASE RouterStep
  BY <1>6, RelayToBroadcastingStep, RelayRegistrationStep, RelayResponseStep, RelayStopStep
     DEF RouterStep
<1>7. CASE BroadcastingStep
  BY <1>7, CountModulesStep, AdmitModuleStep, BroadcastStep, StopBroadcastingStep
     DEF BroadcastingStep
<1>8. CASE UNCHANGED vars
  <2>1. UNCHANGED <<now, router_channel, broadcasting_channel, inbox, modules_senders, router_pool,
                    plugged, pool_msgs, expected, status, started, sent, left, handled, owed>>
    BY <1>8 DEF vars
  <2>2. Typed'
    BY <2>1 DEF IInv, Typed, TypeOK
  <2>3. Registering' /\ SentInTurn' /\ InPlace'
    BY <2>1 DEF IInv, Registering, SentInTurn, InPlace, Handled, Travelling
  <2>4. Kept' /\ Received' /\ EarlyMessagesReach'
    BY <2>1, InboxesStay DEF Alive
  <2> QED BY <2>2, <2>3, <2>4 DEF IInv
<1> QED BY <1>1, <1>2, <1>3, <1>4, <1>5, <1>6, <1>7, <1>8 DEF Next

\* The invariant holds in every state.
LEMMA AlwaysIInv == Spec => []IInv
<1>1. Init => IInv
  BY Initially
<1>2. IInv /\ [Next]_vars => IInv'
  BY EveryStep
<1> QED BY <1>1, <1>2, PTL DEF Spec

\* "Keep the message in memory to be able to send it back to modules not yet
\* plugged": in whatever order a message and the registration of a module it is
\* for reach the thread that relays it, the module has the message, unless the
\* registration comes second and late.
THEOREM EarlyMessagesAlwaysReach == Spec => []EarlyMessagesReach
<1>1. IInv => EarlyMessagesReach
  BY DEF IInv
<1> QED BY <1>1, AlwaysIInv, PTL

\* Each module gets each message once, in the order it was sent, whether kept or
\* relayed by one thread or the other.
THEOREM AlwaysDeliveredInOrder == Spec => []DeliveredInOrder
<1>1. ASSUME IInv PROVE DeliveredInOrder
  <2>1. \A m \in Module : Ordered(Comes, inbox[m]) /\ inbox[m] \in Seq(Receivable)
    BY <1>1, TypesOf DEF IInv, Received
  <2>2. DeliveredOnce
    <3> SUFFICES ASSUME NEW m \in Module PROVE IsInjective(inbox[m])
      BY DEF DeliveredOnce
    <3> DEFINE s == inbox[m]
    <3>1. DOMAIN s \subseteq Nat
      BY <2>1
    <3>2. \A i, j \in DOMAIN s : i < j => s[i] # s[j]
      <4> SUFFICES ASSUME NEW i \in DOMAIN s, NEW j \in DOMAIN s, i < j PROVE s[i] # s[j]
        OBVIOUS
      <4>1. <<s[i], s[j]>> \in Comes
        BY <2>1 DEF Ordered
      <4> QED BY <4>1 DEF Comes
    <3> HIDE DEF s
    <3>3. IsInjective(s)
      BY <3>1, <3>2 DEF IsInjective
    <3> QED BY <3>3 DEF s
  <2>3. OrderKept
    <3> SUFFICES ASSUME NEW m \in Module, NEW i \in DOMAIN inbox[m], NEW j \in DOMAIN inbox[m],
                        i < j, inbox[m][i] \in Message, inbox[m][j] \in Message,
                        inbox[m][i].from = inbox[m][j].from, inbox[m][i].to = inbox[m][j].to
                 PROVE  inbox[m][i].no < inbox[m][j].no
      BY DEF OrderKept
    <3>1. <<inbox[m][i], inbox[m][j]>> \in Comes
      BY <2>1 DEF Ordered
    <3> QED BY <3>1, ComesBefore
  <2>4. TypeOK
    BY <1>1 DEF IInv, Typed
  <2> QED BY <2>2, <2>3, <2>4 DEF DeliveredInOrder
<1> QED BY <1>1, AlwaysIInv, PTL
=============================================================================
