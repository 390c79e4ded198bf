---------------------------- MODULE WS2Pv1Proofs ----------------------------
(***************************************************************************)
(* Theorems about WS2Pv1, for all endpoints, quotas and bounds: the tables *)
(* by endpoint follow the threads by connection, and every thread          *)
(* implements WS2PHandshake.                                               *)
(*                                                                         *)
(* An endpoint is recorded as Established some time after its thread, and  *)
(* the thread may be over by then. What saves the table is the order of    *)
(* the channel: the Close of a thread is its last message, so as long as   *)
(* another one waits the Close is behind it (CloseFollows).                *)
(***************************************************************************)
EXTENDS WS2Pv1, FiniteSetTheorems, TLAPS

ThreadRecord == [ep : EndpointOrNone, state : ThreadState,
                 phase : {"free", "dialled", "open", "closing", "closed"},
                 timers : SUBSET {"CONNECT", "EXPIRE"}]
Unopened == {"free", "dialled"}

Info == {"none"} \cup ThreadState \cup (1 .. MaxRequests) \cup {Issuer[e] : e \in Endpoint}
Payload == {"WebsocketOk", "ValidConnectMessage", "ValidAckMessage", "ValidOk", "Other",
            "ReqResponse", "PeerCard", "NegociationTimeout", "Timeout", "Close"}
Message == [payload : Payload, from : Endpoint, conn : Conn, info : Info]

\* Threads are used one after the other, and a used one has an endpoint; no
\* negotiation begins before the websocket opens.
Used(threads) == \E k \in 0 .. MaxConns : \A c \in Conn : threads[c].phase # "free" <=> c <= k
ThreadsOK(threads) ==
    /\ threads \in [Conn -> ThreadRecord] /\ Used(threads)
    /\ \A c \in Conn : /\ threads[c].phase # "free" => threads[c].ep \in Endpoint
                       /\ threads[c].phase \in Unopened => threads[c].state = "WaitingConnectMess"

\* A message of a thread says what the thread is, or was when it sent it.
MsgOK(m, threads) ==
    /\ threads[m.conn].ep = m.from /\ threads[m.conn].phase \notin Unopened
    /\ m.payload = "ValidConnectMessage" => m.info = "ConnectMessOk"
    /\ m.payload = "ValidAckMessage" => m.info \in {"AckMessOk", "Established"}
    /\ m.payload = "ValidOk" => m.info \in {"OkMessOkWaitingAckMess", "Established"}
    /\ m.payload \in {"ValidAckMessage", "ValidOk"} /\ m.info = "Established" =>
         threads[m.conn].state = "Established"

CloseOf(m, c) == m.conn = c /\ m.payload = "Close"

\* The last message of a thread that is over, and of no other, is its Close.
CloseFollows(msgs, threads) ==
    \A i \in 1 .. Len(msgs) :
        \/ threads[msgs[i].conn].phase # "closed" /\ msgs[i].payload # "Close"
        \/ threads[msgs[i].conn].phase = "closed" /\
             (msgs[i].payload = "Close"
                \/ \E j \in i + 1 .. Len(msgs) : CloseOf(msgs[j], msgs[i].conn))

ChannelOK(msgs, threads) ==
    /\ \A i \in 1 .. Len(msgs) : MsgOK(msgs[i], threads)
    /\ CloseFollows(msgs, threads)

IInv ==
    /\ TypeOK /\ channel \in Seq(Message)
    /\ ThreadsOK(conn) /\ ChannelOK(channel, conn)
    /\ EstablishedIsBacked /\ WebsocketIsLive

-----------------------------------------------------------------------------
(* Dialling *)

\* A finite set as a sequence has its elements.
LEMMA SequenceOfSet ==
    ASSUME NEW S, IsFiniteSet(S)
    PROVE  /\ SetToSeq(S) \in [1 .. Cardinality(S) -> S] /\ Cardinality(S) \in Nat
           /\ Len(SetToSeq(S)) = Cardinality(S)
<1>1. Cardinality(S) \in Nat /\ ExistsBijection(1 .. Cardinality(S), S)
  BY FS_CardinalityType
<1>2. \E f \in [1 .. Cardinality(S) -> S] : IsInjective(f)
  BY <1>1 DEF ExistsBijection, Bijection, Injection
<1>3. SetToSeq(S) \in [1 .. Cardinality(S) -> S]
  BY <1>2 DEF SetToSeq
<1> QED BY <1>1, <1>3

\* What dialling makes of the threads: free ones are dialled, the others stay.
Dials(threads, new) ==
    \A c \in Conn : \/ new[c] = threads[c]
                    \/ /\ threads[c].phase = "free" /\ new[c].phase = "dialled"
                       /\ new[c].state = "WaitingConnectMess"

LEMMA DialledThreads ==
    ASSUME WS2PAssumption, NEW threads, ThreadsOK(threads),
           NEW dialled \in SUBSET Endpoint
    PROVE  LET new == connect_to_without_checking_quotas(threads, dialled)
           IN  ThreadsOK(new) /\ Dials(threads, new)
<1> DEFINE used == Cardinality({c \in Conn : threads[c].phase # "free"})
           order == SetToSeq(dialled)
           new == connect_to_without_checking_quotas(threads, dialled)
<1>1. MaxConns \in Nat /\ IsFiniteSet(dialled)
  BY FS_Subset DEF WS2PAssumption
<1>2. /\ order \in [1 .. Len(order) -> Endpoint] /\ Len(order) \in Nat
  BY <1>1, SequenceOfSet
<1>3. used \in 0 .. MaxConns /\ \A c \in Conn : threads[c].phase # "free" <=> c <= used
  <2>1. PICK k \in 0 .. MaxConns : \A c \in Conn : threads[c].phase # "free" <=> c <= k
    BY DEF ThreadsOK, Used
  <2>2. {c \in Conn : threads[c].phase # "free"} = 1 .. k
    BY <2>1, <1>1 DEF Conn
  <2>3. Cardinality(1 .. k) = k
    BY FS_Interval, <1>1
  <2> QED BY <2>1, <2>2, <2>3
<1> HIDE DEF used, order
<1>4. new = [c \in Conn |-> IF c - used \in 1 .. Len(order)
                            THEN [FreeThread EXCEPT !.ep = order[c - used], !.phase = "dialled"]
                            ELSE threads[c]]
  BY DEF connect_to_without_checking_quotas, used, order
<1>5. ASSUME NEW c \in Conn, c - used \in 1 .. Len(order)
      PROVE  /\ new[c] \in ThreadRecord /\ new[c].phase = "dialled" /\ new[c].ep \in Endpoint
             /\ new[c].state = "WaitingConnectMess" /\ threads[c].phase = "free"
  <2>1. order[c - used] \in Endpoint
    BY <1>2, <1>5
  <2>2. threads[c].phase = "free"
    BY <1>3, <1>5 DEF Conn
  <2>3. new[c] = [ep |-> order[c - used], phase |-> "dialled", state |-> "WaitingConnectMess",
                  timers |-> {}]
    BY <1>4, <1>5 DEF FreeThread
  <2> HIDE DEF new
  <2> QED BY <2>1, <2>2, <2>3 DEF ThreadRecord, ThreadState, EndpointOrNone
<1>6. ASSUME NEW c \in Conn, c - used \notin 1 .. Len(order)
      PROVE  new[c] = threads[c]
  BY <1>4, <1>6
<1>7. DOMAIN new = Conn /\ new = [c \in Conn |-> new[c]]
  BY <1>4
<1> HIDE DEF new
<1>8. Dials(threads, new)
  BY <1>5, <1>6 DEF Dials
<1>9. new \in [Conn -> ThreadRecord]
  BY <1>5, <1>6, <1>7 DEF ThreadsOK
<1>10. Used(new)
  <2>1. CASE used + Len(order) <= MaxConns
    <3>1. \A c \in Conn : new[c].phase # "free" <=> c <= used + Len(order)
      BY <1>1, <1>2, <1>3, <1>5, <1>6 DEF Conn
    <3> QED BY <3>1, <2>1, <1>1, <1>2, <1>3 DEF Used
  <2>2. CASE used + Len(order) > MaxConns
    <3>1. \A c \in Conn : new[c].phase # "free" <=> c <= MaxConns
      BY <1>1, <1>2, <1>3, <1>5, <1>6, <2>2 DEF Conn
    <3> QED BY <3>1, <1>1 DEF Used
  <2> QED BY <2>1, <2>2, <1>1, <1>2, <1>3
<1>11. ThreadsOK(new)
  BY <1>5, <1>6, <1>9, <1>10 DEF ThreadsOK, Unopened
<1> QED BY <1>8, <1>11 DEF new

-----------------------------------------------------------------------------
(* The channel *)

\* The threads go on: none is closed or opened, and each keeps its endpoint and state.
Continues(new) ==
    \A c \in Conn :
        \/ /\ conn[c].phase = "free" /\ new[c].phase \in Unopened
           /\ new[c].state = "WaitingConnectMess"
        \/ /\ conn[c].phase # "free" /\ new[c].ep = conn[c].ep /\ new[c].state = conn[c].state
           /\ new[c].phase = "closed" <=> conn[c].phase = "closed"
           /\ new[c].phase \in Unopened <=> conn[c].phase \in Unopened

\* What a sequence of messages holds.
LEMMA Elements ==
    ASSUME NEW msgs \in Seq(Message)
    PROVE  \A i \in 1 .. Len(msgs) :
              msgs[i] \in Message /\ msgs[i].conn \in Conn /\ msgs[i].from \in Endpoint
<1>1. \A i \in 1 .. Len(msgs) : msgs[i] \in Message
  OBVIOUS
<1> QED BY <1>1 DEF Message

\* What is behind the head of the channel stays true while the threads go on, and
\* a thread whose Close is not the head is still to be over.
LEMMA ChannelContinues ==
    ASSUME IInv, NEW new, Continues(new), NEW msgs \in {channel, Tail(channel)},
           msgs = channel \/ channel # <<>>
    PROVE  /\ msgs \in Seq(Message) /\ ChannelOK(msgs, new)
           /\ \A c \in Conn :
                 conn[c].phase \notin Unopened /\ NotOver(c)
                    /\ (msgs = channel \/ ~CloseOf(Head(channel), c)) =>
                 new[c].phase # "closed" \/ \E i \in 1 .. Len(msgs) : CloseOf(msgs[i], c)
<1>1. channel \in Seq(Message) /\ ChannelOK(channel, conn)
  BY DEF IInv
<1>2. PICK k \in {0, 1} :
        /\ msgs \in Seq(Message) /\ Len(msgs) = Len(channel) - k
        /\ \A i \in 1 .. Len(msgs) : msgs[i] = channel[i + k] /\ i + k \in 1 .. Len(channel)
        /\ k = 0 <=> msgs = channel
  <2>1. CASE msgs = channel
    BY <1>1, <2>1
  <2>2. CASE msgs # channel
    <3>1. channel # <<>> /\ msgs = Tail(channel)
      BY <2>2
    <3> QED BY <1>1, <2>2, <3>1
  <2> QED BY <2>1, <2>2
<1>3. \A i \in 1 .. Len(channel) :
        channel[i] \in Message /\ MsgOK(channel[i], conn) /\ MsgOK(channel[i], new)
          /\ (new[channel[i].conn].phase = "closed" <=> conn[channel[i].conn].phase = "closed")
  BY <1>1, Elements DEF ChannelOK, MsgOK, Continues, Unopened
<1>4. CloseFollows(msgs, new)
  <2> SUFFICES ASSUME NEW i \in 1 .. Len(msgs),
                      msgs[i].payload # "Close", new[msgs[i].conn].phase = "closed"
               PROVE  \E j \in i + 1 .. Len(msgs) : CloseOf(msgs[j], msgs[i].conn)
    <3>1. \A i \in 1 .. Len(msgs) : msgs[i].payload = "Close" => new[msgs[i].conn].phase = "closed"
      BY <1>1, <1>2, <1>3 DEF ChannelOK, CloseFollows
    <3> QED BY <3>1 DEF CloseFollows
  <2>1. PICK j \in i + k + 1 .. Len(channel) : CloseOf(channel[j], channel[i + k].conn)
    BY <1>1, <1>2, <1>3 DEF ChannelOK, CloseFollows
  <2>2. j - k \in i + 1 .. Len(msgs) /\ msgs[j - k] = channel[j] /\ msgs[i] = channel[i + k]
    BY <1>1, <1>2, <2>1
  <2> QED BY <2>1, <2>2
<1>5. ASSUME NEW c \in Conn, conn[c].phase \notin Unopened, NotOver(c),
             msgs = channel \/ ~CloseOf(Head(channel), c), new[c].phase = "closed"
      PROVE  \E i \in 1 .. Len(msgs) : CloseOf(msgs[i], c)
  <2>1. PICK i \in 1 .. Len(channel) : CloseOf(channel[i], c)
    BY <1>5 DEF NotOver, Continues, CloseOf, Unopened
  <2>2. i - k \in 1 .. Len(msgs)
    BY <1>1, <1>2, <1>5, <2>1
  <2>3. msgs[i - k] = channel[i]
    BY <1>2, <2>2
  <2> QED BY <2>1, <2>2, <2>3
<1> QED BY <1>2, <1>3, <1>4, <1>5 DEF ChannelOK

\* A thread sends its message.
LEMMA ThreadTells ==
    ASSUME WS2PAssumption, IInv, NEW c \in Conn, NEW thread \in ThreadRecord, NEW m \in Message,
           Tell(c, thread, m), node' = node,
           conn[c].phase \in {"dialled", "open", "closing"},
           thread.ep = conn[c].ep, thread.phase \notin Unopened,
           conn[c].state = "Established" => thread.state = "Established",
           m.conn = c, MsgOK(m, [conn EXCEPT ![c] = thread]),
           thread.phase = "closed" <=> m.payload = "Close"
    PROVE  IInv'
<1> DEFINE new == [conn EXCEPT ![c] = thread]
<1>1. /\ channel' = Append(channel, m) /\ conn' = new
      /\ UNCHANGED <<endpoints, websockets, awaiting, next_receiver, node>>
  BY DEF Tell, Send, requests
<1>2. /\ channel \in Seq(Message) /\ ChannelOK(channel, conn) /\ ThreadsOK(conn) /\ TypeOK
      /\ EstablishedIsBacked /\ WebsocketIsLive
  BY DEF IInv
<1>3. /\ new \in [Conn -> ThreadRecord] /\ new[c] = thread
      /\ \A d \in Conn : d # c => new[d] = conn[d]
  BY <1>2 DEF ThreadsOK
<1> HIDE DEF new
<1>4. ThreadsOK(new)
  <2>1. Used(new)
    BY <1>2, <1>3 DEF ThreadsOK, Used, Unopened
  <2> QED BY <1>2, <1>3, <2>1 DEF ThreadsOK, Unopened
<1>5. /\ channel' \in Seq(Message) /\ Len(channel') = Len(channel) + 1
      /\ channel'[Len(channel) + 1] = m
      /\ \A i \in 1 .. Len(channel) : channel'[i] = channel[i]
  BY <1>1, <1>2
<1>6. \A i \in 1 .. Len(channel') : MsgOK(channel'[i], new)
  <2>1. \A i \in 1 .. Len(channel) : MsgOK(channel[i], conn) /\ channel[i].conn \in Conn
    BY <1>2, Elements DEF ChannelOK
  <2>2. \A i \in 1 .. Len(channel) : MsgOK(channel[i], new)
    BY <1>3, <2>1 DEF MsgOK
  <2>3. MsgOK(m, new)
    BY DEF new
  <2>4. \A i \in 1 .. Len(channel') : i \in 1 .. Len(channel) \/ i = Len(channel) + 1
    BY <1>2, <1>5
  <2> QED BY <1>5, <2>2, <2>3, <2>4
<1>7. CloseFollows(channel', new)
  <2> SUFFICES ASSUME NEW i \in 1 .. Len(channel') 
               PROVE  \/ new[channel'[i].conn].phase # "closed" /\ channel'[i].payload # "Close"
                      \/ new[channel'[i].conn].phase = "closed" /\
                           (channel'[i].payload = "Close"
                              \/ \E j \in i + 1 .. Len(channel') : CloseOf(channel'[j], channel'[i].conn))
    BY DEF CloseFollows
  <2>1. CASE i = Len(channel) + 1
    BY <1>3, <1>5, <2>1
  <2>2. CASE i \in 1 .. Len(channel) /\ channel[i].conn = c
    <3>1. channel[i].payload # "Close"
      BY <1>2, <2>2 DEF ChannelOK, CloseFollows
    <3>2. Len(channel) + 1 \in i + 1 .. Len(channel')
      BY <1>5, <1>2, <2>2
    <3> QED BY <1>3, <1>5, <2>2, <3>1, <3>2 DEF CloseOf
  <2>3. CASE i \in 1 .. Len(channel) /\ channel[i].conn # c
    <3>1. \A j \in i + 1 .. Len(channel) : j \in i + 1 .. Len(channel') /\ channel'[j] = channel[j]
      BY <1>2, <1>5, <2>3
    <3>2. channel[i].conn \in Conn
      BY <1>2, <2>3, Elements
    <3> QED BY <1>2, <1>3, <1>5, <2>3, <3>1, <3>2 DEF ChannelOK, CloseFollows
  <2> QED BY <1>2, <1>5, <2>1, <2>2, <2>3
<1>8. \A d \in Conn : NotOver(d) => NotOver(d)'
  <2> SUFFICES ASSUME NEW d \in Conn, NotOver(d), new[d].phase = "closed"
               PROVE  \E i \in 1 .. Len(channel') : CloseOf(channel'[i], d)
    BY <1>1 DEF NotOver, CloseOf
  <2>1. CASE d = c
    BY <1>2, <1>3, <1>5, <2>1 DEF CloseOf
  <2>2. CASE d # c
    BY <1>2, <1>3, <1>5, <2>2 DEF CloseOf, NotOver
  <2> QED BY <2>1, <2>2
<1>9. EstablishedIsBacked'
  <2> SUFFICES ASSUME NEW e \in Endpoint, endpoints[e] = "Established"
               PROVE  \E d \in Conn : new[d].ep = e /\ new[d].state = "Established" /\ NotOver(d)'
    BY <1>1 DEF EstablishedIsBacked, Established
  <2>1. PICK d \in Conn : conn[d].ep = e /\ conn[d].state = "Established" /\ NotOver(d)
    BY <1>2 DEF EstablishedIsBacked, Established
  <2> QED BY <1>3, <1>8, <2>1
<1>10. WebsocketIsLive'
  <2> SUFFICES ASSUME NEW e \in Endpoint, websockets[e] # NoConn
               PROVE  \E d \in Conn : websockets[e] = d
                         /\ new[d].ep = e /\ new[d].phase \notin Unopened /\ NotOver(d)'
    BY <1>1 DEF WebsocketIsLive, NotOver, Unopened
  <2>1. PICK d \in Conn : websockets[e] = d
    BY <1>2 DEF TypeOK
  <2>2. conn[d].ep = e /\ conn[d].phase \notin Unopened /\ NotOver(d)
    BY <1>2, <2>1 DEF WebsocketIsLive, NotOver, Unopened
  <2> QED BY <1>3, <1>8, <2>1, <2>2
<1>11. TypeOK'
  <2>1. conn' \in [Conn -> ThreadRecord]
    BY <1>1, <1>3
  <2>2. \A i \in 1 .. Len(channel') : channel'[i].conn \in Conn /\ channel'[i].from \in Endpoint
    BY <1>5, Elements
  <2> QED BY <1>1, <1>2, <2>1, <2>2 DEF TypeOK, ThreadRecord
<1> QED BY <1>1, <1>4, <1>5, <1>6, <1>7, <1>9, <1>10, <1>11 DEF IInv, ChannelOK

\* The main thread takes the head of the channel. An endpoint becomes Established,
\* or gets a websocket, by a message that is not a Close, so the thread it stands
\* for is still to be over; the Close of a thread takes both away.
LEMMA MainTakes ==
    ASSUME IInv, TypeOK', NEW m, channel # <<>>, m = Head(channel), channel' = Tail(channel),
           ThreadsOK(conn'), Continues(conn'),
           \A e \in Endpoint : endpoints'[e] = "Established" =>
              \/ endpoints[e] = "Established" /\ ~(m.from = e /\ m.payload = "Close")
              \/ m.from = e /\ m.payload \in {"ValidAckMessage", "ValidOk"} /\ m.info = "Established",
           \A e \in Endpoint : websockets'[e] # NoConn =>
              \/ websockets'[e] = websockets[e] /\ ~(m.from = e /\ m.payload = "Close")
              \/ m.from = e /\ m.payload = "WebsocketOk" /\ websockets'[e] = m.conn
    PROVE  IInv'
<1>1. /\ channel \in Seq(Message) /\ ChannelOK(channel, conn) /\ ThreadsOK(conn) /\ TypeOK
      /\ EstablishedIsBacked /\ WebsocketIsLive
  BY DEF IInv
<1>2. /\ channel' \in Seq(Message) /\ ChannelOK(channel', conn')
      /\ \A c \in Conn : conn[c].phase \notin Unopened /\ NotOver(c) /\ ~CloseOf(m, c) => NotOver(c)'
  <2>1. \A c \in Conn : conn[c].phase \notin Unopened /\ NotOver(c) /\ ~CloseOf(m, c) =>
             conn'[c].phase # "closed" \/ \E i \in 1 .. Len(channel') : CloseOf(channel'[i], c)
    BY ChannelContinues
  <2>2. channel' \in Seq(Message) /\ ChannelOK(channel', conn')
    BY ChannelContinues
  <2> QED BY <2>1, <2>2 DEF NotOver, CloseOf
<1>3. /\ 1 \in 1 .. Len(channel) /\ m = channel[1] /\ MsgOK(m, conn)
      /\ m.conn \in Conn /\ m.from \in Endpoint
  <2>1. 1 \in 1 .. Len(channel) /\ m = channel[1]
    BY <1>1
  <2> QED BY <1>1, <2>1, Elements DEF ChannelOK
<1>4. m.payload # "Close" => NotOver(m.conn)
  <2> SUFFICES ASSUME m.payload # "Close", conn[m.conn].phase = "closed"
               PROVE  \E i \in 1 .. Len(channel) : CloseOf(channel[i], m.conn)
    BY DEF NotOver, CloseOf
  <2>1. \E j \in 1 + 1 .. Len(channel) : CloseOf(channel[j], channel[1].conn)
    BY <1>1, <1>3 DEF ChannelOK, CloseFollows
  <2> QED BY <1>1, <1>3, <2>1
<1>5. \A c \in Conn : conn[c].phase \notin Unopened =>
         conn'[c].ep = conn[c].ep /\ conn'[c].state = conn[c].state /\ conn'[c].phase \notin Unopened
  BY DEF Continues, Unopened
<1>6. \A c \in Conn : conn[c].state = "Established" => conn[c].phase \notin Unopened
  BY <1>1 DEF ThreadsOK
<1>7. EstablishedIsBacked'
  <2> SUFFICES ASSUME NEW e \in Endpoint, endpoints'[e] = "Established"
               PROVE  \E c \in Conn : conn'[c].ep = e /\ conn'[c].state = "Established" /\ NotOver(c)'
    BY DEF EstablishedIsBacked, Established
  <2>1. CASE endpoints[e] = "Established" /\ ~(m.from = e /\ m.payload = "Close")
    <3>1. PICK c \in Conn : conn[c].ep = e /\ conn[c].state = "Established" /\ NotOver(c)
      BY <1>1, <2>1 DEF EstablishedIsBacked, Established
    <3>2. ~CloseOf(m, c)
      BY <1>3, <2>1, <3>1 DEF CloseOf, MsgOK
    <3> QED BY <1>2, <1>5, <1>6, <3>1, <3>2
  <2>2. CASE /\ m.from = e /\ m.payload \in {"ValidAckMessage", "ValidOk"}
             /\ m.info = "Established"
    <3>1. PICK c \in Conn : c = m.conn
      BY <1>3
    <3>2. conn[c].ep = e /\ conn[c].state = "Established" /\ NotOver(c) /\ ~CloseOf(m, c)
      BY <1>3, <1>4, <2>2, <3>1 DEF CloseOf, MsgOK, NotOver
    <3> QED BY <1>2, <1>5, <1>6, <3>2
  <2> QED BY <2>1, <2>2
<1>8. WebsocketIsLive'
  <2> SUFFICES ASSUME NEW e \in Endpoint, websockets'[e] # NoConn
               PROVE  \E c \in Conn : websockets'[e] = c /\ conn'[c].ep = e
                                      /\ conn'[c].phase \notin Unopened /\ NotOver(c)'
    BY DEF WebsocketIsLive, NotOver, Unopened
  <2>1. CASE websockets'[e] = websockets[e] /\ ~(m.from = e /\ m.payload = "Close")
    <3>1. PICK c \in Conn : websockets[e] = c
      BY <1>1, <2>1 DEF TypeOK
    <3>2. conn[c].ep = e /\ conn[c].phase \notin Unopened /\ NotOver(c)
      BY <1>1, <2>1, <3>1 DEF WebsocketIsLive, NotOver, Unopened
    <3>3. ~CloseOf(m, c)
      BY <1>3, <2>1, <3>2 DEF CloseOf, MsgOK
    <3> QED BY <1>2, <1>5, <2>1, <3>1, <3>2, <3>3
  <2>2. CASE m.from = e /\ m.payload = "WebsocketOk" /\ websockets'[e] = m.conn
    <3>1. PICK c \in Conn : c = m.conn
      BY <1>3
    <3>2. conn[c].ep = e /\ conn[c].phase \notin Unopened /\ NotOver(c) /\ ~CloseOf(m, c)
      BY <1>3, <1>4, <2>2, <3>1 DEF CloseOf, MsgOK, NotOver
    <3> QED BY <1>2, <1>5, <2>2, <3>1, <3>2
  <2> QED BY <2>1, <2>2
<1> QED BY <1>2, <1>7, <1>8 DEF IInv

\* Threads are dialled, and the tables stay, or no endpoint becomes Established.
LEMMA MainDials ==
    ASSUME IInv, TypeOK', channel' = channel, websockets' = websockets,
           ThreadsOK(conn'), Continues(conn'),
           \A e \in Endpoint : endpoints'[e] = "Established" => endpoints[e] = "Established"
    PROVE  IInv'
<1>1. /\ channel \in Seq(Message) /\ ThreadsOK(conn) /\ TypeOK
      /\ EstablishedIsBacked /\ WebsocketIsLive
  BY DEF IInv
<1>2. /\ channel' \in Seq(Message) /\ ChannelOK(channel', conn')
      /\ \A c \in Conn : conn[c].phase \notin Unopened /\ NotOver(c) => NotOver(c)'
  <2>1. \A c \in Conn : conn[c].phase \notin Unopened /\ NotOver(c) =>
             conn'[c].phase # "closed" \/ \E i \in 1 .. Len(channel') : CloseOf(channel'[i], c)
    BY ChannelContinues
  <2>2. channel' \in Seq(Message) /\ ChannelOK(channel', conn')
    BY ChannelContinues
  <2> QED BY <2>1, <2>2 DEF NotOver, CloseOf
<1>3. \A c \in Conn : conn[c].phase \notin Unopened =>
         conn'[c].ep = conn[c].ep /\ conn'[c].state = conn[c].state /\ conn'[c].phase \notin Unopened
  BY DEF Continues, Unopened
<1>4. \A c \in Conn : conn[c].state = "Established" => conn[c].phase \notin Unopened
  BY <1>1 DEF ThreadsOK
<1>5. EstablishedIsBacked'
  <2> SUFFICES ASSUME NEW e \in Endpoint, endpoints'[e] = "Established"
               PROVE  \E c \in Conn : conn'[c].ep = e /\ conn'[c].state = "Established" /\ NotOver(c)'
    BY DEF EstablishedIsBacked, Established
  <2>1. PICK c \in Conn : conn[c].ep = e /\ conn[c].state = "Established" /\ NotOver(c)
    BY <1>1 DEF EstablishedIsBacked, Established
  <2> QED BY <1>2, <1>3, <1>4, <2>1
<1>6. WebsocketIsLive'
  <2> SUFFICES ASSUME NEW e \in Endpoint, websockets[e] # NoConn
               PROVE  \E c \in Conn : websockets[e] = c /\ conn'[c].ep = e
                                      /\ conn'[c].phase \notin Unopened /\ NotOver(c)'
    BY DEF WebsocketIsLive, NotOver, Unopened
  <2>1. PICK c \in Conn : websockets[e] = c
    BY <1>1 DEF TypeOK
  <2>2. conn[c].ep = e /\ conn[c].phase \notin Unopened /\ NotOver(c)
    BY <1>1, <2>1 DEF WebsocketIsLive, NotOver, Unopened
  <2> QED BY <1>2, <1>3, <2>1, <2>2
<1> QED BY <1>2, <1>5, <1>6 DEF IInv

-----------------------------------------------------------------------------
(* The steps of the main thread *)

\* The threads that are dialled, asked to close or left alone go on.
LEMMA ThreadsContinue ==
    ASSUME IInv
    PROVE  /\ Continues(conn)
           /\ \A new : Dials(conn, new) => Continues(new)
           /\ \A e \in Endpoint : ThreadsOK(CloseSocket(e)) /\ Continues(CloseSocket(e))
<1>1. ThreadsOK(conn)
  BY DEF IInv
<1>2. Continues(conn)
  BY <1>1 DEF Continues, ThreadsOK, Unopened
<1>3. ASSUME NEW new, Dials(conn, new)
      PROVE  Continues(new)
  BY <1>2, <1>3 DEF Dials, Continues, Unopened
<1>4. ASSUME NEW e \in Endpoint
      PROVE  ThreadsOK(CloseSocket(e)) /\ Continues(CloseSocket(e))
  <2> DEFINE new == CloseSocket(e)
  <2>1. \A c \in Conn : \/ new[c] = conn[c]
                        \/ /\ conn[c].phase = "open" /\ new[c] = [conn[c] EXCEPT !.phase = "closing"]
    BY DEF CloseSocket
  <2>2. new = [c \in Conn |-> new[c]]
    BY DEF CloseSocket
  <2> HIDE DEF new
  <2>3. \A c \in Conn : conn[c] \in ThreadRecord
    BY <1>1 DEF ThreadsOK
  <2>4. \A c \in Conn : /\ new[c] \in ThreadRecord /\ new[c].ep = conn[c].ep
                        /\ new[c].state = conn[c].state
                        /\ \/ new[c].phase = conn[c].phase
                           \/ conn[c].phase = "open" /\ new[c].phase = "closing"
    <3> SUFFICES ASSUME NEW c \in Conn, new[c] = [conn[c] EXCEPT !.phase = "closing"],
                        conn[c].phase = "open"
                 PROVE  /\ new[c] \in ThreadRecord /\ new[c].ep = conn[c].ep
                        /\ new[c].state = conn[c].state /\ new[c].phase = "closing"
      BY <2>1, <2>3
    <3>1. conn[c] \in ThreadRecord
      BY <2>3
    <3>2. new[c] = [ep |-> conn[c].ep, state |-> conn[c].state, phase |-> "closing",
                    timers |-> conn[c].timers]
      BY <3>1 DEF ThreadRecord
    <3> QED BY <3>1, <3>2 DEF ThreadRecord
  <2>5. Used(new)
    <3>1. PICK k \in 0 .. MaxConns : \A c \in Conn : conn[c].phase # "free" <=> c <= k
      BY <1>1 DEF ThreadsOK, Used
    <3>2. \A c \in Conn : new[c].phase # "free" <=> c <= k
      BY <2>4, <3>1
    <3> QED BY <3>2 DEF Used
  <2>6. new \in [Conn -> ThreadRecord]
    BY <2>2, <2>4
  <2>7. ThreadsOK(new)
    BY <1>1, <2>4, <2>5, <2>6 DEF ThreadsOK, Unopened
  <2>8. Continues(new)
    BY <1>2, <2>4 DEF Continues, Unopened
  <2> QED BY <2>7, <2>8 DEF new
<1> QED BY <1>2, <1>3, <1>4

\* The message that is taken, and what a step with it keeps of the types.
LEMMA Taken ==
    ASSUME IInv, NEW payload, NEW m, Deliver(payload, m)
    PROVE  /\ channel # <<>> /\ m = Head(channel) /\ channel' = Tail(channel)
           /\ m \in Message /\ m.conn \in Conn /\ m.from \in Endpoint
           /\ m.payload = payload /\ MsgOK(m, conn)
           /\ check_timeout_requests \subseteq awaiting
           /\ \A i \in 1 .. Len(channel') :
                 channel'[i].conn \in Conn /\ channel'[i].from \in Endpoint
<1>1. channel \in Seq(Message) /\ ChannelOK(channel, conn)
  BY DEF IInv
<1>2. channel # <<>> /\ m = Head(channel) /\ channel' = Tail(channel) /\ m.payload = payload
  BY DEF Deliver
<1>3. 1 \in 1 .. Len(channel) /\ m = channel[1] /\ channel' \in Seq(Message)
  BY <1>1, <1>2
<1>4. \A i \in 1 .. Len(channel') : channel'[i].conn \in Conn /\ channel'[i].from \in Endpoint
  BY <1>3, Elements
<1>5. m \in Message /\ m.conn \in Conn /\ m.from \in Endpoint /\ MsgOK(m, conn)
  BY <1>1, <1>3, Elements DEF ChannelOK
<1> QED BY <1>2, <1>4, <1>5 DEF check_timeout_requests

\* Every way of close_connection keeps the invariant, whatever the message.
LEMMA ConnectionCloses ==
    ASSUME WS2PAssumption, IInv, NEW payload, NEW m, Deliver(payload, m),
           NEW state \in EndpointState \ {"Established"},
           close_connection(m.from, state), awaiting' \subseteq awaiting,
           next_receiver' = next_receiver, node' = node
    PROVE  IInv'
<1>1. /\ channel # <<>> /\ m = Head(channel) /\ channel' = Tail(channel) /\ m.from \in Endpoint
      /\ \A i \in 1 .. Len(channel') : channel'[i].conn \in Conn /\ channel'[i].from \in Endpoint
  BY Taken
<1>2. TypeOK
  BY DEF IInv
<1>3. /\ endpoints' = [endpoints EXCEPT ![m.from] = state] /\ conn' = CloseSocket(m.from)
      /\ websockets' = [websockets EXCEPT ![m.from] = NoConn]
  BY DEF close_connection
<1>4. ThreadsOK(conn') /\ Continues(conn')
  BY <1>1, <1>3, ThreadsContinue
<1>5. /\ endpoints' \in [Endpoint -> EndpointState]
      /\ websockets' \in [Endpoint -> Conn \cup {NoConn}]
      /\ \A e \in Endpoint : endpoints'[e] = "Established" => endpoints[e] = "Established" /\ e # m.from
      /\ \A e \in Endpoint : websockets'[e] # NoConn => websockets'[e] = websockets[e] /\ e # m.from
  BY <1>1, <1>2, <1>3 DEF TypeOK
<1>6. TypeOK'
  <2>1. conn' \in [Conn -> ThreadRecord]
    BY <1>4 DEF ThreadsOK
  <2> QED BY <1>1, <1>2, <1>5, <2>1 DEF TypeOK, ThreadRecord
<1> QED BY <1>1, <1>4, <1>5, <1>6, MainTakes

\* Every step that leaves the threads and the websockets alone does, too.
LEMMA StateRecorded ==
    ASSUME WS2PAssumption, IInv, NEW payload, NEW m, Deliver(payload, m),
           conn' = conn, websockets' = websockets, TypeOK', payload # "Close",
           \A e \in Endpoint : endpoints'[e] = "Established" =>
              \/ endpoints[e] = "Established"
              \/ m.from = e /\ m.payload \in {"ValidAckMessage", "ValidOk"} /\ m.info = "Established"
    PROVE  IInv'
<1>1. channel # <<>> /\ m = Head(channel) /\ channel' = Tail(channel) /\ m.payload = payload
  BY Taken
<1>2. ThreadsOK(conn') /\ Continues(conn')
  BY ThreadsContinue DEF IInv
<1> QED BY <1>1, <1>2, MainTakes

\* A request that is sent, or fails to be, leaves well-typed tables.
LEMMA RequestSent ==
    ASSUME WS2PAssumption, TypeOK, NEW e \in Endpoint, NEW body \in {"GetCurrent", "GetBlocks"},
           NEW kept \in SUBSET awaiting, send_request_to_specific_node(e, body, kept)
    PROVE  /\ awaiting' \subseteq [id : 1 .. MaxRequests, to : Endpoint,
                                   body : {"GetCurrent", "GetBlocks"}, overdue : BOOLEAN]
           /\ node' \in [status : {"down", "running", "fatal"}, asked : 0 .. MaxRequests]
<1>1. CASE awaiting' = kept /\ UNCHANGED node
  BY <1>1 DEF TypeOK
<1>2. CASE /\ node.asked < MaxRequests
           /\ awaiting' = kept \cup {[id |-> node.asked + 1, to |-> e, body |-> body,
                                      overdue |-> FALSE]}
           /\ node' = [node EXCEPT !.asked = @ + 1]
  <2>1. /\ node = [status |-> node.status, asked |-> node.asked] /\ node.asked \in 0 .. MaxRequests
        /\ node.status \in {"down", "running", "fatal"}
    BY DEF TypeOK
  <2>2. node.asked + 1 \in 1 .. MaxRequests
    BY <1>2, <2>1 DEF WS2PAssumption
  <2>3. node' = [status |-> node.status, asked |-> node.asked + 1]
    BY <1>2, <2>1
  <2>4. [id |-> node.asked + 1, to |-> e, body |-> body, overdue |-> FALSE]
          \in [id : 1 .. MaxRequests, to : Endpoint,
               body : {"GetCurrent", "GetBlocks"}, overdue : BOOLEAN]
    BY <2>2
  <2>5. node.asked + 1 \in 0 .. MaxRequests
    BY <2>2
  <2>6. node' \in [status : {"down", "running", "fatal"}, asked : 0 .. MaxRequests]
    BY <2>1, <2>3, <2>5
  <2>7. kept \subseteq [id : 1 .. MaxRequests, to : Endpoint,
                        body : {"GetCurrent", "GetBlocks"}, overdue : BOOLEAN]
    BY DEF TypeOK
  <2> QED BY <1>2, <2>4, <2>6, <2>7
<1> QED BY <1>1, <1>2 DEF send_request_to_specific_node

LEMMA MainThreadStep ==
    ASSUME WS2PAssumption, IInv, MainThread
    PROVE  IInv'
<1> USE DEF EndpointState, Negotiation
<1>1. TypeOK /\ ThreadsOK(conn)
  BY DEF IInv
<1>2. PICK m :
        \/ DeliverWebsocketOk(m) \/ DeliverConnect(m) \/ DeliverAck(m) \/ DeliverOk(m)
        \/ DeliverNegociationTimeout(m) \/ DeliverTimeout(m) \/ DeliverClose(m)
        \/ DeliverPeerCard(m) \/ DeliverReqResponse(m) \/ DeliverOther(m)
  BY DEF MainThread
<1>3. CASE DeliverWebsocketOk(m)
  <2>1. Deliver("WebsocketOk", m)
    BY <1>3 DEF DeliverWebsocketOk
  <2>2. /\ channel # <<>> /\ m = Head(channel) /\ channel' = Tail(channel)
        /\ m.conn \in Conn /\ m.from \in Endpoint /\ m.payload = "WebsocketOk"
        /\ check_timeout_requests \subseteq awaiting
        /\ \A i \in 1 .. Len(channel') : channel'[i].conn \in Conn /\ channel'[i].from \in Endpoint
    BY <2>1, Taken
  <2>3. /\ websockets' = [websockets EXCEPT ![m.from] = m.conn]
        /\ awaiting' = check_timeout_requests /\ UNCHANGED <<endpoints, conn, next_receiver, node>>
    BY <1>3 DEF DeliverWebsocketOk
  <2>4. TypeOK'
    BY <1>1, <2>2, <2>3 DEF TypeOK
  <2>5. ThreadsOK(conn') /\ Continues(conn')
    BY <1>1, <2>3, ThreadsContinue
  <2>6. \A e \in Endpoint : websockets'[e] # NoConn =>
           \/ websockets'[e] = websockets[e] /\ ~(m.from = e /\ m.payload = "Close")
           \/ m.from = e /\ m.payload = "WebsocketOk" /\ websockets'[e] = m.conn
    BY <1>1, <2>2, <2>3 DEF TypeOK
  <2> QED BY <2>2, <2>3, <2>4, <2>5, <2>6, MainTakes
<1>4. CASE DeliverConnect(m)
  <2>1. Deliver("ValidConnectMessage", m) /\ awaiting' = check_timeout_requests
        /\ UNCHANGED <<next_receiver, node>>
    BY <1>4 DEF DeliverConnect
  <2>2. /\ m.from \in Endpoint /\ m.info = "ConnectMessOk" /\ m.payload = "ValidConnectMessage"
        /\ check_timeout_requests \subseteq awaiting
        /\ \A i \in 1 .. Len(channel') : channel'[i].conn \in Conn /\ channel'[i].from \in Endpoint
    BY <2>1, Taken DEF MsgOK
  <2>3. PICK state \in {"Close", "ConnectMessOk"} :
          \/ close_connection(m.from, "Close")
          \/ /\ endpoints' = [endpoints EXCEPT ![m.from] = state]
             /\ UNCHANGED <<websockets, conn>>
    BY <1>4, <2>2 DEF DeliverConnect, RecordOrFail, WSError
  <2>4. CASE close_connection(m.from, "Close")
    BY <2>1, <2>2, <2>4, ConnectionCloses
  <2>5. CASE /\ endpoints' = [endpoints EXCEPT ![m.from] = state]
             /\ UNCHANGED <<websockets, conn>>
    <3>1. TypeOK' /\ \A e \in Endpoint : endpoints'[e] = "Established" => endpoints[e] = "Established"
      BY <1>1, <2>1, <2>2, <2>5 DEF TypeOK
    <3> QED BY <2>1, <2>5, <3>1, StateRecorded
  <2> QED BY <2>3, <2>4, <2>5
<1>5. CASE DeliverAck(m)
  <2>1. Deliver("ValidAckMessage", m) /\ awaiting' = check_timeout_requests
        /\ UNCHANGED next_receiver
    BY <1>5 DEF DeliverAck
  <2>2. /\ m.from \in Endpoint /\ m.info \in {"AckMessOk", "Established"}
        /\ m.payload = "ValidAckMessage" /\ check_timeout_requests \subseteq awaiting
        /\ \A i \in 1 .. Len(channel') : channel'[i].conn \in Conn /\ channel'[i].from \in Endpoint
    BY <2>1, Taken DEF MsgOK
  <2>3. PICK reply : /\ RecordOrFail(m.from, m.info, reply)
                     /\ node' = IF reply = "nowhere" THEN [node EXCEPT !.status = "fatal"] ELSE node
    BY <1>5 DEF DeliverAck
  <2>4. CASE reply = "failed"
    <3>1. close_connection(m.from, "Close") /\ node' = node
      BY <2>3, <2>4 DEF RecordOrFail, WSError
    <3> QED BY <2>1, <2>2, <3>1, ConnectionCloses
  <2>5. CASE reply # "failed"
    <3>1. /\ endpoints' = [endpoints EXCEPT ![m.from] = m.info]
          /\ UNCHANGED <<websockets, conn>>
      BY <2>3, <2>5 DEF RecordOrFail
    <3>2. node' \in [status : {"down", "running", "fatal"}, asked : 0 .. MaxRequests]
      BY <1>1, <2>3 DEF TypeOK
    <3>3. TypeOK'
      BY <1>1, <2>1, <2>2, <3>1, <3>2 DEF TypeOK
    <3>4. \A e \in Endpoint : endpoints'[e] = "Established" =>
              endpoints[e] = "Established" \/ (m.from = e /\ m.info = "Established")
      BY <1>1, <2>2, <3>1 DEF TypeOK
    <3> QED BY <2>1, <2>2, <3>1, <3>3, <3>4, StateRecorded
  <2> QED BY <2>4, <2>5
<1>6. CASE DeliverOk(m)
  <2>1. Deliver("ValidOk", m) /\ UNCHANGED <<websockets, conn, next_receiver>>
        /\ endpoints' = [endpoints EXCEPT ![m.from] = m.info]
    BY <1>6 DEF DeliverOk
  <2>2. /\ m.from \in Endpoint /\ m.info \in {"OkMessOkWaitingAckMess", "Established"}
        /\ m.payload = "ValidOk" /\ check_timeout_requests \subseteq awaiting
        /\ \A i \in 1 .. Len(channel') : channel'[i].conn \in Conn /\ channel'[i].from \in Endpoint
    BY <2>1, Taken DEF MsgOK
  <2>3. /\ awaiting' \subseteq [id : 1 .. MaxRequests, to : Endpoint,
                                body : {"GetCurrent", "GetBlocks"}, overdue : BOOLEAN]
        /\ node' \in [status : {"down", "running", "fatal"}, asked : 0 .. MaxRequests]
    <3>1. CASE send_request_to_specific_node(m.from, "GetCurrent", check_timeout_requests)
      BY <1>1, <2>2, <3>1, RequestSent DEF TypeOK
    <3>2. CASE awaiting' = check_timeout_requests /\ UNCHANGED node
      BY <1>1, <2>2, <3>2 DEF TypeOK
    <3> QED BY <1>6, <3>1, <3>2 DEF DeliverOk
  <2>4. TypeOK'
    BY <1>1, <2>1, <2>2, <2>3 DEF TypeOK
  <2>5. \A e \in Endpoint : endpoints'[e] = "Established" =>
            endpoints[e] = "Established" \/ (m.from = e /\ m.info = "Established")
    BY <1>1, <2>1, <2>2 DEF TypeOK
  <2> QED BY <2>1, <2>2, <2>4, <2>5, StateRecorded
<1>7. CASE DeliverNegociationTimeout(m)
  <2>1. /\ Deliver("NegociationTimeout", m) /\ UNCHANGED <<next_receiver, node>>
        /\ close_connection(m.from, StateAfterTimeout(endpoints[m.from]))
        /\ awaiting' = check_timeout_requests
    BY <1>7 DEF DeliverNegociationTimeout
  <2>2. StateAfterTimeout(endpoints[m.from]) \in EndpointState \ {"Established"}
    BY DEF StateAfterTimeout
  <2> QED BY <2>1, <2>2, Taken, ConnectionCloses
<1>8. CASE DeliverTimeout(m)
  BY <1>8, Taken, ConnectionCloses DEF DeliverTimeout
<1>9. CASE DeliverClose(m)
  BY <1>9, Taken, ConnectionCloses DEF DeliverClose
<1>10. CASE DeliverPeerCard(m)
  <2>1. PICK unknown, dialled \in SUBSET Endpoint :
          /\ Deliver("PeerCard", m) /\ awaiting' = check_timeout_requests
          /\ endpoints' = [e \in Endpoint |-> IF e \in unknown THEN "NeverTry" ELSE endpoints[e]]
          /\ conn' = IF HasThreads(conn, dialled)
                     THEN connect_to_without_checking_quotas(conn, dialled) ELSE conn
          /\ UNCHANGED <<websockets, next_receiver, node>>
    <3> DEFINE unknown == {e \in Endpoint \ NeedsSsl : Issuer[e] = m.info /\ endpoints[e] = "Absent"}
               dialled == IF OutcomingQuota > Cardinality(Established(endpoints)) THEN unknown ELSE {}
    <3>1. dialled \in SUBSET Endpoint
      OBVIOUS
    <3> QED BY <1>10, <3>1 DEF DeliverPeerCard
  <2>2. /\ channel # <<>> /\ m = Head(channel) /\ channel' = Tail(channel)
        /\ m.payload = "PeerCard" /\ check_timeout_requests \subseteq awaiting
        /\ \A i \in 1 .. Len(channel') : channel'[i].conn \in Conn /\ channel'[i].from \in Endpoint
    BY <2>1, Taken
  <2>3. ThreadsOK(conn') /\ Continues(conn')
    BY <1>1, <2>1, DialledThreads, ThreadsContinue
  <2>4. TypeOK'
    <3>1. conn' \in [Conn -> ThreadRecord]
      BY <2>3 DEF ThreadsOK
    <3> QED BY <1>1, <2>1, <2>2, <3>1 DEF TypeOK, ThreadRecord
  <2>5. \A e \in Endpoint : endpoints'[e] = "Established" => endpoints[e] = "Established"
    BY <2>1
  <2> QED BY <2>1, <2>2, <2>3, <2>4, <2>5, MainTakes
<1>11. CASE DeliverReqResponse(m)
  <2>1. /\ Deliver("ReqResponse", m) /\ awaiting' \subseteq check_timeout_requests
        /\ UNCHANGED <<endpoints, websockets, conn, next_receiver, node>>
    BY <1>11 DEF DeliverReqResponse
  <2>2. TypeOK'
    BY <1>1, <2>1, Taken DEF TypeOK
  <2> QED BY <2>1, <2>2, StateRecorded
<1>12. CASE DeliverOther(m)
  <2>1. /\ Deliver("Other", m) /\ awaiting' = check_timeout_requests
        /\ UNCHANGED <<endpoints, websockets, conn, next_receiver, node>>
    BY <1>12 DEF DeliverOther
  <2>2. TypeOK'
    BY <1>1, <2>1, Taken DEF TypeOK
  <2> QED BY <2>1, <2>2, StateRecorded
<1> QED BY <1>2, <1>3, <1>4, <1>5, <1>6, <1>7, <1>8, <1>9, <1>10, <1>11, <1>12

-----------------------------------------------------------------------------
(* The steps of a connection thread *)

\* What a thread that listens, or is dialled, is.
LEMMA ThreadIs ==
    ASSUME WS2PAssumption, IInv, NEW c \in Conn, conn[c].phase # "free"
    PROVE  /\ conn[c] \in ThreadRecord /\ conn[c].ep \in Endpoint
           /\ conn[c].phase \in Unopened => conn[c].state = "WaitingConnectMess"
           /\ \A payload \in Payload, info \in Info : Msg(c, payload, info) \in Message
<1>1. conn[c] \in ThreadRecord /\ conn[c].ep \in Endpoint
  BY DEF IInv, ThreadsOK
<1>2. conn[c].phase \in Unopened => conn[c].state = "WaitingConnectMess"
  BY DEF IInv, ThreadsOK
<1> QED BY <1>1, <1>2 DEF Msg, Message

\* A thread that tells nothing new of its negotiation.
LEMMA PlainlyTells ==
    ASSUME WS2PAssumption, IInv, NEW c \in Conn, conn[c].phase \in {"dialled", "open", "closing"},
           NEW phase \in {"open", "closing", "closed"}, NEW timers \in SUBSET {"CONNECT", "EXPIRE"},
           NEW payload \in Payload \ {"ValidConnectMessage", "ValidAckMessage", "ValidOk"},
           NEW info \in Info, NEW thread,
           thread = [conn[c] EXCEPT !.phase = phase, !.timers = timers],
           phase = "closed" <=> payload = "Close",
           Tell(c, thread, Msg(c, payload, info)), node' = node
    PROVE  IInv'
<1>1. /\ conn[c] \in ThreadRecord /\ conn[c].ep \in Endpoint /\ Msg(c, payload, info) \in Message
  BY ThreadIs
<1>2. thread = [ep |-> conn[c].ep, state |-> conn[c].state, phase |-> phase, timers |-> timers]
  BY <1>1 DEF ThreadRecord
<1>3. thread \in ThreadRecord /\ thread.phase \notin Unopened
  BY <1>1, <1>2 DEF ThreadRecord, Unopened
<1>4. conn \in [Conn -> ThreadRecord]
  BY DEF IInv, ThreadsOK
<1>5. MsgOK(Msg(c, payload, info), [conn EXCEPT ![c] = thread])
  BY <1>2, <1>3, <1>4 DEF MsgOK, Msg
<1>6. Msg(c, payload, info).conn = c /\ Msg(c, payload, info).payload = payload
  BY DEF Msg
<1> QED BY <1>1, <1>2, <1>3, <1>5, <1>6, ThreadTells

LEMMA ThreadStep ==
    ASSUME WS2PAssumption, IInv, NEW c \in Conn, Thread(c)
    PROVE  IInv'
<1>1. TypeOK /\ ThreadsOK(conn) /\ conn \in [Conn -> ThreadRecord]
  BY DEF IInv, ThreadsOK
<1>2. CASE Open(c)
  BY <1>2, PlainlyTells DEF Open, Payload, Info
<1>3. CASE DialFails(c)
  <2>1. /\ conn' = [conn EXCEPT ![c].phase = "closed"] /\ conn[c].phase = "dialled"
        /\ UNCHANGED <<endpoints, websockets, channel, awaiting, next_receiver, node>>
    BY <1>3 DEF DialFails, requests
  <2>2. /\ conn[c] \in ThreadRecord /\ conn[c].ep \in Endpoint
        /\ conn[c].state = "WaitingConnectMess"
    BY <2>1, ThreadIs DEF Unopened
  <2>3. /\ conn'[c] = [ep |-> conn[c].ep, state |-> "WaitingConnectMess", phase |-> "closed",
                       timers |-> conn[c].timers]
        /\ \A d \in Conn : d # c => conn'[d] = conn[d]
        /\ conn' = [d \in Conn |-> conn'[d]]
    BY <1>1, <2>1, <2>2 DEF ThreadRecord
  <2>4. conn'[c] \in ThreadRecord
    BY <2>2, <2>3 DEF ThreadRecord
  <2>5. conn' \in [Conn -> ThreadRecord]
    BY <1>1, <2>3, <2>4
  <2>6. ThreadsOK(conn')
    <3>1. PICK k \in 0 .. MaxConns : \A d \in Conn : conn[d].phase # "free" <=> d <= k
      BY <1>1 DEF ThreadsOK, Used
    <3>2. \A d \in Conn : conn'[d].phase # "free" <=> d <= k
      BY <2>1, <2>3, <3>1
    <3>3. Used(conn')
      BY <3>2 DEF Used
    <3> QED BY <1>1, <2>2, <2>3, <2>5, <3>3 DEF ThreadsOK, Unopened
  <2>7. \A i \in 1 .. Len(channel) :
           channel[i].conn \in Conn /\ MsgOK(channel[i], conn) /\ channel[i].conn # c
    BY <2>1, Elements DEF IInv, ChannelOK, MsgOK, Unopened
  <2>8. ChannelOK(channel, conn')
    BY <2>3, <2>7 DEF IInv, ChannelOK, CloseFollows, MsgOK
  <2>9. \A d \in Conn : d # c /\ NotOver(d) => NotOver(d)'
    BY <2>1, <2>3 DEF NotOver
  <2>10. EstablishedIsBacked'
    <3> SUFFICES ASSUME NEW e \in Endpoint, endpoints[e] = "Established"
                 PROVE  \E d \in Conn : conn'[d].ep = e /\ conn'[d].state = "Established" /\ NotOver(d)'
      BY <2>1 DEF EstablishedIsBacked, Established
    <3>1. PICK d \in Conn : conn[d].ep = e /\ conn[d].state = "Established" /\ NotOver(d)
      BY DEF IInv, EstablishedIsBacked, Established
    <3> QED BY <2>2, <2>3, <2>9, <3>1
  <2>11. WebsocketIsLive'
    <3> SUFFICES ASSUME NEW e \in Endpoint, websockets[e] # NoConn
                 PROVE  \E d \in Conn : websockets[e] = d /\ conn'[d].ep = e
                                        /\ conn'[d].phase \notin Unopened /\ NotOver(d)'
      BY <2>1 DEF WebsocketIsLive, NotOver, Unopened
    <3>1. PICK d \in Conn : websockets[e] = d
      BY <1>1 DEF TypeOK
    <3>2. conn[d].ep = e /\ conn[d].phase \notin Unopened /\ NotOver(d)
      BY <3>1 DEF IInv, WebsocketIsLive, NotOver, Unopened
    <3> QED BY <2>1, <2>3, <2>9, <3>1, <3>2 DEF Unopened
  <2>12. TypeOK'
    BY <1>1, <2>1, <2>5 DEF TypeOK, ThreadRecord
  <2> QED BY <2>1, <2>6, <2>8, <2>10, <2>11, <2>12 DEF IInv
<1>4. ASSUME NEW auth \in DOMAIN ValidMessage, HearAuth(c, auth)
      PROVE  IInv'
  <2> DEFINE after == AfterAuth(conn[c].state, auth)
             thread == [conn[c] EXCEPT !.state = after]
             m == Msg(c, ValidMessage[auth], after)
  <2>1. /\ conn[c].phase \in {"open", "closing"} /\ after # "Invalid"
        /\ Tell(c, thread, m) /\ node' = node
    BY <1>4 DEF HearAuth, Listening
  <2>2. auth \in {"CONNECT", "ACK", "OK"} /\ conn[c] \in ThreadRecord /\ conn[c].ep \in Endpoint
    BY <2>1, ThreadIs DEF ValidMessage
  <2>3. /\ after \in {"ConnectMessOk", "AckMessOk", "OkMessOkWaitingAckMess", "Established"}
        /\ auth = "CONNECT" => after = "ConnectMessOk"
        /\ auth = "ACK" => after \in {"AckMessOk", "Established"}
        /\ auth = "OK" => after \in {"OkMessOkWaitingAckMess", "Established"}
        /\ conn[c].state # "Established"
    BY <2>1, <2>2 DEF AfterAuth
  <2>4. thread = [ep |-> conn[c].ep, state |-> after, phase |-> conn[c].phase,
                  timers |-> conn[c].timers]
    BY <2>2 DEF ThreadRecord
  <2>5. /\ ValidMessage[auth] \in {"ValidConnectMessage", "ValidAckMessage", "ValidOk"}
        /\ ValidMessage[auth] = "ValidConnectMessage" => auth = "CONNECT"
        /\ ValidMessage[auth] = "ValidAckMessage" => auth = "ACK"
        /\ ValidMessage[auth] = "ValidOk" => auth = "OK"
    BY <2>2 DEF ValidMessage
  <2> HIDE DEF after
  <2>6. thread \in ThreadRecord /\ thread.phase \notin Unopened
    BY <2>1, <2>2, <2>3, <2>4 DEF ThreadRecord, ThreadState, Negotiation, Unopened
  <2>7. m \in Message
    BY <2>1, <2>2, <2>3, <2>5, ThreadIs DEF Payload, Info, ThreadState, Negotiation
  <2>8. /\ m.conn = c /\ m.payload = ValidMessage[auth] /\ m.from = conn[c].ep /\ m.info = after
    BY DEF Msg
  <2>9. MsgOK(m, [conn EXCEPT ![c] = thread])
    <3>1. [conn EXCEPT ![c] = thread][c] = thread
      BY <1>1
    <3>2. thread.ep = conn[c].ep /\ thread.state = after
      BY <2>4
    <3> HIDE DEF thread, m
    <3> QED BY <2>3, <2>5, <2>6, <2>8, <3>1, <3>2 DEF MsgOK
  <2>10. thread.ep = conn[c].ep /\ thread.phase # "closed" /\ m.payload # "Close"
    BY <2>1, <2>4, <2>5, <2>8
  <2> HIDE DEF thread, m
  <2> QED BY <2>1, <2>3, <2>6, <2>7, <2>8, <2>9, <2>10, ThreadTells
<1>5. CASE HearOther(c)
  <2>1. conn[c] \in ThreadRecord /\ conn[c].phase \in {"open", "closing"}
    BY <1>5, ThreadIs DEF HearOther, Listening
  <2>2. conn[c] = [conn[c] EXCEPT !.phase = conn[c].phase, !.timers = conn[c].timers]
        /\ conn[c].timers \in SUBSET {"CONNECT", "EXPIRE"}
    BY <2>1 DEF ThreadRecord
  <2> QED BY <1>5, <2>1, <2>2, PlainlyTells DEF HearOther, Payload, Info
<1>6. ASSUME NEW r \in awaiting, HearResponse(c, r)
      PROVE  IInv'
  <2>1. conn[c] \in ThreadRecord /\ conn[c].phase \in {"open", "closing"}
    BY <1>6, ThreadIs DEF HearResponse, Listening
  <2>2. conn[c] = [conn[c] EXCEPT !.phase = conn[c].phase, !.timers = conn[c].timers]
        /\ conn[c].timers \in SUBSET {"CONNECT", "EXPIRE"}
    BY <2>1 DEF ThreadRecord
  <2>3. r.id \in Info
    BY <1>1, <1>6 DEF TypeOK, Info
  <2> QED BY <1>6, <2>1, <2>2, <2>3, PlainlyTells DEF HearResponse, Payload
<1>7. ASSUME NEW key \in {Issuer[e] : e \in Endpoint}, HearPeerCard(c, key)
      PROVE  IInv'
  <2>1. conn[c] \in ThreadRecord /\ conn[c].phase \in {"open", "closing"}
    BY <1>7, ThreadIs DEF HearPeerCard, Listening
  <2>2. conn[c] = [conn[c] EXCEPT !.phase = conn[c].phase, !.timers = conn[c].timers]
        /\ conn[c].timers \in SUBSET {"CONNECT", "EXPIRE"}
    BY <2>1 DEF ThreadRecord
  <2> QED BY <1>7, <2>1, <2>2, PlainlyTells DEF HearPeerCard, Payload, Info
<1>8. CASE ConnectTimeout(c)
  <2>1. conn[c].phase \in {"open", "closing"} /\ node' = node
    BY <1>8 DEF ConnectTimeout, Listening
  <2>2. CASE conn[c].state # "Established"
    BY <1>8, <2>1, <2>2, PlainlyTells DEF ConnectTimeout, Payload, Info
  <2>3. CASE conn[c].state = "Established"
    <3>1. /\ conn' = [conn EXCEPT ![c].timers = {"EXPIRE"}]
          /\ UNCHANGED <<endpoints, websockets, channel, awaiting, next_receiver>>
      BY <1>8, <2>3 DEF ConnectTimeout, requests
    <3>2. /\ \A d \in Conn : /\ conn'[d] \in ThreadRecord /\ conn'[d].ep = conn[d].ep
                             /\ conn'[d].phase = conn[d].phase /\ conn'[d].state = conn[d].state
          /\ conn' = [d \in Conn |-> conn'[d]]
      <4>1. conn[c] \in ThreadRecord
        BY <1>1
      <4>2. conn'[c] = [ep |-> conn[c].ep, state |-> conn[c].state, phase |-> conn[c].phase,
                        timers |-> {"EXPIRE"}]
        BY <1>1, <3>1, <4>1 DEF ThreadRecord
      <4>3. conn'[c] \in ThreadRecord
        BY <4>1, <4>2 DEF ThreadRecord
      <4> QED BY <1>1, <3>1, <4>2, <4>3
    <3>3. conn' \in [Conn -> ThreadRecord]
      BY <3>2
    <3>4. ThreadsOK(conn') /\ Continues(conn')
      BY <1>1, <3>2, <3>3 DEF ThreadsOK, Used, Continues, Unopened
    <3>5. TypeOK'
      BY <1>1, <2>1, <3>1, <3>3 DEF TypeOK, ThreadRecord
    <3> QED BY <3>1, <3>4, <3>5, MainDials
  <2> QED BY <2>2, <2>3
<1>9. CASE ExpireTimeout(c)
  BY <1>9, PlainlyTells DEF ExpireTimeout, Listening, Payload, Info
<1>10. CASE OnClose(c)
  BY <1>10, PlainlyTells DEF OnClose, Listening, Payload, Info
<1> QED BY <1>2, <1>3, <1>4, <1>5, <1>6, <1>7, <1>8, <1>9, <1>10 DEF Thread, Hear

-----------------------------------------------------------------------------
(* The invariant *)

LEMMA InitIInv ==
    ASSUME WS2PAssumption, Init
    PROVE  IInv
<1>1. conn = [c \in Conn |-> FreeThread] /\ channel = <<>> /\ MaxConns \in Nat /\ MaxRequests \in Nat
  BY DEF Init, WS2PAssumption
<1>2. FreeThread \in ThreadRecord
  BY DEF FreeThread, ThreadRecord, ThreadState, EndpointOrNone
<1>3. ThreadsOK(conn)
  <2>1. conn \in [Conn -> ThreadRecord]
    BY <1>1, <1>2
  <2>2. \A c \in Conn : conn[c].phase = "free" /\ conn[c].state = "WaitingConnectMess"
    BY <1>1 DEF FreeThread
  <2>3. Used(conn)
    <3>1. 0 \in 0 .. MaxConns /\ \A c \in Conn : ~(c <= 0)
      BY <1>1 DEF Conn
    <3> QED BY <2>2, <3>1 DEF Used
  <2> QED BY <2>1, <2>2, <2>3 DEF ThreadsOK
<1>4. TypeOK
  <2>1. conn \in [Conn -> ThreadRecord]
    BY <1>1, <1>2
  <2> QED BY <1>1, <2>1 DEF Init, TypeOK, EndpointState, ThreadRecord
<1>5. channel \in Seq(Message) /\ ChannelOK(channel, conn)
  BY <1>1 DEF ChannelOK, CloseFollows
<1>6. EstablishedIsBacked /\ WebsocketIsLive
  BY DEF Init, EstablishedIsBacked, WebsocketIsLive, Established
<1> QED BY <1>3, <1>4, <1>5, <1>6 DEF IInv

\* A dialling wave: "table" is what the endpoints become.
LEMMA WaveStep ==
    ASSUME WS2PAssumption, IInv, NEW dialled \in SUBSET Endpoint,
           conn' = connect_to_without_checking_quotas(conn, dialled),
           endpoints' \in [Endpoint -> EndpointState],
           \A e \in Endpoint : endpoints'[e] = "Established" => endpoints[e] = "Established",
           node' \in [status : {"down", "running", "fatal"}, asked : 0 .. MaxRequests],
           UNCHANGED <<websockets, channel, awaiting, next_receiver>>
    PROVE  IInv'
<1>1. TypeOK /\ ThreadsOK(conn)
  BY DEF IInv
<1>2. ThreadsOK(conn') /\ Continues(conn')
  BY <1>1, DialledThreads, ThreadsContinue
<1>3. TypeOK'
  <2>1. conn' \in [Conn -> ThreadRecord]
    BY <1>2 DEF ThreadsOK
  <2> QED BY <1>1, <2>1 DEF TypeOK, ThreadRecord
<1> QED BY <1>2, <1>3, MainDials

\* A field of a record that is set.
LEMMA OverdueSet ==
    ASSUME NEW Id, NEW To, NEW Body, NEW Flag, NEW flag \in Flag,
           NEW r \in [id : Id, to : To, body : Body, overdue : Flag]
    PROVE  [r EXCEPT !.overdue = flag] \in [id : Id, to : To, body : Body, overdue : Flag]
OBVIOUS

LEMMA NextStep ==
    ASSUME WS2PAssumption, IInv, [Next]_vars
    PROVE  IInv'
<1>1. TypeOK /\ ThreadsOK(conn)
  BY DEF IInv
<1>2. CASE UNCHANGED vars
  BY <1>2 DEF vars, IInv, TypeOK, EstablishedIsBacked, Established, WebsocketIsLive, NotOver
<1>3. CASE Start
  <2>1. PICK file \in SavedTables, dialled \in SUBSET Endpoint :
          /\ endpoints' = LoadedEndpoints(file)
          /\ conn' = connect_to_without_checking_quotas(conn, dialled)
    BY <1>3 DEF Start
  <2>2. file \in [Endpoint -> EndpointState]
    BY DEF WS2PAssumption
  <2>3. /\ endpoints' \in [Endpoint -> EndpointState]
        /\ \A e \in Endpoint : endpoints'[e] # "Established"
    BY <2>1, <2>2 DEF LoadedEndpoints, EndpointState
  <2>4. /\ node' \in [status : {"down", "running", "fatal"}, asked : 0 .. MaxRequests]
        /\ UNCHANGED <<websockets, channel, awaiting, next_receiver>>
    BY <1>1, <1>3 DEF Start, TypeOK, requests
  <2> QED BY <2>1, <2>3, <2>4, WaveStep
<1>4. CASE ConnectingWave
  <2>1. PICK dialled \in Waves(endpoints) :
          conn' = connect_to_without_checking_quotas(conn, dialled)
    BY <1>4 DEF ConnectingWave
  <2>2. dialled \in SUBSET Endpoint
    BY DEF Waves
  <2>3. UNCHANGED <<endpoints, websockets, channel, awaiting, next_receiver, node>>
    BY <1>4 DEF ConnectingWave, requests
  <2> QED BY <1>1, <2>1, <2>2, <2>3, WaveStep DEF TypeOK
<1>5. CASE MainThread
  BY <1>5, MainThreadStep
<1>6. CASE GetBlocks
  <2>1. UNCHANGED <<endpoints, websockets, channel, conn>>
    BY <1>6 DEF GetBlocks
  <2>2. next_receiver' \in Nat
    BY <1>1, <1>6 DEF GetBlocks, TypeOK
  <2>3. /\ awaiting' \subseteq [id : 1 .. MaxRequests, to : Endpoint,
                                body : {"GetCurrent", "GetBlocks"}, overdue : BOOLEAN]
        /\ node' \in [status : {"down", "running", "fatal"}, asked : 0 .. MaxRequests]
    <3>1. PICK e \in Endpoint : send_request_to_specific_node(e, "GetBlocks", awaiting)
      BY <1>6 DEF GetBlocks, Established
    <3> QED BY <1>1, <3>1, RequestSent
  <2>4. TypeOK'
    BY <1>1, <2>1, <2>2, <2>3 DEF TypeOK
  <2> QED BY <1>1, <2>1, <2>4, ThreadsContinue, MainDials
<1>7. ASSUME NEW r \in awaiting, RequestOverdue(r)
      PROVE  IInv'
  <2>1. /\ awaiting' = (awaiting \ {r}) \cup {[r EXCEPT !.overdue = TRUE]}
        /\ UNCHANGED <<endpoints, websockets, channel, conn, next_receiver, node>>
    BY <1>7 DEF RequestOverdue
  <2>2. [r EXCEPT !.overdue = TRUE] \in [id : 1 .. MaxRequests, to : Endpoint,
                                        body : {"GetCurrent", "GetBlocks"}, overdue : BOOLEAN]
    <3>1. r \in [id : 1 .. MaxRequests, to : Endpoint,
                 body : {"GetCurrent", "GetBlocks"}, overdue : BOOLEAN]
      BY <1>1 DEF TypeOK
    <3> QED BY <3>1, OverdueSet
  <2>3. TypeOK'
    BY <1>1, <2>1, <2>2 DEF TypeOK
  <2> QED BY <1>1, <2>1, <2>3, ThreadsContinue, MainDials
<1>8. ASSUME NEW c \in Conn, Thread(c)
      PROVE  IInv'
  BY <1>8, ThreadStep
<1> QED BY <1>2, <1>3, <1>4, <1>5, <1>6, <1>7, <1>8 DEF Next

\* An endpoint counted as Established has a connection that negotiated in full and is
\* not over, and a kept websocket is one that opened and is not over: through waves,
\* timers, late closes and restarts, in whatever order the main thread hears of them.
THEOREM TablesFollow == Spec => []TablesFollowThreads
<1>1. Init => IInv
  BY WS2PAssumption, InitIInv
<1>2. IInv /\ [Next]_vars => IInv'
  BY WS2PAssumption, NextStep
<1>3. IInv => TablesFollowThreads
  BY DEF IInv, TablesFollowThreads
<1> QED BY <1>1, <1>2, <1>3, PTL DEF Spec

-----------------------------------------------------------------------------
(* The handshake *)

\* Only a message of the negotiation changes a thread's state.
LEMMA StatesChange ==
    ASSUME WS2PAssumption, IInv, [Next]_vars
    PROVE  \/ \A c \in Conn : conn'[c].state = conn[c].state
           \/ \E c \in Conn, auth \in DOMAIN ValidMessage : HearAuth(c, auth)
<1>1. TypeOK /\ ThreadsOK(conn) /\ conn \in [Conn -> ThreadRecord]
  BY DEF IInv, ThreadsOK
<1>2. \A new : Continues(new) => \A c \in Conn : new[c].state = conn[c].state
  BY <1>1 DEF Continues, ThreadsOK, Unopened
<1>3. \A dialled \in SUBSET Endpoint :
         Continues(connect_to_without_checking_quotas(conn, dialled))
  BY <1>1, DialledThreads, ThreadsContinue
<1>4. CASE UNCHANGED vars
  BY <1>4 DEF vars
<1>5. CASE Start
  BY <1>2, <1>3, <1>5 DEF Start
<1>6. CASE ConnectingWave
  <2>1. PICK dialled \in SUBSET Endpoint :
          conn' = connect_to_without_checking_quotas(conn, dialled)
    BY <1>6 DEF ConnectingWave, Waves
  <2> QED BY <1>2, <1>3, <2>1
<1>7. CASE MainThread
  <2>1. PICK m :
        \/ DeliverWebsocketOk(m) \/ DeliverConnect(m) \/ DeliverAck(m) \/ DeliverOk(m)
        \/ DeliverNegociationTimeout(m) \/ DeliverTimeout(m) \/ DeliverClose(m)
        \/ DeliverPeerCard(m) \/ DeliverReqResponse(m) \/ DeliverOther(m)
    BY <1>7 DEF MainThread
  <2>2. CASE DeliverPeerCard(m)
    <3> DEFINE unknown == {e \in Endpoint \ NeedsSsl : Issuer[e] = m.info /\ endpoints[e] = "Absent"}
               dialled == IF OutcomingQuota > Cardinality(Established(endpoints)) THEN unknown ELSE {}
    <3>1. dialled \in SUBSET Endpoint
      OBVIOUS
    <3>2. \/ conn' = connect_to_without_checking_quotas(conn, dialled) \/ conn' = conn
      BY <2>2 DEF DeliverPeerCard
    <3> HIDE DEF dialled
    <3> QED BY <1>2, <1>3, <3>1, <3>2
  <2>3. CASE ~DeliverPeerCard(m)
    <3>1. m.from \in Endpoint
      <4>1. PICK payload : Deliver(payload, m)
        BY <2>1, <2>3 DEF DeliverWebsocketOk, DeliverConnect, DeliverAck, DeliverOk,
           DeliverNegociationTimeout, DeliverTimeout, DeliverClose, DeliverReqResponse, DeliverOther
      <4> QED BY <4>1, Taken
    <3>2. conn' = conn \/ conn' = CloseSocket(m.from)
      BY <2>1, <2>3 DEF DeliverWebsocketOk, DeliverConnect, DeliverAck, DeliverOk,
         DeliverNegociationTimeout, DeliverTimeout, DeliverClose, DeliverReqResponse, DeliverOther,
         RecordOrFail, WSError, close_connection
    <3> QED BY <1>2, <3>1, <3>2, ThreadsContinue
  <2> QED BY <2>2, <2>3
<1>8. CASE GetBlocks
  BY <1>8 DEF GetBlocks
<1>9. ASSUME NEW r \in awaiting, RequestOverdue(r)
      PROVE  conn' = conn
  BY <1>9 DEF RequestOverdue
<1>10. ASSUME NEW c \in Conn, Thread(c), \A auth \in DOMAIN ValidMessage : ~HearAuth(c, auth)
       PROVE  \A d \in Conn : conn'[d].state = conn[d].state
  <2>1. PICK phase, timers :
          \/ conn' = [conn EXCEPT ![c] = [conn[c] EXCEPT !.phase = phase, !.timers = timers]]
          \/ conn' = [conn EXCEPT ![c] = conn[c]] \/ conn' = [conn EXCEPT ![c].phase = phase]
          \/ conn' = [conn EXCEPT ![c].timers = timers]
    BY <1>10 DEF Thread, Hear, Open, DialFails, HearOther, HearResponse, HearPeerCard,
       ConnectTimeout, ExpireTimeout, OnClose, Tell
  <2>2. conn[c] = [ep |-> conn[c].ep, state |-> conn[c].state, phase |-> conn[c].phase,
                   timers |-> conn[c].timers]
    <3>1. conn[c] \in ThreadRecord
      BY <1>1
    <3> QED BY <3>1 DEF ThreadRecord
  <2>3. conn'[c].state = conn[c].state
    BY <1>1, <2>1, <2>2
  <2>4. \A d \in Conn : d # c => conn'[d] = conn[d]
    BY <1>1, <2>1
  <2> QED BY <2>3, <2>4
<1> QED BY <1>4, <1>5, <1>6, <1>7, <1>8, <1>9, <1>10 DEF Next

\* Every connection thread negotiates as both versions of WS2P promise: CONNECT first,
\* ACK and OK once each in either order, Established when all three have been heard.
THEOREM NegotiationRefines == Spec => NegotiatesInOrder
<1> DEFINE hears == [c \in Conn |-> HeardIn(conn[c].state)]
<1>1. Init => Handshake!Init
  BY DEF Init, FreeThread, HeardIn, Handshake!Init
<1>2. IInv /\ [Next]_vars => [Handshake!Next]_hears
  <2> SUFFICES ASSUME IInv, [Next]_vars PROVE [Handshake!Next]_hears
    OBVIOUS
  <2>1. CASE \A c \in Conn : conn'[c].state = conn[c].state
    BY <2>1
  <2>2. ASSUME NEW c \in Conn, NEW auth \in DOMAIN ValidMessage, HearAuth(c, auth)
        PROVE  Handshake!Next
    <3>1. conn \in [Conn -> ThreadRecord] /\ conn[c] \in ThreadRecord
      BY DEF IInv, ThreadsOK
    <3>2. /\ auth \in {"CONNECT", "ACK", "OK"} /\ AfterAuth(conn[c].state, auth) # "Invalid"
          /\ conn' = [conn EXCEPT ![c] = [conn[c] EXCEPT !.state = AfterAuth(conn[c].state, auth)]]
      BY <2>2 DEF HearAuth, Tell, ValidMessage
    <3>3. /\ conn'[c].state = AfterAuth(conn[c].state, auth)
          /\ \A d \in Conn : d # c => conn'[d] = conn[d]
      BY <3>1, <3>2 DEF ThreadRecord
    <3>4. /\ auth \notin HeardIn(conn[c].state)
          /\ auth = "CONNECT" \/ "CONNECT" \in HeardIn(conn[c].state)
          /\ HeardIn(conn'[c].state) = HeardIn(conn[c].state) \cup {auth}
      BY <3>2, <3>3 DEF AfterAuth, HeardIn
    <3>5. hears' = [hears EXCEPT ![c] = hears[c] \cup {auth}]
      BY <3>3, <3>4
    <3>6. Handshake!Hear(c, auth)
      BY <3>4, <3>5 DEF Handshake!Hear
    <3> QED BY <3>2, <3>6 DEF Handshake!Next, Handshake!Messages
  <2> QED BY <2>1, <2>2, WS2PAssumption, StatesChange
<1>3. Init => IInv
  BY WS2PAssumption, InitIInv
<1>4. IInv /\ [Next]_vars => IInv'
  BY WS2PAssumption, NextStep
<1> QED BY <1>1, <1>2, <1>3, <1>4, PTL DEF Spec, NegotiatesInOrder, Handshake!Spec
=============================================================================
