--------------------------- MODULE RequestsProofs ---------------------------
(***************************************************************************)
(* What is proved of Requests, for every set of nodes, chain, order of the *)
(* endpoints and budget of what may happen: the modules' views of the      *)
(* block-chain and of the network agree (ViewsAgree), heads only go        *)
(* forward (HeadsGoForward), answers were asked for (AnswersAreAsked).     *)
(*                                                                         *)
(* Three invariants, each on its types: what is on its way to a module and *)
(* tells of the current block (Current), what the user interface was told  *)
(* of the network (Shows), where the request of a remote node is at a      *)
(* given moment (Asked).                                                   *)
(***************************************************************************)
EXTENDS Requests, SequenceLemmas

-----------------------------------------------------------------------------
(* The invariants. *)

IsQueue(q) == q \in Seq(Range(q))

FromTypes == {"Established", "Request", "Heads", "Document", "ReqResponse"} \cup DOMAIN EndState
ModuleTypes == {"GetBlocks", "StackUpValidBlock", "CurrentBlockstamp", "UIDs", "CurrentBlock", "BlocksResponse"}

\* A message for the main thread of WS2P.
ForWS2P(m) ==
    /\ m.type \in FromTypes \cup ModuleTypes
    /\ (m.type \in FromTypes \/ "from" \in DOMAIN m) => m.from \in Node
    /\ m.type = "GetBlocks" => m.first \in Nat
    /\ m.type = "StackUpValidBlock" => m.block \in Block
    /\ m.type = "CurrentBlockstamp" => m.block \in NoBlock .. Top
    /\ m.type = "UIDs" => m.keys \in SUBSET Node
    /\ m.type = "Heads" => m.head.node \in Node /\ m.head.block \in Nat /\ m.head.step \in Nat
    /\ m.type = "Request" => m.id = m.body /\ m.body \in Body
    /\ m.type \in {"Document", "ReqResponse"} => m.blocks \in SUBSET (0 .. Top)

\* A message for the block-chain module.
ForBlockchain(m) ==
    /\ m.type \in {"CurrentBlockstamp", "CurrentBlock", "BlockByNumber", "Chunk", "UIDs", "Blocks"}
    /\ m.type = "UIDs" => m.keys \in SUBSET Node
    /\ m.type = "Blocks" => m.blocks \in SUBSET (0 .. Top)

\* The records have their fields.
IsWS2P(w) ==
    w = [current_blockstamp |-> w.current_blockstamp, my_head |-> w.my_head,
         pending_received_requests |-> w.pending_received_requests,
         requests_awaiting_response |-> w.requests_awaiting_response,
         next_receiver |-> w.next_receiver, heads_cache |-> w.heads_cache,
         uids_cache |-> w.uids_cache, endpoints |-> w.endpoints]
IsTui(t) ==
    t = [connections_status |-> t.connections_status,
         established_conns_count |-> t.established_conns_count, heads_cache |-> t.heads_cache]
IsRemote(r) ==
    r = [open |-> r.open, left |-> r.left, asked |-> r.asked, to_answer |-> r.to_answer,
         answers |-> r.answers, forks |-> r.forks]
IsBudget(b) ==
    b = [start |-> b.start, asks |-> b.asks, ends |-> b.ends, heads |-> b.heads, forks |-> b.forks,
         waiting |-> b.waiting, messages |-> b.messages]
Shaped == IsWS2P(ws2p) /\ IsTui(tui) /\ IsRemote(remote) /\ IsBudget(budget)

\* TypeOK, without what it says of the messages.
TablesOK ==
    /\ current \in NoBlock .. Top
    /\ ws2p.current_blockstamp \in Block /\ ws2p.my_head \in Block \cup {NoHead}
    /\ ws2p.next_receiver \in 0 .. Cardinality(Node)
    /\ ws2p.uids_cache \subseteq HasUid
    /\ ws2p.endpoints \in [Node -> State]
    /\ DOMAIN ws2p.heads_cache \subseteq Node
    /\ \A n \in DOMAIN ws2p.heads_cache : ws2p.heads_cache[n] \in Cached
    /\ tui.connections_status \in [Node -> [status : State \cup {"Unknown"}, uid : BOOLEAN]]
    /\ tui.established_conns_count \in Nat
    /\ remote.open \subseteq Node

\* The events and requests among them.
ForBroadcast(m) == ForWS2P(m) /\ m.type \in {"GetBlocks", "StackUpValidBlock"}

WS2PQueue ==
    /\ IsQueue(to_ws2p) /\ \A m \in Range(to_ws2p) : ForWS2P(m)
    /\ IsQueue(broadcasting) /\ \A m \in Range(broadcasting) : ForBroadcast(m)
BlockchainQueue == IsQueue(to_blockchain) /\ \A m \in Range(to_blockchain) : ForBlockchain(m)

\* What remote nodes are still to answer, and what they may still do.
OthersOK ==
    /\ \A q \in remote.to_answer : q.node \in Node /\ q.first \in Nat
    /\ remote.forks \in Nat
    /\ budget.asks \subseteq Node \X Body
    /\ \A h \in budget.heads : h.node \in Node /\ h.block \in Nat /\ h.step \in Nat

Types == Shaped /\ TablesOK /\ WS2PQueue /\ BlockchainQueue /\ OthersOK

\* What tells WS2P of the current block, and what asks for it.
News == {"StackUpValidBlock", "CurrentBlockstamp"}
Stacks(q) == {i \in DOMAIN q : q[i].type = "StackUpValidBlock"}
Tells(q) == {i \in DOMAIN q : q[i].type \in News}
CurrentAsked == \E i \in DOMAIN to_blockchain : to_blockchain[i].type = "CurrentBlockstamp"

\* As long as no branch has failed: the last stacked block that the broadcasting
\* thread has for WS2P is the current one.  Of what has reached WS2P, a message about
\* another block, an answer that came too early or too late, has a stacked block
\* behind it, there or with that thread.  When there is nothing to hear, what WS2P
\* holds is right.  Its own head may not be there yet; once it is, the interface shows it.
Current ==
    /\ remote.forks = 0 =>
          /\ \A i \in Stacks(broadcasting) : \/ broadcasting[i].block = current
                                             \/ \E j \in Stacks(broadcasting) : j > i
          /\ \A i \in Tells(to_ws2p) : \/ to_ws2p[i].block = current
                                       \/ \E j \in Stacks(to_ws2p) : j > i
                                       \/ Stacks(broadcasting) # {}
          /\ Stacks(broadcasting) = {} =>
                /\ Tells(to_ws2p) = {} => CurrentAsked \/ ws2p.current_blockstamp = current
                /\ Stacks(to_ws2p) = {} =>
                      \/ ws2p.my_head = current
                      \/ (ws2p.my_head = NoHead /\ (CurrentAsked \/ Tells(to_ws2p) # {}))
    /\ ws2p.my_head # NoHead =>
          Self \in DOMAIN tui.heads_cache /\ tui.heads_cache[Self].block = ws2p.my_head

\* The interface shows the heads of the nodes that WS2P keeps, and no others.  Its
\* count is at most the number of connections it shows as established.
Shows ==
    /\ NetworkIsShown
    /\ Node \cap DOMAIN tui.heads_cache \subseteq DOMAIN ws2p.heads_cache
    /\ tui.established_conns_count <= Cardinality({n \in Node : Shown(n)})

\* The requests WS2P has received, and the questions about them on their way to
\* the block-chain module and back.
Requested == {i \in DOMAIN to_ws2p : to_ws2p[i].type = "Request"}
Wanted(q) == {i \in DOMAIN q : q[i].type = "CurrentBlock"}
TokenAt(i) == <<to_ws2p[i].from, to_ws2p[i].body>>
Pending == ws2p.pending_received_requests
TokenOf(id) == <<Pending[id].from, Pending[id].req_id>>
WasAsked(t) == \E q \in remote.asked : q.node = t[1] /\ q.body = t[2]

\* A request is to come, on its way to WS2P, pending or answered, and one of these
\* only.
OnTheirWay ==
    /\ \A i \in Requested : WasAsked(TokenAt(i)) /\ TokenAt(i) \notin budget.asks
    /\ \A i, j \in Requested : TokenAt(i) = TokenAt(j) => i = j
PendingOnce ==
    /\ IsFiniteSet(DOMAIN Pending)
    /\ \A id \in DOMAIN Pending :
          /\ WasAsked(TokenOf(id)) /\ TokenOf(id) \notin budget.asks
          /\ \A i \in Requested : TokenAt(i) # TokenOf(id)
          /\ \A other \in DOMAIN Pending : TokenOf(other) = TokenOf(id) => other = id
AnswersTo(a) == <<a[1], a[2]>>
AnsweredOnce ==
    \A a \in DOMAIN remote.answers :
        /\ remote.answers[a] = 1 /\ a[2] = a[3]
        /\ WasAsked(AnswersTo(a)) /\ AnswersTo(a) \notin budget.asks
        /\ \A i \in Requested : TokenAt(i) # AnswersTo(a)
        /\ \A id \in DOMAIN Pending : TokenOf(id) # AnswersTo(a)

\* The block-chain module and WS2P exchange one message about a pending request for
\* the current block.
AboutPending(q, pending) ==
    /\ \A i \in Wanted(q) : q[i].id \in DOMAIN pending /\ pending[q[i].id].req_id = "GetCurrent"
    /\ \A i, j \in Wanted(q) : q[i].id = q[j].id => i = j
Apart(q, r) == \A i \in Wanted(q), j \in Wanted(r) : q[i].id # r[j].id
Questions ==
    AboutPending(to_ws2p, Pending) /\ AboutPending(to_blockchain, Pending) /\ Apart(to_ws2p, to_blockchain)

Asked == OnTheirWay /\ PendingOnce /\ AnsweredOnce /\ Questions

IInv == Types /\ Current /\ Shows /\ Asked

-----------------------------------------------------------------------------
(* Queues. *)

\* A queue without its first message.
LEMMA QueueTail ==
    ASSUME NEW q, IsQueue(q), q # <<>>
    PROVE  /\ IsQueue(Tail(q)) /\ Range(Tail(q)) \subseteq Range(q)
           /\ 1 \in DOMAIN q /\ Head(q) = q[1] /\ Head(q) \in Range(q)
           /\ DOMAIN q \subseteq Nat
           /\ \A i \in DOMAIN Tail(q) : i + 1 \in DOMAIN q /\ Tail(q)[i] = q[i + 1] /\ i \in Nat \ {0}
           /\ \A i \in DOMAIN q : i # 1 => i - 1 \in DOMAIN Tail(q) /\ Tail(q)[i - 1] = q[i]
<1> DEFINE S == Range(q)
           t == Tail(q)
<1>1. q \in Seq(S)
  BY DEF IsQueue
<1>2. t \in Seq(S) /\ Range(t) \subseteq S /\ Head(q) \in S
  BY <1>1, FirstAndRest
<1>3. /\ Len(q) \in Nat \ {0} /\ DOMAIN q = 1 .. Len(q) /\ Head(q) = q[1]
      /\ Len(t) = Len(q) - 1 /\ DOMAIN t = 1 .. Len(t)
      /\ \A i \in 1 .. Len(t) : t[i] = q[i + 1]
  <2> HIDE DEF S
  <2> QED BY <1>1
<1>4. t \in Seq(Range(t))
  <2> HIDE DEF t, S
  <2>1. t \in [1 .. Len(t) -> Range(t)] /\ Len(t) \in Nat
    BY <1>2, <1>3 DEF Range
  <2> QED BY <2>1, SequenceOf
<1> HIDE DEF t, S
<1>5. \A i \in DOMAIN q : i # 1 => i - 1 \in 1 .. Len(t) /\ (i - 1) + 1 = i
  BY <1>3
<1>6. \A i \in DOMAIN t : i + 1 \in DOMAIN q /\ i \in Nat \ {0}
  BY <1>3
<1>7. 1 \in DOMAIN q /\ DOMAIN q \subseteq Nat
  BY <1>3
<1> QED BY <1>2, <1>3, <1>4, <1>5, <1>6, <1>7 DEF IsQueue, t, S

\* A queue with more messages behind.
LEMMA QueueMore ==
    ASSUME NEW q, IsQueue(q), NEW s, IsQueue(s)
    PROVE  /\ IsQueue(q \o s) /\ Range(q \o s) = Range(q) \cup Range(s)
           /\ DOMAIN q \subseteq Nat /\ DOMAIN s = 1 .. Len(s) /\ Len(s) \in Nat
           /\ \A i \in DOMAIN q : i \in DOMAIN (q \o s) /\ (q \o s)[i] = q[i] /\ i <= Len(q)
           /\ \A i \in DOMAIN s : Len(q) + i \in DOMAIN (q \o s) /\ (q \o s)[Len(q) + i] = s[i]
           /\ Len(q) \in Nat
           /\ \A i \in DOMAIN (q \o s) :
                 i \in DOMAIN q \/ (i - Len(q) \in DOMAIN s /\ (q \o s)[i] = s[i - Len(q)] /\ i > Len(q))
<1> DEFINE S == Range(q) \cup Range(s)
           u == q \o s
<1>1. q \in Seq(S) /\ s \in Seq(S)
  BY DEF IsQueue
<1>2. u \in Seq(S) /\ Range(u) = S
  <2> HIDE DEF S
  <2>1. u \in Seq(S) /\ Range(u) = Range(q) \cup Range(s)
    BY <1>1, Concatenation
  <2> QED BY <2>1 DEF S
<1>3. /\ Len(q) \in Nat /\ Len(s) \in Nat /\ Len(u) = Len(q) + Len(s)
      /\ DOMAIN q = 1 .. Len(q) /\ DOMAIN s = 1 .. Len(s) /\ DOMAIN u = 1 .. Len(u)
      /\ \A i \in 1 .. Len(q) : u[i] = q[i]
      /\ \A i \in 1 .. Len(s) : u[Len(q) + i] = s[i]
  <2> HIDE DEF S
  <2> QED BY <1>1
<1> HIDE DEF u, S
<1>4. \A i \in DOMAIN q : i \in DOMAIN u /\ i <= Len(q)
  BY <1>3
<1>5. \A i \in DOMAIN s : Len(q) + i \in DOMAIN u
  BY <1>3
<1>6. \A i \in DOMAIN u : i \in DOMAIN q \/ (i - Len(q) \in DOMAIN s /\ Len(q) + (i - Len(q)) = i /\ i > Len(q))
  BY <1>3
<1>7. u \in Seq(Range(u))
  BY <1>2
<1> QED BY <1>2, <1>3, <1>4, <1>5, <1>6, <1>7 DEF IsQueue, u, S

\* One message is a queue.
LEMMA QueueOne ==
    ASSUME NEW m
    PROVE  /\ IsQueue(<<m>>) /\ Range(<<m>>) = {m} /\ IsQueue(<<>>) /\ Range(<<>>) = {}
           /\ \A q : IsQueue(q) => Append(q, m) = q \o <<m>> /\ q \o <<>> = q
BY DEF IsQueue, Range

\* Where the messages of a queue are once there is one more.
LEMMA QueueWith ==
    ASSUME NEW q, IsQueue(q), NEW m
    PROVE  LET r == Append(q, m)
           IN  /\ \A i \in DOMAIN q : i \in DOMAIN r /\ r[i] = q[i]
               /\ \A i \in DOMAIN r : i \in DOMAIN q \/ (i = Len(q) + 1 /\ r[i] = m)
<1> DEFINE S == Range(q) \cup {m}
<1>1. q \in Seq(S) /\ m \in S
  BY DEF IsQueue
<1> HIDE DEF S
<1> QED BY <1>1

\* The messages of types T are the same in queues q and r, in the same order.
Keeps(q, r, T) ==
    \E d \in {0, 1} :
        /\ \A i \in DOMAIN r : r[i].type \in T => i + d \in DOMAIN q /\ r[i] = q[i + d]
        /\ \A i \in DOMAIN q : q[i].type \in T => i - d \in DOMAIN r /\ r[i - d] = q[i]

\* Another first message taken.
LEMMA KeepsTail ==
    ASSUME NEW q, IsQueue(q), q # <<>>, NEW T, Head(q).type \notin T
    PROVE  Keeps(q, Tail(q), T)
<1> DEFINE r == Tail(q)
<1>1. /\ Head(q) = q[1] /\ \A i \in DOMAIN r : i + 1 \in DOMAIN q /\ r[i] = q[i + 1]
      /\ \A i \in DOMAIN q : i # 1 => i - 1 \in DOMAIN r /\ r[i - 1] = q[i]
  BY QueueTail
<1> HIDE DEF r
<1>2. \A i \in DOMAIN q : q[i].type \in T => i # 1
  BY <1>1
<1> QED BY <1>1, <1>2 DEF Keeps, r

\* Other messages put behind.
LEMMA KeepsMore ==
    ASSUME NEW q, IsQueue(q), NEW s, IsQueue(s), NEW T, \A m \in Range(s) : m.type \notin T
    PROVE  Keeps(q, q \o s, T)
<1> DEFINE r == q \o s
<1>1. /\ DOMAIN q \subseteq Nat /\ \A i \in DOMAIN q : i \in DOMAIN r /\ r[i] = q[i]
      /\ \A i \in DOMAIN r : i \in DOMAIN q \/ (i - Len(q) \in DOMAIN s /\ r[i] = s[i - Len(q)])
  BY QueueMore
<1> HIDE DEF r
<1>2. \A i \in DOMAIN r : r[i].type \in T => i \in DOMAIN q
  BY <1>1 DEF Range
<1>3. \A i \in DOMAIN r : r[i].type \in T => i + 0 \in DOMAIN q /\ r[i] = q[i + 0]
  BY <1>1, <1>2
<1>4. \A i \in DOMAIN q : q[i].type \in T => i - 0 \in DOMAIN r /\ r[i - 0] = q[i]
  BY <1>1
<1> QED BY <1>3, <1>4 DEF Keeps, r

\* Nothing more.
LEMMA KeepsAll ==
    ASSUME NEW q, IsQueue(q), NEW T
    PROVE  Keeps(q, q, T)
<1>1. q \o <<>> = q /\ IsQueue(<<>>) /\ Range(<<>>) = {}
  BY QueueOne
<1> QED BY <1>1, KeepsMore

\* One message of another type put behind.
LEMMA KeepsOneMore ==
    ASSUME NEW q, IsQueue(q), NEW m, NEW T, m.type \notin T
    PROVE  Keeps(q, Append(q, m), T)
<1>1. Append(q, m) = q \o <<m>> /\ IsQueue(<<m>>) /\ Range(<<m>>) = {m}
  BY QueueOne
<1> QED BY <1>1, KeepsMore

\* Fewer types to keep.
LEMMA KeepsFewer ==
    ASSUME NEW q, NEW r, NEW T, NEW U, U \subseteq T, Keeps(q, r, T)
    PROVE  Keeps(q, r, U)
BY DEF Keeps

\* The messages of types T that WS2P is to receive stay where they are.
WS2PKeeps(T) == Keeps(to_ws2p, to_ws2p', T) /\ Keeps(broadcasting, broadcasting', T)

\* Where messages of types T stay, d places before.
Shifted(q, r, T, d) ==
    /\ \A i \in DOMAIN r : r[i].type \in T => i + d \in DOMAIN q /\ r[i] = q[i + d]
    /\ \A i \in DOMAIN q : q[i].type \in T => i - d \in DOMAIN r /\ r[i - d] = q[i]

\* What tells of the current block is still there, in the same order.
LEMMA NewsShifted ==
    ASSUME NEW q, NEW r, IsQueue(q), IsQueue(r), Keeps(q, r, News)
    PROVE  \E d \in {0, 1} :
              /\ \A i \in Tells(r) : i + d \in Tells(q) /\ r[i] = q[i + d]
              /\ \A i \in Tells(q) : i - d \in Tells(r) /\ r[i - d] = q[i]
              /\ \A i \in Stacks(q) : i - d \in Stacks(r)
              /\ \A i \in Stacks(r) : i + d \in Stacks(q) /\ r[i] = q[i + d]
              /\ \A i \in Tells(r), j \in Stacks(q) : j > i + d => j - d \in Stacks(r) /\ j - d > i
<1>1. PICK d \in {0, 1} : Shifted(q, r, News, d)
  BY DEF Keeps, Shifted
<1>2. DOMAIN q \subseteq Nat /\ DOMAIN r \subseteq Nat
  BY QueueMore, QueueOne
<1>3. /\ \A i \in Tells(r) : i + d \in Tells(q) /\ r[i] = q[i + d]
      /\ \A i \in Tells(q) : i - d \in Tells(r) /\ r[i - d] = q[i]
      /\ \A i \in Stacks(q) : i - d \in Stacks(r)
      /\ \A i \in Stacks(r) : i + d \in Stacks(q) /\ r[i] = q[i + d]
  BY <1>1 DEF Tells, Stacks, News, Shifted
<1>4. ASSUME NEW i \in Tells(r), NEW j \in Stacks(q), j > i + d
      PROVE  j - d \in Stacks(r) /\ j - d > i
  <2>1. j \in Nat /\ i \in Nat /\ j - d \in Stacks(r)
    BY <1>2, <1>3 DEF Stacks, Tells
  <2> QED BY <1>4, <2>1
<1> QED BY <1>3, <1>4

-----------------------------------------------------------------------------
(* What keeps each invariant. *)

\* Nothing that Current speaks of changes.
LEMMA CurrentKept ==
    ASSUME Types, Current, current' = current,
           ws2p'.current_blockstamp = ws2p.current_blockstamp, ws2p'.my_head = ws2p.my_head,
           Self \in DOMAIN tui.heads_cache =>
              Self \in DOMAIN tui'.heads_cache /\ tui'.heads_cache[Self].block = tui.heads_cache[Self].block,
           remote'.forks = remote.forks,
           WS2PQueue', WS2PKeeps(News), CurrentAsked => CurrentAsked'
    PROVE  Current'
<1> DEFINE q == to_ws2p
           r == to_ws2p'
           b == broadcasting
           c == broadcasting'
<1>1. IsQueue(q) /\ IsQueue(r) /\ IsQueue(b) /\ IsQueue(c) /\ Keeps(q, r, News) /\ Keeps(b, c, News)
  BY DEF Types, WS2PQueue, WS2PKeeps
<1> HIDE DEF q, r, b, c
<1>2. PICK d \in {0, 1} :
        /\ \A i \in Tells(r) : i + d \in Tells(q) /\ r[i] = q[i + d]
        /\ \A i \in Tells(q) : i - d \in Tells(r) /\ r[i - d] = q[i]
        /\ \A i \in Stacks(q) : i - d \in Stacks(r)
        /\ \A i \in Stacks(r) : i + d \in Stacks(q) /\ r[i] = q[i + d]
        /\ \A i \in Tells(r), j \in Stacks(q) : j > i + d => j - d \in Stacks(r) /\ j - d > i
  BY <1>1, NewsShifted
<1>3. PICK e \in {0, 1} :
        /\ \A i \in Stacks(b) : i - e \in Stacks(c)
        /\ \A i \in Stacks(c) : i + e \in Stacks(b) /\ c[i] = b[i + e]
        /\ \A i \in Tells(c), j \in Stacks(b) : j > i + e => j - e \in Stacks(c) /\ j - e > i
  BY <1>1, NewsShifted
<1>4. Stacks(c) \subseteq Tells(c) /\ (Stacks(c) = {} <=> Stacks(b) = {})
      /\ (Stacks(r) = {} <=> Stacks(q) = {}) /\ (Tells(r) = {} <=> Tells(q) = {})
  BY <1>2, <1>3 DEF Stacks, Tells, News
<1>5. ASSUME remote.forks = 0
      PROVE  /\ \A i \in Stacks(c) : c[i].block = current \/ \E j \in Stacks(c) : j > i
             /\ \A i \in Tells(r) : r[i].block = current \/ (\E j \in Stacks(r) : j > i) \/ Stacks(c) # {}
  <2>1. /\ \A i \in Stacks(b) : b[i].block = current \/ \E j \in Stacks(b) : j > i
        /\ \A i \in Tells(q) : q[i].block = current \/ (\E j \in Stacks(q) : j > i) \/ Stacks(b) # {}
    BY <1>5 DEF Current, q, b
  <2>2. \A i \in Stacks(c) : c[i].block = current \/ \E j \in Stacks(c) : j > i
    BY <1>3, <1>4, <2>1
  <2>3. \A i \in Tells(r) : r[i].block = current \/ (\E j \in Stacks(r) : j > i) \/ Stacks(c) # {}
    BY <1>2, <1>4, <2>1
  <2> QED BY <2>2, <2>3
<1> QED BY <1>4, <1>5 DEF Current, q, r, b, c

\* Nothing that Shows speaks of changes.
LEMMA ShowsKept ==
    ASSUME Shows, tui' = tui, ws2p'.endpoints = ws2p.endpoints, ws2p'.heads_cache = ws2p.heads_cache
    PROVE  Shows'
BY DEF Shows, NetworkIsShown, Shown

\* Where the messages are that Asked speaks of.
LEMMA KeptPositions ==
    ASSUME NEW q, NEW r, IsQueue(q), IsQueue(r), NEW T, Keeps(q, r, T)
    PROVE  \E to : /\ \A i \in DOMAIN r : r[i].type \in T => to[i] \in DOMAIN q /\ r[i] = q[to[i]]
                   /\ \A i, j \in DOMAIN r : r[i].type \in T /\ r[j].type \in T /\ to[i] = to[j] => i = j
<1>1. PICK d \in {0, 1} : \A i \in DOMAIN r : r[i].type \in T => i + d \in DOMAIN q /\ r[i] = q[i + d]
  BY DEF Keeps
<1>2. DOMAIN r \subseteq Nat
  BY QueueMore, QueueOne
<1> DEFINE to == [i \in DOMAIN r |-> i + d]
<1>3. \A i, j \in DOMAIN r : to[i] = to[j] => i = j
  BY <1>2
<1>4. \A i \in DOMAIN r : to[i] = i + d
  OBVIOUS
<1> HIDE DEF to
<1> QED BY <1>1, <1>3, <1>4

AskedTypes == {"Request", "CurrentBlock"}

\* Where the requests are that were on their way before.
FewerRequests(to) ==
    /\ \A i \in Requested' : to[i] \in Requested /\ TokenAt(i)' = TokenAt(to[i])
    /\ \A i, j \in Requested' : to[i] = to[j] => i = j

\* Nothing changes of the requests that came and were answered.
LEMMA RequestsKept ==
    ASSUME OnTheirWay, PendingOnce, AnsweredOnce,
           budget'.asks = budget.asks, remote'.asked = remote.asked, remote'.answers = remote.answers,
           ws2p'.pending_received_requests = ws2p.pending_received_requests,
           IsQueue(to_ws2p), IsQueue(to_ws2p'), NEW T, "Request" \in T, WS2PKeeps(T)
    PROVE  OnTheirWay' /\ PendingOnce' /\ AnsweredOnce'
<1> DEFINE w == to_ws2p
           x == to_ws2p'
<1>1. PICK to : /\ \A i \in DOMAIN x : x[i].type \in T => to[i] \in DOMAIN w /\ x[i] = w[to[i]]
                /\ \A i, j \in DOMAIN x : x[i].type \in T /\ x[j].type \in T /\ to[i] = to[j] => i = j
  BY KeptPositions DEF WS2PKeeps
<1>2. Pending' = Pending /\ \A id : TokenOf(id)' = TokenOf(id)
  BY DEF Pending, TokenOf
<1>3. \A t : WasAsked(t)' = WasAsked(t)
  BY DEF WasAsked
<1>4. FewerRequests(to)
  BY <1>1 DEF Requested, TokenAt, FewerRequests
<1>5. OnTheirWay'
  BY <1>3, <1>4 DEF FewerRequests, OnTheirWay
<1>6. DOMAIN Pending' = DOMAIN Pending
  BY <1>2
<1>7. PendingOnce'
  BY <1>2, <1>3, <1>4, <1>6 DEF FewerRequests, PendingOnce
<1>8. AnsweredOnce'
  BY <1>2, <1>3, <1>4, <1>6 DEF FewerRequests, AnsweredOnce
<1> QED BY <1>5, <1>7, <1>8

\* Nothing changes of the questions about the pending requests.
LEMMA QuestionsKept ==
    ASSUME Questions, ws2p'.pending_received_requests = ws2p.pending_received_requests,
           IsQueue(to_ws2p), IsQueue(to_ws2p'), NEW T, "CurrentBlock" \in T, WS2PKeeps(T),
           IsQueue(to_blockchain), IsQueue(to_blockchain'),
           Keeps(to_blockchain, to_blockchain', {"CurrentBlock"})
    PROVE  Questions'
<1> DEFINE w == to_ws2p
           x == to_ws2p'
           b == to_blockchain
           y == to_blockchain'
<1>1. PICK to : /\ \A i \in DOMAIN x : x[i].type \in T => to[i] \in DOMAIN w /\ x[i] = w[to[i]]
                /\ \A i, j \in DOMAIN x : x[i].type \in T /\ x[j].type \in T /\ to[i] = to[j] => i = j
  BY KeptPositions DEF WS2PKeeps
<1>2. PICK at : /\ \A i \in DOMAIN y : y[i].type \in {"CurrentBlock"} => at[i] \in DOMAIN b /\ y[i] = b[at[i]]
                /\ \A i, j \in DOMAIN y : y[i].type \in {"CurrentBlock"} /\ y[j].type \in {"CurrentBlock"} /\ at[i] = at[j] => i = j
  BY KeptPositions
<1>3. /\ \A i \in Wanted(x) : to[i] \in Wanted(w) /\ x[i] = w[to[i]]
      /\ \A i, j \in Wanted(x) : to[i] = to[j] => i = j
  BY <1>1 DEF Wanted
<1>4. /\ \A i \in Wanted(y) : at[i] \in Wanted(b) /\ y[i] = b[at[i]]
      /\ \A i, j \in Wanted(y) : at[i] = at[j] => i = j
  BY <1>2 DEF Wanted
<1>5. AboutPending(x, Pending) /\ AboutPending(y, Pending) /\ Apart(x, y)
  <2>1. AboutPending(w, Pending) /\ AboutPending(b, Pending) /\ Apart(w, b)
    BY DEF Questions
  <2> HIDE DEF w, x, b, y
  <2>2. AboutPending(x, Pending)
    BY <1>3, <2>1 DEF AboutPending
  <2>3. AboutPending(y, Pending)
    BY <1>4, <2>1 DEF AboutPending
  <2>4. Apart(x, y)
    BY <1>3, <1>4, <2>1 DEF Apart
  <2> QED BY <2>2, <2>3, <2>4
<1>6. Pending' = Pending
  BY DEF Pending
<1> QED BY <1>5, <1>6 DEF Questions

\* Nothing that Asked speaks of changes.
LEMMA AskedKept ==
    ASSUME Asked, budget'.asks = budget.asks, remote'.asked = remote.asked,
           remote'.answers = remote.answers,
           ws2p'.pending_received_requests = ws2p.pending_received_requests,
           IsQueue(to_ws2p), IsQueue(to_ws2p'), WS2PKeeps(AskedTypes),
           IsQueue(to_blockchain), IsQueue(to_blockchain'),
           Keeps(to_blockchain, to_blockchain', {"CurrentBlock"})
    PROVE  Asked'
<1>1. "Request" \in AskedTypes /\ "CurrentBlock" \in AskedTypes
  BY DEF AskedTypes
<1>2. OnTheirWay' /\ PendingOnce' /\ AnsweredOnce'
  BY <1>1, RequestsKept DEF Asked
<1>3. Questions'
  BY <1>1, QuestionsKept DEF Asked
<1> QED BY <1>2, <1>3 DEF Asked

\* Tables w with another set of awaited responses and another turn.
SameTables(w) ==
    /\ IsWS2P(w)
    /\ w.current_blockstamp = ws2p.current_blockstamp /\ w.my_head = ws2p.my_head
    /\ w.pending_received_requests = ws2p.pending_received_requests
    /\ w.heads_cache = ws2p.heads_cache /\ w.uids_cache = ws2p.uids_cache
    /\ w.endpoints = ws2p.endpoints
    /\ w.next_receiver \in 0 .. Cardinality(Node)

\* Remote nodes r that came and left and have other requests to answer.
SameRequests(r) ==
    /\ IsRemote(r)
    /\ r.asked = remote.asked /\ r.answers = remote.answers /\ r.forks = remote.forks
    /\ r.open \subseteq Node
    /\ \A q \in r.to_answer : q.node \in Node /\ q.first \in Nat

SameAsks(b) == IsBudget(b) /\ b.asks = budget.asks /\ b.heads \subseteq budget.heads

\* The tables without the overdue requests.
LEMMA ForgetSame ==
    ASSUME Types, NEW old
    PROVE  SameTables(ForgetOverdue(ws2p, old))
<1> DEFINE x == Restrict(ws2p.requests_awaiting_response, DOMAIN ws2p.requests_awaiting_response \ old)
<1>1. ForgetOverdue(ws2p, old) = [ws2p EXCEPT !.requests_awaiting_response = x]
  BY DEF ForgetOverdue
<1> HIDE DEF x
<1>2. IsWS2P(ws2p) /\ ws2p.next_receiver \in 0 .. Cardinality(Node)
  BY DEF Types, Shaped, TablesOK
<1> QED BY <1>1, <1>2 DEF SameTables, IsWS2P

\* The remote nodes without the late answers.
LEMMA LateSame ==
    ASSUME Types, NEW old
    PROVE  SameRequests(Late(old)) /\ Late(old).open = remote.open
<1> DEFINE x == {q \in remote.to_answer : q.id \notin old}
<1>1. Late(old) = [remote EXCEPT !.to_answer = x] /\ x \subseteq remote.to_answer
  BY DEF Late
<1> HIDE DEF x
<1>2. IsRemote(remote) /\ remote.open \subseteq Node
      /\ \A q \in remote.to_answer : q.node \in Node /\ q.first \in Nat
  BY DEF Types, Shaped, TablesOK, OthersOK
<1> QED BY <1>1, <1>2 DEF SameRequests, IsRemote

\* Nothing done.
LEMMA NothingSame ==
    ASSUME Types
    PROVE  SameTables(ws2p) /\ SameRequests(remote) /\ SameAsks(budget)
BY DEF Types, Shaped, TablesOK, OthersOK, SameTables, SameRequests, SameAsks

\* Messages move, of which none is about the current block or a request of a
\* remote node.
LEMMA Moves ==
    ASSUME IInv, current' = current, tui' = tui,
           SameTables(ws2p'), SameRequests(remote'), SameAsks(budget'),
           WS2PQueue', WS2PKeeps(News \cup AskedTypes),
           BlockchainQueue', Keeps(to_blockchain, to_blockchain', {"CurrentBlock"}),
           CurrentAsked => CurrentAsked'
    PROVE  IInv'
<1>1. WS2PKeeps(News) /\ WS2PKeeps(AskedTypes)
  BY KeepsFewer DEF WS2PKeeps
<1>2. Types'
  <2>1. Shaped'
    BY DEF IInv, Types, Shaped, SameTables, SameRequests, SameAsks
  <2>2. TablesOK'
    BY DEF IInv, Types, TablesOK, SameTables, SameRequests
  <2>3. OthersOK'
    BY DEF IInv, Types, OthersOK, SameRequests, SameAsks
  <2> QED BY <2>1, <2>2, <2>3 DEF Types
<1>3. Current'
  BY <1>1, CurrentKept DEF IInv, SameTables, SameRequests
<1>4. Shows'
  BY ShowsKept DEF IInv, SameTables
<1>5. Asked'
  <2>1. IsQueue(to_ws2p) /\ IsQueue(to_ws2p') /\ IsQueue(to_blockchain) /\ IsQueue(to_blockchain')
    BY DEF IInv, Types, WS2PQueue, BlockchainQueue
  <2> QED BY <1>1, <2>1, AskedKept DEF IInv, SameTables, SameRequests, SameAsks
<1> QED BY <1>2, <1>3, <1>4, <1>5 DEF IInv

\* A message taken by the main thread of WS2P.
LEMMA WS2PTaken ==
    ASSUME Types, NEW type, WS2PTakes(type)
    PROVE  /\ to_ws2p # <<>> /\ to_ws2p' = Tail(to_ws2p) /\ IsQueue(to_ws2p)
           /\ Head(to_ws2p).type = type /\ ForWS2P(Head(to_ws2p)) /\ WS2PQueue'
           /\ broadcasting' = broadcasting /\ \A T : type \notin T => WS2PKeeps(T)
<1>1. to_ws2p # <<>> /\ to_ws2p' = Tail(to_ws2p) /\ Head(to_ws2p).type = type /\ broadcasting' = broadcasting
  BY DEF WS2PTakes, Takes
<1>2. /\ IsQueue(to_ws2p) /\ \A m \in Range(to_ws2p) : ForWS2P(m)
      /\ IsQueue(broadcasting) /\ \A m \in Range(broadcasting) : ForBroadcast(m)
  BY DEF Types, WS2PQueue
<1>3. IsQueue(to_ws2p') /\ Range(to_ws2p') \subseteq Range(to_ws2p) /\ Head(to_ws2p) \in Range(to_ws2p)
  BY <1>1, <1>2, QueueTail
<1>4. \A T : type \notin T => WS2PKeeps(T)
  BY <1>1, <1>2, KeepsTail, KeepsAll DEF WS2PKeeps
<1> QED BY <1>1, <1>2, <1>3, <1>4 DEF WS2PQueue

\* A message taken by the block-chain module.
LEMMA BlockchainTaken ==
    ASSUME Types, NEW type, Takes(to_blockchain, type), to_blockchain' = Tail(to_blockchain)
    PROVE  /\ to_blockchain # <<>> /\ IsQueue(to_blockchain)
           /\ Head(to_blockchain).type = type /\ ForBlockchain(Head(to_blockchain)) /\ BlockchainQueue'
           /\ \A T : type \notin T => Keeps(to_blockchain, to_blockchain', T)
           /\ type # "CurrentBlockstamp" => (CurrentAsked => CurrentAsked')
<1>1. to_blockchain # <<>> /\ Head(to_blockchain).type = type
  BY DEF Takes
<1>2. IsQueue(to_blockchain) /\ \A m \in Range(to_blockchain) : ForBlockchain(m)
  BY DEF Types, BlockchainQueue
<1>3. /\ IsQueue(to_blockchain') /\ Range(to_blockchain') \subseteq Range(to_blockchain)
      /\ Head(to_blockchain) \in Range(to_blockchain) /\ Head(to_blockchain) = to_blockchain[1]
      /\ \A i \in DOMAIN to_blockchain : i # 1 =>
            i - 1 \in DOMAIN to_blockchain' /\ to_blockchain'[i - 1] = to_blockchain[i]
  BY <1>1, <1>2, QueueTail
<1>4. \A T : type \notin T => Keeps(to_blockchain, to_blockchain', T)
  BY <1>1, <1>2, KeepsTail
<1>5. type # "CurrentBlockstamp" => (CurrentAsked => CurrentAsked')
  BY <1>1, <1>3 DEF CurrentAsked
<1> QED BY <1>1, <1>2, <1>3, <1>4, <1>5 DEF BlockchainQueue

\* Messages put behind those that have reached WS2P.
LEMMA WS2PMore ==
    ASSUME Types, NEW s, IsQueue(s), \A m \in Range(s) : ForWS2P(m), Responds(s)
    PROVE  /\ WS2PQueue' /\ IsQueue(to_ws2p) /\ to_ws2p' = to_ws2p \o s /\ broadcasting' = broadcasting
           /\ \A T : (\A m \in Range(s) : m.type \notin T) => WS2PKeeps(T)
<1>1. /\ IsQueue(to_ws2p) /\ \A m \in Range(to_ws2p) : ForWS2P(m)
      /\ IsQueue(broadcasting) /\ \A m \in Range(broadcasting) : ForBroadcast(m)
  BY DEF Types, WS2PQueue
<1>2. to_ws2p' = to_ws2p \o s /\ broadcasting' = broadcasting
  BY DEF Responds
<1>3. IsQueue(to_ws2p') /\ Range(to_ws2p') = Range(to_ws2p) \cup Range(s)
  BY <1>1, <1>2, QueueMore
<1>4. \A T : (\A m \in Range(s) : m.type \notin T) => WS2PKeeps(T)
  BY <1>1, <1>2, KeepsMore, KeepsAll DEF WS2PKeeps
<1> QED BY <1>1, <1>2, <1>3, <1>4 DEF WS2PQueue

\* One message.
LEMMA WS2PHears ==
    ASSUME Types, NEW m, ForWS2P(m), to_ws2p' = Append(to_ws2p, m), broadcasting' = broadcasting
    PROVE  /\ WS2PQueue' /\ to_ws2p' = to_ws2p \o <<m>>
           /\ \A T : m.type \notin T => WS2PKeeps(T)
<1>1. /\ IsQueue(<<m>>) /\ Range(<<m>>) = {m} /\ Responds(<<m>>)
  BY QueueOne DEF Types, WS2PQueue, Responds
<1> QED BY <1>1, WS2PMore

\* Messages put behind those that the broadcasting thread has for WS2P.
LEMMA BroadcastMore ==
    ASSUME Types, NEW s, IsQueue(s), \A m \in Range(s) : ForBroadcast(m), Broadcasts(s)
    PROVE  /\ WS2PQueue' /\ IsQueue(broadcasting)
           /\ to_ws2p' = to_ws2p /\ broadcasting' = broadcasting \o s
           /\ \A T : (\A m \in Range(s) : m.type \notin T) => WS2PKeeps(T)
<1>1. /\ IsQueue(to_ws2p) /\ \A m \in Range(to_ws2p) : ForWS2P(m)
      /\ IsQueue(broadcasting) /\ \A m \in Range(broadcasting) : ForBroadcast(m)
  BY DEF Types, WS2PQueue
<1>2. to_ws2p' = to_ws2p /\ broadcasting' = broadcasting \o s
  BY DEF Broadcasts
<1>3. IsQueue(broadcasting') /\ Range(broadcasting') = Range(broadcasting) \cup Range(s)
  BY <1>1, <1>2, QueueMore
<1>4. \A T : (\A m \in Range(s) : m.type \notin T) => WS2PKeeps(T)
  BY <1>1, <1>2, KeepsMore, KeepsAll DEF WS2PKeeps
<1> QED BY <1>1, <1>2, <1>3, <1>4 DEF WS2PQueue

\* A message put behind those for the block-chain module.
LEMMA BlockchainHears ==
    ASSUME Types, NEW m, ForBlockchain(m), to_blockchain' = Append(to_blockchain, m)
    PROVE  /\ BlockchainQueue'
           /\ \A T : m.type \notin T => Keeps(to_blockchain, to_blockchain', T)
           /\ CurrentAsked => CurrentAsked'
<1>1. IsQueue(to_blockchain) /\ \A x \in Range(to_blockchain) : ForBlockchain(x)
  BY DEF Types, BlockchainQueue
<1>2. IsQueue(to_blockchain') /\ Range(to_blockchain') = Range(to_blockchain) \cup {m}
  <2>1. to_blockchain' = to_blockchain \o <<m>> /\ IsQueue(<<m>>) /\ Range(<<m>>) = {m}
    BY <1>1, QueueOne
  <2> QED BY <1>1, <2>1, QueueMore
<1>3. \A T : m.type \notin T => Keeps(to_blockchain, to_blockchain', T)
  BY <1>1, KeepsOneMore
<1>4. CurrentAsked => CurrentAsked'
  <2>1. to_blockchain' = to_blockchain \o <<m>> /\ IsQueue(<<m>>)
    BY <1>1, QueueOne
  <2>2. \A i \in DOMAIN to_blockchain : i \in DOMAIN to_blockchain' /\ to_blockchain'[i] = to_blockchain[i]
    BY <1>1, <2>1, QueueMore
  <2> QED BY <2>2 DEF CurrentAsked
<1> QED BY <1>1, <1>2, <1>3, <1>4 DEF BlockchainQueue

\* A queue nothing happens to.
LEMMA QueuesSame ==
    ASSUME Types
    PROVE  /\ to_ws2p' = to_ws2p /\ broadcasting' = broadcasting => WS2PQueue' /\ \A T : WS2PKeeps(T)
           /\ to_blockchain' = to_blockchain =>
                 /\ BlockchainQueue' /\ \A T : Keeps(to_blockchain, to_blockchain', T)
                 /\ CurrentAsked => CurrentAsked'
<1>1. WS2PQueue /\ BlockchainQueue /\ IsQueue(to_ws2p) /\ IsQueue(broadcasting) /\ IsQueue(to_blockchain)
  BY DEF Types, WS2PQueue, BlockchainQueue
<1>2. \A T : /\ Keeps(to_ws2p, to_ws2p, T) /\ Keeps(broadcasting, broadcasting, T)
             /\ Keeps(to_blockchain, to_blockchain, T)
  BY <1>1, KeepsAll
<1> QED BY <1>1, <1>2 DEF WS2PQueue, BlockchainQueue, CurrentAsked, WS2PKeeps

-----------------------------------------------------------------------------
(* The block-chain module. *)

\* The requests for blocks.
LEMMA RequestsForBlocks ==
    ASSUME Types
    PROVE  /\ IsQueue(ChunkRequests)
           /\ \A m \in Range(ChunkRequests) : m.type = "GetBlocks" /\ ForBroadcast(m)
<1> DEFINE first == IF current = NoBlock THEN 0 ELSE current + 1
           chunks == (CurrentId + MAX_BLOCKS_REQUEST - first) \div CHUNK_SIZE + 1
           Chunk(i) == [type |-> "GetBlocks", first |-> first + (i - 1) * CHUNK_SIZE]
<1>1. first \in Nat /\ CHUNK_SIZE \in Nat \ {0}
  BY RequestsAssumption DEF Types, TablesOK, NoBlock
<1>2. CurrentId + MAX_BLOCKS_REQUEST - first \in Nat
  BY RequestsAssumption DEF Types, TablesOK, NoBlock, CurrentId
<1>3. chunks \in Nat
  <2> DEFINE ahead == CurrentId + MAX_BLOCKS_REQUEST - first
  <2> HIDE DEF ahead
  <2>1. ahead \div CHUNK_SIZE \in Nat
    BY <1>1, <1>2 DEF ahead
  <2> QED BY <2>1 DEF ahead
<1>4. ChunkRequests = [i \in 1 .. chunks |-> Chunk(i)]
  BY DEF ChunkRequests
<1> HIDE DEF chunks, first
<1>5. \A i \in 1 .. chunks : Chunk(i).type = "GetBlocks" /\ ForBroadcast(Chunk(i))
  <2> SUFFICES ASSUME NEW i \in 1 .. chunks PROVE ForBroadcast(Chunk(i))
    OBVIOUS
  <2>1. i - 1 \in Nat
    BY <1>3
  <2>2. (i - 1) * CHUNK_SIZE \in Nat
    BY <1>1, <2>1
  <2>3. first + (i - 1) * CHUNK_SIZE \in Nat
    BY <1>1, <2>2
  <2> QED BY <2>3 DEF ForBroadcast, ForWS2P, ModuleTypes, FromTypes, EndState
<1> HIDE DEF Chunk
<1>6. \A m \in Range(ChunkRequests) : \E i \in 1 .. chunks : m = Chunk(i)
  BY <1>4 DEF Range
<1>7. IsQueue(ChunkRequests)
  <2>1. ChunkRequests \in [1 .. chunks -> Range(ChunkRequests)]
    BY <1>4 DEF Range
  <2> QED BY <1>3, <2>1, SequenceOf DEF IsQueue
<1> QED BY <1>5, <1>6, <1>7

\* More requests for blocks.
LEMMA RequestNextKeeps == ASSUME IInv, request_next_main_blocks PROVE IInv'
<1>1. Broadcasts(ChunkRequests)
      /\ UNCHANGED <<current, to_blockchain, ws2p, tui, remote, budget>>
  BY DEF request_next_main_blocks
<1>2. Types /\ SameTables(ws2p') /\ SameRequests(remote') /\ SameAsks(budget')
  BY <1>1, NothingSame DEF IInv
<1>3. WS2PQueue' /\ WS2PKeeps(News \cup AskedTypes)
  BY <1>1, <1>2, RequestsForBlocks, BroadcastMore DEF News, AskedTypes
<1> QED BY <1>1, <1>2, <1>3, Moves, QueuesSame

\* Blocks, or nothing; uids.
LEMMA AnswerOthersKeeps == ASSUME IInv, AnswerBlocks \/ AnswerUids PROVE IInv'
<1>1. PICK response :
        /\ BlockchainAnswers(response) /\ IsQueue(response)
        /\ \A m \in Range(response) : ForWS2P(m) /\ m.type \in {"BlocksResponse", "UIDs"}
        /\ \E type \in {"BlockByNumber", "Chunk", "UIDs"} : Takes(to_blockchain, type)
  <2>1. CASE AnswerBlocks
    <3> DEFINE m == [type |-> "BlocksResponse", id |-> Head(to_blockchain).id]
               response == IF current = NoBlock THEN <<>> ELSE <<m>>
    <3>1. BlockchainAnswers(response)
      BY <2>1 DEF AnswerBlocks
    <3>2. IsQueue(response) /\ Range(response) \subseteq {m}
      BY QueueOne
    <3>3. ForWS2P(m)
      BY DEF ForWS2P, ModuleTypes, FromTypes, EndState
    <3> QED BY <2>1, <3>1, <3>2, <3>3 DEF AnswerBlocks
  <2>2. CASE AnswerUids
    <3> DEFINE m == [type |-> "UIDs", keys |-> Head(to_blockchain).keys]
    <3>1. BlockchainAnswers(<<m>>) /\ Takes(to_blockchain, "UIDs")
      BY <2>2 DEF AnswerUids
    <3>2. IsQueue(<<m>>) /\ Range(<<m>>) = {m}
      BY QueueOne
    <3>3. ForBlockchain(Head(to_blockchain)) /\ Head(to_blockchain).type = "UIDs"
      BY <3>1, BlockchainTaken DEF IInv, BlockchainAnswers
    <3>4. ForWS2P(m)
      BY <3>3 DEF ForWS2P, ForBlockchain, ModuleTypes, FromTypes, EndState
    <3> QED BY <3>1, <3>2, <3>4
  <2> QED BY <2>1, <2>2
<1>2. PICK type \in {"BlockByNumber", "Chunk", "UIDs"} : Takes(to_blockchain, type)
  BY <1>1
<1>3. /\ to_blockchain' = Tail(to_blockchain) /\ Responds(response)
      /\ UNCHANGED <<current, ws2p, tui, remote, budget>>
  BY <1>1 DEF BlockchainAnswers
<1>4. Types /\ SameTables(ws2p') /\ SameRequests(remote') /\ SameAsks(budget')
  BY <1>3, NothingSame DEF IInv
<1>5. WS2PQueue' /\ WS2PKeeps(News \cup AskedTypes)
  BY <1>1, <1>3, <1>4, WS2PMore DEF News, AskedTypes
<1>6. BlockchainQueue' /\ Keeps(to_blockchain, to_blockchain', {"CurrentBlock"})
      /\ (CurrentAsked => CurrentAsked')
  BY <1>2, <1>3, <1>4, BlockchainTaken
<1> QED BY <1>3, <1>4, <1>5, <1>6, Moves

\* The current blockstamp is asked for.
LEMMA PrintStateKeeps == ASSUME IInv, PrintState PROVE IInv'
<1>1. /\ to_blockchain' = Append(to_blockchain, CurrentBlockstampRequest)
      /\ UNCHANGED <<current, broadcasting, to_ws2p, ws2p, tui, remote, budget>>
  BY DEF PrintState, send_dal_request
<1>2. Types /\ SameTables(ws2p') /\ SameRequests(remote') /\ SameAsks(budget')
  BY <1>1, NothingSame DEF IInv
<1>3. ForBlockchain(CurrentBlockstampRequest) /\ CurrentBlockstampRequest.type \notin {"CurrentBlock"}
  BY DEF ForBlockchain, CurrentBlockstampRequest
<1>4. BlockchainQueue' /\ Keeps(to_blockchain, to_blockchain', {"CurrentBlock"})
      /\ (CurrentAsked => CurrentAsked')
  BY <1>1, <1>2, <1>3, BlockchainHears
<1> QED BY <1>1, <1>2, <1>4, Moves, QueuesSame

-----------------------------------------------------------------------------
(* WS2P: requests, answers and documents of the remote nodes. *)

\* There are finitely many nodes, each once in the table of endpoints.
LEMMA NodesCounted ==
    /\ IsFiniteSet(Node) /\ Cardinality(Node) \in Nat
    /\ Cardinality(EstablishedConns) \in Nat /\ Cardinality(EstablishedConns) <= Cardinality(Node)
<1> DEFINE N == Len(EndpointOrder)
<1>1. /\ N \in Nat /\ DOMAIN EndpointOrder = 1 .. N /\ EndpointOrder \in [1 .. N -> Node]
      /\ \A n \in Node : \E i \in 1 .. N : EndpointOrder[i] = n
      /\ \A i, j \in 1 .. N : EndpointOrder[i] = EndpointOrder[j] => i = j
  <2>1. EndpointOrder \in Seq(Node) /\ IsInjective(EndpointOrder) /\ Range(EndpointOrder) = Node
    BY RequestsAssumption
  <2>2. N \in Nat /\ DOMAIN EndpointOrder = 1 .. N /\ EndpointOrder \in [1 .. N -> Node]
    BY <2>1
  <2> HIDE DEF N
  <2>3. \A n \in Node : \E i \in 1 .. N : EndpointOrder[i] = n
    BY <2>1, <2>2 DEF Range
  <2>4. \A i, j \in 1 .. N : EndpointOrder[i] = EndpointOrder[j] => i = j
    BY <2>1, <2>2 DEF IsInjective
  <2> QED BY <2>2, <2>3, <2>4
<1> HIDE DEF N
<1>2. IsFiniteSet(1 .. N)
  BY <1>1, FS_Interval
<1>3. EndpointOrder \in Surjection(1 .. N, Node)
  BY <1>1 DEF Surjection
<1>4. IsFiniteSet(Node)
  BY <1>2, <1>3, FS_Surjection
<1> DEFINE f == [i \in EstablishedConns |-> EndpointOrder[i]]
<1>5. EstablishedConns \subseteq 1 .. N
  BY <1>1 DEF EstablishedConns
<1>6. f \in Injection(EstablishedConns, Node)
  BY <1>1, <1>5 DEF Injection, IsInjective
<1> HIDE DEF f
<1>7. IsFiniteSet(EstablishedConns) /\ Cardinality(EstablishedConns) <= Cardinality(Node)
  BY <1>4, <1>6, FS_Injection
<1> QED BY <1>4, <1>7, FS_CardinalityType

\* The turn taken.
LEMMA TurnSame ==
    ASSUME Types
    PROVE  SameTables(TurnTaken(ws2p))
<1> DEFINE turn == IF HasTurn THEN ws2p.next_receiver + 1 ELSE 0
<1>1. TurnTaken(ws2p) = [ws2p EXCEPT !.next_receiver = turn]
  BY DEF TurnTaken
<1>2. turn \in 0 .. Cardinality(Node)
  BY NodesCounted DEF HasTurn, Types, TablesOK
<1> HIDE DEF turn
<1>3. IsWS2P(ws2p)
  BY DEF Types, Shaped
<1> QED BY <1>1, <1>2, <1>3 DEF SameTables, IsWS2P

\* A response awaited.
LEMMA AwaitingSame ==
    ASSUME NEW w, SameTables(w), NEW n, NEW body
    PROVE  SameTables(Awaiting(w, n, body))
<1> DEFINE x == Put(w.requests_awaiting_response, FreshReqId, [body |-> body, recipient |-> n])
<1>1. Awaiting(w, n, body) = [w EXCEPT !.requests_awaiting_response = x]
  BY DEF Awaiting
<1> HIDE DEF x
<1> QED BY <1>1 DEF SameTables, IsWS2P

\* A request sent.
LEMMA SentSame ==
    ASSUME NEW r, SameRequests(r), NEW n, NEW body, NEW first \in Nat
    PROVE  SameRequests(Sent(r, n, body, first))
<1> DEFINE q == [node |-> n, id |-> FreshReqId, body |-> body, first |-> first]
           x == r.to_answer \cup {q}
<1>1. Sent(r, n, body, first) = IF n \in r.open THEN [r EXCEPT !.to_answer = x] ELSE r
  BY DEF Sent
<1>2. n \in r.open => \A p \in x : p.node \in Node /\ p.first \in Nat
  BY DEF SameRequests
<1> HIDE DEF x
<1> QED BY <1>1, <1>2 DEF SameRequests, IsRemote

\* The next blocks are asked of a remote node.
LEMMA ReceiveReqKeeps == ASSUME IInv, receive_req PROVE IInv'
<1>1. /\ WS2PTakes("GetBlocks") /\ UNCHANGED <<current, to_blockchain, tui, budget>>
      /\ \/ ws2p' = TurnTaken(ws2p) /\ remote' = remote
         \/ /\ ws2p' = Awaiting(TurnTaken(ws2p), Receiver, "GetBlocks")
            /\ remote' = Sent(remote, Receiver, "GetBlocks", Head(to_ws2p).first)
  BY DEF receive_req
<1>2. Types /\ SameRequests(remote) /\ SameAsks(budget') /\ SameTables(TurnTaken(ws2p))
  BY <1>1, NothingSame, TurnSame DEF IInv
<1>3. WS2PQueue' /\ WS2PKeeps(News \cup AskedTypes) /\ Head(to_ws2p).first \in Nat
  BY <1>1, <1>2, WS2PTaken DEF ForWS2P, News, AskedTypes
<1>4. SameTables(ws2p') /\ SameRequests(remote')
  BY <1>1, <1>2, <1>3, AwaitingSame, SentSame
<1> QED BY <1>1, <1>2, <1>3, <1>4, Moves, QueuesSame

\* A response that nobody waits for.
LEMMA ReceiveOtherResponseKeeps == ASSUME IInv, ReceiveOtherResponse PROVE IInv'
<1>1. /\ WS2PTakes("BlocksResponse") /\ UNCHANGED <<current, to_blockchain, ws2p, tui, remote, budget>>
  BY DEF ReceiveOtherResponse
<1>2. Types /\ SameTables(ws2p') /\ SameRequests(remote') /\ SameAsks(budget')
  BY <1>1, NothingSame DEF IInv
<1>3. WS2PQueue' /\ WS2PKeeps(News \cup AskedTypes)
  BY <1>1, <1>2, WS2PTaken DEF News, AskedTypes
<1> QED BY <1>1, <1>2, <1>3, Moves, QueuesSame

\* A block document goes on.
LEMMA ReceiveDocumentKeeps == ASSUME IInv, NEW old, ReceiveDocument(old) PROVE IInv'
<1> DEFINE m == [type |-> "Blocks", blocks |-> Head(to_ws2p).blocks]
<1>1. /\ WS2PTakes("Document") /\ UNCHANGED <<current, tui, budget>>
      /\ ws2p' = ForgetOverdue(ws2p, old) /\ remote' = Late(old)
      /\ to_blockchain' = Append(to_blockchain, m)
  BY DEF ReceiveDocument, ConnTakes
<1>2. Types /\ SameTables(ws2p') /\ SameRequests(remote') /\ SameAsks(budget')
  BY <1>1, NothingSame, ForgetSame, LateSame DEF IInv
<1>3. WS2PQueue' /\ WS2PKeeps(News \cup AskedTypes) /\ ForBlockchain(m)
  BY <1>1, <1>2, WS2PTaken DEF News, AskedTypes, ForWS2P, ForBlockchain
<1>4. BlockchainQueue' /\ Keeps(to_blockchain, to_blockchain', {"CurrentBlock"})
      /\ (CurrentAsked => CurrentAsked')
  BY <1>1, <1>2, <1>3, BlockchainHears
<1> QED BY <1>1, <1>2, <1>3, <1>4, Moves

\* An answer of a remote node, awaited or not.
LEMMA ReceiveReqResponseKeeps == ASSUME IInv, NEW old, ReceiveReqResponse(old) PROVE IInv'
<1> DEFINE w == ForgetOverdue(ws2p, old)
           m == [type |-> "Blocks", blocks |-> Head(to_ws2p).blocks]
<1>1. /\ WS2PTakes("ReqResponse") /\ UNCHANGED <<current, tui, budget>> /\ remote' = Late(old)
      /\ ws2p' = w \/ ws2p' = ForgetOverdue(w, {Head(to_ws2p).id})
      /\ to_blockchain' = Append(to_blockchain, m) \/ to_blockchain' = to_blockchain
  BY DEF ReceiveReqResponse, ConnTakes
<1>2. Types /\ SameTables(w) /\ SameRequests(remote') /\ SameAsks(budget')
  BY <1>1, NothingSame, ForgetSame, LateSame DEF IInv
<1>3. SameTables(ws2p')
  <2> HIDE DEF w
  <2>1. ASSUME NEW x PROVE SameTables([w EXCEPT !.requests_awaiting_response = x])
    BY <1>2 DEF SameTables, IsWS2P
  <2> QED BY <1>1, <1>2, <2>1 DEF ForgetOverdue
<1>4. WS2PQueue' /\ WS2PKeeps(News \cup AskedTypes) /\ ForBlockchain(m)
  BY <1>1, <1>2, WS2PTaken DEF News, AskedTypes, ForWS2P, ForBlockchain
<1>5. BlockchainQueue' /\ Keeps(to_blockchain, to_blockchain', {"CurrentBlock"})
      /\ (CurrentAsked => CurrentAsked')
  BY <1>1, <1>2, <1>4, BlockchainHears, QueuesSame
<1> QED BY <1>1, <1>2, <1>3, <1>4, <1>5, Moves

-----------------------------------------------------------------------------
(* The remote nodes. *)

\* A message of a connection that is not a request.
LEMMA SaysKeeps ==
    ASSUME IInv, NEW m, Says(m), ForWS2P(m), m.type \notin News \cup AskedTypes,
           UNCHANGED <<current, to_blockchain, ws2p, tui>>,
           SameRequests(remote'), SameAsks(budget')
    PROVE  IInv'
<1>1. Types /\ SameTables(ws2p') /\ to_ws2p' = Append(to_ws2p, m) /\ broadcasting' = broadcasting
  BY NothingSame DEF IInv, Says
<1>2. WS2PQueue' /\ WS2PKeeps(News \cup AskedTypes)
  BY <1>1, WS2PHears
<1> QED BY <1>1, <1>2, Moves, QueuesSame

\* A connection is established.
LEMMA RemoteOpensKeeps == ASSUME IInv, NEW n \in Node, RemoteOpens(n) PROVE IInv'
<1> DEFINE m == [type |-> "Established", from |-> n]
<1>1. Says(m) /\ UNCHANGED <<current, to_blockchain, ws2p, tui, budget>>
      /\ remote' = [remote EXCEPT !.open = @ \cup {n}]
  BY DEF RemoteOpens
<1>2. ForWS2P(m) /\ m.type \notin News \cup AskedTypes
  BY DEF ForWS2P, FromTypes, ModuleTypes, EndState, News, AskedTypes
<1>3. SameRequests(remote') /\ SameAsks(budget')
  <2>1. SameRequests(remote) /\ SameAsks(budget)
    BY NothingSame DEF IInv
  <2> QED BY <1>1, <2>1 DEF SameRequests, IsRemote
<1> HIDE DEF m
<1> QED BY <1>1, <1>2, <1>3, SaysKeeps

\* One ends.
LEMMA RemoteEndsKeeps ==
    ASSUME IInv, NEW n \in Node, NEW end \in DOMAIN EndState, RemoteEnds(n, end)
    PROVE  IInv'
<1> DEFINE m == [type |-> end, from |-> n]
           x == {q \in remote.to_answer : q.node # n}
<1>1. /\ Says(m) /\ UNCHANGED <<current, to_blockchain, ws2p, tui>>
      /\ budget' = [budget EXCEPT !.ends = budget.ends \ {<<n, end>>}]
      /\ remote' = [remote EXCEPT !.open = remote.open \ {n}, !.left = remote.left \cup {n}, !.to_answer = x]
  BY DEF RemoteEnds
<1>2. ForWS2P(m) /\ m.type \notin News \cup AskedTypes
  BY DEF ForWS2P, FromTypes, ModuleTypes, EndState, News, AskedTypes
<1>3. SameRequests(remote') /\ SameAsks(budget')
  <2>1. SameRequests(remote) /\ SameAsks(budget) /\ x \subseteq remote.to_answer
    BY NothingSame DEF IInv
  <2> HIDE DEF x
  <2> QED BY <1>1, <2>1 DEF SameRequests, IsRemote, SameAsks, IsBudget
<1> HIDE DEF m
<1> QED BY <1>1, <1>2, <1>3, SaysKeeps

\* A chunk, or the current block, comes.
LEMMA RemoteAnswersKeeps == ASSUME IInv, NEW q \in remote.to_answer, RemoteAnswers(q) PROVE IInv'
<1> DEFINE blocks == IF q.body = "GetBlocks" THEN q.first .. Min({q.first + CHUNK_SIZE - 1, Top}) ELSE {}
           m == [type |-> "ReqResponse", from |-> q.node, id |-> q.id, blocks |-> blocks]
           x == remote.to_answer \ {q}
<1>1. /\ Says(m) /\ UNCHANGED <<current, to_blockchain, ws2p, tui, budget>>
      /\ remote' = [remote EXCEPT !.to_answer = x]
  BY DEF RemoteAnswers
<1>2. SameRequests(remote) /\ SameAsks(budget) /\ x \subseteq remote.to_answer
  BY NothingSame DEF IInv
<1>3. q.node \in Node /\ q.first \in Nat
  BY <1>2 DEF SameRequests
<1>4. blocks \subseteq 0 .. Top
  <2> DEFINE last == q.first + CHUNK_SIZE - 1
  <2>1. last \in Nat /\ Top \in Nat
    BY <1>3, RequestsAssumption
  <2> HIDE DEF last
  <2>2. \E y \in {last, Top} : \A z \in {last, Top} : y <= z
    BY <2>1
  <2>3. Min({last, Top}) \in {last, Top} /\ Min({last, Top}) <= Top
    BY <2>1, <2>2 DEF Min
  <2>4. \A i \in q.first .. Min({last, Top}) : i \in 0 .. Top
    BY <1>3, <2>1, <2>3
  <2> QED BY <2>4 DEF last
<1> HIDE DEF blocks
<1>5. ForWS2P(m) /\ m.type \notin News \cup AskedTypes
  BY <1>3, <1>4 DEF ForWS2P, FromTypes, ModuleTypes, EndState, News, AskedTypes
<1>6. SameRequests(remote') /\ SameAsks(budget')
  <2> HIDE DEF x, m
  <2> QED BY <1>1, <1>2 DEF SameRequests, IsRemote
<1> HIDE DEF m
<1> QED BY <1>1, <1>5, <1>6, SaysKeeps

\* A head is relayed.
LEMMA RemoteRelaysHeadKeeps ==
    ASSUME IInv, NEW n \in Node, NEW head \in budget.heads, RemoteRelaysHead(n, head)
    PROVE  IInv'
<1> DEFINE m == [type |-> "Heads", from |-> n, head |-> head]
<1>1. /\ Says(m) /\ UNCHANGED <<current, to_blockchain, ws2p, tui, remote>>
      /\ budget' = [budget EXCEPT !.heads = budget.heads \ {head}]
  BY DEF RemoteRelaysHead
<1>2. head.node \in Node /\ head.block \in Nat /\ head.step \in Nat
  BY DEF IInv, Types, OthersOK
<1>3. ForWS2P(m) /\ m.type \notin News \cup AskedTypes
  BY <1>2 DEF ForWS2P, FromTypes, ModuleTypes, EndState, News, AskedTypes
<1>4. SameRequests(remote') /\ SameAsks(budget')
  <2>1. SameRequests(remote) /\ SameAsks(budget)
    BY NothingSame DEF IInv
  <2> QED BY <1>1, <2>1 DEF SameAsks, IsBudget
<1> HIDE DEF m
<1> QED BY <1>1, <1>3, <1>4, SaysKeeps

\* The last block is published.
LEMMA RemotePublishesKeeps == ASSUME IInv, NEW n \in Node, RemotePublishes(n) PROVE IInv'
<1> DEFINE m == [type |-> "Document", from |-> n, blocks |-> {Top}]
<1>1. Says(m) /\ UNCHANGED <<current, to_blockchain, ws2p, tui, remote, budget>>
  BY DEF RemotePublishes
<1>2. ForWS2P(m) /\ m.type \notin News \cup AskedTypes
  BY RequestsAssumption DEF ForWS2P, FromTypes, ModuleTypes, EndState, News, AskedTypes
<1>3. SameRequests(remote') /\ SameAsks(budget')
  BY <1>1, NothingSame DEF IInv
<1> HIDE DEF m
<1> QED BY <1>1, <1>2, <1>3, SaysKeeps

-----------------------------------------------------------------------------
(* The current block. *)

\* Of bounded numbers, one is the greatest.
LEMMA GreatestBlock ==
    ASSUME NEW blocks \in SUBSET (0 .. Top), NEW x \in blocks
    PROVE  Max(blocks) \in blocks /\ x <= Max(blocks)
<1> DEFINE Y == {Top - b : b \in blocks}
<1>1. Top \in Nat
  BY RequestsAssumption
<1>2. Y \in SUBSET Nat /\ Y # {}
  <2>1. Top - x \in Y
    OBVIOUS
  <2>2. \A b \in blocks : Top - b \in Nat
    BY <1>1
  <2> QED BY <2>1, <2>2
<1>3. PICK y \in Y : \A z \in Y : y <= z
  <2> HIDE DEF Y
  <2> QED BY <1>2, LeastElement
<1>4. PICK m \in blocks : y = Top - m
  BY <1>3
<1>5. \A b \in blocks : b <= m
  <2> SUFFICES ASSUME NEW b \in blocks PROVE b <= m
    OBVIOUS
  <2>1. Top - b \in Y
    OBVIOUS
  <2> HIDE DEF Y
  <2>2. b \in Nat /\ m \in Nat
    OBVIOUS
  <2>3. Top - m <= Top - b
    BY <1>3, <1>4, <2>1
  <2> QED BY <1>1, <2>2, <2>3
<1>6. \E b \in blocks : \A c \in blocks : b >= c
  BY <1>5
<1>7. Max(blocks) \in blocks /\ \A c \in blocks : Max(blocks) >= c
  BY <1>6 DEF Max
<1>8. x \in Int /\ Max(blocks) \in Int
  <2>1. \A c \in blocks : c \in Int
    OBVIOUS
  <2> QED BY <1>7, <2>1
<1>9. Max(blocks) >= x
  BY <1>7
<1> QED BY <1>7, <1>8, <1>9

\* The head of this node, shown.
LEMMA MyHeadShown ==
    ASSUME Types, NEW b, tui' = OnEvent(tui, ReceiveHeads(MyHead(b)))
    PROVE  /\ IsTui(tui') /\ tui'.connections_status = tui.connections_status
           /\ tui'.established_conns_count = tui.established_conns_count
           /\ Self \in DOMAIN tui'.heads_cache /\ tui'.heads_cache[Self].block = b
           /\ \A n \in Node : n \in DOMAIN tui'.heads_cache <=> n \in DOMAIN tui.heads_cache
           /\ \A n \in Node \cap DOMAIN tui.heads_cache : tui'.heads_cache[n] = tui.heads_cache[n]
<1> DEFINE mine == MyHead(b)
<1>1. tui' = [tui EXCEPT !.heads_cache = Over(tui.heads_cache, mine)] /\ IsTui(tui)
  BY DEF OnEvent, ReceiveHeads, Types, Shaped
<1>2. mine = [n \in {Self} |-> [block |-> b, step |-> 0, uid |-> FALSE]]
  BY DEF MyHead
<1> HIDE DEF mine
<1>3. DOMAIN mine = {Self} /\ mine[Self].block = b /\ Self \notin Node
  BY <1>2, RequestsAssumption
<1> DEFINE all == Over(tui.heads_cache, mine)
<1>4. /\ Self \in DOMAIN all /\ all[Self].block = b
      /\ \A n \in Node : (n \in DOMAIN all <=> n \in DOMAIN tui.heads_cache)
      /\ \A n \in Node \cap DOMAIN tui.heads_cache : all[n] = tui.heads_cache[n]
  BY <1>3 DEF Over
<1> HIDE DEF all
<1> QED BY <1>1, <1>4 DEF IsTui, all

\* The heads of remote nodes, shown as before.
LEMMA ShowsMyHead ==
    ASSUME Types, Shows, NEW b, tui' = OnEvent(tui, ReceiveHeads(MyHead(b))),
           ws2p'.endpoints = ws2p.endpoints, ws2p'.heads_cache = ws2p.heads_cache
    PROVE  Shows'
<1>1. /\ tui'.connections_status = tui.connections_status
      /\ tui'.established_conns_count = tui.established_conns_count
      /\ \A n \in Node : n \in DOMAIN tui'.heads_cache <=> n \in DOMAIN tui.heads_cache
      /\ \A n \in Node \cap DOMAIN tui.heads_cache : tui'.heads_cache[n] = tui.heads_cache[n]
  BY MyHeadShown
<1>2. DOMAIN ws2p.heads_cache \subseteq Node
  BY DEF Types, TablesOK
<1>3. {n \in Node : Shown(n)}' = {n \in Node : Shown(n)} /\ \A n \in Node : Shown(n)' = Shown(n)
  BY <1>1 DEF Shown
<1>4. NetworkIsShown'
  BY <1>1, <1>2, <1>3 DEF Shows, NetworkIsShown
<1> QED BY <1>1, <1>3, <1>4 DEF Shows

\* What a message put behind the others tells last.
LEMMA ToldLast ==
    ASSUME NEW q, IsQueue(q), NEW s, IsQueue(s), s # <<>>,
           \A m \in Range(s) : m.type \in News
    PROVE  LET r == q \o s
           IN  /\ Len(r) \in Tells(r) /\ r[Len(r)] = s[Len(s)] /\ Stacks(q) \subseteq Stacks(r)
               /\ r[Len(r)].type = "StackUpValidBlock" => Len(r) \in Stacks(r)
               /\ \A i \in Tells(r) : i <= Len(r)
               /\ Len(s) = 1 => \A i \in Tells(r) : i # Len(r) => i \in Tells(q) /\ r[i] = q[i]
<1> DEFINE r == q \o s
<1>1. /\ DOMAIN s = 1 .. Len(s) /\ Len(s) \in Nat /\ Len(q) \in Nat
      /\ \A i \in DOMAIN q : i \in DOMAIN r /\ r[i] = q[i] /\ i <= Len(q)
      /\ \A i \in DOMAIN s : Len(q) + i \in DOMAIN r /\ r[Len(q) + i] = s[i]
      /\ \A i \in DOMAIN r : i \in DOMAIN q \/ (i - Len(q) \in DOMAIN s /\ r[i] = s[i - Len(q)] /\ i > Len(q))
      /\ IsQueue(r) /\ DOMAIN q \subseteq Nat
  <2>1. /\ DOMAIN s = 1 .. Len(s) /\ Len(s) \in Nat /\ Len(q) \in Nat
        /\ IsQueue(r) /\ DOMAIN q \subseteq Nat
    BY QueueMore
  <2>2. \A i \in DOMAIN q : i \in DOMAIN r /\ r[i] = q[i] /\ i <= Len(q)
    BY QueueMore
  <2>3. \A i \in DOMAIN s : Len(q) + i \in DOMAIN r /\ r[Len(q) + i] = s[i]
    <3>1. q \in Seq(Range(q) \cup Range(s)) /\ s \in Seq(Range(q) \cup Range(s))
      BY DEF IsQueue
    <3> QED BY <3>1
  <2>4. \A i \in DOMAIN r :
          i \in DOMAIN q \/ (i - Len(q) \in DOMAIN s /\ r[i] = s[i - Len(q)] /\ i > Len(q))
    BY QueueMore, Zenon
  <2> QED BY <2>1, <2>2, <2>3, <2>4
<1>2. Len(s) # 0 /\ Len(r) = Len(q) + Len(s) /\ DOMAIN r = 1 .. Len(r)
  <2>1. q \in Seq(Range(q) \cup Range(s)) /\ s \in Seq(Range(q) \cup Range(s))
    BY DEF IsQueue
  <2> QED BY <2>1
<1> HIDE DEF r
<1>3. Len(s) \in DOMAIN s /\ Len(r) \in DOMAIN r /\ r[Len(r)] = s[Len(s)]
  BY <1>1, <1>2
<1>4. s[Len(s)].type \in News
  BY <1>3 DEF Range
<1>5. Stacks(q) \subseteq Stacks(r)
  BY <1>1 DEF Stacks
<1>6. \A i \in Tells(r) : i <= Len(r)
  BY <1>1, <1>2 DEF Tells
<1>7. ASSUME Len(s) = 1, NEW i \in Tells(r), i # Len(r)
      PROVE  i \in Tells(q) /\ r[i] = q[i]
  <2>1. i \in DOMAIN q
    <3>1. i \in DOMAIN r
      BY DEF Tells
    <3>2. ~(i - Len(q) \in DOMAIN s)
      BY <1>1, <1>2, <1>7, <3>1
    <3> QED BY <1>1, <3>1, <3>2
  <2> QED BY <1>1, <2>1 DEF Tells
<1> QED BY <1>3, <1>4, <1>5, <1>6, <1>7 DEF Tells, Stacks, r

\* The block-chain module answers with its current block.
LEMMA AnswerCurrentBlockstampKeeps == ASSUME IInv, AnswerCurrentBlockstamp PROVE IInv'
<1> DEFINE m == [type |-> "CurrentBlockstamp", block |-> current]
<1>1. /\ Takes(to_blockchain, "CurrentBlockstamp") /\ to_blockchain' = Tail(to_blockchain)
      /\ Responds(<<m>>) /\ to_ws2p' = to_ws2p \o <<m>> /\ broadcasting' = broadcasting
      /\ UNCHANGED <<current, ws2p, tui, remote, budget>>
  BY DEF AnswerCurrentBlockstamp, BlockchainAnswers, Responds
<1>2. /\ Types /\ IsQueue(<<m>>) /\ Range(<<m>>) = {m} /\ ForWS2P(m)
      /\ IsQueue(to_ws2p) /\ IsQueue(to_blockchain)
  BY QueueOne DEF IInv, Types, TablesOK, WS2PQueue, BlockchainQueue, ForWS2P, FromTypes, ModuleTypes, EndState
<1>3. m.type \in News /\ m.type \notin AskedTypes /\ m.block = current
  BY DEF News, AskedTypes
<1> HIDE DEF m
<1>4. /\ WS2PQueue' /\ WS2PKeeps(AskedTypes)
      /\ BlockchainQueue' /\ Keeps(to_blockchain, to_blockchain', {"CurrentBlock"})
  <2>1. WS2PQueue' /\ WS2PKeeps(AskedTypes)
    BY <1>1, <1>2, <1>3, WS2PMore
  <2>2. BlockchainQueue' /\ Keeps(to_blockchain, to_blockchain', {"CurrentBlock"})
    BY <1>1, <1>2, BlockchainTaken
  <2> QED BY <2>1, <2>2
<1>5. Types'
  BY <1>1, <1>2, <1>3, <1>4 DEF Types, Shaped, TablesOK, OthersOK
<1>6. Asked'
  BY <1>1, <1>2, <1>3, <1>4, AskedKept DEF IInv, WS2PQueue, BlockchainQueue
<1>7. Shows'
  BY <1>1, ShowsKept DEF IInv
<1>8. Current'
  <2> DEFINE k == Len(to_ws2p')
  <2>1. PICK s : /\ s = <<m>> /\ s # <<>> /\ Len(s) = 1 /\ s[Len(s)] = m
                 /\ \A x \in Range(s) : x.type \in News
    BY <1>2, <1>3
  <2>3. IsQueue(s) /\ IsQueue(to_ws2p) /\ to_ws2p' = to_ws2p \o s
    BY <1>1, <1>2, <2>1
  <2>2. /\ k \in Tells(to_ws2p') /\ to_ws2p'[k] = m /\ Stacks(to_ws2p) \subseteq Stacks(to_ws2p')
        /\ \A i \in Tells(to_ws2p') : i # k => i \in Tells(to_ws2p) /\ to_ws2p'[i] = to_ws2p[i]
    <3> HIDE DEF m
    <3>1. /\ k \in Tells(to_ws2p \o s) /\ (to_ws2p \o s)[Len(to_ws2p \o s)] = s[Len(s)]
          /\ Stacks(to_ws2p) \subseteq Stacks(to_ws2p \o s)
      BY <2>1, <2>3, ToldLast
    <3>2. \A i \in Tells(to_ws2p \o s) : i # Len(to_ws2p \o s) => i \in Tells(to_ws2p) /\ (to_ws2p \o s)[i] = to_ws2p[i]
      BY <2>1, <2>3, ToldLast
    <3> QED BY <2>1, <2>3, <3>1, <3>2
  <2> HIDE DEF k
  <2> QED BY <1>1, <1>3, <2>2 DEF IInv, Current
<1> QED BY <1>5, <1>6, <1>7, <1>8 DEF IInv

\* A branch fails: from now on Current says nothing of the current block.
LEMMA ForkFailsKeeps == ASSUME IInv, ForkFails PROVE IInv'
<1> DEFINE m == [type |-> "StackUpValidBlock", block |-> ForkBlock]
<1>1. /\ Broadcasts(<<m>>) /\ UNCHANGED <<current, to_blockchain, ws2p, tui>>
      /\ remote' = [remote EXCEPT !.forks = remote.forks + 1]
      /\ budget' = [budget EXCEPT !.forks = budget.forks - 1]
  BY DEF ForkFails
<1>2. /\ Types /\ ForBroadcast(m) /\ IsQueue(to_ws2p) /\ IsQueue(to_blockchain)
      /\ IsQueue(<<m>>) /\ Range(<<m>>) = {m}
  BY QueueOne, RequestsAssumption
     DEF IInv, Types, WS2PQueue, BlockchainQueue, ForBroadcast, ForWS2P, FromTypes, ModuleTypes, EndState,
         Block, ForkBlock, NoBlock
<1>3. m.type \notin AskedTypes
  BY DEF AskedTypes
<1> HIDE DEF m
<1>10. WS2PQueue' /\ WS2PKeeps(AskedTypes)
  BY <1>1, <1>2, <1>3, BroadcastMore
<1>4. BlockchainQueue' /\ Keeps(to_blockchain, to_blockchain', {"CurrentBlock"})
  BY <1>1, <1>2, QueuesSame
<1>5. /\ IsRemote(remote') /\ remote'.open = remote.open /\ remote'.to_answer = remote.to_answer
      /\ remote'.asked = remote.asked /\ remote'.answers = remote.answers
      /\ remote'.forks \in Nat /\ remote'.forks # 0
      /\ IsBudget(budget') /\ budget'.asks = budget.asks /\ budget'.heads = budget.heads
  <2>1. IsRemote(remote) /\ IsBudget(budget) /\ remote.forks \in Nat
    BY <1>2 DEF Types, Shaped, OthersOK
  <2> QED BY <1>1, <2>1 DEF IsRemote, IsBudget
<1>6. Types'
  BY <1>1, <1>2, <1>10, <1>4, <1>5 DEF Types, Shaped, TablesOK, OthersOK
<1>7. Asked'
  BY <1>1, <1>2, <1>10, <1>4, <1>5, AskedKept DEF IInv, WS2PQueue, BlockchainQueue
<1>8. Shows'
  BY <1>1, ShowsKept DEF IInv
<1>9. Current'
  BY <1>1, <1>5 DEF IInv, Current
<1> QED BY <1>6, <1>7, <1>8, <1>9 DEF IInv

\* Blocks that follow the current one are stacked, with an event each.
LEMMA ReceiveBlocksKeeps == ASSUME IInv, ReceiveBlocks PROVE IInv'
<1> DEFINE blocks == Head(to_blockchain).blocks
           reached == IF current + 1 \in blocks THEN Max(blocks) ELSE current
           Stacked(i) == [type |-> "StackUpValidBlock", block |-> current + i]
           s == [i \in 1 .. reached - current |-> Stacked(i)]
<1>1. /\ Takes(to_blockchain, "Blocks") /\ to_blockchain' = Tail(to_blockchain) /\ current' = reached
      /\ Broadcasts(s) /\ UNCHANGED <<ws2p, tui, remote, budget>>
  BY DEF ReceiveBlocks
<1>2. /\ Types /\ current \in NoBlock .. Top /\ Top \in Nat /\ blocks \in SUBSET (0 .. Top)
      /\ IsQueue(to_ws2p) /\ IsQueue(broadcasting) /\ IsQueue(to_blockchain)
      /\ BlockchainQueue' /\ Keeps(to_blockchain, to_blockchain', {"CurrentBlock"})
      /\ (CurrentAsked => CurrentAsked')
  <2>1. Types /\ current \in NoBlock .. Top /\ IsQueue(to_ws2p) /\ IsQueue(broadcasting)
    BY DEF IInv, Types, TablesOK, WS2PQueue
  <2>2. /\ BlockchainQueue' /\ Keeps(to_blockchain, to_blockchain', {"CurrentBlock"})
        /\ (CurrentAsked => CurrentAsked') /\ IsQueue(to_blockchain)
        /\ ForBlockchain(Head(to_blockchain)) /\ Head(to_blockchain).type = "Blocks"
    BY <1>1, <2>1, BlockchainTaken
  <2> QED BY <2>1, <2>2, RequestsAssumption DEF ForBlockchain
<1>3. reached \in current .. Top /\ reached \in NoBlock .. Top /\ (reached # current => current + 1 \in blocks)
  <2>1. CASE current + 1 \in blocks
    <3>1. Max(blocks) \in blocks /\ current + 1 <= Max(blocks)
      BY <1>2, <2>1, GreatestBlock
    <3> QED BY <1>2, <2>1, <3>1 DEF NoBlock
  <2>2. CASE current + 1 \notin blocks
    BY <1>2, <2>2 DEF NoBlock
  <2> QED BY <2>1, <2>2
<1> HIDE DEF blocks, reached
<1>4. reached - current \in Nat /\ current \in Int /\ reached \in Int /\ current + (reached - current) = reached
  BY <1>2, <1>3 DEF NoBlock
<1>5. /\ IsQueue(s) /\ Len(s) = reached - current
      /\ \A x \in Range(s) : ForBroadcast(x) /\ x.type \in News /\ x.type \notin AskedTypes
      /\ reached # current => s # <<>> /\ s[Len(s)] = [type |-> "StackUpValidBlock", block |-> reached]
      /\ reached = current => Range(s) = {}
  <2>1. s \in [1 .. reached - current -> Range(s)]
    BY DEF Range
  <2>2. IsQueue(s) /\ Len(s) = reached - current
    <3> HIDE DEF s
    <3> QED BY <1>4, <2>1, SequenceOf DEF IsQueue
  <2>3. \A i \in 1 .. reached - current :
          ForBroadcast(Stacked(i)) /\ Stacked(i).type \in News /\ Stacked(i).type \notin AskedTypes
    BY <1>2, <1>3 DEF ForBroadcast, ForWS2P, FromTypes, ModuleTypes, EndState, News, AskedTypes, Block, ForkBlock, NoBlock
  <2>4. reached # current => reached - current \in 1 .. reached - current
    BY <1>4
  <2>5. reached = current => 1 .. reached - current = {}
    BY <1>4
  <2>6. reached # current => s[Len(s)] = Stacked(reached - current) /\ Len(s) # 0
    BY <1>4, <2>2, <2>4
  <2>7. \A x \in Range(s) : \E i \in 1 .. reached - current : x = Stacked(i)
    BY DEF Range
  <2>8. Stacked(reached - current) = [type |-> "StackUpValidBlock", block |-> reached]
    BY <1>4
  <2> HIDE DEF Stacked
  <2>9. reached # current => s # <<>>
    BY <2>6
  <2>10. \A x \in Range(s) : ForBroadcast(x) /\ x.type \in News /\ x.type \notin AskedTypes
    BY <2>3, <2>7
  <2>11. reached = current => Range(s) = {}
    BY <2>5, <2>7
  <2> HIDE DEF s
  <2> QED BY <2>2, <2>6, <2>8, <2>9, <2>10, <2>11
<1> HIDE DEF s
<1>6. /\ WS2PQueue' /\ WS2PKeeps(AskedTypes) /\ IsQueue(to_ws2p') /\ IsQueue(broadcasting')
      /\ broadcasting' = broadcasting \o s
  <2>1. WS2PQueue' /\ WS2PKeeps(AskedTypes) /\ broadcasting' = broadcasting \o s
    BY <1>1, <1>2, <1>5, BroadcastMore
  <2> QED BY <2>1 DEF WS2PQueue
<1>7. Types'
  BY <1>1, <1>2, <1>3, <1>6 DEF Types, Shaped, TablesOK, OthersOK
<1>8. Asked'
  BY <1>1, <1>2, <1>6, AskedKept DEF IInv, BlockchainQueue
<1>9. Shows'
  BY <1>1, ShowsKept DEF IInv
<1>10. Current'
  <2>1. CASE reached = current
    <3>1. WS2PKeeps(News)
      BY <1>1, <1>2, <1>5, <2>1, BroadcastMore
    <3> QED BY <1>1, <1>2, <1>6, <2>1, <3>1, CurrentKept DEF IInv
  <2>2. CASE reached # current
    <3> DEFINE r == broadcasting \o s
    <3>1. /\ Len(r) \in Tells(r) /\ r[Len(r)] = s[Len(s)]
          /\ r[Len(r)].type = "StackUpValidBlock" => Len(r) \in Stacks(r)
      BY <1>2, <1>5, <2>2, ToldLast
    <3>2. \A i \in Tells(r) : i <= Len(r)
      BY <1>2, <1>5, <2>2, ToldLast
    <3>3. r = broadcasting' /\ IsQueue(r)
      BY <1>6
    <3> HIDE DEF r
    <3>4. Len(r) \in Stacks(r) /\ r[Len(r)].block = reached
      BY <1>5, <2>2, <3>1
    <3>5. \A i \in Tells(r) : i = Len(r) \/ Len(r) > i
      <4>1. \A i \in Tells(r) : i \in Nat
        BY <3>3, QueueMore, QueueOne DEF Tells
      <4>2. Len(r) \in Nat
        BY <3>3 DEF IsQueue
      <4> QED BY <3>2, <4>1, <4>2
    <3>6. Stacks(r) \subseteq Tells(r)
      BY DEF Stacks, Tells, News
    <3> QED BY <1>1, <3>3, <3>4, <3>5, <3>6 DEF IInv, Current
  <2> QED BY <2>1, <2>2
<1> QED BY <1>7, <1>8, <1>9, <1>10 DEF IInv

\* The broadcasting thread relays an event or a request.  A stacked block it relays is
\* still behind whatever WS2P had to hear before.
LEMMA BroadcastingRelaysKeeps == ASSUME IInv, BroadcastingRelays PROVE IInv'
<1> DEFINE m == Head(broadcasting)
<1>1. /\ broadcasting # <<>> /\ broadcasting' = Tail(broadcasting) /\ to_ws2p' = Append(to_ws2p, m)
      /\ UNCHANGED <<current, to_blockchain, ws2p, tui, remote, budget>>
  BY DEF BroadcastingRelays
<1>2. /\ Types /\ SameTables(ws2p') /\ SameRequests(remote') /\ SameAsks(budget')
      /\ IsQueue(to_ws2p) /\ IsQueue(broadcasting)
      /\ \A x \in Range(to_ws2p) : ForWS2P(x)
      /\ \A x \in Range(broadcasting) : ForBroadcast(x)
  BY <1>1, NothingSame DEF IInv, Types, WS2PQueue
<1>3. /\ IsQueue(broadcasting') /\ Range(broadcasting') \subseteq Range(broadcasting)
      /\ 1 \in DOMAIN broadcasting /\ m = broadcasting[1] /\ m \in Range(broadcasting)
      /\ \A i \in DOMAIN broadcasting' : i + 1 \in DOMAIN broadcasting /\ broadcasting'[i] = broadcasting[i + 1]
                                        /\ i \in Nat \ {0}
      /\ \A i \in DOMAIN broadcasting : i # 1 => i - 1 \in DOMAIN broadcasting'
      /\ DOMAIN broadcasting \subseteq Nat
  BY <1>1, <1>2, QueueTail
<1>4. ForWS2P(m) /\ m.type \in {"GetBlocks", "StackUpValidBlock"} /\ m.type \notin AskedTypes
  BY <1>2, <1>3 DEF ForBroadcast, AskedTypes
<1> HIDE DEF m
<1>5. /\ IsQueue(<<m>>) /\ Range(<<m>>) = {m} /\ <<m>> # <<>> /\ Len(<<m>>) = 1
      /\ to_ws2p' = to_ws2p \o <<m>>
  BY <1>1, <1>2, QueueOne
<1>6. IsQueue(to_ws2p') /\ Range(to_ws2p') = Range(to_ws2p) \cup {m}
  BY <1>2, <1>5, QueueMore
<1>7. WS2PQueue'
  BY <1>2, <1>3, <1>4, <1>6 DEF WS2PQueue
<1>8. ASSUME NEW T, m.type \notin T PROVE WS2PKeeps(T)
  <2>1. Head(broadcasting).type \notin T
    BY <1>8 DEF m
  <2>2. Keeps(broadcasting, Tail(broadcasting), T)
    BY <1>1, <1>2, <2>1, KeepsTail
  <2>3. Keeps(to_ws2p, Append(to_ws2p, m), T)
    BY <1>2, <1>8, KeepsOneMore
  <2> QED BY <1>1, <2>2, <2>3 DEF WS2PKeeps, m
<1>9. /\ BlockchainQueue' /\ Keeps(to_blockchain, to_blockchain', {"CurrentBlock"})
      /\ (CurrentAsked => CurrentAsked')
  BY <1>1, <1>2, QueuesSame
<1>10. CASE m.type = "GetBlocks"
  <2>1. m.type \notin News \cup AskedTypes
    BY <1>10 DEF News, AskedTypes
  <2>2. WS2PKeeps(News \cup AskedTypes)
    BY <1>8, <2>1
  <2> QED BY <1>1, <1>2, <1>7, <1>9, <2>2, Moves
<1>11. CASE m.type = "StackUpValidBlock"
  <2>1. Types'
    BY <1>1, <1>2, <1>7, <1>9 DEF Types, Shaped, TablesOK, OthersOK
  <2>2. Shows'
    BY <1>1, ShowsKept DEF IInv
  <2>3. Asked'
    <3>1. WS2PKeeps(AskedTypes)
      BY <1>4, <1>8
    <3> QED BY <1>1, <1>2, <1>6, <1>9, <3>1, AskedKept DEF IInv, Types, BlockchainQueue
  <2>4. Current'
    <3> DEFINE r == to_ws2p'
               b == broadcasting
               c == broadcasting'
               k == Len(r)
    <3>1. PICK s : s = <<m>> /\ IsQueue(s) /\ s # <<>> /\ Len(s) = 1 /\ s[Len(s)] = m /\ Range(s) = {m}
      BY <1>5
    <3>2. \A x \in Range(s) : x.type \in News
      BY <1>11, <3>1 DEF News
    <3>3. r = to_ws2p \o s
      BY <1>5, <3>1
    <3> DEFINE l == to_ws2p \o s
    <3>4. /\ k \in Tells(r) /\ r[k] = m
          /\ r[k].type = "StackUpValidBlock" => k \in Stacks(r)
      <4>1. Len(l) \in Tells(l)
        BY <1>2, <3>1, <3>2, ToldLast
      <4>2. l[Len(l)] = s[Len(s)]
        BY <1>2, <3>1, <3>2, ToldLast
      <4>3. s[Len(s)].type = "StackUpValidBlock" => Len(l) \in Stacks(l)
        BY <1>2, <3>1, <3>2, ToldLast
      <4>4. r = l
        BY <3>3
      <4> HIDE DEF l, r
      <4> QED BY <3>1, <4>1, <4>2, <4>3, <4>4
    <3>5. \A i \in Tells(r) : i <= k
      BY <1>2, <3>1, <3>2, <3>3, ToldLast
    <3>6. k \in Stacks(r) /\ \A i \in Tells(r) : i = k \/ k > i
      <4>1. DOMAIN r \subseteq Nat /\ k \in Nat
        BY <1>6, QueueMore, QueueOne
      <4>2. \A i \in Tells(r) : i \in Nat
        BY <4>1 DEF Tells
      <4> QED BY <1>11, <3>4, <3>5, <4>1, <4>2
    <3>7. 1 \in Stacks(b) /\ b[1] = m
      BY <1>3, <1>11 DEF Stacks
    <3>8. /\ \A i \in Stacks(c) : i + 1 \in Stacks(b) /\ c[i] = b[i + 1] /\ i \in Nat
          /\ \A j \in Stacks(b) : j \in Nat /\ (j # 1 => j - 1 \in Stacks(c))
      <4>1. \A j \in DOMAIN b : j # 1 => c[j - 1] = b[j]
        BY <1>1, <1>2, QueueTail
      <4> QED BY <1>3, <4>1 DEF Stacks
    <3> HIDE DEF r, b, c, k
    <3>9. ASSUME remote.forks = 0
          PROVE  /\ \A i \in Stacks(c) : c[i].block = current \/ \E j \in Stacks(c) : j > i
                 /\ m.block = current \/ Stacks(c) # {}
      <4>1. \A i \in Stacks(b) : b[i].block = current \/ \E j \in Stacks(b) : j > i
        BY <3>9 DEF IInv, Current, b
      <4>2. ASSUME NEW i \in Stacks(c), NEW j \in Stacks(b), j > i + 1
            PROVE  j - 1 \in Stacks(c) /\ j - 1 > i
        BY <3>8, <4>2
      <4>3. \A i \in Stacks(c) : c[i].block = current \/ \E j \in Stacks(c) : j > i
        BY <3>8, <4>1, <4>2
      <4>4. m.block = current \/ Stacks(c) # {}
        BY <3>7, <3>8, <4>1
      <4> QED BY <4>3, <4>4
    <3> QED BY <1>1, <3>4, <3>6, <3>9 DEF IInv, Current, r, c
  <2> QED BY <2>1, <2>2, <2>3, <2>4 DEF IInv
<1> QED BY <1>4, <1>10, <1>11

\* WS2P hears of the current block, and shows its own head.
LEMMA NewsHeard ==
    ASSUME IInv, NEW type \in News, WS2PTakes(type), NEW block, block = Head(to_ws2p).block, NEW head,
           head = (IF type = "StackUpValidBlock" \/ ws2p.my_head = NoHead THEN block ELSE ws2p.my_head),
           ws2p' = [ws2p EXCEPT !.current_blockstamp = block, !.my_head = head],
           tui' = OnEvent(tui, ReceiveHeads(MyHead(head))),
           UNCHANGED <<current, to_blockchain, remote, budget>>
    PROVE  IInv'
<1>1. /\ Types /\ current \in NoBlock .. Top /\ Top \in Nat /\ IsWS2P(ws2p)
      /\ ws2p.my_head \in Block \cup {NoHead} /\ IsQueue(to_blockchain)
  BY RequestsAssumption DEF IInv, Types, Shaped, TablesOK, BlockchainQueue
<1>2. /\ to_ws2p # <<>> /\ to_ws2p' = Tail(to_ws2p) /\ IsQueue(to_ws2p) /\ Head(to_ws2p).type = type
      /\ ForWS2P(Head(to_ws2p)) /\ WS2PQueue' /\ WS2PKeeps(AskedTypes) /\ broadcasting' = broadcasting
  <2>1. type \notin AskedTypes
    BY DEF News, AskedTypes
  <2> QED BY <1>1, <2>1, WS2PTaken
<1>3. block \in Block /\ head \in Block /\ head # NoHead
  <2>1. block \in Block
    BY <1>1, <1>2 DEF ForWS2P, News, Block, ForkBlock, NoBlock
  <2> QED BY <1>1, <2>1 DEF Block, ForkBlock, NoBlock, NoHead
<1>4. /\ IsWS2P(ws2p') /\ ws2p'.current_blockstamp = block /\ ws2p'.my_head = head
      /\ ws2p'.pending_received_requests = ws2p.pending_received_requests
      /\ ws2p'.next_receiver = ws2p.next_receiver /\ ws2p'.heads_cache = ws2p.heads_cache
      /\ ws2p'.uids_cache = ws2p.uids_cache /\ ws2p'.endpoints = ws2p.endpoints
  BY <1>1 DEF IsWS2P
<1>5. /\ IsTui(tui') /\ tui'.connections_status = tui.connections_status
      /\ tui'.established_conns_count = tui.established_conns_count
      /\ Self \in DOMAIN tui'.heads_cache /\ tui'.heads_cache[Self].block = head
  BY <1>1, MyHeadShown
<1>6. /\ BlockchainQueue' /\ Keeps(to_blockchain, to_blockchain', {"CurrentBlock"})
      /\ (CurrentAsked => CurrentAsked')
  BY <1>1, QueuesSame
<1>7. Types'
  BY <1>1, <1>2, <1>3, <1>4, <1>5, <1>6 DEF Types, Shaped, TablesOK, OthersOK
<1>8. Shows'
  BY <1>1, <1>4, ShowsMyHead DEF IInv
<1>9. Asked'
  BY <1>1, <1>2, <1>4, <1>6, AskedKept DEF IInv, WS2PQueue, BlockchainQueue
<1>10. Current'
  <2> DEFINE q == to_ws2p
             r == to_ws2p'
  <2>1. /\ 1 \in DOMAIN q /\ Head(q) = q[1] /\ DOMAIN q \subseteq Nat
        /\ \A i \in DOMAIN r : i + 1 \in DOMAIN q /\ r[i] = q[i + 1] /\ i \in Nat \ {0}
        /\ \A i \in DOMAIN q : i # 1 => i - 1 \in DOMAIN r /\ r[i - 1] = q[i]
    BY <1>2, QueueTail
  <2> HIDE DEF q, r
  <2>2. q[1].type = type /\ q[1].block = block
    BY <1>2, <2>1 DEF q
  <2>3. 1 \in Tells(q) /\ (type # "StackUpValidBlock" => 1 \notin Stacks(q))
    BY <2>1, <2>2 DEF Tells, Stacks
  <2>4. /\ \A i \in Tells(r) : i + 1 \in Tells(q) /\ r[i] = q[i + 1] /\ i \in Nat
        /\ \A j \in Stacks(q) : j # 1 => j - 1 \in Stacks(r)
        /\ \A j \in Stacks(q) : j \in Nat
        /\ Stacks(r) \subseteq Tells(r)
    BY <2>1 DEF Tells, Stacks, News
  <2>0. Stacks(broadcasting)' = Stacks(broadcasting) /\ broadcasting' = broadcasting
    BY <1>2
  <2> DEFINE more == Stacks(broadcasting) # {}
  <2>5. SUFFICES ASSUME remote.forks = 0
                 PROVE  /\ \A i \in Tells(r) : r[i].block = current \/ (\E j \in Stacks(r) : j > i) \/ more
                        /\ Stacks(r) = {} /\ ~more => block = current /\ head = current
    <3>1. remote.forks = 0 => \A i \in Stacks(broadcasting) :
             broadcasting[i].block = current \/ \E j \in Stacks(broadcasting) : j > i
      BY DEF IInv, Current
    <3> QED BY <1>4, <1>5, <2>0, <2>4, <3>1 DEF Current, r
  <2>6. /\ \A i \in Tells(q) : q[i].block = current \/ (\E j \in Stacks(q) : j > i) \/ more
        /\ Stacks(q) = {} /\ ~more => ws2p.my_head = current \/ ws2p.my_head = NoHead
    BY <2>5 DEF IInv, Current, q
  <2> HIDE DEF more
  <2>7. ASSUME NEW i \in Tells(r), NEW j \in Stacks(q), j > i + 1
        PROVE  j - 1 \in Stacks(r) /\ j - 1 > i
    BY <2>4, <2>7
  <2>8. \A i \in Tells(r) : r[i].block = current \/ (\E j \in Stacks(r) : j > i) \/ more
    BY <2>4, <2>6, <2>7
  <2>9. ASSUME Stacks(r) = {}, ~more PROVE block = current /\ head = current
    <3>1. \A j \in Stacks(q) : j = 1
      BY <2>4, <2>9
    <3>2. block = current
      BY <2>2, <2>3, <2>6, <2>9, <3>1
    <3>3. head = current
      <4>1. CASE type = "StackUpValidBlock"
        BY <3>2, <4>1
      <4>2. CASE type # "StackUpValidBlock"
        <5>1. Stacks(q) = {}
          BY <2>3, <3>1, <4>2
        <5> QED BY <1>1, <2>6, <2>9, <3>2, <5>1 DEF NoBlock, NoHead
      <4> QED BY <4>1, <4>2
    <3> QED BY <3>2, <3>3
  <2> QED BY <2>8, <2>9
<1> QED BY <1>7, <1>8, <1>9, <1>10 DEF IInv

\* A block was stacked, or the block-chain module answered.
LEMMA NewsKeeps == ASSUME IInv, StackUpValidBlock \/ ReceiveCurrentBlockstamp PROVE IInv'
<1>1. CASE StackUpValidBlock
  <2> DEFINE block == Head(to_ws2p).block
  <2>1. /\ WS2PTakes("StackUpValidBlock") /\ UNCHANGED <<current, to_blockchain, remote, budget>>
        /\ ws2p' = [ws2p EXCEPT !.current_blockstamp = block, !.my_head = block]
        /\ tui' = OnEvent(tui, ReceiveHeads(MyHead(block)))
    BY <1>1 DEF StackUpValidBlock, send_network_event
  <2>2. "StackUpValidBlock" \in News
    BY DEF News
  <2> QED BY <2>1, <2>2, NewsHeard
<1>2. CASE ReceiveCurrentBlockstamp
  <2> DEFINE block == Head(to_ws2p).block
             head == IF ws2p.my_head = NoHead THEN block ELSE ws2p.my_head
  <2>1. /\ WS2PTakes("CurrentBlockstamp") /\ UNCHANGED <<current, to_blockchain, remote, budget>>
        /\ ws2p' = [ws2p EXCEPT !.current_blockstamp = block, !.my_head = head]
        /\ tui' = OnEvent(tui, ReceiveHeads(MyHead(head)))
    BY <1>2 DEF ReceiveCurrentBlockstamp, send_network_event
  <2>2. "CurrentBlockstamp" \in News /\ "CurrentBlockstamp" # "StackUpValidBlock"
    BY DEF News
  <2> QED BY <2>1, <2>2, NewsHeard
<1> QED BY <1>1, <1>2

-----------------------------------------------------------------------------
(* Requests of remote nodes. *)

\* The question about a pending request goes back to WS2P with the current block,
\* or is lost when there is none.
LEMMA AnswerCurrentBlockKeeps == ASSUME IInv, AnswerCurrentBlock PROVE IInv'
<1> DEFINE m == [type |-> "CurrentBlock", id |-> Head(to_blockchain).id]
           s == IF current = NoBlock THEN <<>> ELSE <<m>>
<1>1. /\ Takes(to_blockchain, "CurrentBlock") /\ to_blockchain' = Tail(to_blockchain)
      /\ Responds(s) /\ to_ws2p' = to_ws2p \o s /\ UNCHANGED <<current, ws2p, tui, remote, budget>>
  BY DEF AnswerCurrentBlock, BlockchainAnswers, Responds
<1>2. ForWS2P(m) /\ m.type \notin News \cup {"Request"}
  BY DEF ForWS2P, FromTypes, ModuleTypes, EndState, News
<1>3. m.type = "CurrentBlock" /\ m.id = Head(to_blockchain).id
  OBVIOUS
<1> HIDE DEF m
<1>4. /\ IsQueue(s) /\ Range(s) \subseteq {m} /\ DOMAIN s \subseteq {1} /\ \A i \in DOMAIN s : s[i] = m
  BY QueueOne
<1> HIDE DEF s
<1>5. /\ Types /\ IsQueue(to_ws2p) /\ IsQueue(to_blockchain) /\ Head(to_blockchain).type = "CurrentBlock"
      /\ to_blockchain # <<>> /\ BlockchainQueue' /\ (CurrentAsked => CurrentAsked')
  <2>1. Types /\ IsQueue(to_ws2p)
    BY DEF IInv, Types, WS2PQueue
  <2> QED BY <1>1, <2>1, BlockchainTaken
<1>6. /\ WS2PQueue' /\ IsQueue(to_ws2p')
      /\ WS2PKeeps(News) /\ WS2PKeeps({"Request"})
  <2>1. WS2PQueue' /\ WS2PKeeps(News) /\ WS2PKeeps({"Request"})
    BY <1>1, <1>2, <1>4, <1>5, WS2PMore
  <2> QED BY <2>1 DEF WS2PQueue
<1>7. Types'
  BY <1>1, <1>5, <1>6 DEF Types, Shaped, TablesOK, OthersOK
<1>8. Current'
  BY <1>1, <1>5, <1>6, CurrentKept DEF IInv
<1>9. Shows'
  BY <1>1, ShowsKept DEF IInv
<1>10. Asked'
  <2>1. OnTheirWay' /\ PendingOnce' /\ AnsweredOnce' /\ Pending' = Pending
    <3>1. "Request" \in {"Request"}
      OBVIOUS
    <3>2. OnTheirWay' /\ PendingOnce' /\ AnsweredOnce'
      BY <1>1, <1>5, <1>6, <3>1, RequestsKept DEF IInv, Asked
    <3> QED BY <1>1, <3>2 DEF Pending
  <2> DEFINE w == to_ws2p
             x == to_ws2p'
             b == to_blockchain
             y == to_blockchain'
  <2>2. AboutPending(w, Pending) /\ AboutPending(b, Pending) /\ Apart(w, b)
    BY DEF IInv, Asked, Questions
  <2>3. \A i \in DOMAIN x : \/ i \in DOMAIN w /\ x[i] = w[i]
                            \/ i - Len(w) \in DOMAIN s /\ x[i] = s[i - Len(w)]
    BY <1>1, <1>4, <1>5, QueueMore
  <2>4. /\ 1 \in DOMAIN b /\ m.id = b[1].id /\ b[1].type = "CurrentBlock"
        /\ \A i \in DOMAIN y : i + 1 \in DOMAIN b /\ y[i] = b[i + 1] /\ i \in Nat \ {0}
    BY <1>3, <1>5, <1>1, QueueTail
  <2>5. DOMAIN x \subseteq Nat /\ Len(w) \in Nat
    BY <1>5, <1>6, QueueMore, QueueOne
  <2> HIDE DEF w, x, b, y
  <2>6. 1 \in Wanted(b)
    BY <2>4 DEF Wanted
  <2>7. \A i \in Wanted(y) : i + 1 \in Wanted(b) /\ y[i] = b[i + 1] /\ i + 1 # 1 /\ i \in Nat
    BY <2>4 DEF Wanted
  <2>8. \A i \in Wanted(x) : \/ i \in Wanted(w) /\ x[i] = w[i]
                             \/ i = Len(w) + 1 /\ x[i] = m
    <3> SUFFICES ASSUME NEW i \in DOMAIN x, i - Len(w) \in DOMAIN s, x[i] = s[i - Len(w)]
                 PROVE  i = Len(w) + 1 /\ x[i] = m
      BY <2>3 DEF Wanted
    <3>1. i - Len(w) = 1 /\ s[i - Len(w)] = m
      BY <1>4
    <3> QED BY <2>5, <3>1
  <2>9. AboutPending(y, Pending)
    <3>1. \A i, j \in Wanted(y) : i + 1 = j + 1 => i = j
      BY <2>7
    <3> QED BY <2>2, <2>7, <3>1 DEF AboutPending
  <2>10. AboutPending(x, Pending)
    <3>1. \A i \in Wanted(x) : x[i].id \in DOMAIN Pending /\ Pending[x[i].id].req_id = "GetCurrent"
      BY <2>2, <2>4, <2>6, <2>8 DEF AboutPending
    <3>2. ASSUME NEW i \in Wanted(x), NEW j \in Wanted(x), x[i].id = x[j].id PROVE i = j
      BY <2>2, <2>4, <2>6, <2>8, <3>2 DEF AboutPending, Apart
    <3> QED BY <3>1, <3>2 DEF AboutPending
  <2>11. Apart(x, y)
    <3> SUFFICES ASSUME NEW i \in Wanted(x), NEW j \in Wanted(y), x[i].id = y[j].id PROVE FALSE
      BY DEF Apart
    <3>1. CASE i \in Wanted(w) /\ x[i] = w[i]
      BY <2>2, <2>7, <3>1 DEF Apart
    <3>2. CASE x[i] = m
      BY <2>2, <2>4, <2>6, <2>7, <3>2 DEF AboutPending
    <3> QED BY <2>8, <3>1, <3>2
  <2>12. Questions'
    BY <2>1, <2>9, <2>10, <2>11 DEF Questions, x, y
  <2> QED BY <2>1, <2>12 DEF Asked
<1> QED BY <1>7, <1>8, <1>9, <1>10 DEF IInv

\* A remote node asks.
LEMMA RemoteAsksKeeps == ASSUME IInv, NEW n \in Node, NEW body \in Body, RemoteAsks(n, body) PROVE IInv'
<1> DEFINE m == [type |-> "Request", from |-> n, id |-> body, body |-> body]
           asks == budget.asks \ {<<n, body>>}
           asked == remote.asked \cup {[node |-> n, body |-> body, exists |-> current # NoBlock]}
<1>1. /\ Says(m) /\ UNCHANGED <<current, to_blockchain, ws2p, tui>> /\ <<n, body>> \in budget.asks
      /\ budget' = [budget EXCEPT !.asks = asks] /\ remote' = [remote EXCEPT !.asked = asked]
  BY DEF RemoteAsks
<1>2. /\ asks \subseteq budget.asks /\ <<n, body>> \notin asks /\ remote.asked \subseteq asked
      /\ \E q \in asked : q.node = n /\ q.body = body
  <2>1. [node |-> n, body |-> body, exists |-> current # NoBlock] \in asked
    OBVIOUS
  <2>2. asks \subseteq budget.asks /\ <<n, body>> \notin asks /\ remote.asked \subseteq asked
    OBVIOUS
  <2> HIDE DEF asked, asks
  <2> QED BY <2>1, <2>2
<1>3. /\ ForWS2P(m) /\ m.type \notin News \cup {"CurrentBlock"}
      /\ m.type = "Request" /\ m.from = n /\ m.body = body
  BY DEF ForWS2P, FromTypes, ModuleTypes, EndState, News
<1> HIDE DEF m, asks, asked
<1>4. /\ Types /\ IsQueue(to_ws2p) /\ IsQueue(to_blockchain)
      /\ to_ws2p' = Append(to_ws2p, m) /\ broadcasting' = broadcasting
      /\ IsBudget(budget) /\ IsRemote(remote)
  BY <1>1 DEF IInv, Types, Shaped, WS2PQueue, BlockchainQueue, Says
<1>5. /\ WS2PQueue' /\ IsQueue(to_ws2p') /\ to_ws2p' = to_ws2p \o <<m>>
      /\ WS2PKeeps(News) /\ WS2PKeeps({"CurrentBlock"})
  <2>1. /\ WS2PQueue' /\ to_ws2p' = to_ws2p \o <<m>>
        /\ WS2PKeeps(News) /\ WS2PKeeps({"CurrentBlock"})
    BY <1>3, <1>4, WS2PHears
  <2> QED BY <2>1 DEF WS2PQueue
<1>6. /\ IsBudget(budget') /\ budget'.asks = asks /\ budget'.heads = budget.heads
      /\ IsRemote(remote') /\ remote'.asked = asked /\ remote'.answers = remote.answers
      /\ remote'.open = remote.open /\ remote'.to_answer = remote.to_answer /\ remote'.forks = remote.forks
  BY <1>1, <1>4 DEF IsBudget, IsRemote
<1>7. /\ BlockchainQueue' /\ Keeps(to_blockchain, to_blockchain', {"CurrentBlock"})
      /\ (CurrentAsked => CurrentAsked')
  BY <1>1, <1>4, QueuesSame
<1>8. Types'
  <2>1. Shaped' /\ TablesOK'
    BY <1>1, <1>4, <1>6 DEF Types, Shaped, TablesOK
  <2>2. OthersOK'
    BY <1>2, <1>4, <1>6 DEF Types, OthersOK
  <2> QED BY <1>5, <1>7, <2>1, <2>2 DEF Types
<1>9. Current'
  BY <1>1, <1>4, <1>5, <1>6, <1>7, CurrentKept DEF IInv
<1>10. Shows'
  BY <1>1, ShowsKept DEF IInv
<1>11. Asked'
  <2> DEFINE t == <<n, body>>
  <2>1. /\ \A u : WasAsked(u) => WasAsked(u)'
        /\ WasAsked(t)' /\ t \in budget.asks /\ t \notin budget'.asks /\ budget'.asks \subseteq budget.asks
    BY <1>1, <1>2, <1>6 DEF WasAsked
  <2>2. \A i \in Requested' : \/ i \in Requested /\ TokenAt(i)' = TokenAt(i)
                              \/ i = Len(to_ws2p) + 1 /\ TokenAt(i)' = t
    <3>1. \A i \in DOMAIN to_ws2p : to_ws2p'[i] = to_ws2p[i]
      BY <1>4, QueueWith
    <3>2. \A i \in DOMAIN to_ws2p' : i \in DOMAIN to_ws2p \/ (i = Len(to_ws2p) + 1 /\ to_ws2p'[i] = m)
      BY <1>4, QueueWith
    <3> QED BY <1>3, <3>1, <3>2 DEF Requested, TokenAt
  <2> HIDE DEF t
  <2>3. OnTheirWay'
    BY <2>1, <2>2 DEF IInv, Asked, OnTheirWay
  <2>4. Pending' = Pending /\ DOMAIN Pending' = DOMAIN Pending /\ \A id : TokenOf(id)' = TokenOf(id)
    BY <1>1 DEF Pending, TokenOf
  <2>5. PendingOnce'
    BY <2>1, <2>2, <2>4 DEF IInv, Asked, PendingOnce
  <2>6. AnsweredOnce'
    BY <1>6, <2>1, <2>2, <2>4 DEF IInv, Asked, AnsweredOnce
  <2>7. Questions'
    <3>1. "CurrentBlock" \in {"CurrentBlock"}
      OBVIOUS
    <3> QED BY <1>1, <1>4, <1>5, <1>7, <3>1, QuestionsKept DEF IInv, Asked
  <2> QED BY <2>3, <2>5, <2>6, <2>7 DEF Asked
<1> QED BY <1>8, <1>9, <1>10, <1>11 DEF IInv

\* A free number is not in use.
LEMMA FirstFreeIsFree ==
    ASSUME NEW used, IsFiniteSet(used)
    PROVE  FirstFree(used) \notin used
<1> DEFINE c == Cardinality(used)
           Free == {i \in 1 .. c + 1 : i \notin used}
<1>1. c \in Nat
  BY FS_CardinalityType
<1> HIDE DEF c
<1>2. Free # {}
  <2> SUFFICES ASSUME 1 .. c + 1 \subseteq used PROVE FALSE
    OBVIOUS
  <2>1. Cardinality(1 .. c + 1) <= c
    BY FS_Subset DEF c
  <2>2. Cardinality(1 .. c + 1) = c + 1
    <3>1. 1 \in Int /\ c + 1 \in Int /\ ~(1 > c + 1) /\ (c + 1) - 1 + 1 = c + 1
      BY <1>1
    <3> QED BY <3>1, FS_Interval
  <2> QED BY <1>1, <2>1, <2>2
<1>3. Free \in SUBSET Nat /\ \A i \in Free : i \in 1 .. c + 1 /\ i \notin used
  BY <1>1
<1>4. PICK i \in Free : \A j \in Free : i <= j
  <2> HIDE DEF Free
  <2> QED BY <1>2, <1>3, LeastElement
<1>5. \A j \in 1 .. i - 1 : j \in used
  <2> SUFFICES ASSUME NEW j \in 1 .. i - 1, j \notin used PROVE FALSE
    OBVIOUS
  <2>1. i \in 1 .. c + 1
    BY <1>3
  <2>2. j \in Free /\ j \in Nat /\ j < i
    BY <1>1, <2>1
  <2> HIDE DEF Free
  <2>3. i <= j
    BY <1>4, <2>2
  <2> QED BY <1>1, <2>1, <2>2, <2>3
<1>6. i \in 1 .. c + 1 /\ i \notin used
  BY <1>3
<1>7. FirstFree(used) \notin used
  BY <1>5, <1>6 DEF FirstFree, c
<1> QED BY <1>7

\* WS2P takes a message: the others are one place nearer.
LEMMA RequestsTaken ==
    ASSUME Types, NEW type, WS2PTakes(type)
    PROVE  /\ \A i \in Requested' : i + 1 \in Requested /\ TokenAt(i)' = TokenAt(i + 1)
           /\ \A i \in Wanted(to_ws2p') : i + 1 \in Wanted(to_ws2p) /\ to_ws2p'[i] = to_ws2p[i + 1]
           /\ \A i \in DOMAIN to_ws2p' : i \in Nat \ {0}
           /\ 1 \in DOMAIN to_ws2p /\ to_ws2p[1] = Head(to_ws2p) /\ to_ws2p[1].type = type
<1>1. /\ \A i \in DOMAIN to_ws2p' : i + 1 \in DOMAIN to_ws2p /\ to_ws2p'[i] = to_ws2p[i + 1] /\ i \in Nat \ {0}
      /\ 1 \in DOMAIN to_ws2p /\ to_ws2p[1] = Head(to_ws2p) /\ to_ws2p[1].type = type
  <2>1. IsQueue(to_ws2p) /\ to_ws2p # <<>> /\ to_ws2p' = Tail(to_ws2p) /\ Head(to_ws2p).type = type
    BY WS2PTaken
  <2> QED BY <2>1, QueueTail
<1> QED BY <1>1 DEF Requested, TokenAt, Wanted

\* One request is answered that was not.
LEMMA AnswersMore ==
    ASSUME AnsweredOnce, NEW n, NEW body,
           remote'.asked = remote.asked, budget'.asks = budget.asks,
           \/ remote'.answers = remote.answers
           \/ remote'.answers = remote.answers (+) SetToBag({<<n, body, body>>}),
           WasAsked(<<n, body>>), <<n, body>> \notin budget.asks,
           \A a \in DOMAIN remote.answers : AnswersTo(a) # <<n, body>>,
           \A i \in Requested' : /\ TokenAt(i)' # <<n, body>>
                                 /\ \E j \in Requested : TokenAt(i)' = TokenAt(j),
           \A id \in DOMAIN Pending' : /\ TokenOf(id)' # <<n, body>>
                                       /\ id \in DOMAIN Pending /\ TokenOf(id)' = TokenOf(id)
    PROVE  AnsweredOnce'
<1> DEFINE new == <<n, body, body>>
<1>1. \A t : WasAsked(t)' = WasAsked(t)
  BY DEF WasAsked
<1>2. \A a : AnswersTo(a)' = AnswersTo(a)
  BY DEF AnswersTo
<1>3. AnswersTo(new) = <<n, body>> /\ new[2] = new[3]
  BY DEF AnswersTo
<1> HIDE DEF new
<1>4. \A a \in DOMAIN remote'.answers :
        \/ a \in DOMAIN remote.answers /\ remote'.answers[a] = remote.answers[a]
        \/ a = new /\ remote'.answers[a] = 1
  <2>1. CASE remote'.answers = remote.answers
    BY <2>1
  <2>2. CASE remote'.answers = remote.answers (+) SetToBag({new})
    <3>1. new \notin DOMAIN remote.answers
      BY <1>3
    <3>2. \A a \in DOMAIN remote.answers : remote.answers[a] = 1
      BY DEF AnsweredOnce
    <3> QED BY <2>2, <3>1, <3>2 DEF \oplus, SetToBag
  <2> QED BY <2>1, <2>2 DEF new
<1>5. \A a \in DOMAIN remote'.answers :
        /\ remote'.answers[a] = 1 /\ a[2] = a[3]
        /\ WasAsked(AnswersTo(a)) /\ AnswersTo(a) \notin budget.asks
        /\ \A i \in Requested' : TokenAt(i)' # AnswersTo(a)
        /\ \A id \in DOMAIN Pending' : TokenOf(id)' # AnswersTo(a)
  <2> SUFFICES ASSUME NEW a \in DOMAIN remote'.answers
               PROVE  /\ remote'.answers[a] = 1 /\ a[2] = a[3]
                      /\ WasAsked(AnswersTo(a)) /\ AnswersTo(a) \notin budget.asks
                      /\ \A i \in Requested' : TokenAt(i)' # AnswersTo(a)
                      /\ \A id \in DOMAIN Pending' : TokenOf(id)' # AnswersTo(a)
    OBVIOUS
  <2>1. CASE a \in DOMAIN remote.answers /\ remote'.answers[a] = remote.answers[a]
    BY <2>1 DEF AnsweredOnce
  <2>2. CASE a = new /\ remote'.answers[a] = 1
    BY <1>3, <2>2
  <2> QED BY <1>4, <2>1, <2>2
<1> QED BY <1>1, <1>2, <1>5 DEF AnsweredOnce

\* An answer is sent, or lost.
LEMMA ResponseSent ==
    ASSUME NEW r, SameRequests(r), NEW n, NEW body, SendResponse(r, n, body, body)
    PROVE  /\ SameRequests([remote' EXCEPT !.answers = remote.answers]) /\ IsRemote(remote')
           /\ remote'.asked = remote.asked
           /\ \/ remote'.answers = remote.answers
              \/ remote'.answers = remote.answers (+) SetToBag({<<n, body, body>>})
<1> DEFINE more == r.answers (+) SetToBag({<<n, body, body>>})
<1>1. remote' = r \/ remote' = [r EXCEPT !.answers = more]
  BY DEF SendResponse
<1> HIDE DEF more
<1>2. IsRemote(r) /\ r.answers = remote.answers
  BY DEF SameRequests
<1>3. remote' = [r EXCEPT !.answers = remote'.answers] /\ remote'.answers \in {r.answers, more}
  BY <1>1, <1>2 DEF IsRemote
<1>4. IsRemote(remote') /\ remote'.asked = r.asked /\ [remote' EXCEPT !.answers = remote.answers] = r
  BY <1>2, <1>3 DEF IsRemote
<1> QED BY <1>2, <1>3, <1>4 DEF SameRequests, more

\* The requests that are pending and the answers apart, nothing changes.
LEMMA RequestsMove ==
    ASSUME IInv, UNCHANGED <<current, tui, budget>>, IsWS2P(ws2p'), IsRemote(remote'),
           SameTables([ws2p' EXCEPT !.pending_received_requests = ws2p.pending_received_requests]),
           SameRequests([remote' EXCEPT !.answers = remote.answers]),
           WS2PQueue', BlockchainQueue', WS2PKeeps(News), CurrentAsked => CurrentAsked'
    PROVE  Types' /\ Current' /\ Shows'
<1>1. /\ ws2p'.current_blockstamp = ws2p.current_blockstamp /\ ws2p'.my_head = ws2p.my_head
      /\ ws2p'.heads_cache = ws2p.heads_cache /\ ws2p'.uids_cache = ws2p.uids_cache
      /\ ws2p'.endpoints = ws2p.endpoints /\ ws2p'.next_receiver \in 0 .. Cardinality(Node)
  BY DEF SameTables, IsWS2P
<1>2. /\ remote'.forks = remote.forks /\ remote'.open \subseteq Node
      /\ \A q \in remote'.to_answer : q.node \in Node /\ q.first \in Nat
  BY DEF SameRequests, IsRemote
<1>3. Types'
  BY <1>1, <1>2 DEF IInv, Types, Shaped, TablesOK, OthersOK
<1>4. Current'
  <2>1. IsQueue(to_ws2p')
    BY DEF WS2PQueue
  <2> QED BY <1>1, <1>2, <2>1, CurrentKept DEF IInv
<1>5. Shows'
  BY <1>1, ShowsKept DEF IInv
<1> QED BY <1>3, <1>4, <1>5

\* The current block comes for a pending request, which is answered.
LEMMA ReceiveCurrentBlockKeeps == ASSUME IInv, ReceiveCurrentBlock PROVE IInv'
<1> DEFINE id == Head(to_ws2p).id
           rest == Restrict(Pending, DOMAIN Pending \ {id})
           n == Pending[id].from
           t == <<n, "GetCurrent">>
<1>1. WS2PTakes("CurrentBlock") /\ UNCHANGED <<current, to_blockchain, tui, budget>>
  BY DEF ReceiveCurrentBlock
<1>2. /\ Types /\ IsWS2P(ws2p) /\ SameTables(ws2p) /\ SameRequests(remote)
      /\ IsQueue(to_ws2p) /\ IsQueue(to_blockchain)
  BY NothingSame DEF IInv, Types, Shaped, WS2PQueue, BlockchainQueue
<1>3. /\ WS2PQueue' /\ IsQueue(to_ws2p') /\ WS2PKeeps(News)
      /\ to_ws2p # <<>> /\ to_ws2p' = Tail(to_ws2p)
  <2>1. /\ WS2PQueue' /\ WS2PKeeps(News)
        /\ to_ws2p # <<>> /\ to_ws2p' = Tail(to_ws2p)
    BY <1>1, <1>2, WS2PTaken DEF News
  <2> QED BY <2>1 DEF WS2PQueue
<1>4. /\ \A i \in Requested' : i + 1 \in Requested /\ TokenAt(i)' = TokenAt(i + 1)
      /\ \A i \in Wanted(to_ws2p') : i + 1 \in Wanted(to_ws2p) /\ to_ws2p'[i] = to_ws2p[i + 1]
      /\ \A i \in DOMAIN to_ws2p' : i \in Nat \ {0}
      /\ 1 \in DOMAIN to_ws2p /\ to_ws2p[1] = Head(to_ws2p) /\ to_ws2p[1].type = "CurrentBlock"
  BY <1>1, <1>2, RequestsTaken
<1>5. /\ BlockchainQueue' /\ (CurrentAsked => CurrentAsked')
  BY <1>1, <1>2, QueuesSame
<1>6. /\ AboutPending(to_ws2p, Pending) /\ AboutPending(to_blockchain, Pending)
      /\ Apart(to_ws2p, to_blockchain) /\ OnTheirWay /\ PendingOnce /\ AnsweredOnce
  BY DEF IInv, Asked, Questions
<1>7. 1 \in Wanted(to_ws2p) /\ to_ws2p[1].id = id
  BY <1>4 DEF Wanted
<1>8. id \in DOMAIN Pending /\ Pending[id].req_id = "GetCurrent" /\ TokenOf(id) = t
  BY <1>6, <1>7 DEF AboutPending, TokenOf
<1>9. /\ ws2p' = [ws2p EXCEPT !.pending_received_requests = rest]
      /\ SendResponse(remote, n, "GetCurrent", "GetCurrent")
  BY <1>8 DEF ReceiveCurrentBlock, Pending
<1>10. /\ DOMAIN rest = DOMAIN Pending \ {id}
       /\ \A x \in DOMAIN rest : rest[x] = Pending[x]
  BY DEF Restrict
<1> HIDE DEF rest, id, n
<1>11. Pending' = rest /\ IsWS2P(ws2p') /\ [ws2p' EXCEPT !.pending_received_requests = ws2p.pending_received_requests] = ws2p
  BY <1>2, <1>9 DEF IsWS2P, Pending
<1>12. /\ SameRequests([remote' EXCEPT !.answers = remote.answers]) /\ IsRemote(remote')
       /\ remote'.asked = remote.asked
       /\ \/ remote'.answers = remote.answers
          \/ remote'.answers = remote.answers (+) SetToBag({<<n, "GetCurrent", "GetCurrent">>})
  BY <1>2, <1>9, ResponseSent
<1>13. Types' /\ Current' /\ Shows'
  BY <1>1, <1>2, <1>3, <1>5, <1>11, <1>12, RequestsMove
<1>14. /\ \A x \in DOMAIN Pending' : x \in DOMAIN Pending /\ x # id /\ Pending'[x] = Pending[x]
       /\ \A x \in DOMAIN Pending' : TokenOf(x)' = TokenOf(x)
       /\ \A x \in DOMAIN Pending : x # id => x \in DOMAIN Pending'
  BY <1>10, <1>11 DEF TokenOf
<1>15. \A u : WasAsked(u)' = WasAsked(u)
  BY <1>12 DEF WasAsked
<1>16. \A i \in Requested' : i \in Nat
  BY <1>4 DEF Requested
<1>17. OnTheirWay'
  <2>1. \A i, j \in Requested' : i + 1 = j + 1 => i = j
    BY <1>16
  <2> QED BY <1>1, <1>4, <1>6, <1>15, <2>1 DEF OnTheirWay
<1>18. PendingOnce'
  <2>1. IsFiniteSet(DOMAIN Pending')
    <3>1. DOMAIN Pending' \subseteq DOMAIN Pending /\ IsFiniteSet(DOMAIN Pending)
      BY <1>6, <1>14 DEF PendingOnce
    <3> QED BY <3>1, FS_Subset
  <2> QED BY <1>1, <1>4, <1>6, <1>14, <1>15, <2>1 DEF PendingOnce
<1>19. AnsweredOnce'
  <2>1. WasAsked(t) /\ t \notin budget.asks
    BY <1>6, <1>8 DEF PendingOnce
  <2>2. \A a \in DOMAIN remote.answers : AnswersTo(a) # t
    BY <1>6, <1>8 DEF AnsweredOnce
  <2>3. \A i \in Requested' : TokenAt(i)' # t /\ \E j \in Requested : TokenAt(i)' = TokenAt(j)
    BY <1>4, <1>6, <1>8 DEF PendingOnce
  <2>4. \A x \in DOMAIN Pending' : TokenOf(x)' # t /\ x \in DOMAIN Pending /\ TokenOf(x)' = TokenOf(x)
    BY <1>6, <1>8, <1>14 DEF PendingOnce
  <2> QED BY <1>1, <1>6, <1>12, <2>1, <2>2, <2>3, <2>4, AnswersMore
<1>20. Questions'
  <2>1. \A i \in Wanted(to_ws2p') : to_ws2p'[i].id # id /\ i \in Nat
    <3> SUFFICES ASSUME NEW i \in Wanted(to_ws2p') PROVE to_ws2p'[i].id # id /\ i \in Nat
      OBVIOUS
    <3>1. i \in Nat /\ i + 1 # 1
      BY <1>4 DEF Wanted
    <3> QED BY <1>4, <1>6, <1>7, <3>1 DEF AboutPending
  <2>2. AboutPending(to_ws2p', Pending')
    <3>1. \A i, j \in Wanted(to_ws2p') : i + 1 = j + 1 => i = j
      BY <2>1
    <3> QED BY <1>4, <1>6, <1>14, <2>1, <3>1 DEF AboutPending
  <2>3. AboutPending(to_blockchain', Pending')
    BY <1>1, <1>6, <1>7, <1>14 DEF AboutPending, Apart
  <2>4. Apart(to_ws2p', to_blockchain')
    BY <1>1, <1>4, <1>6 DEF Apart
  <2> QED BY <2>2, <2>3, <2>4 DEF Questions
<1> QED BY <1>13, <1>17, <1>18, <1>19, <1>20 DEF IInv, Asked

\* A request comes to WS2P: the pending requests, its requirements apart, and the
\* question about it go on.
LEMMA RequestComes ==
    ASSUME IInv, NEW old, receive_ws2p_v1_request(old)
    PROVE  /\ Types' /\ Current' /\ Shows' /\ OnTheirWay' /\ PendingOnce' /\ AnsweredOnce' /\ Questions'
<1> DEFINE m == Head(to_ws2p)
           w == ForgetOverdue(ws2p, old)
           t == <<m.from, m.body>>
<1>1. WS2PTakes("Request") /\ UNCHANGED <<current, tui, budget>>
  BY DEF receive_ws2p_v1_request, ConnTakes
<1>2. /\ Types /\ SameTables(w) /\ SameRequests(Late(old))
      /\ IsQueue(to_ws2p) /\ IsQueue(to_blockchain)
  BY ForgetSame, LateSame DEF IInv, Types, WS2PQueue, BlockchainQueue
<1>3. /\ WS2PQueue' /\ IsQueue(to_ws2p') /\ WS2PKeeps(News)
      /\ WS2PKeeps({"CurrentBlock"}) /\ m.id = m.body /\ m.body \in Body
  <2>1. /\ WS2PQueue' /\ WS2PKeeps(News) /\ WS2PKeeps({"CurrentBlock"})
        /\ ForWS2P(m) /\ m.type = "Request"
    BY <1>1, <1>2, WS2PTaken DEF News
  <2> QED BY <2>1 DEF WS2PQueue, ForWS2P
<1>4. /\ \A i \in Requested' : i + 1 \in Requested /\ TokenAt(i)' = TokenAt(i + 1)
      /\ \A i \in Wanted(to_ws2p') : i + 1 \in Wanted(to_ws2p) /\ to_ws2p'[i] = to_ws2p[i + 1]
      /\ \A i \in DOMAIN to_ws2p' : i \in Nat \ {0}
      /\ 1 \in DOMAIN to_ws2p /\ to_ws2p[1] = m /\ to_ws2p[1].type = "Request"
  BY <1>1, <1>2, RequestsTaken
<1>5. /\ OnTheirWay /\ PendingOnce /\ AnsweredOnce /\ Questions
  BY DEF IInv, Asked
<1>6. 1 \in Requested /\ TokenAt(1) = t /\ \A i \in Requested' : i \in Nat /\ i + 1 # 1
  BY <1>4 DEF Requested, TokenAt
<1>7. /\ WasAsked(t) /\ t \notin budget.asks
      /\ \A i \in Requested' : TokenAt(i)' # t
      /\ \A id \in DOMAIN Pending : TokenOf(id) # t
      /\ \A a \in DOMAIN remote.answers : AnswersTo(a) # t
  BY <1>4, <1>5, <1>6 DEF OnTheirWay, PendingOnce, AnsweredOnce
<1>8. \A i, j \in Requested' : i + 1 = j + 1 => i = j
  BY <1>6
<1>9. CASE m.body = "GetRequirementsPending"
  <2>1. /\ ws2p' = w /\ to_blockchain' = to_blockchain
        /\ SendResponse(Late(old), m.from, m.body, m.body)
    BY <1>3, <1>9 DEF receive_ws2p_v1_request
  <2> HIDE DEF m, w
  <2>2. /\ SameRequests([remote' EXCEPT !.answers = remote.answers]) /\ IsRemote(remote')
        /\ remote'.asked = remote.asked
        /\ \/ remote'.answers = remote.answers
           \/ remote'.answers = remote.answers (+) SetToBag({<<m.from, m.body, m.body>>})
    BY <1>2, <2>1, ResponseSent
  <2>3. /\ BlockchainQueue' /\ Keeps(to_blockchain, to_blockchain', {"CurrentBlock"})
        /\ (CurrentAsked => CurrentAsked')
    BY <1>2, <2>1, QueuesSame
  <2>4. /\ IsWS2P(ws2p') /\ ws2p'.pending_received_requests = ws2p.pending_received_requests
        /\ SameTables([ws2p' EXCEPT !.pending_received_requests = ws2p.pending_received_requests])
    <3>1. IsWS2P(w) /\ w.pending_received_requests = ws2p.pending_received_requests
      BY <1>2 DEF SameTables
    <3>2. [w EXCEPT !.pending_received_requests = ws2p.pending_received_requests] = w
      BY <3>1 DEF IsWS2P
    <3> QED BY <1>2, <2>1, <3>1, <3>2
  <2>5. Types' /\ Current' /\ Shows'
    BY <1>1, <1>3, <2>2, <2>3, <2>4, RequestsMove
  <2>6. Pending' = Pending /\ DOMAIN Pending' = DOMAIN Pending /\ \A id : TokenOf(id)' = TokenOf(id)
    BY <2>4 DEF Pending, TokenOf
  <2>7. \A u : WasAsked(u)' = WasAsked(u)
    BY <2>2 DEF WasAsked
  <2> HIDE DEF t
  <2>8. OnTheirWay'
    BY <1>1, <1>4, <1>5, <1>8, <2>7 DEF OnTheirWay
  <2>9. PendingOnce'
    BY <1>1, <1>4, <1>5, <2>6, <2>7 DEF PendingOnce
  <2>10. AnsweredOnce'
    <3>1. \A i \in Requested' : TokenAt(i)' # t /\ \E j \in Requested : TokenAt(i)' = TokenAt(j)
      BY <1>4, <1>7
    <3>2. \A id \in DOMAIN Pending' : TokenOf(id)' # t /\ id \in DOMAIN Pending /\ TokenOf(id)' = TokenOf(id)
      BY <1>7, <2>6
    <3> QED BY <1>1, <1>5, <1>7, <2>2, <3>1, <3>2, AnswersMore DEF t
  <2>11. Questions'
    <3>1. "CurrentBlock" \in {"CurrentBlock"}
      OBVIOUS
    <3>2. IsQueue(to_blockchain')
      BY <1>2, <2>1
    <3> QED BY <1>2, <1>3, <1>5, <2>3, <2>4, <3>1, <3>2, QuestionsKept
  <2> QED BY <2>5, <2>8, <2>9, <2>10, <2>11
<1>10. CASE m.body # "GetRequirementsPending"
  <2>0. PICK id : id = NextDalRequest
    OBVIOUS
  <2> DEFINE record == [from |-> m.from, req_id |-> m.id]
             more == Put(Pending, id, record)
             question == [type |-> DalRequestFor[m.body], id |-> id]
  <2>1. /\ ws2p' = [w EXCEPT !.pending_received_requests = Put(w.pending_received_requests, id, record)]
        /\ to_blockchain' = Append(to_blockchain, question) /\ remote' = Late(old)
    BY <2>0, <1>10 DEF receive_ws2p_v1_request, send_dal_request
  <2>2. w.pending_received_requests = Pending /\ IsWS2P(w)
    BY <1>2 DEF SameTables, Pending
  <2>3. id \notin DOMAIN Pending
    <3>1. IsFiniteSet(DOMAIN Pending)
      BY <1>5 DEF PendingOnce
    <3>2. id = FirstFree(DOMAIN Pending)
      BY <2>0 DEF NextDalRequest, Pending
    <3> QED BY <3>1, <3>2, FirstFreeIsFree
  <2>4. /\ ForBlockchain(question) /\ question.id = id
        /\ question.type = "CurrentBlock" => m.body = "GetCurrent"
    BY <1>3, <1>10 DEF ForBlockchain, DalRequestFor, Body
  <2>5. record.from = m.from /\ record.req_id = m.body
    BY <1>3
  <2> HIDE DEF record, question, m, w
  <2>6. /\ DOMAIN more = DOMAIN Pending \cup {id} /\ more[id] = record
        /\ \A x \in DOMAIN Pending : more[x] = Pending[x]
    BY <2>3 DEF Put, Over
  <2> HIDE DEF more
  <2>7. /\ Pending' = more /\ IsWS2P(ws2p')
        /\ SameTables([ws2p' EXCEPT !.pending_received_requests = ws2p.pending_received_requests])
    <3>1. ws2p' = [w EXCEPT !.pending_received_requests = more]
      BY <2>1, <2>2 DEF more
    <3>2. IsWS2P(ws2p') /\ Pending' = more
      BY <2>2, <3>1 DEF IsWS2P, Pending
    <3>3. [ws2p' EXCEPT !.pending_received_requests = ws2p.pending_received_requests] = w
      BY <2>2, <3>1 DEF IsWS2P, Pending
    <3> QED BY <1>2, <3>2, <3>3
  <2>8. /\ SameRequests(remote') /\ IsRemote(remote') /\ remote'.answers = remote.answers
        /\ remote'.asked = remote.asked
        /\ SameRequests([remote' EXCEPT !.answers = remote.answers])
    <3>1. SameRequests(remote')
      BY <1>2, <2>1
    <3>2. IsRemote(remote') /\ remote'.answers = remote.answers /\ remote'.asked = remote.asked
      BY <3>1 DEF SameRequests
    <3>3. [remote' EXCEPT !.answers = remote.answers] = remote'
      BY <3>2 DEF IsRemote
    <3> QED BY <3>1, <3>2, <3>3
  <2>9. BlockchainQueue' /\ (CurrentAsked => CurrentAsked')
    BY <1>2, <2>1, <2>4, BlockchainHears
  <2>10. Types' /\ Current' /\ Shows'
    BY <1>1, <1>3, <2>7, <2>8, <2>9, RequestsMove
  <2>11. /\ id \in DOMAIN Pending' /\ TokenOf(id)' = t /\ Pending'[id].req_id = m.body
         /\ \A x \in DOMAIN Pending' : x # id => x \in DOMAIN Pending /\ TokenOf(x)' = TokenOf(x)
         /\ \A x \in DOMAIN Pending : x \in DOMAIN Pending' /\ Pending'[x] = Pending[x] /\ x # id
    BY <2>3, <2>5, <2>6, <2>7 DEF TokenOf
  <2>12. \A u : WasAsked(u)' = WasAsked(u)
    BY <2>8 DEF WasAsked
  <2> HIDE DEF t
  <2>13. OnTheirWay'
    BY <1>1, <1>4, <1>5, <1>8, <2>12 DEF OnTheirWay
  <2>14. PendingOnce'
    <3>1. IsFiniteSet(DOMAIN Pending')
      <4>1. IsFiniteSet(DOMAIN Pending \cup {id})
        BY <1>5, FS_AddElement DEF PendingOnce
      <4> QED BY <2>6, <2>7, <4>1
    <3>2. ASSUME NEW x \in DOMAIN Pending'
          PROVE  /\ WasAsked(TokenOf(x))' /\ TokenOf(x)' \notin budget'.asks
                 /\ \A i \in Requested' : TokenAt(i)' # TokenOf(x)'
      <4>1. CASE x = id
        BY <1>1, <1>7, <2>11, <2>12, <4>1
      <4>2. CASE x # id
        BY <1>1, <1>4, <1>5, <2>11, <2>12, <4>2 DEF PendingOnce
      <4> QED BY <4>1, <4>2
    <3>3. ASSUME NEW x \in DOMAIN Pending', NEW y \in DOMAIN Pending', TokenOf(x)' = TokenOf(y)'
          PROVE  y = x
      BY <1>5, <1>7, <2>11, <3>3 DEF PendingOnce
    <3> QED BY <3>1, <3>2, <3>3 DEF PendingOnce
  <2>15. AnsweredOnce'
    <3>1. \A a : AnswersTo(a)' = AnswersTo(a)
      BY DEF AnswersTo
    <3>2. ASSUME NEW x \in DOMAIN Pending', NEW a \in DOMAIN remote.answers
          PROVE  TokenOf(x)' # AnswersTo(a)
      BY <1>5, <1>7, <2>11 DEF AnsweredOnce
    <3> QED BY <1>1, <1>4, <1>5, <2>8, <2>12, <3>1, <3>2 DEF AnsweredOnce
  <2>16. Questions'
    <3>1. AboutPending(to_ws2p, Pending) /\ AboutPending(to_blockchain, Pending) /\ Apart(to_ws2p, to_blockchain)
      BY <1>5 DEF Questions
    <3>2. \A i \in Wanted(to_ws2p') : i \in Nat
      BY <1>4 DEF Wanted
    <3>3. AboutPending(to_ws2p', Pending')
      <4>1. \A i, j \in Wanted(to_ws2p') : i + 1 = j + 1 => i = j
        BY <3>2
      <4> QED BY <1>4, <2>11, <3>1, <4>1 DEF AboutPending
    <3>4. \A i \in Wanted(to_blockchain') : \/ i \in Wanted(to_blockchain) /\ to_blockchain'[i] = to_blockchain[i]
                                            \/ i = Len(to_blockchain) + 1 /\ to_blockchain'[i] = question
                                               /\ question.type = "CurrentBlock"
      <4>1. \A i \in DOMAIN to_blockchain : to_blockchain'[i] = to_blockchain[i]
        BY <1>2, <2>1, QueueWith
      <4>2. \A i \in DOMAIN to_blockchain' : i \in DOMAIN to_blockchain \/ (i = Len(to_blockchain) + 1 /\ to_blockchain'[i] = question)
        BY <1>2, <2>1, QueueWith
      <4> QED BY <4>1, <4>2 DEF Wanted
    <3>5. AboutPending(to_blockchain', Pending')
      <4>1. \A i \in Wanted(to_blockchain') :
              to_blockchain'[i].id \in DOMAIN Pending' /\ Pending'[to_blockchain'[i].id].req_id = "GetCurrent"
        BY <2>4, <2>11, <3>1, <3>4 DEF AboutPending
      <4>2. ASSUME NEW i \in Wanted(to_blockchain'), NEW j \in Wanted(to_blockchain'),
                   to_blockchain'[i].id = to_blockchain'[j].id
            PROVE  i = j
        BY <2>4, <2>11, <3>1, <3>4, <4>2 DEF AboutPending
      <4> QED BY <4>1, <4>2 DEF AboutPending
    <3>6. Apart(to_ws2p', to_blockchain')
      <4> SUFFICES ASSUME NEW i \in Wanted(to_ws2p'), NEW j \in Wanted(to_blockchain'),
                          to_ws2p'[i].id = to_blockchain'[j].id
                   PROVE  FALSE
        BY DEF Apart
      <4>1. i + 1 \in Wanted(to_ws2p) /\ to_ws2p'[i] = to_ws2p[i + 1]
        BY <1>4
      <4>2. to_ws2p'[i].id # id
        BY <2>11, <3>1, <4>1 DEF AboutPending
      <4> QED BY <2>4, <3>1, <3>4, <4>1, <4>2 DEF Apart
    <3> QED BY <3>3, <3>5, <3>6 DEF Questions
  <2> QED BY <2>10, <2>13, <2>14, <2>15, <2>16
<1> QED BY <1>9, <1>10

\* The same, for the invariant.
LEMMA RequestComesKeeps == ASSUME IInv, NEW old, receive_ws2p_v1_request(old) PROVE IInv'
BY RequestComes DEF IInv, Asked

-----------------------------------------------------------------------------
(* What the user interface is told. *)

Statuses == [Node -> [status : State \cup {"Unknown"}, uid : BOOLEAN]]
ShownConns(t) == {n \in Node : t.connections_status[n].status = "Established"}

\* A table of the user interface, whose count is not too high.
TuiOK(t) ==
    /\ IsTui(t) /\ t.connections_status \in Statuses /\ t.established_conns_count \in Nat
    /\ t.established_conns_count <= Cardinality(ShownConns(t))

\* Heads are shown over those shown before.
LEMMA HeadsShown ==
    ASSUME NEW t, TuiOK(t), NEW heads, NEW u, u = OnEvent(t, ReceiveHeads(heads))
    PROVE  /\ TuiOK(u) /\ u.connections_status = t.connections_status
           /\ DOMAIN u.heads_cache = DOMAIN t.heads_cache \cup DOMAIN heads
           /\ \A n \in DOMAIN heads : u.heads_cache[n] = heads[n]
           /\ \A n \in DOMAIN t.heads_cache \ DOMAIN heads : u.heads_cache[n] = t.heads_cache[n]
<1> DEFINE all == Over(t.heads_cache, heads)
<1>1. u = [t EXCEPT !.heads_cache = all]
  BY DEF OnEvent, ReceiveHeads
<1>2. /\ DOMAIN all = DOMAIN t.heads_cache \cup DOMAIN heads
      /\ \A n \in DOMAIN heads : all[n] = heads[n]
      /\ \A n \in DOMAIN t.heads_cache \ DOMAIN heads : all[n] = t.heads_cache[n]
  BY DEF Over
<1> HIDE DEF all
<1>3. /\ IsTui(u) /\ u.connections_status = t.connections_status
      /\ u.established_conns_count = t.established_conns_count /\ u.heads_cache = all
  BY <1>1 DEF TuiOK, IsTui
<1>4. ShownConns(u) = ShownConns(t)
  BY <1>3 DEF ShownConns
<1> QED BY <1>2, <1>3, <1>4 DEF TuiOK

\* The state of a connection is shown, and counted.
LEMMA StateShown ==
    ASSUME NEW t, TuiOK(t), NEW n \in Node, NEW status \in State, NEW uid \in BOOLEAN,
           NEW u, u = OnEvent(t, StateChange(n, status, uid))
    PROVE  /\ TuiOK(u) /\ u.heads_cache = t.heads_cache /\ u.connections_status[n].status = status
           /\ \A m \in Node \ {n} : u.connections_status[m] = t.connections_status[m]
<1> DEFINE e == StateChange(n, status, uid)
           count == CountAfter(t, e)
           before == t.connections_status[n].status
           old == t.established_conns_count
<1>1. /\ e.event # "ReceiveHeads" /\ e.node = n /\ e.status = status /\ e.uid = uid
  BY DEF StateChange
<1>2. u = [t EXCEPT !.established_conns_count = count,
                    !.connections_status[n] = [status |-> status, uid |-> uid]]
  BY <1>1 DEF OnEvent
<1>3. \/ /\ status = "Established" /\ before \notin {"Established", "Unknown"} /\ count = old + 1
      \/ /\ status # "Established" /\ before = "Established" /\ old > 0 /\ count = old - 1
      \/ /\ count = old /\ (status = "Established" \/ before # "Established" \/ ~(old > 0))
  BY <1>1 DEF CountAfter
<1> HIDE DEF e, count
<1>4. IsTui(t) /\ t.connections_status \in Statuses /\ old \in Nat /\ old <= Cardinality(ShownConns(t))
  BY DEF TuiOK
<1>5. /\ IsTui(u) /\ u.heads_cache = t.heads_cache /\ u.established_conns_count = count
      /\ u.connections_status = [t.connections_status EXCEPT ![n] = [status |-> status, uid |-> uid]]
  BY <1>2, <1>4 DEF IsTui
<1>6. /\ u.connections_status \in Statuses /\ u.connections_status[n].status = status
      /\ \A m \in Node \ {n} : u.connections_status[m] = t.connections_status[m]
  BY <1>4, <1>5 DEF Statuses
<1>7. count \in Nat /\ count <= Cardinality(ShownConns(u))
  <2> DEFINE S == ShownConns(t)
  <2>1. ShownConns(u) = IF status = "Established" THEN S \cup {n} ELSE S \ {n}
    BY <1>6 DEF ShownConns
  <2>2. (n \in S) = (before = "Established")
    BY DEF ShownConns
  <2>3. IsFiniteSet(S)
    <3>1. S \subseteq Node
      BY DEF ShownConns
    <3> QED BY <3>1, NodesCounted, FS_Subset
  <2> HIDE DEF S
  <2>4. /\ Cardinality(S) \in Nat
        /\ Cardinality(S \cup {n}) = IF n \in S THEN Cardinality(S) ELSE Cardinality(S) + 1
        /\ Cardinality(S \ {n}) = IF n \in S THEN Cardinality(S) - 1 ELSE Cardinality(S)
    <3>1. Cardinality(S) \in Nat
      BY <2>3, FS_CardinalityType
    <3>2. Cardinality(S \cup {n}) = IF n \in S THEN Cardinality(S) ELSE Cardinality(S) + 1
      BY <2>3, FS_AddElement
    <3>3. Cardinality(S \ {n}) = IF n \in S THEN Cardinality(S) - 1 ELSE Cardinality(S)
      BY <2>3, FS_RemoveElement
    <3> QED BY <3>1, <3>2, <3>3
  <2>5. old <= Cardinality(S)
    BY <1>4 DEF S
  <2>6. Cardinality(S \ {n}) \in Nat
    <3>1. IsFiniteSet(S \ {n})
      BY <2>3, FS_RemoveElement
    <3> QED BY <3>1, FS_CardinalityType
  <2> QED BY <1>3, <1>4, <2>1, <2>2, <2>4, <2>5, <2>6
<1> QED BY <1>5, <1>6, <1>7 DEF TuiOK

\* The interface's tables, of an invariant.
LEMMA TuiTyped ==
    /\ Types /\ Shows => TuiOK(tui)
    /\ \A n \in Node : Shown(n) <=> n \in ShownConns(tui)
<1>1. {n \in Node : Shown(n)} = ShownConns(tui)
  BY DEF ShownConns, Shown
<1> QED BY <1>1 DEF Types, Shaped, TablesOK, Shows, TuiOK, Statuses

\* The shown heads of remote nodes are as new as before, that of this node is the same.
Forward == \A n \in Node \cap DOMAIN tui.heads_cache : tui'.heads_cache[n].block >= tui.heads_cache[n].block
OwnHeadStays ==
    Self \in DOMAIN tui.heads_cache =>
        Self \in DOMAIN tui'.heads_cache /\ tui'.heads_cache[Self].block = tui.heads_cache[Self].block

\* Tables w of WS2P with other heads, uids and connections.
SameNews(w) ==
    /\ IsWS2P(w)
    /\ w.current_blockstamp = ws2p.current_blockstamp /\ w.my_head = ws2p.my_head
    /\ w.pending_received_requests = ws2p.pending_received_requests
    /\ w.next_receiver \in 0 .. Cardinality(Node)
    /\ w.uids_cache \subseteq HasUid /\ w.endpoints \in [Node -> State]
    /\ DOMAIN w.heads_cache \subseteq Node
    /\ \A n \in DOMAIN w.heads_cache : w.heads_cache[n] \in Cached

\* What WS2P and the interface hold of the network changes.
LEMMA NetworkMoves ==
    ASSUME IInv, UNCHANGED <<current, budget>>, SameNews(ws2p'), SameRequests(remote'),
           TuiOK(tui'), Shows', OwnHeadStays,
           WS2PQueue', WS2PKeeps(News \cup AskedTypes),
           BlockchainQueue', Keeps(to_blockchain, to_blockchain', {"CurrentBlock"}),
           CurrentAsked => CurrentAsked'
    PROVE  IInv'
<1>1. WS2PKeeps(News) /\ WS2PKeeps(AskedTypes)
  BY KeepsFewer DEF WS2PKeeps
<1>2. IsQueue(to_ws2p) /\ IsQueue(to_ws2p') /\ IsQueue(to_blockchain) /\ IsQueue(to_blockchain')
  BY DEF IInv, Types, WS2PQueue, BlockchainQueue
<1>3. Types'
  <2>1. Shaped' /\ OthersOK'
    BY DEF IInv, Types, Shaped, OthersOK, SameNews, SameRequests, TuiOK
  <2>2. TablesOK'
    BY DEF IInv, Types, TablesOK, SameNews, SameRequests, TuiOK, Statuses
  <2> QED BY <2>1, <2>2 DEF Types
<1>4. Current'
  BY <1>1, <1>2, CurrentKept DEF IInv, SameNews, SameRequests, OwnHeadStays
<1>5. Asked'
  BY <1>1, <1>2, AskedKept DEF IInv, SameNews, SameRequests
<1> QED BY <1>3, <1>4, <1>5 DEF IInv

\* Heads are renewed, and shown.
Renewed(heads) ==
    /\ DOMAIN heads \subseteq Node
    /\ DOMAIN tui'.heads_cache = DOMAIN tui.heads_cache \cup DOMAIN heads
    /\ \A n \in DOMAIN heads : tui'.heads_cache[n] = heads[n]
    /\ \A n \in DOMAIN tui.heads_cache \ DOMAIN heads : tui'.heads_cache[n] = tui.heads_cache[n]
    /\ DOMAIN ws2p'.heads_cache = DOMAIN ws2p.heads_cache \cup DOMAIN heads
    /\ \A n \in DOMAIN heads :
          /\ ws2p'.heads_cache[n].block = heads[n].block /\ ws2p'.heads_cache[n].step = heads[n].step
          /\ n \in DOMAIN ws2p.heads_cache => heads[n].block >= ws2p.heads_cache[n].block
    /\ \A n \in DOMAIN ws2p.heads_cache \ DOMAIN heads : ws2p'.heads_cache[n] = ws2p.heads_cache[n]

\* What follows for what the interface shows.
LEMMA HeadsRenewed ==
    ASSUME IInv, NEW heads, Renewed(heads), TuiOK(tui'),
           \A n \in Node : ws2p'.endpoints[n] = "Established" => n \in ShownConns(tui')
    PROVE  Shows' /\ Forward /\ OwnHeadStays
<1>1. /\ \A n \in DOMAIN ws2p.heads_cache :
            /\ n \in Node /\ n \in DOMAIN tui.heads_cache /\ ws2p.heads_cache[n].block \in Nat
            /\ tui.heads_cache[n].block = ws2p.heads_cache[n].block
            /\ tui.heads_cache[n].step = ws2p.heads_cache[n].step
      /\ \A n \in Node \cap DOMAIN tui.heads_cache : n \in DOMAIN ws2p.heads_cache
  BY DEF IInv, Shows, NetworkIsShown, Types, TablesOK, Cached
<1>2. {n \in Node : Shown(n)}' = ShownConns(tui') /\ \A n \in Node : Shown(n)' <=> n \in ShownConns(tui')
  BY DEF ShownConns, Shown
<1>3. ASSUME NEW n \in DOMAIN ws2p'.heads_cache
      PROVE  /\ n \in DOMAIN tui'.heads_cache
             /\ tui'.heads_cache[n].block = ws2p'.heads_cache[n].block
             /\ tui'.heads_cache[n].step = ws2p'.heads_cache[n].step
  <2>1. CASE n \in DOMAIN heads
    BY <2>1 DEF Renewed
  <2>2. CASE n \notin DOMAIN heads
    BY <1>1, <2>2 DEF Renewed
  <2> QED BY <2>1, <2>2
<1>4. NetworkIsShown'
  BY <1>2, <1>3 DEF NetworkIsShown
<1>5. Shows'
  <2>1. tui'.established_conns_count <= Cardinality({n \in Node : Shown(n)}')
    BY <1>2 DEF TuiOK
  <2>2. Node \cap DOMAIN tui'.heads_cache \subseteq DOMAIN ws2p'.heads_cache
    BY <1>1 DEF Renewed
  <2> QED BY <1>4, <2>1, <2>2 DEF Shows
<1>6. Forward
  <2> SUFFICES ASSUME NEW n \in Node \cap DOMAIN tui.heads_cache
               PROVE  tui'.heads_cache[n].block >= tui.heads_cache[n].block
    BY DEF Forward
  <2>1. CASE n \in DOMAIN heads
    BY <1>1, <2>1 DEF Renewed
  <2>2. CASE n \notin DOMAIN heads
    <3>1. tui'.heads_cache[n] = tui.heads_cache[n] /\ tui.heads_cache[n].block \in Nat
      BY <1>1, <2>2 DEF Renewed
    <3> QED BY <3>1
  <2> QED BY <2>1, <2>2
<1>7. OwnHeadStays
  <2>1. Self \notin DOMAIN heads
    BY RequestsAssumption DEF Renewed
  <2> QED BY <2>1 DEF Renewed, OwnHeadStays
<1> QED BY <1>5, <1>6, <1>7

\* A connection is established: the new connection is asked for its current block.
LEMMA ConnectionEstablishedKeeps ==
    ASSUME IInv, NEW old, ConnectionEstablished(old)
    PROVE  IInv' /\ Forward
<1> DEFINE w == ForgetOverdue(ws2p, old)
           v == [w EXCEPT !.endpoints[From] = "Established"]
           opened == Awaiting(v, From, "GetCurrent")
           uid == From \in ws2p.uids_cache
           m == UidsRequest({From})
<1>1. /\ WS2PTakes("Established") /\ UNCHANGED <<current, budget>>
      /\ ws2p' = opened /\ remote' = Sent(Late(old), From, "GetCurrent", 0)
      /\ to_blockchain' = to_blockchain \/ to_blockchain' = Append(to_blockchain, m)
      /\ tui' = OnEvent(tui, StateChange(From, "Established", uid))
  BY DEF ConnectionEstablished, ConnTakes, send_dal_request, send_network_event
<1>2. /\ Types /\ SameTables(w) /\ SameRequests(Late(old)) /\ TuiOK(tui) /\ 0 \in Nat
  BY ForgetSame, LateSame, TuiTyped DEF IInv
<1>3. /\ WS2PQueue' /\ WS2PKeeps(News \cup AskedTypes) /\ From \in Node
  <2>1. /\ WS2PQueue' /\ WS2PKeeps(News \cup AskedTypes)
        /\ ForWS2P(Head(to_ws2p)) /\ Head(to_ws2p).type = "Established"
    BY <1>1, <1>2, WS2PTaken DEF News, AskedTypes
  <2> QED BY <2>1 DEF ForWS2P, FromTypes, From
<1>4. SameRequests(remote')
  BY <1>1, <1>2, SentSame
<1>5. /\ BlockchainQueue' /\ Keeps(to_blockchain, to_blockchain', {"CurrentBlock"})
      /\ (CurrentAsked => CurrentAsked')
  <2>1. ForBlockchain(m) /\ m.type \notin {"CurrentBlock"}
    BY <1>3 DEF ForBlockchain, UidsRequest
  <2> HIDE DEF m
  <2> QED BY <1>1, <1>2, <2>1, BlockchainHears, QueuesSame
<1> HIDE DEF w, m
<1>6. PICK n \in Node : n = From
  BY <1>3
<1>7. /\ SameNews(ws2p') /\ ws2p'.heads_cache = ws2p.heads_cache
      /\ ws2p'.endpoints = [ws2p.endpoints EXCEPT ![n] = "Established"]
  <2>1. /\ IsWS2P(w) /\ ws2p.endpoints \in [Node -> State] /\ ws2p.uids_cache \subseteq HasUid
        /\ DOMAIN ws2p.heads_cache \subseteq Node
        /\ \A x \in DOMAIN ws2p.heads_cache : ws2p.heads_cache[x] \in Cached
    BY <1>2 DEF SameTables, Types, TablesOK
  <2>2. /\ IsWS2P(v) /\ v.endpoints = [w.endpoints EXCEPT ![n] = "Established"]
        /\ v.current_blockstamp = w.current_blockstamp /\ v.my_head = w.my_head
        /\ v.pending_received_requests = w.pending_received_requests
        /\ v.next_receiver = w.next_receiver /\ v.uids_cache = w.uids_cache /\ v.heads_cache = w.heads_cache
    BY <1>6, <2>1 DEF IsWS2P
  <2> HIDE DEF v
  <2>3. /\ IsWS2P(opened) /\ opened.endpoints = v.endpoints
        /\ opened.current_blockstamp = v.current_blockstamp /\ opened.my_head = v.my_head
        /\ opened.pending_received_requests = v.pending_received_requests
        /\ opened.next_receiver = v.next_receiver /\ opened.uids_cache = v.uids_cache
        /\ opened.heads_cache = v.heads_cache
    <3> DEFINE x == Put(v.requests_awaiting_response, FreshReqId, [body |-> "GetCurrent", recipient |-> From])
    <3>1. opened = [v EXCEPT !.requests_awaiting_response = x]
      BY DEF Awaiting
    <3> HIDE DEF x, opened
    <3> QED BY <2>2, <3>1 DEF IsWS2P
  <2> HIDE DEF opened
  <2>4. [ws2p.endpoints EXCEPT ![n] = "Established"] \in [Node -> State]
    BY <2>1 DEF State
  <2> QED BY <1>1, <1>2, <2>1, <2>2, <2>3, <2>4 DEF SameNews, SameTables
<1>8. /\ TuiOK(tui') /\ tui'.heads_cache = tui.heads_cache
      /\ tui'.connections_status[n].status = "Established"
      /\ \A x \in Node \ {n} : tui'.connections_status[x] = tui.connections_status[x]
  <2>1. "Established" \in State /\ uid \in BOOLEAN
    BY DEF State
  <2> HIDE DEF uid
  <2> QED BY <1>1, <1>2, <1>6, <2>1, StateShown
<1>9. \A x \in Node : ws2p'.endpoints[x] = "Established" => x \in ShownConns(tui')
  <2>1. \A x \in Node : ws2p.endpoints[x] = "Established" => tui.connections_status[x].status = "Established"
    BY DEF IInv, Shows, NetworkIsShown, Shown
  <2>2. \A x \in Node \ {n} : ws2p'.endpoints[x] = ws2p.endpoints[x]
    BY <1>2, <1>7 DEF Types, TablesOK
  <2> QED BY <1>8, <2>1, <2>2 DEF ShownConns
<1>10. Renewed(<<>>)
  BY <1>7, <1>8 DEF Renewed
<1>11. Shows' /\ Forward /\ OwnHeadStays
  BY <1>8, <1>9, <1>10, HeadsRenewed
<1> QED BY <1>1, <1>3, <1>4, <1>5, <1>7, <1>8, <1>11, NetworkMoves

\* A connection ends, told of or not.
LEMMA ConnectionEndsKeeps ==
    ASSUME IInv, NEW end \in DOMAIN EndState, NEW old, ConnectionEnds(end, old)
    PROVE  IInv' /\ Forward
<1> DEFINE w == ForgetOverdue(ws2p, old)
           status == EndState[end]
           told == ToldState[end]
           uid == From \in ws2p.uids_cache
<1>1. /\ WS2PTakes(end) /\ UNCHANGED <<current, to_blockchain, budget>>
      /\ ws2p' = [w EXCEPT !.endpoints[From] = status] /\ remote' = Late(old)
      /\ \/ end \in DOMAIN ToldState /\ tui' = OnEvent(tui, StateChange(From, told, uid))
         \/ tui' = tui
  BY DEF ConnectionEnds, ConnTakes, send_network_event
<1>2. /\ Types /\ SameTables(w) /\ SameRequests(remote') /\ TuiOK(tui)
  BY <1>1, ForgetSame, LateSame, TuiTyped DEF IInv
<1>3. /\ WS2PQueue' /\ WS2PKeeps(News \cup AskedTypes) /\ From \in Node
  <2>1. end \notin News \cup AskedTypes /\ end \in FromTypes
    BY DEF EndState, News, AskedTypes, FromTypes
  <2>2. /\ WS2PQueue' /\ WS2PKeeps(News \cup AskedTypes)
        /\ ForWS2P(Head(to_ws2p)) /\ Head(to_ws2p).type = end
    BY <1>1, <1>2, <2>1, WS2PTaken
  <2> QED BY <2>1, <2>2 DEF ForWS2P, From
<1>4. /\ BlockchainQueue' /\ Keeps(to_blockchain, to_blockchain', {"CurrentBlock"})
      /\ (CurrentAsked => CurrentAsked')
  BY <1>1, <1>2, QueuesSame
<1>5. status \in State /\ status # "Established" /\ (end \in DOMAIN ToldState => told \in State)
  BY DEF EndState, ToldState, State
<1> HIDE DEF w, status, told
<1>6. PICK n \in Node : n = From
  BY <1>3
<1>7. /\ SameNews(ws2p') /\ ws2p'.heads_cache = ws2p.heads_cache
      /\ ws2p'.endpoints = [ws2p.endpoints EXCEPT ![n] = status]
  <2>1. /\ IsWS2P(w) /\ ws2p.endpoints \in [Node -> State] /\ ws2p.uids_cache \subseteq HasUid
        /\ DOMAIN ws2p.heads_cache \subseteq Node
        /\ \A x \in DOMAIN ws2p.heads_cache : ws2p.heads_cache[x] \in Cached
    BY <1>2 DEF SameTables, Types, TablesOK
  <2>2. /\ IsWS2P(ws2p') /\ ws2p'.endpoints = [w.endpoints EXCEPT ![n] = status]
        /\ ws2p'.current_blockstamp = w.current_blockstamp /\ ws2p'.my_head = w.my_head
        /\ ws2p'.pending_received_requests = w.pending_received_requests
        /\ ws2p'.next_receiver = w.next_receiver /\ ws2p'.uids_cache = w.uids_cache
        /\ ws2p'.heads_cache = w.heads_cache
    BY <1>1, <1>6, <2>1 DEF IsWS2P
  <2>3. [ws2p.endpoints EXCEPT ![n] = status] \in [Node -> State]
    BY <1>5, <2>1
  <2> QED BY <1>2, <2>1, <2>2, <2>3 DEF SameNews, SameTables
<1>8. /\ TuiOK(tui') /\ tui'.heads_cache = tui.heads_cache
      /\ \A x \in Node \ {n} : tui'.connections_status[x] = tui.connections_status[x]
  <2>1. uid \in BOOLEAN
    OBVIOUS
  <2> HIDE DEF uid
  <2>2. CASE end \in DOMAIN ToldState /\ tui' = OnEvent(tui, StateChange(From, told, uid))
    BY <1>2, <1>5, <1>6, <2>1, <2>2, StateShown
  <2>3. CASE tui' = tui
    BY <1>2, <2>3
  <2> QED BY <1>1, <2>2, <2>3
<1>9. \A x \in Node : ws2p'.endpoints[x] = "Established" => x \in ShownConns(tui')
  <2>1. \A x \in Node : ws2p.endpoints[x] = "Established" => tui.connections_status[x].status = "Established"
    BY DEF IInv, Shows, NetworkIsShown, Shown
  <2>2. /\ \A x \in Node \ {n} : ws2p'.endpoints[x] = ws2p.endpoints[x]
        /\ ws2p'.endpoints[n] # "Established"
    BY <1>2, <1>5, <1>7 DEF Types, TablesOK
  <2> QED BY <1>8, <2>1, <2>2 DEF ShownConns
<1>10. Renewed(<<>>)
  BY <1>7, <1>8 DEF Renewed
<1>11. Shows' /\ Forward /\ OwnHeadStays
  BY <1>8, <1>9, <1>10, HeadsRenewed
<1> QED BY <1>1, <1>2, <1>3, <1>4, <1>7, <1>8, <1>11, NetworkMoves

\* A head comes, and renews the cached one or not.
LEMMA ReceiveHeadsMessageKeeps ==
    ASSUME IInv, NEW old, ReceiveHeadsMessage(old)
    PROVE  IInv' /\ Forward
<1> DEFINE w == ForgetOverdue(ws2p, old)
           head == Head(to_ws2p).head
           applied == verify(head) /\ Renews(w.heads_cache, head)
           entry == [block |-> head.block, step |-> head.step, uid |-> FALSE]
           shown == [n \in {head.node} |-> [entry EXCEPT !.uid = n \in w.uids_cache]]
           heads == IF applied THEN shown ELSE <<>>
           keys == IF applied THEN {head.node} ELSE {}
           cache == IF applied THEN Put(w.heads_cache, head.node, entry) ELSE w.heads_cache
<1>1. /\ WS2PTakes("Heads") /\ UNCHANGED <<current, budget>>
      /\ ws2p' = IF applied THEN [w EXCEPT !.heads_cache = Put(w.heads_cache, head.node, entry)] ELSE w
      /\ to_blockchain' = Append(to_blockchain, UidsRequest(keys))
      /\ tui' = OnEvent(tui, ReceiveHeads(heads)) /\ remote' = Late(old)
  BY DEF ReceiveHeadsMessage, ConnTakes, send_dal_request, send_network_event
<1>2. /\ Types /\ SameTables(w) /\ SameRequests(remote') /\ TuiOK(tui)
  BY <1>1, ForgetSame, LateSame, TuiTyped DEF IInv
<1>3. /\ WS2PQueue' /\ WS2PKeeps(News \cup AskedTypes)
      /\ head.node \in Node /\ head.block \in Nat /\ head.step \in Nat
  <2>1. /\ WS2PQueue' /\ WS2PKeeps(News \cup AskedTypes)
        /\ ForWS2P(Head(to_ws2p)) /\ Head(to_ws2p).type = "Heads"
    BY <1>1, <1>2, WS2PTaken DEF News, AskedTypes
  <2> QED BY <2>1 DEF ForWS2P
<1>4. /\ BlockchainQueue' /\ Keeps(to_blockchain, to_blockchain', {"CurrentBlock"})
      /\ (CurrentAsked => CurrentAsked')
  <2> DEFINE m == UidsRequest(keys)
  <2>1. ForBlockchain(m) /\ m.type \notin {"CurrentBlock"}
    BY <1>3 DEF ForBlockchain, UidsRequest
  <2> HIDE DEF m
  <2> QED BY <1>1, <1>2, <2>1, BlockchainHears DEF m
<1>5. PICK n \in Node : n = head.node
  BY <1>3
<1>6. entry \in Cached /\ entry.block = head.block /\ entry.step = head.step
  BY <1>3 DEF Cached
<1>7. /\ DOMAIN heads = keys
      /\ \A x \in keys : heads[x].block = entry.block /\ heads[x].step = entry.step
  OBVIOUS
<1>8. /\ DOMAIN cache = DOMAIN w.heads_cache \cup keys
      /\ \A x \in keys : cache[x] = entry
      /\ \A x \in DOMAIN w.heads_cache \ keys : cache[x] = w.heads_cache[x]
  <2>1. CASE applied
    <3> HIDE DEF applied, w, entry, head
    <3> QED BY <2>1 DEF Put, Over
  <2>2. CASE ~applied
    <3> HIDE DEF applied, w, entry, head
    <3> QED BY <2>2
  <2> QED BY <2>1, <2>2
<1>9. \A x \in keys : x \in DOMAIN ws2p.heads_cache => head.block >= ws2p.heads_cache[x].block
  <2> SUFFICES ASSUME applied, n \in DOMAIN ws2p.heads_cache
               PROVE  head.block >= ws2p.heads_cache[n].block
    BY <1>5
  <2>1. w.heads_cache = ws2p.heads_cache /\ ws2p.heads_cache[n].block \in Nat
    BY <1>2 DEF SameTables, Types, TablesOK, Cached
  <2>2. Replaces(head, ws2p.heads_cache[n])
    BY <1>5, <2>1 DEF Renews
  <2> QED BY <1>3, <2>1, <2>2 DEF Replaces
<1>10. keys \subseteq Node
  BY <1>3
<1>11. ws2p' = [w EXCEPT !.heads_cache = cache]
  <2>1. w = [w EXCEPT !.heads_cache = w.heads_cache]
    <3> HIDE DEF w
    <3> QED BY <1>2 DEF SameTables, IsWS2P
  <2> HIDE DEF w, applied, entry
  <2> QED BY <1>1, <2>1
<1> HIDE DEF w, cache, heads, keys, entry
<1>12. /\ SameNews(ws2p') /\ ws2p'.heads_cache = cache /\ ws2p'.endpoints = ws2p.endpoints
       /\ w.heads_cache = ws2p.heads_cache
  <2>1. /\ IsWS2P(ws2p') /\ ws2p'.endpoints = w.endpoints
        /\ ws2p'.current_blockstamp = w.current_blockstamp /\ ws2p'.my_head = w.my_head
        /\ ws2p'.pending_received_requests = w.pending_received_requests
        /\ ws2p'.next_receiver = w.next_receiver /\ ws2p'.uids_cache = w.uids_cache
        /\ ws2p'.heads_cache = cache
    BY <1>2, <1>11 DEF SameTables, IsWS2P
  <2>2. /\ ws2p.endpoints \in [Node -> State] /\ ws2p.uids_cache \subseteq HasUid
        /\ DOMAIN ws2p.heads_cache \subseteq Node
        /\ \A x \in DOMAIN ws2p.heads_cache : ws2p.heads_cache[x] \in Cached
    BY <1>2 DEF Types, TablesOK
  <2>3. w.heads_cache = ws2p.heads_cache
    BY <1>2 DEF SameTables
  <2>4. DOMAIN cache \subseteq Node /\ \A x \in DOMAIN cache : cache[x] \in Cached
    BY <1>6, <1>8, <1>10, <2>2, <2>3
  <2> QED BY <1>2, <2>1, <2>2, <2>3, <2>4 DEF SameNews, SameTables
<1>13. /\ TuiOK(tui') /\ tui'.connections_status = tui.connections_status
       /\ DOMAIN tui'.heads_cache = DOMAIN tui.heads_cache \cup DOMAIN heads
       /\ \A x \in DOMAIN heads : tui'.heads_cache[x] = heads[x]
       /\ \A x \in DOMAIN tui.heads_cache \ DOMAIN heads : tui'.heads_cache[x] = tui.heads_cache[x]
  BY <1>1, <1>2, HeadsShown
<1>14. \A x \in Node : ws2p'.endpoints[x] = "Established" => x \in ShownConns(tui')
  BY <1>12, <1>13 DEF IInv, Shows, NetworkIsShown, Shown, ShownConns
<1>15. Renewed(heads)
  BY <1>6, <1>7, <1>8, <1>9, <1>10, <1>12, <1>13 DEF Renewed
<1>16. Shows' /\ Forward /\ OwnHeadStays
  BY <1>13, <1>14, <1>15, HeadsRenewed
<1> QED BY <1>1, <1>2, <1>3, <1>4, <1>12, <1>13, <1>16, NetworkMoves

\* What one endpoint is told again.
ToldOne(u, n, keys) ==
    IF n \in ToldAgain(keys) THEN OnEvent(u, StateChange(n, ws2p.endpoints[n], n \in HasUid)) ELSE u

\* The connections are told again one by one.
LEMMA TellSteps ==
    ASSUME NEW t, NEW keys
    PROVE  \E at : /\ at[0] = t /\ at[Len(EndpointOrder)] = TellAgain(t, keys)
                   /\ \A k \in 1 .. Len(EndpointOrder) : at[k] = ToldOne(at[k - 1], EndpointOrder[k], keys)
<1> DEFINE s == EndpointOrder
           Step(f, S) == IF S = {} THEN t ELSE ToldOne(f[S \ {Max(S)}], s[Max(S)], keys)
           Folds(f, n) == f = [S \in SUBSET (1 .. n) |-> Step(f, S)]
           X == {n \in Nat : \E f : Folds(f, n)}
           iter == CHOOSE f : f = [S \in SUBSET DOMAIN s |-> Step(f, S)]
<1>1. 0 \in X
  <2> DEFINE f == [S \in SUBSET (1 .. 0) |-> t]
  <2>1. \A S \in SUBSET (1 .. 0) : S = {}
    OBVIOUS
  <2>2. \A S \in SUBSET (1 .. 0) : Step(f, S) = t
    BY <2>1
  <2>3. [S \in SUBSET (1 .. 0) |-> Step(f, S)] = f
    <3> HIDE DEF Step
    <3> QED BY <2>2
  <2> HIDE DEF f, Step
  <2> QED BY <2>3
<1>2. ASSUME NEW n \in Nat, n \in X PROVE n + 1 \in X
  <2>1. PICK f : Folds(f, n)
    BY <1>2
  <2> DEFINE g == [S \in SUBSET (1 .. n + 1) |-> Step(f, S)]
  <2>2. \A S \in SUBSET (1 .. n) : g[S] = f[S]
    <3> HIDE DEF Step
    <3>1. SUBSET (1 .. n) \subseteq SUBSET (1 .. n + 1)
      OBVIOUS
    <3> QED BY <2>1, <3>1
  <2>3. \A S \in SUBSET (1 .. n + 1) : Step(g, S) = Step(f, S)
    <3> HIDE DEF g
    <3> SUFFICES ASSUME NEW S \in SUBSET (1 .. n + 1), S # {} PROVE Step(g, S) = Step(f, S)
      OBVIOUS
    <3>1. S \ {Max(S)} \in SUBSET (1 .. n)
      BY LastPosition
    <3>2. g[S \ {Max(S)}] = f[S \ {Max(S)}]
      BY <2>2, <3>1
    <3> QED BY <3>2
  <2>4. g = [S \in SUBSET (1 .. n + 1) |-> Step(g, S)]
    <3>1. [S \in SUBSET (1 .. n + 1) |-> Step(f, S)] = [S \in SUBSET (1 .. n + 1) |-> Step(g, S)]
      <4> HIDE DEF Step, g
      <4> QED BY <2>3
    <3>2. g = [S \in SUBSET (1 .. n + 1) |-> Step(f, S)]
      OBVIOUS
    <3> HIDE DEF Step, g
    <3> QED BY <3>1, <3>2
  <2> HIDE DEF g, Step
  <2> QED BY <2>4
<1>3. DOMAIN s = 1 .. Len(s) /\ Len(s) \in Nat
  BY RequestsAssumption
<1>4. iter = [S \in SUBSET (1 .. Len(s)) |-> Step(iter, S)]
  <2>1. Nat \subseteq X
    <3> HIDE DEF X
    <3> QED BY <1>1, <1>2, Induction
  <2>2. \E f : f = [S \in SUBSET (1 .. Len(s)) |-> Step(f, S)]
    <3> HIDE DEF Step
    <3> QED BY <1>3, <2>1
  <2> HIDE DEF Step
  <2> QED BY <1>3, <2>2
<1>5. TellAgain(t, keys) = iter[DOMAIN s]
  BY DEF TellAgain, ToldOne, FoldLeft, MapThenFoldSet
<1> HIDE DEF iter, s
<1> DEFINE at == [k \in 0 .. Len(s) |-> iter[1 .. k]]
<1>6. at[0] = t
  <2>1. 1 .. 0 = {} /\ {} \in SUBSET (1 .. Len(s)) /\ 0 \in 0 .. Len(s)
    BY <1>3
  <2>2. iter[{}] = Step(iter, {})
    <3> HIDE DEF Step
    <3> QED BY <1>4, <2>1
  <2> QED BY <2>1, <2>2
<1>7. at[Len(s)] = iter[DOMAIN s]
  <2>1. Len(s) \in 0 .. Len(s)
    BY <1>3
  <2> QED BY <1>3, <2>1
<1>8. ASSUME NEW k \in 1 .. Len(s) PROVE at[k] = ToldOne(at[k - 1], s[k], keys)
  <2>1. /\ k - 1 \in Nat /\ (k - 1) + 1 = k /\ k - 1 \in 0 .. Len(s) /\ k \in 0 .. Len(s)
        /\ 1 .. k \in SUBSET (1 .. Len(s)) /\ 1 .. k # {}
    <3>1. k - 1 \in Nat /\ (k - 1) + 1 = k /\ k - 1 \in 0 .. Len(s) /\ k \in 0 .. Len(s)
      BY <1>3
    <3>2. \A i \in 1 .. k : i \in 1 .. Len(s)
      BY <1>3
    <3>3. k \in 1 .. k
      OBVIOUS
    <3> QED BY <3>1, <3>2, <3>3
  <2>2. Max(1 .. k) = k /\ (1 .. k) \ {k} = 1 .. (k - 1)
    BY <2>1, LastPosition
  <2>3. iter[1 .. k] = Step(iter, 1 .. k)
    <3> HIDE DEF Step
    <3> QED BY <1>4, <2>1
  <2> QED BY <2>1, <2>2, <2>3
<1> HIDE DEF at
<1> QED BY <1>5, <1>6, <1>7, <1>8 DEF s

\* What that changes.
LEMMA ToldAgainShown ==
    ASSUME Types, NEW t, TuiOK(t), NEW keys
    PROVE  LET u == TellAgain(t, keys)
           IN  /\ TuiOK(u) /\ u.heads_cache = t.heads_cache
               /\ \A n \in Node : \/ u.connections_status[n] = t.connections_status[n]
                                  \/ u.connections_status[n].status = ws2p.endpoints[n]
<1> DEFINE N == Len(EndpointOrder)
           Fine(u) == /\ TuiOK(u) /\ u.heads_cache = t.heads_cache
                      /\ \A n \in Node : \/ u.connections_status[n] = t.connections_status[n]
                                         \/ u.connections_status[n].status = ws2p.endpoints[n]
<1>1. PICK at : /\ at[0] = t /\ at[N] = TellAgain(t, keys)
                /\ \A k \in 1 .. N : at[k] = ToldOne(at[k - 1], EndpointOrder[k], keys)
  BY TellSteps
<1>2. N \in Nat /\ \A k \in 1 .. N : EndpointOrder[k] \in Node
  BY RequestsAssumption
<1>3. ASSUME NEW u, Fine(u), NEW n \in Node PROVE Fine(ToldOne(u, n, keys))
  <2>1. CASE n \notin ToldAgain(keys)
    BY <1>3, <2>1 DEF ToldOne
  <2>2. CASE n \in ToldAgain(keys)
    <3> DEFINE uid == n \in HasUid
    <3>1. uid \in BOOLEAN
      OBVIOUS
    <3>2. PICK v : v = OnEvent(u, StateChange(n, ws2p.endpoints[n], uid))
      OBVIOUS
    <3>3. ws2p.endpoints[n] \in State
      BY DEF Types, TablesOK
    <3>4. /\ TuiOK(v) /\ v.heads_cache = u.heads_cache /\ v.connections_status[n].status = ws2p.endpoints[n]
          /\ \A m \in Node \ {n} : v.connections_status[m] = u.connections_status[m]
      <4> HIDE DEF uid
      <4> QED BY <1>3, <3>1, <3>2, <3>3, StateShown
    <3>5. ToldOne(u, n, keys) = v
      BY <2>2, <3>2 DEF ToldOne
    <3> QED BY <1>3, <3>4, <3>5
  <2> QED BY <2>1, <2>2
<1> HIDE DEF Fine
<1> DEFINE X == {k \in Nat : k <= N => Fine(at[k])}
<1>4. 0 \in X
  BY <1>1 DEF Fine
<1>5. ASSUME NEW k \in Nat, k \in X PROVE k + 1 \in X
  <2> SUFFICES ASSUME k + 1 <= N PROVE Fine(at[k + 1])
    OBVIOUS
  <2>1. Fine(at[k]) /\ k + 1 \in 1 .. N /\ (k + 1) - 1 = k
    BY <1>2, <1>5
  <2>2. at[k + 1] = ToldOne(at[k], EndpointOrder[k + 1], keys)
    BY <1>1, <2>1
  <2> QED BY <1>2, <1>3, <2>1, <2>2
<1>6. N \in X
  <2> HIDE DEF X
  <2> QED BY <1>2, <1>4, <1>5, Induction
<1> QED BY <1>1, <1>2, <1>6 DEF Fine

\* The uids come: the cached heads take them, and the connections are told again.
LEMMA ReceiveUidsKeeps == ASSUME IInv, ReceiveUids PROVE IInv' /\ Forward
<1> DEFINE keys == Head(to_ws2p).keys
           cached == keys \cap DOMAIN ws2p.heads_cache
           heads == [n \in DOMAIN ws2p.heads_cache |->
                        IF n \in keys \cap HasUid THEN [ws2p.heads_cache[n] EXCEPT !.uid = TRUE]
                        ELSE ws2p.heads_cache[n]]
           uids == (ws2p.uids_cache \ cached) \cup (cached \cap HasUid)
           t == OnEvent(tui, ReceiveHeads(heads))
<1>1. /\ WS2PTakes("UIDs") /\ UNCHANGED <<current, to_blockchain, remote, budget>>
      /\ ws2p' = [ws2p EXCEPT !.heads_cache = heads, !.uids_cache = uids]
      /\ tui' = TellAgain(t, keys)
  BY DEF ReceiveUids
<1>2. /\ Types /\ IsWS2P(ws2p) /\ SameRequests(remote') /\ TuiOK(tui)
      /\ ws2p.endpoints \in [Node -> State] /\ ws2p.uids_cache \subseteq HasUid
      /\ DOMAIN ws2p.heads_cache \subseteq Node
      /\ \A n \in DOMAIN ws2p.heads_cache : ws2p.heads_cache[n] \in Cached
      /\ ws2p.next_receiver \in 0 .. Cardinality(Node)
  BY <1>1, NothingSame, TuiTyped DEF IInv, Types, Shaped, TablesOK
<1>3. WS2PQueue' /\ WS2PKeeps(News \cup AskedTypes)
  BY <1>1, <1>2, WS2PTaken DEF News, AskedTypes
<1>4. /\ BlockchainQueue' /\ Keeps(to_blockchain, to_blockchain', {"CurrentBlock"})
      /\ (CurrentAsked => CurrentAsked')
  BY <1>1, <1>2, QueuesSame
<1>5. /\ DOMAIN heads = DOMAIN ws2p.heads_cache
      /\ \A n \in DOMAIN heads :
            /\ heads[n] \in Cached /\ heads[n].block = ws2p.heads_cache[n].block
            /\ heads[n].step = ws2p.heads_cache[n].step /\ heads[n].block >= ws2p.heads_cache[n].block
  <2> SUFFICES ASSUME NEW n \in DOMAIN ws2p.heads_cache
               PROVE  /\ heads[n] \in Cached /\ heads[n].block = ws2p.heads_cache[n].block
                      /\ heads[n].step = ws2p.heads_cache[n].step
                      /\ heads[n].block >= ws2p.heads_cache[n].block
    OBVIOUS
  <2> DEFINE h == ws2p.heads_cache[n]
  <2>1. h \in Cached /\ (heads[n] = h \/ heads[n] = [h EXCEPT !.uid = TRUE])
    BY <1>2
  <2> HIDE DEF h, heads
  <2>2. /\ heads[n] \in Cached /\ heads[n].block = h.block /\ heads[n].step = h.step /\ h.block \in Nat
    BY <2>1 DEF Cached
  <2> QED BY <2>2 DEF h
<1>6. uids \subseteq HasUid
  BY <1>2
<1> HIDE DEF heads, uids, keys
<1>7. /\ SameNews(ws2p') /\ ws2p'.heads_cache = heads /\ ws2p'.endpoints = ws2p.endpoints
  <2>1. /\ IsWS2P(ws2p') /\ ws2p'.heads_cache = heads /\ ws2p'.uids_cache = uids
        /\ ws2p'.endpoints = ws2p.endpoints
        /\ ws2p'.current_blockstamp = ws2p.current_blockstamp /\ ws2p'.my_head = ws2p.my_head
        /\ ws2p'.pending_received_requests = ws2p.pending_received_requests
        /\ ws2p'.next_receiver = ws2p.next_receiver
    BY <1>1, <1>2 DEF IsWS2P
  <2> QED BY <1>2, <1>5, <1>6, <2>1 DEF SameNews
<1>8. /\ TuiOK(t) /\ t.connections_status = tui.connections_status
      /\ DOMAIN t.heads_cache = DOMAIN tui.heads_cache \cup DOMAIN heads
      /\ \A x \in DOMAIN heads : t.heads_cache[x] = heads[x]
      /\ \A x \in DOMAIN tui.heads_cache \ DOMAIN heads : t.heads_cache[x] = tui.heads_cache[x]
  <2> HIDE DEF t
  <2> QED BY <1>2, HeadsShown DEF t
<1> HIDE DEF t
<1>9. /\ TuiOK(tui') /\ tui'.heads_cache = t.heads_cache
      /\ \A n \in Node : \/ tui'.connections_status[n] = t.connections_status[n]
                         \/ tui'.connections_status[n].status = ws2p.endpoints[n]
  BY <1>1, <1>2, <1>8, ToldAgainShown
<1>10. \A x \in Node : ws2p'.endpoints[x] = "Established" => x \in ShownConns(tui')
  BY <1>7, <1>8, <1>9 DEF IInv, Shows, NetworkIsShown, Shown, ShownConns
<1>11. Renewed(heads)
  <2>1. \A n \in DOMAIN heads : ws2p'.heads_cache[n] = heads[n]
    BY <1>7
  <2> QED BY <1>2, <1>5, <1>7, <1>8, <1>9, <2>1 DEF Renewed
<1>12. Shows' /\ Forward /\ OwnHeadStays
  BY <1>9, <1>10, <1>11, HeadsRenewed
<1> QED BY <1>1, <1>2, <1>3, <1>4, <1>7, <1>9, <1>12, NetworkMoves

-----------------------------------------------------------------------------
(* The theorems. *)

\* The invariant holds at first.
LEMMA InitKeeps == ASSUME Init PROVE IInv
<1>1. /\ budget \in Budgets /\ current = budget.start /\ to_blockchain = <<CurrentBlockstampRequest>>
      /\ broadcasting = <<>> /\ to_ws2p = <<>>
      /\ ws2p = [current_blockstamp |-> NoBlock, my_head |-> NoHead,
                 pending_received_requests |-> <<>>, requests_awaiting_response |-> <<>>,
                 next_receiver |-> 0, heads_cache |-> <<>>, uids_cache |-> {},
                 endpoints |-> [n \in Node |-> "Close"]]
      /\ tui = [connections_status |-> [n \in Node |-> [status |-> "Unknown", uid |-> FALSE]],
                established_conns_count |-> 0, heads_cache |-> <<>>]
      /\ remote = [open |-> {}, left |-> {}, asked |-> {}, to_answer |-> {}, answers |-> EmptyBag,
                   forks |-> 0]
  BY DEF Init
<1>2. Shaped
  <2>1. IsBudget(budget)
    BY <1>1, RequestsAssumption DEF IsBudget
  <2> QED BY <1>1, <2>1 DEF Shaped, IsWS2P, IsTui, IsRemote
<1>3. TablesOK
  <2>1. current \in NoBlock .. Top
    BY <1>1, RequestsAssumption
  <2>2. ws2p.current_blockstamp \in Block
    BY <1>1, RequestsAssumption DEF Block, ForkBlock, NoBlock
  <2>3. ws2p.next_receiver \in 0 .. Cardinality(Node)
    BY <1>1, NodesCounted
  <2>4. ws2p.endpoints \in [Node -> State]
    BY <1>1 DEF State
  <2> QED BY <1>1, <2>1, <2>2, <2>3, <2>4 DEF TablesOK
<1>4. /\ IsQueue(to_ws2p) /\ Range(to_ws2p) = {} /\ DOMAIN to_ws2p = {} /\ WS2PQueue
      /\ DOMAIN broadcasting = {}
  BY <1>1, QueueOne DEF WS2PQueue
<1>5. /\ IsQueue(to_blockchain) /\ DOMAIN to_blockchain = {1} /\ to_blockchain[1] = CurrentBlockstampRequest
      /\ BlockchainQueue
  <2>1. ForBlockchain(CurrentBlockstampRequest)
    BY DEF ForBlockchain, CurrentBlockstampRequest
  <2>2. IsQueue(to_blockchain) /\ Range(to_blockchain) = {CurrentBlockstampRequest}
    BY <1>1, QueueOne
  <2> QED BY <1>1, <2>1, <2>2 DEF BlockchainQueue
<1>6. Types
  <2>1. OthersOK
    BY <1>1, RequestsAssumption DEF OthersOK
  <2> QED BY <1>2, <1>3, <1>4, <1>5, <2>1 DEF Types
<1>7. Current
  <2>1. CurrentAsked
    BY <1>5 DEF CurrentAsked, CurrentBlockstampRequest
  <2>2. Tells(to_ws2p) = {} /\ Stacks(to_ws2p) = {} /\ Stacks(broadcasting) = {}
    BY <1>4 DEF Tells, Stacks
  <2> QED BY <1>1, <2>1, <2>2 DEF Current
<1>8. Shows
  <2>1. 0 <= Cardinality({n \in Node : Shown(n)})
    <3>1. IsFiniteSet({n \in Node : Shown(n)})
      BY NodesCounted, FS_Subset
    <3> QED BY <3>1, FS_CardinalityType
  <2> QED BY <1>1, <2>1 DEF Shows, NetworkIsShown
<1>9. Asked
  <2>1. Requested = {} /\ Wanted(to_ws2p) = {} /\ Wanted(to_blockchain) = {}
    BY <1>4, <1>5 DEF Requested, Wanted, CurrentBlockstampRequest
  <2>2. Pending = <<>> /\ DOMAIN Pending = {} /\ IsFiniteSet({})
    BY <1>1, FS_EmptySet DEF Pending
  <2>3. DOMAIN remote.answers = {}
    BY <1>1 DEF EmptyBag, SetToBag
  <2> QED BY <2>1, <2>2, <2>3 DEF Asked, OnTheirWay, PendingOnce, AnsweredOnce, Questions, AboutPending, Apart
<1> QED BY <1>6, <1>7, <1>8, <1>9 DEF IInv

\* Every step keeps it, and what the interface shows of a remote node goes forward.
LEMMA StepKeeps ==
    ASSUME IInv, [Next]_vars
    PROVE  IInv' /\ (tui' = tui \/ Forward)
<1>1. CASE UNCHANGED vars
  <2>1. UNCHANGED <<current, broadcasting, to_ws2p, to_blockchain, ws2p, tui, remote, budget>>
    BY <1>1 DEF vars
  <2>2. Types /\ SameTables(ws2p') /\ SameRequests(remote') /\ SameAsks(budget')
    BY <2>1, NothingSame DEF IInv
  <2> QED BY <2>1, <2>2, QueuesSame, Moves
<1>2. CASE BlockchainNext
  <2>1. CASE AnswerCurrentBlockstamp
    BY <2>1, AnswerCurrentBlockstampKeeps DEF AnswerCurrentBlockstamp, BlockchainAnswers
  <2>2. CASE AnswerCurrentBlock
    BY <2>2, AnswerCurrentBlockKeeps DEF AnswerCurrentBlock, BlockchainAnswers
  <2>3. CASE AnswerBlocks \/ AnswerUids
    BY <2>3, AnswerOthersKeeps DEF AnswerBlocks, AnswerUids, BlockchainAnswers
  <2>4. CASE ReceiveBlocks
    BY <2>4, ReceiveBlocksKeeps DEF ReceiveBlocks
  <2> QED BY <1>2, <2>1, <2>2, <2>3, <2>4 DEF BlockchainNext
<1>3. CASE ModuleMessage
  <2>1. CASE receive_req
    BY <2>1, ReceiveReqKeeps DEF receive_req
  <2>2. CASE StackUpValidBlock \/ ReceiveCurrentBlockstamp
    <3>1. IInv'
      BY <2>2, NewsKeeps
    <3>2. \E b : tui' = OnEvent(tui, ReceiveHeads(MyHead(b)))
      BY <2>2 DEF StackUpValidBlock, ReceiveCurrentBlockstamp, send_network_event
    <3>3. \A n \in Node \cap DOMAIN tui.heads_cache : tui'.heads_cache[n] = tui.heads_cache[n]
      BY <3>2, MyHeadShown DEF IInv
    <3>4. \A n \in Node \cap DOMAIN tui.heads_cache : tui.heads_cache[n].block \in Nat
      BY DEF IInv, Types, TablesOK, Cached, Shows, NetworkIsShown
    <3>5. Forward
      BY <3>3, <3>4 DEF Forward
    <3> QED BY <3>1, <3>5
  <2>3. CASE ReceiveUids
    BY <2>3, ReceiveUidsKeeps
  <2>4. CASE ReceiveCurrentBlock
    BY <2>4, ReceiveCurrentBlockKeeps DEF ReceiveCurrentBlock
  <2>5. CASE ReceiveOtherResponse
    BY <2>5, ReceiveOtherResponseKeeps DEF ReceiveOtherResponse
  <2> QED BY <1>3, <2>1, <2>2, <2>3, <2>4, <2>5 DEF ModuleMessage
<1>4. ASSUME NEW old, ConnectionMessage(old) PROVE IInv' /\ (tui' = tui \/ Forward)
  <2>1. CASE ConnectionEstablished(old)
    BY <2>1, ConnectionEstablishedKeeps
  <2>2. CASE \E end \in DOMAIN EndState : ConnectionEnds(end, old)
    BY <2>2, ConnectionEndsKeeps
  <2>3. CASE receive_ws2p_v1_request(old)
    BY <2>3, RequestComesKeeps DEF receive_ws2p_v1_request
  <2>4. CASE ReceiveHeadsMessage(old)
    BY <2>4, ReceiveHeadsMessageKeeps
  <2>5. CASE ReceiveDocument(old)
    BY <2>5, ReceiveDocumentKeeps DEF ReceiveDocument
  <2>6. CASE ReceiveReqResponse(old)
    BY <2>6, ReceiveReqResponseKeeps DEF ReceiveReqResponse
  <2> QED BY <1>4, <2>1, <2>2, <2>3, <2>4, <2>5, <2>6 DEF ConnectionMessage
<1>5. CASE RemoteNext
  <2>1. ASSUME NEW n \in Node, RemoteOpens(n) PROVE IInv' /\ tui' = tui
    BY <2>1, RemoteOpensKeeps DEF RemoteOpens
  <2>2. ASSUME NEW n \in Node, RemotePublishes(n) PROVE IInv' /\ tui' = tui
    BY <2>2, RemotePublishesKeeps DEF RemotePublishes
  <2>3. ASSUME NEW n \in Node, NEW end \in DOMAIN EndState, RemoteEnds(n, end) PROVE IInv' /\ tui' = tui
    BY <2>3, RemoteEndsKeeps DEF RemoteEnds
  <2>4. ASSUME NEW n \in Node, NEW body \in Body, RemoteAsks(n, body) PROVE IInv' /\ tui' = tui
    BY <2>4, RemoteAsksKeeps DEF RemoteAsks
  <2>5. ASSUME NEW n \in Node, NEW head \in budget.heads, RemoteRelaysHead(n, head) PROVE IInv' /\ tui' = tui
    BY <2>5, RemoteRelaysHeadKeeps DEF RemoteRelaysHead
  <2>6. ASSUME NEW q \in remote.to_answer, RemoteAnswers(q) PROVE IInv' /\ tui' = tui
    BY <2>6, RemoteAnswersKeeps DEF RemoteAnswers
  <2> QED BY <1>5, <2>1, <2>2, <2>3, <2>4, <2>5, <2>6 DEF RemoteNext
<1>7. CASE BroadcastingRelays
  BY <1>7, BroadcastingRelaysKeeps DEF BroadcastingRelays
<1>6. CASE request_next_main_blocks \/ PrintState \/ ForkFails
  BY <1>6, RequestNextKeeps, PrintStateKeeps, ForkFailsKeeps
     DEF request_next_main_blocks, PrintState, ForkFails
<1> QED BY <1>1, <1>2, <1>3, <1>4, <1>5, <1>6, <1>7 DEF Next, WS2PNext

\* What the block-chain module, WS2P and the interface ask and tell each other stays
\* in IInv.
THEOREM IInvAlways == Spec => []IInv
<1>1. Init => IInv
  BY InitKeeps
<1>2. IInv /\ [Next]_vars => IInv'
  BY StepKeeps
<1> QED BY <1>1, <1>2, PTL DEF Spec

\* ViewsAgree: the copies of the current block, of the connections and of the heads in
\* the three modules agree, and have their types.
THEOREM ViewsAlwaysAgree == Spec => []ViewsAgree
<1>1. ASSUME IInv PROVE ViewsAgree
  <2>1. TypeOK
    <3>1. Types /\ Shows
      BY <1>1 DEF IInv
    <3>2. \A i \in DOMAIN to_blockchain : to_blockchain[i].type \in
            {"CurrentBlockstamp", "CurrentBlock", "BlockByNumber", "Chunk", "UIDs", "Blocks"}
      BY <3>1 DEF Types, BlockchainQueue, ForBlockchain, Range
    <3>6. \A i \in DOMAIN broadcasting : broadcasting[i].type \in {"GetBlocks", "StackUpValidBlock"}
      BY <3>1 DEF Types, WS2PQueue, ForBroadcast, Range
    <3>3. \A i \in DOMAIN to_ws2p : "from" \in DOMAIN to_ws2p[i] => to_ws2p[i].from \in Node
      BY <3>1 DEF Types, WS2PQueue, ForWS2P, Range
    <3>4. tui.established_conns_count \in 0 .. Cardinality(Node)
      <4> DEFINE S == {n \in Node : Shown(n)}
      <4>1. tui.established_conns_count \in Nat /\ tui.established_conns_count <= Cardinality(S)
        BY <3>1 DEF Types, TablesOK, Shows
      <4>2. Cardinality(S) \in Nat /\ Cardinality(S) <= Cardinality(Node) /\ Cardinality(Node) \in Nat
        <5>1. S \subseteq Node /\ IsFiniteSet(Node)
          BY NodesCounted
        <5> HIDE DEF S
        <5> QED BY <5>1, FS_Subset, FS_CardinalityType
      <4> HIDE DEF S
      <4> QED BY <4>1, <4>2
    <3>5. Range(ws2p.heads_cache) \subseteq Cached
      BY <3>1 DEF Types, TablesOK, Range
    <3> QED BY <3>1, <3>2, <3>3, <3>4, <3>5, <3>6 DEF Types, TablesOK, TypeOK
  <2>2. QuietMeansCurrent
    <3> SUFFICES ASSUME Quiet, remote.forks = 0
                 PROVE  /\ ws2p.current_blockstamp = current /\ ws2p.my_head = current
                        /\ tui.heads_cache[Self].block = current
      BY DEF QuietMeansCurrent
    <3>1. Tells(to_ws2p) = {} /\ Stacks(to_ws2p) = {} /\ Stacks(broadcasting) = {} /\ ~CurrentAsked
      BY DEF Quiet, Tells, Stacks, CurrentAsked
    <3>2. current # NoHead
      BY <1>1, RequestsAssumption DEF IInv, Types, TablesOK, NoBlock, NoHead
    <3> QED BY <1>1, <3>1, <3>2 DEF IInv, Current
  <2>3. NetworkIsShown
    BY <1>1 DEF IInv, Shows
  <2> QED BY <2>1, <2>2, <2>3 DEF ViewsAgree
<1> QED BY <1>1, IInvAlways, PTL

\* AnswersAreAsked: no request is answered twice, and none that was not made.
THEOREM AnswersAlwaysAsked == Spec => []AnswersAreAsked
<1>1. ASSUME IInv PROVE AnswersAreAsked
  <2> SUFFICES ASSUME NEW a \in DOMAIN remote.answers
               PROVE  /\ remote.answers[a] = 1 /\ a[2] = a[3]
                      /\ \E q \in remote.asked : q.node = a[1] /\ q.body = a[3]
    BY DEF AnswersAreAsked
  <2>1. remote.answers[a] = 1 /\ a[2] = a[3] /\ WasAsked(AnswersTo(a))
    BY <1>1 DEF IInv, Asked, AnsweredOnce
  <2> QED BY <2>1 DEF WasAsked, AnswersTo
<1> QED BY <1>1, IInvAlways, PTL

\* HeadsGoForward: the interface never goes back to an older head of a remote node.
THEOREM HeadsAlwaysGoForward == Spec => HeadsGoForward
<1>1. IInv /\ [Next]_vars =>
          [\A n \in Node \cap DOMAIN tui.heads_cache :
              tui.heads_cache'[n].block >= tui.heads_cache[n].block]_tui
  BY StepKeeps DEF Forward
<1> QED BY <1>1, IInvAlways, PTL DEF Spec, HeadsGoForward

=============================================================================
