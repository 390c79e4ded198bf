---------------------------- MODULE WS2Pv2Proofs ----------------------------
(***************************************************************************)
(* Theorems about WS2Pv2, for all setups and bounds: the controllers keep  *)
(* their types, an established end has heard the three messages, the two   *)
(* ends agree on what they have established, two ends that nothing         *)
(* disturbs are both established when all is quiet, and the two ends       *)
(* implement WS2PHandshake.                                                *)
(*                                                                         *)
(* What an end has heard is a history that no action tests, so the proof   *)
(* relates it to the state (StateHeard). A CONNECT is taken in any state   *)
(* (connect_msg.rs builds a close and drops it): that it counts once rests *)
(* on the other end, which sends one when its websocket opens and never    *)
(* again (ConnectOnce). What an end believes of the other rests on the     *)
(* frames: an ACK or an OK on its way is true of its sender (Promises).    *)
(***************************************************************************)
EXTENDS WS2Pv2, TLAPS

Controller ==
    [state : State, remote : {"none"} \cup Side,
     remote_type : ConnectType \cup {"none", "Incoming"},
     features : (SUBSET Feature) \cup {{"none"}},
     invalid : Nat, heard : SUBSET {"CONNECT", "ACK", "OK"}, frames : Seq(Frame)]

\* What has been heard follows from the state once a CONNECT has been taken.
StateHeard(state, heard) ==
    /\ state \in {"ConnectMessOk", "SecretFlagsOkWaitingAckMsg"} => heard = {"CONNECT"}
    /\ state \in {"AckMsgOk", "SecretFlagsOk"} => heard = {"CONNECT", "ACK"}
    /\ state = "OkMsgOkWaitingAckMsg" => heard = {"CONNECT", "OK"}
    /\ state = "Established" => heard = {"CONNECT", "ACK", "OK"}

Contains(frames, frame) == \E i \in 1 .. Len(frames) : frames[i] = frame

\* One CONNECT is on its way to an end, at most, and none to an end that has heard
\* one or that the other end has not opened.
Once(frames, heard, socket) ==
    /\ Contains(frames, "CONNECT") => heard = {} /\ socket # "opening"
    /\ heard # {} => socket # "opening"
    /\ \A i, j \in 1 .. Len(frames) : frames[i] = "CONNECT" /\ frames[j] = "CONNECT" => i = j
ConnectOnce == \A s \in Side : Once(ends[s].frames, ends[s].heard, sockets[Other(s)])

\* What a message says that its sender has heard.
Claims(message) ==
    CASE message = "ACK" -> {"CONNECT"}
      [] message = "OK" -> {"CONNECT", "ACK"}
      [] OTHER -> {}

\* What an end has heard or will hear is true of the other end.
Promised(frames, heard, other) ==
    \A m \in {"ACK", "OK"} : Contains(frames, m) \/ m \in heard => Claims(m) \subseteq other
Promises == BothThisCode =>
    \A s \in Side : Promised(ends[s].frames, ends[s].heard, ends[Other(s)].heard)

\* What an end knows of the other once it has read its CONNECT, and what it has told
\* the orchestrator of it.
TypeAt(s) == IF s = "client" THEN setup.type
             ELSE TypeFromFlags(Flags(setup.type), NamesChunk(setup.type))
CommonFeatures == setup.features["client"] \cap setup.features["server"]
Knows(s, end) ==
    /\ end.remote \in {"none", Other(s)}
    /\ end.remote # "none" => AnnouncedType(s, end) = TypeAt(s)
    /\ end.features \in {{"none"}, CommonFeatures}
Announced(s, announced, remote) ==
    announced # "none" => announced = TypeAt(s) /\ remote = Other(s)
Knowledge == \A s \in Side :
    Knows(s, ends[s]) /\ Announced(s, orchestrator[s].announced, ends[s].remote)

IInv ==
    /\ TypeOK
    /\ \A s \in Side : StateHeard(ends[s].state, ends[s].heard)
    /\ ends["server"].remote_type # "Incoming"
    /\ ConnectOnce
    /\ Promises
    /\ Knowledge

-----------------------------------------------------------------------------
(* What the controller makes of an event. *)

\* A step of WS2PHandshake by one end, or none.
Heard(before, after, frame) ==
    \/ after = before
    \/ frame = "CONNECT" /\ before = {} /\ after = {"CONNECT"}
    \/ frame \in {"ACK", "OK"} /\ "CONNECT" \in before /\ frame \notin before
       /\ after = before \cup {frame}

\* The controller of s, before and after it has taken the first frame, or none.
Follows(s, end) ==
    /\ end \in Controller
    /\ s = "server" => end.remote_type # "Incoming"
    /\ Knows(s, end) /\ (ends[s].remote # "none" => end.remote = Other(s))
    /\ \/ end.frames = ends[s].frames /\ end.heard = ends[s].heard
       \/ /\ ends[s].frames # <<>> /\ end.frames = Tail(ends[s].frames)
          /\ Heard(ends[s].heard, end.heard, Head(ends[s].frames))

Sound(s, order) ==
    /\ Follows(s, order.end)
    /\ order.ok \in State /\ order.fail \in State
    /\ order.action \in {"none", "fatal", "close", "CONNECT", "ACK", "OK"}
    /\ order.action = "CONNECT" => sockets[s] = "opening"
    /\ Claims(order.action) \subseteq order.end.heard
    /\ order.action = "none" =>
         /\ StateHeard(order.end.state, order.end.heard)
         /\ order.end.state = "Established" /\ ends[s].state # "Established"
              => order.end.remote # "none"
    /\ order.action \notin {"none", "fatal"} =>
         StateHeard(order.ok, order.end.heard) /\ StateHeard(order.fail, order.end.heard)

\* The two ends are each other's.
LEMMA Ends == \A s \in Side : Other(s) \in Side /\ Other(s) # s /\ Other(Other(s)) = s
BY DEF Side, Other

\* TypeFromFlags gives a type of connection.
LEMMA FlagsType ==
    ASSUME NEW flags, NEW names PROVE TypeFromFlags(flags, names) \in ConnectType
BY DEF TypeFromFlags, ConnectType

\* The states that end a connection say nothing of what was heard.
LEMMA OverHeard ==
    \A state \in Over : state \in State /\ \A heard : StateHeard(state, heard)
BY DEF StateHeard, Over, State

\* The four kinds of orders: a message to send.
LEMMA SendIsSound ==
    ASSUME NEW s, NEW end, Follows(s, end), NEW action \in {"ACK", "OK"},
           NEW ok \in State, StateHeard(ok, end.heard), Claims(action) \subseteq end.heard
    PROVE  Sound(s, Order(end, action, ok, "Unreachable"))
<1> DEFINE order == Order(end, action, ok, "Unreachable")
<1>1. order.end = end /\ order.action = action /\ order.ok = ok /\ order.fail = "Unreachable"
  BY DEF Order
<1>2. StateHeard("Unreachable", end.heard) /\ "Unreachable" \in State
  BY OverHeard DEF Over
<1> HIDE DEF order
<1>3. Sound(s, order)
  BY <1>1, <1>2 DEF Sound
<1> QED BY <1>3 DEF order

\* A close.
LEMMA CloseIsSound ==
    ASSUME NEW s, NEW end, Follows(s, end), NEW ok \in Over, NEW fail \in Over
    PROVE  Sound(s, Order(end, "close", ok, fail))
<1> DEFINE order == Order(end, "close", ok, fail)
<1>1. order.end = end /\ order.action = "close" /\ order.ok = ok /\ order.fail = fail
  BY DEF Order
<1> HIDE DEF order
<1>3. Sound(s, order)
  BY <1>1, OverHeard DEF Sound, Claims
<1> QED BY <1>3 DEF order

\* Nothing.
LEMMA NoneIsSound ==
    ASSUME NEW s, NEW end, Follows(s, end), StateHeard(end.state, end.heard),
           end.state = "Established" /\ ends[s].state # "Established" => end.remote # "none"
    PROVE  Sound(s, NoOrder(end))
<1> DEFINE order == NoOrder(end)
<1>1. order.end = end /\ order.action = "none" /\ order.ok = end.state /\ order.fail = end.state
  BY DEF Order, NoOrder
<1>2. end.state \in State
  BY DEF Follows, Controller
<1> HIDE DEF order
<1>3. Sound(s, order)
  BY <1>1, <1>2 DEF Sound, Claims
<1> QED BY <1>3 DEF order

\* The end of the process.
LEMMA FatalIsSound ==
    ASSUME NEW s, NEW end, Follows(s, end)
    PROVE  Sound(s, Order(end, "fatal", end.state, end.state))
<1> DEFINE order == Order(end, "fatal", end.state, end.state)
<1>1. order.end = end /\ order.action = "fatal" /\ order.ok = end.state /\ order.fail = end.state
  BY DEF Order
<1>2. end.state \in State
  BY DEF Follows, Controller
<1> HIDE DEF order
<1>3. Sound(s, order)
  BY <1>1, <1>2 DEF Sound, Claims
<1> QED BY <1>3 DEF order

\* A controller that says the same of the other end as before.
Same(before, after) ==
    /\ after.remote = before.remote /\ after.remote_type = before.remote_type
    /\ after.features = before.features
LEMMA SameKnows ==
    ASSUME IInv, NEW s \in Side, NEW end, Same(ends[s], end)
    PROVE  /\ Knows(s, end) /\ (ends[s].remote # "none" => end.remote = Other(s))
           /\ s = "server" => end.remote_type # "Incoming"
<1>1. Knows(s, ends[s])
  BY DEF IInv, Knowledge
<1>2. AnnouncedType(s, end) = AnnouncedType(s, ends[s])
  BY DEF AnnouncedType, Same
<1> QED BY <1>1, <1>2 DEF Knows, Same, IInv

\* A CONNECT: it is the first that the end hears, since the other end sends one only.
LEMMA ConnectIsSound ==
    ASSUME IInv, NEW s \in Side, ends[s].frames # <<>>, Head(ends[s].frames) = "CONNECT"
    PROVE  Sound(s, HearConnect(s, [ends[s] EXCEPT !.frames = Tail(@)]))
<1> DEFINE end == [ends[s] EXCEPT !.frames = Tail(@)]
<1>1. ends[s] \in Controller /\ setup \in Setup
  BY WS2Pv2Assumption DEF IInv, TypeOK, Controller
<1>2. ends[s].heard = {}
  <2>1. 1 \in 1 .. Len(ends[s].frames) /\ ends[s].frames[1] = "CONNECT"
    BY <1>1 DEF Controller
  <2> QED BY <2>1 DEF IInv, ConnectOnce, Once, Contains
<1>3. end \in Controller /\ end.frames = Tail(ends[s].frames) /\ end.heard = {}
  <2>1. Tail(ends[s].frames) \in Seq(Frame)
    BY <1>1 DEF Controller
  <2> QED BY <1>1, <1>2, <2>1 DEF Controller
<1>4. Same(ends[s], end)
  BY <1>1 DEF Same, Controller
<1>5. Follows(s, end)
  BY <1>2, <1>3, <1>4, SameKnows DEF Follows, Heard
<1>6. CASE ~(end.state = "WaitingConnectMsg" /\ s = "client" /\ ~setup.expected)
  <2> DEFINE type == IF s = "client" THEN "Incoming"
                     ELSE TypeFromFlags(Flags(TypeOf(Other(s))), NamesChunk(TypeOf(Other(s))))
             known == [end EXCEPT !.remote = IF end.state = "WaitingConnectMsg" THEN Other(s) ELSE @,
                                  !.remote_type = IF end.state = "WaitingConnectMsg" THEN type ELSE @]
             merged == MergedFeatures(setup.features[s], setup.features[Other(s)], end.features)
             new == [known EXCEPT !.features = merged, !.heard = {"CONNECT"}]
  <2>1. type \in ConnectType \cup {"Incoming"} /\ (s = "server" => type # "Incoming")
    BY FlagsType DEF Side, ConnectType
  <2>2. merged \in (SUBSET Feature) \cup {{"none"}} /\ merged \in {end.features, CommonFeatures}
    BY <1>1, <1>3, Ends DEF MergedFeatures, Controller, Setup, CommonFeatures, Side, Other
  <2>3. /\ new \in Controller /\ new.heard = {"CONNECT"} /\ new.frames = Tail(ends[s].frames)
        /\ new.features = merged
        /\ new.remote = IF end.state = "WaitingConnectMsg" THEN Other(s) ELSE end.remote
        /\ new.remote_type = IF end.state = "WaitingConnectMsg" THEN type ELSE end.remote_type
    <3> HIDE DEF type, merged
    <3> QED BY <1>3, <1>4, <2>1, <2>2, Ends DEF Controller
  <2>4. HearConnect(s, end) = Order(new, "ACK", "ConnectMessOk", "Unreachable")
    BY <1>6 DEF HearConnect
  <2> HIDE DEF new
  <2>5. s = "server" => type = TypeAt(s)
    BY DEF TypeAt, TypeOf, Side, Other
  <2> HIDE DEF type, merged
  <2>6. /\ Knows(s, new) /\ (ends[s].remote # "none" => new.remote = Other(s))
        /\ s = "server" => new.remote_type # "Incoming"
    <3>1. /\ Knows(s, end) /\ (ends[s].remote # "none" => end.remote = Other(s))
          /\ s = "server" => end.remote_type # "Incoming"
      BY <1>5 DEF Follows
    <3>2. new.features \in {{"none"}, CommonFeatures}
      BY <2>2, <2>3, <3>1 DEF Knows
    <3>3. CASE end.state = "WaitingConnectMsg"
      <4>1. new.remote = Other(s) /\ new.remote_type = type
        BY <2>3, <3>3
      <4>2. AnnouncedType(s, new) = TypeAt(s)
        BY <2>5, <4>1 DEF AnnouncedType, TypeAt, TypeOf, Side
      <4> QED BY <2>1, <3>2, <4>1, <4>2 DEF Knows
    <3>4. CASE end.state # "WaitingConnectMsg"
      <4>1. new.remote = end.remote /\ new.remote_type = end.remote_type
        BY <2>3, <3>4
      <4>2. AnnouncedType(s, new) = AnnouncedType(s, end)
        BY <4>1 DEF AnnouncedType
      <4> QED BY <3>1, <3>2, <4>1, <4>2 DEF Knows
    <3> QED BY <3>3, <3>4
  <2>7. Follows(s, new)
    BY <1>2, <2>3, <2>6 DEF Follows, Heard
  <2>8. /\ "ConnectMessOk" \in State /\ StateHeard("ConnectMessOk", new.heard)
        /\ Claims("ACK") \subseteq new.heard
    BY <2>3 DEF StateHeard, State, Claims
  <2> QED BY <2>4, <2>7, <2>8, SendIsSound
<1>7. CASE end.state = "WaitingConnectMsg" /\ s = "client" /\ ~setup.expected
  <2>1. HearConnect(s, end) = Order(end, "close", "Denial", "Denial")
    BY <1>7 DEF HearConnect, CloseOrder
  <2> QED BY <1>5, <2>1, CloseIsSound DEF Over
<1> QED BY <1>6, <1>7

\* The first frame is taken from a controller that is sound, and nothing else changes.
LEMMA TakenFollows ==
    ASSUME IInv, NEW s \in Side, ends[s].frames # <<>>
    PROVE  LET end == [ends[s] EXCEPT !.frames = Tail(@)]
           IN  /\ Follows(s, end) /\ end \in Controller
               /\ end.state = ends[s].state /\ end.heard = ends[s].heard
               /\ end.frames = Tail(ends[s].frames) /\ StateHeard(end.state, end.heard)
               /\ Same(ends[s], end)
<1> DEFINE end == [ends[s] EXCEPT !.frames = Tail(@)]
<1>1. ends[s] \in Controller
  BY DEF IInv, TypeOK, Controller
<1>2. Tail(ends[s].frames) \in Seq(Frame)
  BY <1>1 DEF Controller
<1>3. /\ end \in Controller /\ end.frames = Tail(ends[s].frames)
      /\ end.heard = ends[s].heard /\ end.state = ends[s].state
      /\ Same(ends[s], end)
  BY <1>1, <1>2 DEF Controller, Same
<1>4. Follows(s, end)
  BY <1>3, SameKnows DEF Follows, Heard
<1> QED BY <1>3, <1>4 DEF IInv

\* An ACK is heard after a CONNECT, before or after the OK.
LEMMA AckIsSound ==
    ASSUME IInv, NEW s \in Side, ends[s].frames # <<>>, NEW right \in BOOLEAN,
           right => Head(ends[s].frames) = "ACK"
    PROVE  Sound(s, HearAck([ends[s] EXCEPT !.frames = Tail(@)], right))
<1> DEFINE end == [ends[s] EXCEPT !.frames = Tail(@)]
           after == IF end.state = "ConnectMessOk" THEN "AckMsgOk" ELSE "Established"
           heard == [end EXCEPT !.heard = @ \cup {"ACK"}]
           denied == [end EXCEPT !.state = "Denial"]
<1>1. /\ Follows(s, end) /\ end \in Controller /\ end.heard = ends[s].heard
      /\ end.frames = Tail(ends[s].frames) /\ StateHeard(end.state, end.heard)
      /\ Same(ends[s], end) /\ end.state = ends[s].state
  BY TakenFollows
<1> HIDE DEF end
<1>2. CASE end.state \notin {"ConnectMessOk", "OkMsgOkWaitingAckMsg"}
  BY <1>1, <1>2, CloseIsSound DEF HearAck, CloseOrder, Over, end
<1>3. CASE end.state \in {"ConnectMessOk", "OkMsgOkWaitingAckMsg"} /\ right
  <2>1. "CONNECT" \in end.heard /\ "ACK" \notin end.heard
    BY <1>1, <1>3 DEF StateHeard
  <2>2. /\ heard \in Controller /\ heard.heard = end.heard \cup {"ACK"}
        /\ heard.frames = end.frames /\ Same(ends[s], heard)
    BY <1>1 DEF Controller, Same
  <2>3. Follows(s, heard) /\ Claims("OK") \subseteq heard.heard
    BY <1>1, <1>3, <2>1, <2>2, SameKnows DEF Follows, Heard, Claims
  <2>4. after \in State /\ StateHeard(after, heard.heard)
    BY <1>1, <1>3, <2>2 DEF StateHeard, State
  <2>5. HearAck(end, right) = Order(heard, "OK", after, "Unreachable")
    BY <1>3 DEF HearAck
  <2> HIDE DEF heard, after
  <2> QED BY <2>3, <2>4, <2>5, SendIsSound DEF end
<1>4. CASE end.state \in {"ConnectMessOk", "OkMsgOkWaitingAckMsg"} /\ ~right
  <2>1. /\ denied \in Controller /\ denied.state = "Denial" /\ denied.heard = end.heard
        /\ denied.frames = end.frames /\ Same(ends[s], denied)
    BY <1>1 DEF Controller, State, Over, Same
  <2>2. Follows(s, denied) /\ StateHeard(denied.state, denied.heard)
    BY <1>1, <2>1, OverHeard, SameKnows DEF Follows, Over
  <2>3. HearAck(end, right) = NoOrder(denied)
    BY <1>4 DEF HearAck
  <2> HIDE DEF denied
  <2> QED BY <2>1, <2>2, <2>3, NoneIsSound DEF end
<1> QED BY <1>2, <1>3, <1>4 DEF end

\* An OK is heard after a CONNECT, before or after the ACK.
LEMMA OkIsSound ==
    ASSUME IInv, NEW s \in Side, ends[s].frames # <<>>, Head(ends[s].frames) = "OK"
    PROVE  Sound(s, HearOk([ends[s] EXCEPT !.frames = Tail(@)]))
<1> DEFINE end == [ends[s] EXCEPT !.frames = Tail(@)]
           waits == [end EXCEPT !.state = "OkMsgOkWaitingAckMsg", !.heard = @ \cup {"OK"}]
           established == [end EXCEPT !.state = "Established", !.heard = @ \cup {"OK"}]
           first == {"ConnectMessOk", "SecretFlagsOkWaitingAckMsg"}
           second == {"AckMsgOk", "SecretFlagsOk"}
<1>1. /\ Follows(s, end) /\ end \in Controller /\ end.heard = ends[s].heard
      /\ end.frames = Tail(ends[s].frames) /\ StateHeard(end.state, end.heard)
      /\ Same(ends[s], end) /\ end.state = ends[s].state
  BY TakenFollows
<1> HIDE DEF end
<1>2. CASE end.state \in second /\ end.remote = "none"
  BY <1>1, <1>2, FatalIsSound DEF HearOk, end
<1>3. CASE end.state \in first
  <2>1. "CONNECT" \in end.heard /\ "OK" \notin end.heard
    BY <1>1, <1>3 DEF StateHeard
  <2>2. /\ waits \in Controller /\ waits.heard = end.heard \cup {"OK"}
        /\ waits.state = "OkMsgOkWaitingAckMsg"
        /\ waits.frames = end.frames /\ Same(ends[s], waits)
    BY <1>1 DEF Controller, State, Same
  <2>3. Follows(s, waits)
    BY <1>1, <2>1, <2>2, SameKnows DEF Follows, Heard
  <2>4. StateHeard(waits.state, waits.heard)
    BY <1>1, <1>3, <2>2 DEF StateHeard
  <2>5. HearOk(end) = NoOrder(waits)
    BY <1>3 DEF HearOk
  <2> HIDE DEF waits
  <2>6. Sound(s, NoOrder(waits))
    BY <2>2, <2>3, <2>4, NoneIsSound
  <2> QED BY <2>5, <2>6 DEF end
<1>4. CASE end.state \in second /\ end.remote # "none"
  <2>1. "CONNECT" \in end.heard /\ "OK" \notin end.heard
    BY <1>1, <1>4 DEF StateHeard
  <2>2. /\ established \in Controller /\ established.heard = end.heard \cup {"OK"}
        /\ established.state = "Established"
        /\ established.frames = end.frames /\ Same(ends[s], established) /\ established.remote = end.remote
    BY <1>1 DEF Controller, State, Same
  <2>3. Follows(s, established)
    BY <1>1, <2>1, <2>2, SameKnows DEF Follows, Heard
  <2>4. StateHeard(established.state, established.heard)
    BY <1>1, <1>4, <2>2 DEF StateHeard
  <2>5. HearOk(end) = NoOrder(established)
    BY <1>4 DEF HearOk
  <2> HIDE DEF established
  <2>6. Sound(s, NoOrder(established))
    BY <1>4, <2>2, <2>3, <2>4, NoneIsSound
  <2> QED BY <2>5, <2>6 DEF end
<1>5. CASE end.state \notin first \cup second
  <2>1. HearOk(end) = Order(end, "close", "Denial", "Denial")
    BY <1>5 DEF HearOk, CloseOrder
  <2> QED BY <1>1, <2>1, CloseIsSound DEF end, Over
<1> QED BY <1>2, <1>3, <1>4, <1>5 DEF end

\* Secret flags change the state alone.
LEMMA SecretFlagsIsSound ==
    ASSUME IInv, NEW s \in Side, ends[s].frames # <<>>
    PROVE  Sound(s, HearSecretFlags([ends[s] EXCEPT !.frames = Tail(@)]))
<1> DEFINE end == [ends[s] EXCEPT !.frames = Tail(@)]
           new(state) == [end EXCEPT !.state = state]
<1>1. /\ Follows(s, end) /\ end \in Controller /\ end.heard = ends[s].heard
      /\ end.frames = Tail(ends[s].frames) /\ StateHeard(end.state, end.heard)
      /\ Same(ends[s], end) /\ end.state = ends[s].state
  BY TakenFollows
<1> HIDE DEF end
<1>2. \A state \in State \ {"Established"} :
         StateHeard(state, end.heard) => Sound(s, NoOrder(new(state)))
  <2> SUFFICES ASSUME NEW state \in State \ {"Established"}, StateHeard(state, end.heard)
               PROVE  Sound(s, NoOrder(new(state)))
    OBVIOUS
  <2>1. /\ new(state) \in Controller /\ new(state).state = state
        /\ new(state).heard = end.heard /\ new(state).frames = end.frames
        /\ Same(ends[s], new(state))
    BY <1>1 DEF Controller, Same
  <2> HIDE DEF new
  <2>2. Follows(s, new(state)) /\ StateHeard(new(state).state, new(state).heard)
    BY <1>1, <2>1, SameKnows DEF Follows
  <2> QED BY <2>1, <2>2, NoneIsSound
<1>3. CASE end.state = "ConnectMessOk"
  <2>1. HearSecretFlags(end) = NoOrder(new("SecretFlagsOkWaitingAckMsg"))
    BY <1>3 DEF HearSecretFlags
  <2>2. /\ StateHeard("SecretFlagsOkWaitingAckMsg", end.heard)
        /\ "SecretFlagsOkWaitingAckMsg" \in State
    BY <1>1, <1>3 DEF StateHeard, State
  <2>3. Sound(s, NoOrder(new("SecretFlagsOkWaitingAckMsg")))
    BY <1>2, <2>2
  <2> QED BY <2>1, <2>3 DEF end
<1>4. CASE end.state = "AckMsgOk"
  <2>1. HearSecretFlags(end) = NoOrder(new("SecretFlagsOk"))
    BY <1>4 DEF HearSecretFlags
  <2>2. StateHeard("SecretFlagsOk", end.heard) /\ "SecretFlagsOk" \in State
    BY <1>1, <1>4 DEF StateHeard, State
  <2>3. Sound(s, NoOrder(new("SecretFlagsOk")))
    BY <1>2, <2>2
  <2> QED BY <2>1, <2>3 DEF end
<1>5. CASE end.state \notin {"ConnectMessOk", "AckMsgOk"}
  <2>1. HearSecretFlags(end) = Order(end, "close", "Denial", "Denial")
    BY <1>5 DEF HearSecretFlags, CloseOrder
  <2> QED BY <1>1, <2>1, CloseIsSound DEF end, Over
<1> QED BY <1>3, <1>4, <1>5 DEF end

\* So does a message that cannot be read, whatever the count of them.
LEMMA InvalidIsSound ==
    ASSUME IInv, NEW s \in Side, ends[s].frames # <<>>
    PROVE  LET end == [ends[s] EXCEPT !.frames = Tail(@)]
           IN  Sound(s, HearInvalid([end EXCEPT !.invalid = @ + 1]))
<1> DEFINE end == [ends[s] EXCEPT !.frames = Tail(@)]
           new == [end EXCEPT !.invalid = @ + 1]
<1>1. /\ Follows(s, end) /\ end \in Controller /\ StateHeard(end.state, end.heard)
      /\ Same(ends[s], end) /\ end.state = ends[s].state
  BY TakenFollows
<1> HIDE DEF end
<1>2. end.invalid \in Nat /\ end.invalid + 1 \in Nat
  BY <1>1 DEF Controller
<1>3. /\ new \in Controller /\ new.state = end.state /\ new.heard = end.heard
      /\ new.frames = end.frames /\ Same(ends[s], new)
  BY <1>1, <1>2 DEF Controller, Same
<1> HIDE DEF new
<1>4. Follows(s, new) /\ StateHeard(new.state, new.heard)
  BY <1>1, <1>3, SameKnows DEF Follows
<1>5. Sound(s, NoOrder(new)) /\ Sound(s, Order(new, "close", "Denial", "Denial"))
  BY <1>1, <1>3, <1>4, NoneIsSound, CloseIsSound DEF Over
<1>6. Sound(s, HearInvalid(new))
  BY <1>5 DEF HearInvalid, CloseOrder
<1> QED BY <1>6 DEF new, end

\* Whatever the frame, the order is sound.
LEMMA ProcessIsSound ==
    ASSUME IInv, NEW s \in Side, ends[s].frames # <<>>
    PROVE  Sound(s, Process(s, [ends[s] EXCEPT !.frames = Tail(@)], Head(ends[s].frames)))
<1> DEFINE end == [ends[s] EXCEPT !.frames = Tail(@)]
           frame == Head(ends[s].frames)
<1>1. Follows(s, end) /\ StateHeard(end.state, end.heard) /\ end.state = ends[s].state
  BY TakenFollows
<1>2. Sound(s, NoOrder(end)) /\ Sound(s, CloseOrder(end, "Denial"))
  BY <1>1, NoneIsSound, CloseIsSound DEF CloseOrder, Over
<1>3. frame = "CONNECT" => Sound(s, HearConnect(s, end))
  BY ConnectIsSound
<1>4. frame = "ACK" => Sound(s, HearAck(end, TRUE))
  BY AckIsSound
<1>5. frame = "OK" => Sound(s, HearOk(end))
  BY OkIsSound
<1>6. Sound(s, HearAck(end, FALSE))
  BY AckIsSound
<1>7. Sound(s, HearSecretFlags(end))
  BY SecretFlagsIsSound
<1>8. Sound(s, HearInvalid([end EXCEPT !.invalid = @ + 1]))
  BY InvalidIsSound, Zenon
<1>9. Sound(s, HearBareConnect(s, end)) /\ Sound(s, TimeoutOrder(end))
  BY <1>1, FatalIsSound, CloseIsSound DEF HearBareConnect, CloseOrder, TimeoutOrder, Over
<1> HIDE DEF end, frame
<1>10. Sound(s, Process(s, end, frame))
  BY <1>2, <1>3, <1>4, <1>5, <1>6, <1>7, <1>8, <1>9 DEF Process
<1> QED BY <1>10 DEF end, frame

-----------------------------------------------------------------------------
(* The frames on their way. *)

\* What is appended holds a CONNECT only when it is sent by an end that just opens.
LEMMA OnceAppended ==
    ASSUME NEW f \in Seq(Frame), NEW g \in Seq(Frame), NEW heard, NEW socket, NEW new,
           Once(f, heard, socket), socket # "opening" => new # "opening",
           Contains(g, "CONNECT") =>
              /\ socket = "opening" /\ new # "opening"
              /\ \A i, j \in 1 .. Len(g) : g[i] = "CONNECT" /\ g[j] = "CONNECT" => i = j
    PROVE  Once(f \o g, heard, new)
<1>1. CASE Contains(g, "CONNECT")
  <2>1. heard = {} /\ ~Contains(f, "CONNECT")
    BY <1>1 DEF Once
  <2>2. \A i \in 1 .. Len(f \o g) : (f \o g)[i] = "CONNECT" =>
           i > Len(f) /\ i - Len(f) \in 1 .. Len(g) /\ g[i - Len(f)] = "CONNECT"
    BY <2>1 DEF Contains
  <2>3. \A i, j \in 1 .. Len(f \o g) :
           (f \o g)[i] = "CONNECT" /\ (f \o g)[j] = "CONNECT" => i = j
    <3> SUFFICES ASSUME NEW i \in 1 .. Len(f \o g), NEW j \in 1 .. Len(f \o g),
                        (f \o g)[i] = "CONNECT", (f \o g)[j] = "CONNECT"
                 PROVE  i = j
      OBVIOUS
    <3>1. i - Len(f) = j - Len(f)
      BY <1>1, <2>2
    <3> QED BY <3>1
  <2> QED BY <1>1, <2>1, <2>3 DEF Once
<1>2. CASE ~Contains(g, "CONNECT")
  <2>1. \A i \in 1 .. Len(f \o g) : (f \o g)[i] = "CONNECT" => i \in 1 .. Len(f) /\ f[i] = "CONNECT"
    BY <1>2 DEF Contains
  <2>2. Contains(f \o g, "CONNECT") => Contains(f, "CONNECT")
    BY <2>1 DEF Contains
  <2> QED BY <2>1, <2>2 DEF Once
<1> QED BY <1>1, <1>2

\* A frame is taken from the front.
LEMMA OnceTaken ==
    ASSUME NEW f \in Seq(Frame), f # <<>>, NEW heard, NEW after, NEW socket,
           Once(f, heard, socket), Heard(heard, after, Head(f))
    PROVE  Once(Tail(f), after, socket)
<1>1. \A i \in 1 .. Len(Tail(f)) : i + 1 \in 1 .. Len(f) /\ Tail(f)[i] = f[i + 1]
  OBVIOUS
<1>2. 1 \in 1 .. Len(f) /\ Head(f) = f[1]
  OBVIOUS
<1>3. \A i, j \in 1 .. Len(Tail(f)) : Tail(f)[i] = "CONNECT" /\ Tail(f)[j] = "CONNECT" => i = j
  <2> SUFFICES ASSUME NEW i \in 1 .. Len(Tail(f)), NEW j \in 1 .. Len(Tail(f)),
                      Tail(f)[i] = "CONNECT", Tail(f)[j] = "CONNECT"
               PROVE  i = j
    OBVIOUS
  <2>1. i + 1 = j + 1
    BY <1>1 DEF Once
  <2> QED BY <2>1
<1>4. Contains(Tail(f), "CONNECT") => after = {} /\ socket # "opening"
  <2> SUFFICES ASSUME NEW i \in 1 .. Len(Tail(f)), Tail(f)[i] = "CONNECT"
               PROVE  after = {} /\ socket # "opening"
    BY DEF Contains
  <2>1. i + 1 \in 1 .. Len(f) /\ f[i + 1] = "CONNECT" /\ i + 1 # 1
    BY <1>1
  <2>2. heard = {} /\ socket # "opening" /\ Head(f) # "CONNECT"
    BY <1>2, <2>1 DEF Once, Contains
  <2> QED BY <2>2 DEF Heard
<1>5. after # {} => socket # "opening"
  BY <1>2 DEF Once, Heard, Contains
<1> QED BY <1>3, <1>4, <1>5 DEF Once

\* No frame is left.
LEMMA OnceEmptied ==
    ASSUME NEW f, NEW heard, NEW socket, NEW new, Once(f, heard, socket),
           socket # "opening" => new # "opening"
    PROVE  Once(<<>>, heard, new)
BY DEF Once, Contains

\* The frames behind a first one, and two sequences of frames, hold nothing new.
LEMMA ContainsTaken ==
    ASSUME NEW f \in Seq(Frame), f # <<>>, NEW m
    PROVE  /\ Contains(Tail(f), m) => Contains(f, m)
           /\ Contains(f, Head(f))
<1>1. \A i \in 1 .. Len(Tail(f)) : i + 1 \in 1 .. Len(f) /\ Tail(f)[i] = f[i + 1]
  OBVIOUS
<1>2. 1 \in 1 .. Len(f) /\ Head(f) = f[1]
  OBVIOUS
<1> QED BY <1>1, <1>2 DEF Contains

\* What both sequences hold is all that they hold together.
LEMMA ContainsAppended ==
    ASSUME NEW f \in Seq(Frame), NEW g \in Seq(Frame), NEW m, Contains(f \o g, m)
    PROVE  Contains(f, m) \/ Contains(g, m)
<1>1. PICK i \in 1 .. Len(f \o g) : (f \o g)[i] = m
  BY DEF Contains
<1>2. CASE i <= Len(f)
  <2>1. i \in 1 .. Len(f) /\ f[i] = m
    BY <1>1, <1>2
  <2> QED BY <2>1 DEF Contains
<1>3. CASE i > Len(f)
  <2>1. i - Len(f) \in 1 .. Len(g) /\ g[i - Len(f)] = m
    BY <1>1, <1>3
  <2> QED BY <2>1 DEF Contains
<1> QED BY <1>1, <1>2, <1>3

\* What is appended is true of its sender, which forgets nothing.
LEMMA PromisedAppended ==
    ASSUME NEW f \in Seq(Frame), NEW g \in Seq(Frame), NEW heard, NEW other, NEW now,
           Promised(f, heard, other), other \subseteq now,
           \A m \in {"ACK", "OK"} : Contains(g, m) => Claims(m) \subseteq now
    PROVE  Promised(f \o g, heard, now)
BY ContainsAppended DEF Promised

\* What is heard was on its way.
LEMMA PromisedTaken ==
    ASSUME NEW f \in Seq(Frame), f # <<>>, NEW heard, NEW after, NEW other,
           Promised(f, heard, other), Heard(heard, after, Head(f))
    PROVE  Promised(Tail(f), after, other)
BY ContainsTaken DEF Promised, Heard

\* Lost frames promise nothing.
LEMMA PromisedEmptied ==
    ASSUME NEW f, NEW heard, NEW other, Promised(f, heard, other)
    PROVE  Promised(<<>>, heard, other)
BY DEF Promised, Contains

-----------------------------------------------------------------------------
(* What the handler makes of an order. *)

\* A step of WS2PHandshake by one of the ends, or none.
HearsOne(s, m) ==
    /\ m \notin ends[s].heard
    /\ m = "CONNECT" \/ "CONNECT" \in ends[s].heard
    /\ ends'[s].heard = ends[s].heard \cup {m}
    /\ \A t \in Side \ {s} : ends'[t].heard = ends[t].heard
Negotiates ==
    \/ \A t \in Side : ends'[t].heard = ends[t].heard
    \/ \E s \in Side, m \in {"CONNECT", "ACK", "OK"} : HearsOne(s, m)

Step == IInv' /\ Negotiates

\* New frames leave the rest of a controller as it is.
LEMMA FramesReplaced ==
    ASSUME NEW c \in Controller, NEW frames \in Seq(Frame)
    PROVE  LET new == [c EXCEPT !.frames = frames]
           IN  /\ new \in Controller /\ new.frames = frames /\ new.heard = c.heard
               /\ new.state = c.state /\ new.remote_type = c.remote_type /\ Same(c, new)
BY DEF Controller, Same

\* What an end knows does not depend on what changes.
LEMMA KnowsKeeps ==
    ASSUME setup' = setup, NEW s, NEW before, NEW after, Same(before, after), Knows(s, before),
           ends'[s] = after
    PROVE  Knows(s, ends[s])'
<1>1. AnnouncedType(s, ends[s])' = AnnouncedType(s, before) /\ TypeAt(s)' = TypeAt(s)
  BY DEF AnnouncedType, TypeOf, TypeAt, Same
<1>2. CommonFeatures' = CommonFeatures
  BY DEF CommonFeatures
<1> QED BY <1>1, <1>2 DEF Knows, Same

\* IInv, for a step after which setup, orchestrator and spent have their types.
LEMMA StepOfEnds ==
    ASSUME IInv, setup' = setup, NEW s \in Side, NEW t \in Side, t = Other(s),
           orchestrator' \in [Side -> [there : BOOLEAN, told : State, announced : ConnectType \cup {"none"}]],
           sockets' \in [Side -> {"opening", "open", "closing", "closed", "fatal"}],
           spent' \in [faults : 0 .. MaxFaults, foreign : 0 .. MaxForeign],
           NEW new \in Controller, NEW frames \in Seq(Frame),
           ends' = [ends EXCEPT ![s] = new, ![t].frames = frames],
           s = "server" => new.remote_type # "Incoming",
           StateHeard(new.state, new.heard),
           Once(new.frames, new.heard, sockets'[t]), Once(frames, ends[t].heard, sockets'[s]),
           Knows(s, new), Announced(s, orchestrator'[s].announced, new.remote),
           orchestrator'[t] = orchestrator[t],
           BothThisCode => /\ Promised(new.frames, new.heard, ends[t].heard)
                           /\ Promised(frames, ends[t].heard, new.heard),
           \/ new.heard = ends[s].heard
           \/ ends[s].heard = {} /\ new.heard = {"CONNECT"}
           \/ \E m \in {"ACK", "OK"} : /\ "CONNECT" \in ends[s].heard /\ m \notin ends[s].heard
                                       /\ new.heard = ends[s].heard \cup {m}
    PROVE  Step
<1>1. Side = {s, t} /\ s # t /\ Other(t) = s
  BY Ends DEF Side, Other
<1>2. ends \in [Side -> Controller]
  BY DEF IInv, TypeOK, Controller
<1>3. /\ ends' \in [Side -> Controller]
      /\ ends'[s] = new
      /\ ends'[t] = [ends[t] EXCEPT !.frames = frames]
  <2>1. [ends[t] EXCEPT !.frames = frames] \in Controller
    BY <1>2, FramesReplaced
  <2>2. ends'[s] = new /\ ends'[t] = [ends[t] EXCEPT !.frames = frames]
    BY <1>1, <1>2
  <2>3. ends' = [x \in Side |-> ends'[x]]
    BY <1>2
  <2>4. \A x \in Side : ends'[x] \in Controller
    BY <1>1, <2>1, <2>2
  <2> QED BY <2>2, <2>3, <2>4
<1>4. /\ ends'[t].frames = frames /\ ends'[t].heard = ends[t].heard
      /\ ends'[t].state = ends[t].state /\ ends'[t].remote_type = ends[t].remote_type
      /\ Same(ends[t], ends'[t])
  <2>1. ends[t] \in Controller
    BY <1>2
  <2>2. LET c == [ends[t] EXCEPT !.frames = frames]
        IN  /\ c.frames = frames /\ c.heard = ends[t].heard
            /\ c.state = ends[t].state /\ c.remote_type = ends[t].remote_type
            /\ Same(ends[t], c)
    BY <2>1, FramesReplaced
  <2> QED BY <1>3, <2>2
<1>5. TypeOK'
  BY <1>3 DEF IInv, TypeOK, Controller
<1>6. \A x \in Side : StateHeard(ends[x].state, ends[x].heard)'
  BY <1>1, <1>3, <1>4 DEF IInv
<1>7. (ends["server"].remote_type # "Incoming")'
  <2>1. s = "server" \/ t = "server"
    BY <1>1 DEF Side
  <2> QED BY <1>3, <1>4, <2>1 DEF IInv
<1>8. ConnectOnce'
  BY <1>1, <1>3, <1>4 DEF ConnectOnce
<1>9. Negotiates
  BY <1>1, <1>3, <1>4 DEF Negotiates, HearsOne
<1>10. Promises'
  BY <1>1, <1>3, <1>4 DEF Promises, BothThisCode
<1>11. Knowledge'
  <2>1. Knows(s, ends[s])' /\ Knows(t, ends[t])'
    <3>1. Same(new, new) /\ Knows(t, ends[t])
      BY <1>1 DEF Same, IInv, Knowledge
    <3> QED BY <1>3, <1>4, <3>1, KnowsKeeps
  <2>2. TypeAt(s)' = TypeAt(s) /\ TypeAt(t)' = TypeAt(t)
    BY DEF TypeAt
  <2>3. Announced(s, orchestrator[s].announced, ends[s].remote)'
    BY <1>3, <2>2 DEF Announced
  <2>4. Announced(t, orchestrator[t].announced, ends[t].remote)'
    BY <1>1, <1>4, <2>2 DEF Announced, IInv, Knowledge, Same
  <2> QED BY <1>1, <2>1, <2>3, <2>4 DEF Knowledge
<1> QED BY <1>5, <1>6, <1>7, <1>8, <1>9, <1>10, <1>11 DEF Step, IInv

Spents == [faults : 0 .. MaxFaults, foreign : 0 .. MaxForeign]
Sockets == {"opening", "open", "closing", "closed", "fatal"}

\* A sequence of one frame.
LEMMA OneFrame ==
    ASSUME NEW m \in Frame
    PROVE  <<m>> \in Seq(Frame) /\ Len(<<m>>) = 1 /\ <<m>>[1] = m
OBVIOUS

\* A sequence with one more frame.
LEMMA OneFrameMore ==
    ASSUME NEW f \in Seq(Frame), NEW m \in Frame
    PROVE  /\ Append(f, m) \in Seq(Frame) /\ Len(Append(f, m)) = Len(f) + 1
           /\ Append(f, m)[Len(f) + 1] = m
           /\ \A i \in 1 .. Len(f) : Append(f, m)[i] = f[i]
OBVIOUS

\* Appending a frame is appending a sequence of one.
LEMMA AppendedFrame ==
    ASSUME NEW f \in Seq(Frame), NEW m \in Frame
    PROVE  Append(f, m) = f \o <<m>> /\ <<m>> \in Seq(Frame) /\ Append(f, m) \in Seq(Frame)
OBVIOUS

\* What one order sends: a message, a close, both or nothing.
Sends(frames, sent) ==
    /\ sent \in Seq(Frame)
    /\ \A m \in {"CONNECT", "ACK", "OK"} : Contains(sent, m) => frames = <<m>>
    /\ \A i, j \in 1 .. Len(sent) : sent[i] = "CONNECT" /\ sent[j] = "CONNECT" => i = j
\* The frames of an order are such.
LEMMA SentFrames ==
    ASSUME NEW frames \in {<<>>, <<"CONNECT">>, <<"ACK">>, <<"OK">>}, NEW closes
    PROVE  Sends(frames, IF closes THEN Append(frames, "CLOSE") ELSE frames)
<1> DEFINE sent == IF closes THEN Append(frames, "CLOSE") ELSE frames
<1>1. {"CONNECT", "ACK", "OK", "CLOSE"} \subseteq Frame
  BY DEF Frame
<1>2. frames = <<>> \/ \E m \in {"CONNECT", "ACK", "OK"} : frames = <<m>>
  OBVIOUS
<1>3. frames \in Seq(Frame) /\ (Len(frames) = 0 \/ (Len(frames) = 1 /\ frames = <<frames[1]>>))
  <2>1. CASE frames = <<>>
    BY <2>1
  <2>2. ASSUME NEW m \in {"CONNECT", "ACK", "OK"}, frames = <<m>>
        PROVE  frames \in Seq(Frame) /\ Len(frames) = 1 /\ frames = <<frames[1]>>
    <3>1. <<m>> \in Seq(Frame) /\ Len(<<m>>) = 1 /\ <<m>>[1] = m
      BY <1>1, OneFrame
    <3> QED BY <2>2, <3>1
  <2> QED BY <1>2, <2>1, <2>2
<1>4. /\ sent \in Seq(Frame)
      /\ \A i \in 1 .. Len(sent) : sent[i] \in {"CONNECT", "ACK", "OK"} =>
            i = 1 /\ Len(frames) = 1 /\ frames[1] = sent[i]
  <2>1. CASE ~closes
    BY <1>3, <2>1
  <2>2. CASE closes
    <3>1. /\ sent \in Seq(Frame) /\ Len(sent) = Len(frames) + 1
          /\ sent[Len(frames) + 1] = "CLOSE"
          /\ \A i \in 1 .. Len(frames) : sent[i] = frames[i]
      BY <1>1, <1>3, <2>2, OneFrameMore
    <3> HIDE DEF sent
    <3>2. \A i \in 1 .. Len(sent) : i \in 1 .. Len(frames) \/ i = Len(frames) + 1
      BY <1>3, <3>1
    <3> QED BY <1>3, <3>1, <3>2
  <2> QED BY <2>1, <2>2
<1> HIDE DEF sent
<1>5. \A m \in {"CONNECT", "ACK", "OK"} : Contains(sent, m) => frames = <<m>>
  BY <1>3, <1>4 DEF Contains
<1>6. \A i, j \in 1 .. Len(sent) : sent[i] = "CONNECT" /\ sent[j] = "CONNECT" => i = j
  BY <1>4
<1>7. Sends(frames, sent)
  BY <1>4, <1>5, <1>6 DEF Sends
<1> QED BY <1>7 DEF sent

\* What the orchestrator knows keeps its type.
Known == [there : BOOLEAN, told : State, announced : ConnectType \cup {"none"}]
\* What it was told keeps it.
LEMMA ToldKeeps ==
    ASSUME NEW k \in Known, NEW state \in State
    PROVE  Tell(k, state) \in Known /\ Tell(k, state).announced = k.announced
BY DEF Tell, Known
\* Likewise for the type it was announced.
LEMMA AnnouncedKeeps ==
    ASSUME NEW k \in Known, NEW type \in ConnectType \cup {"none"}
    PROVE  [k EXCEPT !.announced = type] \in Known
BY DEF Known

\* After keeps IInv: what is sent arrives behind the frames on their way.
LEMMA AfterKeeps ==
    ASSUME IInv, setup' = setup, spent' \in Spents, NEW s \in Side,
           NEW end, Follows(s, end), NEW state \in State, StateHeard(state, end.heard),
           NEW frames \in {<<>>, <<"CONNECT">>, <<"ACK">>, <<"OK">>}, NEW closes,
           frames = <<"CONNECT">> => sockets[s] = "opening",
           \A m \in {"ACK", "OK"} : frames = <<m>> => Claims(m) \subseteq end.heard,
           After(s, end, state, frames, closes)
    PROVE  Step
<1> DEFINE t == Other(s)
           sent == IF closes THEN Append(frames, "CLOSE") ELSE frames
           more == IF sockets[s] = "closing" THEN <<>> ELSE sent
           new == [end EXCEPT !.state = state]
           arriving == ends[t].frames \o more
<1>1. t \in Side /\ t # s
  BY Ends
<1>2. ends[s] \in Controller /\ ends[t] \in Controller
  BY <1>1 DEF IInv, TypeOK, Controller
<1>3. end \in Controller
  BY DEF Follows
<1>4. /\ new \in Controller /\ new.state = state /\ new.heard = end.heard
      /\ new.frames = end.frames /\ new.remote_type = end.remote_type /\ Same(end, new)
  BY <1>3 DEF Controller, Same
<1>5. ends[t].frames \in Seq(Frame) /\ ends[s].frames \in Seq(Frame)
  BY <1>2 DEF Controller
<1>6. /\ more \in Seq(Frame)
      /\ \A m \in {"CONNECT", "ACK", "OK"} : Contains(more, m) => frames = <<m>>
      /\ \A i, j \in 1 .. Len(more) : more[i] = "CONNECT" /\ more[j] = "CONNECT" => i = j
  <2>1. Sends(frames, sent)
    BY SentFrames
  <2> HIDE DEF sent
  <2>2. Sends(frames, <<>>)
    BY DEF Sends, Contains
  <2>3. Sends(frames, more)
    BY <2>1, <2>2
  <2> HIDE DEF more
  <2> QED BY <2>3 DEF Sends
<1>7. /\ sockets' \in [Side -> Sockets] /\ sockets'[t] = sockets[t]
      /\ sockets'[s] # "opening"
  BY <1>1 DEF After, IInv, TypeOK, Sockets
<1>8. /\ orchestrator' \in [Side -> Known] /\ orchestrator'[t] = orchestrator[t]
      /\ orchestrator'[s].announced = orchestrator[s].announced
  <2>1. orchestrator' = [orchestrator EXCEPT ![s] = Tell(orchestrator[s], state)]
    BY DEF After
  <2>2. orchestrator \in [Side -> Known]
    BY DEF IInv, TypeOK, Known
  <2>3. /\ Tell(orchestrator[s], state) \in Known
        /\ Tell(orchestrator[s], state).announced = orchestrator[s].announced
    BY <2>2, ToldKeeps
  <2> QED BY <1>1, <2>1, <2>2, <2>3
<1>9. arriving \in Seq(Frame) /\ Once(arriving, ends[t].heard, sockets'[s])
  <2>1. Once(ends[t].frames, ends[t].heard, sockets[s])
    BY <1>1, Ends DEF IInv, ConnectOnce
  <2> HIDE DEF more
  <2>2. arriving \in Seq(Frame)
    BY <1>5, <1>6
  <2> QED BY <1>5, <1>6, <1>7, <2>1, <2>2, OnceAppended
<1>10. Once(new.frames, new.heard, sockets'[t])
  <2>1. Once(ends[s].frames, ends[s].heard, sockets[t])
    BY DEF IInv, ConnectOnce
  <2> QED BY <1>4, <1>5, <1>7, <2>1, OnceTaken DEF Follows
<1>11. ends' = [ends EXCEPT ![s] = new, ![t].frames = arriving]
  <2>1. ends[t].frames = ends[t].frames \o <<>>
    BY <1>5
  <2>2. arriving = IF sockets[s] = "closing" THEN ends[t].frames ELSE ends[t].frames \o sent
    BY <2>1
  <2> QED BY <1>1, <1>2, <2>2 DEF After, IInv, TypeOK
<1>12. \/ new.heard = ends[s].heard
       \/ ends[s].heard = {} /\ new.heard = {"CONNECT"}
       \/ \E m \in {"ACK", "OK"} : /\ "CONNECT" \in ends[s].heard /\ m \notin ends[s].heard
                                   /\ new.heard = ends[s].heard \cup {m}
  BY <1>4 DEF Follows, Heard
<1>13. /\ s = "server" => new.remote_type # "Incoming"
       /\ StateHeard(new.state, new.heard)
  BY <1>4 DEF Follows
<1>14. Knows(s, new) /\ Announced(s, orchestrator'[s].announced, new.remote)
  <2>1. AnnouncedType(s, new) = AnnouncedType(s, end) /\ new.remote = end.remote
        /\ new.features = end.features
    BY <1>4 DEF Same, AnnouncedType
  <2>2. orchestrator'[s].announced = orchestrator[s].announced
    BY <1>8
  <2> HIDE DEF new
  <2>3. Announced(s, orchestrator[s].announced, ends[s].remote) /\ Other(s) # "none"
    BY Ends DEF IInv, Knowledge, Side
  <2> QED BY <2>1, <2>2, <2>3 DEF Follows, Knows, Announced
<1>15. orchestrator'[t] = orchestrator[t]
  BY <1>8
<1>16. BothThisCode => /\ Promised(new.frames, new.heard, ends[t].heard)
                       /\ Promised(arriving, ends[t].heard, new.heard)
  <2> SUFFICES ASSUME BothThisCode
               PROVE  /\ Promised(new.frames, new.heard, ends[t].heard)
                      /\ Promised(arriving, ends[t].heard, new.heard)
    OBVIOUS
  <2>1. /\ Promised(ends[s].frames, ends[s].heard, ends[t].heard)
        /\ Promised(ends[t].frames, ends[t].heard, ends[s].heard)
    BY <1>1, Ends DEF IInv, Promises
  <2>2. Promised(new.frames, new.heard, ends[t].heard)
    BY <1>4, <1>5, <2>1, PromisedTaken DEF Follows
  <2>3. \A m \in {"ACK", "OK"} : Contains(more, m) => Claims(m) \subseteq new.heard
    <3> HIDE DEF more, new
    <3> QED BY <1>4, <1>6
  <2>4. ends[s].heard \subseteq new.heard
    BY <1>12
  <2> HIDE DEF more, new
  <2>5. Promised(arriving, ends[t].heard, new.heard)
    BY <1>5, <1>6, <2>1, <2>3, <2>4, PromisedAppended
  <2> QED BY <2>2, <2>5
<1> HIDE DEF new, arriving, t
<1>17. Once(arriving, ends[t].heard, sockets'[s])
  BY <1>9
<1> QED BY <1>1, <1>4, <1>7, <1>8, <1>9, <1>10, <1>11, <1>12, <1>13, <1>14, <1>15, <1>16, StepOfEnds
        DEF Spents, Sockets, Known, t

\* A close that is made, or fails.
LEMMA CloseKeeps ==
    ASSUME IInv, setup' = setup, NEW s \in Side, NEW order, Sound(s, order),
           StateHeard(order.ok, order.end.heard), StateHeard(order.fail, order.end.heard),
           Close(s, order)
    PROVE  Step
<1>1. Follows(s, order.end) /\ order.ok \in State /\ order.fail \in State
  BY DEF Sound
<1>2. spent \in Spents /\ (Fault => spent' \in Spents)
  BY WS2Pv2Assumption DEF IInv, TypeOK, Fault, Spents
<1>3. CASE After(s, order.end, order.ok, <<>>, TRUE) /\ UNCHANGED spent
  BY <1>1, <1>2, <1>3, AfterKeeps
<1>4. CASE After(s, order.end, order.fail, <<>>, FALSE) /\ Fault
  BY <1>1, <1>2, <1>4, AfterKeeps
<1> QED BY <1>3, <1>4 DEF Close

\* A message that leaves, or fails to.
LEMMA SendKeeps ==
    ASSUME IInv, setup' = setup, NEW s \in Side, NEW order, Sound(s, order),
           order.action \in {"CONNECT", "ACK", "OK"}, SendMessage(s, order)
    PROVE  Step
<1>1. /\ Follows(s, order.end) /\ order.ok \in State /\ order.fail \in State
      /\ StateHeard(order.ok, order.end.heard) /\ StateHeard(order.fail, order.end.heard)
      /\ order.action = "CONNECT" => sockets[s] = "opening"
      /\ Claims(order.action) \subseteq order.end.heard
  BY DEF Sound
<1>2. spent \in Spents /\ (Fault => spent' \in Spents)
  BY WS2Pv2Assumption DEF IInv, TypeOK, Fault, Spents
<1>3. /\ <<order.action>> \in {<<>>, <<"CONNECT">>, <<"ACK">>, <<"OK">>}
      /\ <<order.action>> = <<"CONNECT">> => sockets[s] = "opening"
      /\ \A m \in {"ACK", "OK"} : <<order.action>> = <<m>> => Claims(m) \subseteq order.end.heard
  BY <1>1
<1>4. CASE After(s, order.end, order.ok, <<order.action>>, ~orchestrator[s].there) /\ UNCHANGED spent
  BY <1>1, <1>2, <1>3, <1>4, AfterKeeps
<1>5. ASSUME NEW closes \in BOOLEAN, After(s, order.end, order.fail, <<>>, closes), Fault
      PROVE  Step
  BY <1>1, <1>2, <1>5, AfterKeeps
<1> QED BY <1>4, <1>5 DEF SendMessage

\* IInv, for a step that changes frames and websockets alone.
LEMMA FramesKeep ==
    ASSUME IInv, setup' = setup, spent' \in Spents,
           orchestrator' \in [Side -> [there : BOOLEAN, told : State, announced : ConnectType \cup {"none"}]],
           sockets' \in [Side -> Sockets],
           NEW f \in [Side -> Seq(Frame)],
           ends' = [x \in Side |-> [ends[x] EXCEPT !.frames = f[x]]],
           \A x \in Side : Once(f[x], ends[x].heard, sockets'[Other(x)]),
           \A x \in Side : orchestrator'[x].announced = orchestrator[x].announced,
           BothThisCode => \A x \in Side : Promised(f[x], ends[x].heard, ends[Other(x)].heard)
    PROVE  Step
<1>1. \A x \in Side : ends[x] \in Controller
  BY DEF IInv, TypeOK, Controller
<1>2. \A x \in Side : /\ ends'[x] \in Controller /\ ends'[x].frames = f[x]
                       /\ ends'[x].heard = ends[x].heard /\ ends'[x].state = ends[x].state
                       /\ ends'[x].remote_type = ends[x].remote_type
                       /\ Same(ends[x], ends'[x])
  <2> TAKE x \in Side
  <2>1. ends'[x] = [ends[x] EXCEPT !.frames = f[x]]
    OBVIOUS
  <2>2. LET c == [ends[x] EXCEPT !.frames = f[x]]
        IN  /\ c \in Controller /\ c.frames = f[x] /\ c.heard = ends[x].heard
            /\ c.state = ends[x].state /\ c.remote_type = ends[x].remote_type
            /\ Same(ends[x], c)
    BY <1>1, FramesReplaced
  <2> QED BY <2>1, <2>2
<1>3. TypeOK'
  BY <1>2 DEF IInv, TypeOK, Controller, Spents, Sockets
<1>4. \A x \in Side : StateHeard(ends[x].state, ends[x].heard)'
  BY <1>2 DEF IInv
<1>5. (ends["server"].remote_type # "Incoming")'
  BY <1>2 DEF IInv, Side
<1>6. ConnectOnce'
  BY <1>2 DEF ConnectOnce
<1>7. Negotiates
  BY <1>2 DEF Negotiates
<1>8. Promises'
  BY <1>2, Ends DEF Promises, BothThisCode
<1>9. Knowledge'
  <2>1. ASSUME NEW x \in Side
        PROVE  Knows(x, ends[x])' /\ Announced(x, orchestrator[x].announced, ends[x].remote)'
    <3>1. Knows(x, ends[x]) /\ Announced(x, orchestrator[x].announced, ends[x].remote)
      BY DEF IInv, Knowledge
    <3>2. Knows(x, ends[x])'
      BY <1>2, <3>1, KnowsKeeps
    <3>3. TypeAt(x)' = TypeAt(x) /\ ends'[x].remote = ends[x].remote
      BY <1>2 DEF TypeAt, Same
    <3> QED BY <3>1, <3>2, <3>3 DEF Announced
  <2> QED BY <2>1 DEF Knowledge
<1> QED BY <1>3, <1>4, <1>5, <1>6, <1>7, <1>8, <1>9 DEF Step, IInv

\* All frames are lost with the connection.
LEMMA LostKeeps ==
    ASSUME IInv, setup' = setup, orchestrator' = orchestrator, spent' \in Spents,
           sockets' \in [Side -> {"closed", "fatal"}],
           ends' = [x \in Side |-> [ends[x] EXCEPT !.frames = <<>>]]
    PROVE  Step
<1> DEFINE f == [x \in Side |-> <<>>]
<1>1. f \in [Side -> Seq(Frame)] /\ ends' = [x \in Side |-> [ends[x] EXCEPT !.frames = f[x]]]
  OBVIOUS
<1>2. \A x \in Side : Once(f[x], ends[x].heard, sockets'[Other(x)])
  BY Ends DEF Once, Contains
<1>3. orchestrator' \in [Side -> [there : BOOLEAN, told : State, announced : ConnectType \cup {"none"}]]
  BY DEF IInv, TypeOK
<1>4. sockets' \in [Side -> Sockets]
  BY DEF Sockets
<1>5. BothThisCode => \A x \in Side : Promised(f[x], ends[x].heard, ends[Other(x)].heard)
  BY PromisedEmptied DEF IInv, Promises
<1> HIDE DEF f
<1> QED BY <1>1, <1>2, <1>3, <1>4, <1>5, FramesKeep

\* The controller has changed its own state; it was told, or the connection is closed.
LEMMA SettleKeeps ==
    ASSUME IInv, setup' = setup, NEW s \in Side, NEW end, Follows(s, end),
           StateHeard(end.state, end.heard), Settle(s, end),
           end.state = "Established" /\ ends[s].state # "Established" => end.remote # "none"
    PROVE  Step
<1> DEFINE t == Other(s)
           known == Tell(orchestrator[s], end.state)
<1>1. t \in Side /\ t # s /\ Side = {s, t}
  BY Ends DEF Side, Other
<1>2. ends \in [Side -> Controller] /\ end \in Controller
  BY DEF IInv, TypeOK, Controller, Follows
<1>3. ends[t].frames \in Seq(Frame) /\ ends[s].frames \in Seq(Frame)
  BY <1>1, <1>2 DEF Controller
<1>4. /\ Once(ends[t].frames, ends[t].heard, sockets[s])
      /\ Once(end.frames, end.heard, sockets[t])
  <2>1. /\ Once(ends[s].frames, ends[s].heard, sockets[t])
        /\ Once(ends[t].frames, ends[t].heard, sockets[s])
    BY <1>1, Ends DEF IInv, ConnectOnce
  <2> QED BY <1>3, <2>1, OnceTaken DEF Follows
<1>5. [ends EXCEPT ![s] = end] = [ends EXCEPT ![s] = end, ![t].frames = ends[t].frames]
  <2>1. \A c \in Controller : c = [c EXCEPT !.frames = c.frames]
    BY DEF Controller
  <2>2. ends[t] = [ends[t] EXCEPT !.frames = ends[t].frames]
    BY <1>1, <1>2, <2>1
  <2> DEFINE mine == [ends EXCEPT ![s] = end]
             both == [ends EXCEPT ![s] = end, ![t].frames = ends[t].frames]
  <2>3. mine[s] = end /\ mine[t] = ends[t] /\ mine = [x \in Side |-> mine[x]]
    BY <1>1, <1>2
  <2>4. both[s] = end /\ both[t] = [ends[t] EXCEPT !.frames = ends[t].frames]
    BY <1>1, <1>2
  <2>5. both = [x \in Side |-> both[x]]
    BY <1>2
  <2> HIDE DEF mine, both
  <2>6. \A x \in Side : mine[x] = both[x]
    BY <1>1, <2>2, <2>3, <2>4
  <2>7. mine = both
    BY <2>3, <2>5, <2>6
  <2> QED BY <2>7 DEF mine, both
<1>6. \/ end.heard = ends[s].heard
      \/ ends[s].heard = {} /\ end.heard = {"CONNECT"}
      \/ \E m \in {"ACK", "OK"} : /\ "CONNECT" \in ends[s].heard /\ m \notin ends[s].heard
                                  /\ end.heard = ends[s].heard \cup {m}
  BY DEF Follows, Heard
<1>7. s = "server" => end.remote_type # "Incoming"
  BY DEF Follows
<1>8. ASSUME ends' = [ends EXCEPT ![s] = end], UNCHANGED <<sockets, spent>>,
             orchestrator' \in [Side -> [there : BOOLEAN, told : State, announced : ConnectType \cup {"none"}]],
             orchestrator'[t] = orchestrator[t], Announced(s, orchestrator'[s].announced, end.remote)
      PROVE  Step
  <2>1. ends' = [ends EXCEPT ![s] = end, ![t].frames = ends[t].frames]
    BY <1>5, <1>8
  <2>2. /\ sockets' \in [Side -> {"opening", "open", "closing", "closed", "fatal"}]
        /\ spent' \in [faults : 0 .. MaxFaults, foreign : 0 .. MaxForeign]
        /\ Once(end.frames, end.heard, sockets'[t]) /\ Once(ends[t].frames, ends[t].heard, sockets'[s])
    BY <1>4, <1>8 DEF IInv, TypeOK
  <2>3. BothThisCode => /\ Promised(end.frames, end.heard, ends[t].heard)
                        /\ Promised(ends[t].frames, ends[t].heard, end.heard)
    <3> SUFFICES ASSUME BothThisCode
                 PROVE  /\ Promised(end.frames, end.heard, ends[t].heard)
                        /\ Promised(ends[t].frames, ends[t].heard, end.heard)
      OBVIOUS
    <3>1. /\ Promised(ends[s].frames, ends[s].heard, ends[t].heard)
          /\ Promised(ends[t].frames, ends[t].heard, ends[s].heard)
      BY <1>1, Ends DEF IInv, Promises
    <3>2. Promised(end.frames, end.heard, ends[t].heard)
      BY <1>3, <3>1, PromisedTaken DEF Follows
    <3>3. ends[s].heard \subseteq end.heard
      BY <1>6
    <3> QED BY <3>1, <3>2, <3>3 DEF Promised
  <2>4. Knows(s, end)
    BY DEF Follows
  <2> QED BY <1>1, <1>2, <1>3, <1>6, <1>7, <1>8, <2>1, <2>2, <2>3, <2>4, StepOfEnds
<1>9. Announced(s, orchestrator[s].announced, end.remote)
  BY Ends DEF IInv, Knowledge, Announced, Follows, Side
<1>10. CASE end.state = ends[s].state
  BY <1>8, <1>9, <1>10 DEF Settle, IInv, TypeOK
<1>11. CASE end.state # ends[s].state /\ ~known.there
  <2>1. Sound(s, TimeoutOrder(end)) /\ Close(s, TimeoutOrder(end))
    BY <1>11, CloseIsSound DEF TimeoutOrder, Settle, Over
  <2>2. /\ StateHeard(TimeoutOrder(end).ok, TimeoutOrder(end).end.heard)
        /\ StateHeard(TimeoutOrder(end).fail, TimeoutOrder(end).end.heard)
    BY OverHeard DEF TimeoutOrder, Order, Over
  <2> QED BY <2>1, <2>2, CloseKeeps
<1>12. CASE end.state # ends[s].state /\ known.there
  <2>1. AnnouncedType(s, end) \in ConnectType \cup {"none"}
    <3>1. setup.type \in ConnectType
      BY WS2Pv2Assumption DEF IInv, TypeOK, Setup
    <3>2. end.remote_type \in ConnectType \cup {"none", "Incoming"}
      BY <1>2 DEF Controller
    <3>3. CASE s = "client"
      BY <3>1, <3>3 DEF AnnouncedType, TypeOf
    <3>4. CASE s = "server"
      BY <1>7, <3>2, <3>4 DEF AnnouncedType
    <3> QED BY <3>3, <3>4 DEF Side
  <2>2. known \in Known
    <3>1. orchestrator[s] \in Known /\ end.state \in State
      BY <1>2 DEF IInv, TypeOK, Known, Controller
    <3> QED BY <3>1, ToldKeeps
  <2>3. /\ ends' = [ends EXCEPT ![s] = end] /\ UNCHANGED <<sockets, spent>>
        /\ orchestrator' = [orchestrator EXCEPT ![s] =
             IF end.state = "Established" /\ known.there
             THEN [known EXCEPT !.announced = AnnouncedType(s, end)] ELSE known]
    BY <1>12 DEF Settle
  <2> HIDE DEF known
  <2>4. [known EXCEPT !.announced = AnnouncedType(s, end)] \in Known
    BY <2>1, <2>2, AnnouncedKeeps
  <2>5. orchestrator' \in [Side -> Known]
    BY <2>2, <2>3, <2>4 DEF IInv, TypeOK, Known
  <2>6. orchestrator'[t] = orchestrator[t]
    BY <1>1, <2>3 DEF IInv, TypeOK
  <2>7. Announced(s, orchestrator'[s].announced, end.remote)
    <3>1. orchestrator'[s] = IF end.state = "Established" /\ known.there
             THEN [known EXCEPT !.announced = AnnouncedType(s, end)] ELSE known
      BY <2>3 DEF IInv, TypeOK
    <3>2. known.announced = orchestrator[s].announced
      BY DEF known, Tell, IInv, TypeOK
    <3>3. CASE end.state = "Established" /\ known.there
      <4>1. orchestrator'[s].announced = AnnouncedType(s, end)
        BY <2>2, <3>1, <3>3 DEF Known
      <4>2. end.remote = Other(s) /\ AnnouncedType(s, end) = TypeAt(s)
        BY <1>12, <3>3 DEF Follows, Knows
      <4> QED BY <4>1, <4>2 DEF Announced
    <3>4. CASE ~(end.state = "Established" /\ known.there)
      BY <1>9, <3>1, <3>2, <3>4
    <3> QED BY <3>3, <3>4
  <2> QED BY <1>8, <2>3, <2>5, <2>6, <2>7 DEF Known
<1> QED BY <1>10, <1>11, <1>12

\* Whatever the order, what the handler makes of it keeps IInv.
LEMMA ExecKeeps ==
    ASSUME IInv, NEW s \in Side, NEW order, Sound(s, order), Exec(s, order)
    PROVE  Step
<1>1. setup' = setup
  BY DEF Exec
<1>2. CASE order.action = "none"
  <2>1. /\ Settle(s, order.end) /\ Follows(s, order.end)
        /\ StateHeard(order.end.state, order.end.heard)
        /\ order.end.state = "Established" /\ ends[s].state # "Established"
             => order.end.remote # "none"
    BY <1>2 DEF Exec, Sound
  <2> QED BY <1>1, <2>1, SettleKeeps
<1>3. CASE order.action = "fatal"
  <2>1. Fatal(s)
    BY <1>3 DEF Exec
  <2>2. /\ sockets' \in [Side -> {"closed", "fatal"}] /\ orchestrator' = orchestrator
        /\ ends' = [x \in Side |-> [ends[x] EXCEPT !.frames = <<>>]]
    BY <2>1 DEF Fatal
  <2>3. spent' \in Spents
    BY <2>1 DEF Fatal, IInv, TypeOK, Spents
  <2> QED BY <1>1, <2>2, <2>3, LostKeeps
<1>4. CASE order.action = "close"
  <2>1. Close(s, order) /\ StateHeard(order.ok, order.end.heard) /\ StateHeard(order.fail, order.end.heard)
    BY <1>4 DEF Exec, Sound
  <2> QED BY <1>1, <2>1, CloseKeeps
<1>5. CASE order.action \in {"CONNECT", "ACK", "OK"}
  <2>1. SendMessage(s, order)
    BY <1>5 DEF Exec
  <2> QED BY <1>1, <1>5, <2>1, SendKeeps
<1> QED BY <1>2, <1>3, <1>4, <1>5 DEF Sound

-----------------------------------------------------------------------------
(* The actions. *)

\* An end that opens has no frame to take: it sends its CONNECT.
LEMMA OnOpenKeeps == ASSUME IInv, NEW s \in Side, OnOpen(s) PROVE Step
<1> DEFINE end == [ends[s] EXCEPT !.state = "TryToSendConnectMsg"]
           opening == Order(end, "CONNECT", "WaitingConnectMsg", "Unreachable")
<1>1. ends[s] \in Controller
  BY DEF IInv, TypeOK, Controller
<1>2. /\ end \in Controller /\ end.frames = ends[s].frames /\ end.heard = ends[s].heard
      /\ Same(ends[s], end)
  BY <1>1 DEF Controller, State, Same
<1> HIDE DEF end
<1>3. Follows(s, end)
  BY <1>2, SameKnows DEF Follows
<1>4. sockets[s] = "opening" /\ (Exec(s, opening) \/ Exec(s, TimeoutOrder(end)))
  BY DEF OnOpen, end
<1>5. Sound(s, TimeoutOrder(end))
  BY <1>3, CloseIsSound DEF TimeoutOrder, Over
<1>6. Sound(s, opening)
  <2>1. /\ opening.end = end /\ opening.action = "CONNECT"
        /\ opening.ok = "WaitingConnectMsg" /\ opening.fail = "Unreachable"
    BY DEF Order
  <2>2. /\ "WaitingConnectMsg" \in State /\ "Unreachable" \in State
        /\ StateHeard("WaitingConnectMsg", end.heard) /\ StateHeard("Unreachable", end.heard)
    BY DEF State, Over, StateHeard
  <2> HIDE DEF opening
  <2> QED BY <1>3, <1>4, <2>1, <2>2 DEF Sound, Claims
<1> HIDE DEF opening
<1> QED BY <1>4, <1>5, <1>6, ExecKeeps

\* A frame is processed and its order executed.
LEMMA OnMessageKeeps == ASSUME IInv, NEW s \in Side, OnMessage(s) PROVE Step
BY ProcessIsSound, ExecKeeps DEF OnMessage

\* A timeout closes.
LEMMA CheckTimeoutsKeeps == ASSUME IInv, NEW s \in Side, CheckTimeouts(s) PROVE Step
<1>1. Follows(s, ends[s])
  <2>1. ends[s] \in Controller /\ Same(ends[s], ends[s])
    BY DEF IInv, TypeOK, Controller, Same
  <2> QED BY <2>1, SameKnows DEF Follows
<1>2. Sound(s, TimeoutOrder(ends[s]))
  BY <1>1, CloseIsSound DEF TimeoutOrder, Over
<1> QED BY <1>2, ExecKeeps DEF CheckTimeouts

\* A step that changes the frames of the two ends and their websockets.
LEMMA BothFramesKeep ==
    ASSUME IInv, setup' = setup, orchestrator' = orchestrator, spent' \in Spents,
           sockets' \in [Side -> Sockets], NEW s \in Side, NEW t \in Side, t = Other(s),
           NEW f \in Seq(Frame), NEW g \in Seq(Frame),
           ends' = [ends EXCEPT ![s].frames = f, ![t].frames = g],
           Once(f, ends[s].heard, sockets'[t]), Once(g, ends[t].heard, sockets'[s]),
           BothThisCode => /\ Promised(f, ends[s].heard, ends[t].heard)
                           /\ Promised(g, ends[t].heard, ends[s].heard)
    PROVE  Step
<1> DEFINE frames == [x \in Side |-> IF x = s THEN f ELSE g]
<1>1. Side = {s, t} /\ s # t /\ Other(t) = s
  BY Ends DEF Side, Other
<1>2. ends \in [Side -> Controller]
  BY DEF IInv, TypeOK, Controller
<1>3. frames \in [Side -> Seq(Frame)] /\ frames[s] = f /\ frames[t] = g
  BY <1>1
<1>4. ends' = [x \in Side |-> [ends[x] EXCEPT !.frames = frames[x]]]
  <2>1. /\ ends'[s] = [ends[s] EXCEPT !.frames = f]
        /\ ends'[t] = [ends[t] EXCEPT !.frames = g]
        /\ ends' = [x \in Side |-> ends'[x]]
    BY <1>1, <1>2
  <2> HIDE DEF frames
  <2>2. \A x \in Side : ends'[x] = [ends[x] EXCEPT !.frames = frames[x]]
    BY <1>1, <1>3, <2>1
  <2> QED BY <2>1, <2>2
<1>5. \A x \in Side : Once(frames[x], ends[x].heard, sockets'[Other(x)])
  <2> HIDE DEF frames
  <2> QED BY <1>1, <1>3
<1>6. orchestrator' \in [Side -> [there : BOOLEAN, told : State, announced : ConnectType \cup {"none"}]]
  BY DEF IInv, TypeOK
<1>7. BothThisCode => \A x \in Side : Promised(frames[x], ends[x].heard, ends[Other(x)].heard)
  <2> HIDE DEF frames
  <2> QED BY <1>1, <1>3
<1> HIDE DEF frames
<1> QED BY <1>3, <1>4, <1>5, <1>6, <1>7, FramesKeep

\* What the invariant says of the frames of both ends.
LEMMA FramesOf ==
    ASSUME IInv, NEW s \in Side, NEW t \in Side, t = Other(s)
    PROVE  /\ ends[s].frames \in Seq(Frame) /\ ends[t].frames \in Seq(Frame)
           /\ Once(ends[s].frames, ends[s].heard, sockets[t])
           /\ Once(ends[t].frames, ends[t].heard, sockets[s])
           /\ sockets \in [Side -> Sockets] /\ spent \in Spents
           /\ BothThisCode => /\ Promised(ends[s].frames, ends[s].heard, ends[t].heard)
                              /\ Promised(ends[t].frames, ends[t].heard, ends[s].heard)
<1>1. Other(t) = s
  BY Ends
<1>2. ends[s] \in Controller /\ ends[t] \in Controller
  BY DEF IInv, TypeOK, Controller
<1> QED BY <1>1, <1>2 DEF IInv, ConnectOnce, Promises, TypeOK, Controller, Spents, Sockets

\* A frame other than CONNECT leaves an end that is open.
LEMMA OtherFrame ==
    ASSUME NEW g \in Seq(Frame), NEW m \in Frame \ {"CONNECT"}, NEW heard, NEW socket, NEW new,
           Once(g, heard, socket), socket # "opening" => new # "opening"
    PROVE  Append(g, m) \in Seq(Frame) /\ Once(Append(g, m), heard, new)
<1>1. /\ <<m>> \in Seq(Frame) /\ Append(g, m) = g \o <<m>>
      /\ Len(<<m>>) = 1 /\ <<m>>[1] = m
  OBVIOUS
<1>2. ~Contains(<<m>>, "CONNECT")
  BY <1>1 DEF Contains
<1>3. Once(g \o <<m>>, heard, new)
  BY <1>1, <1>2, OnceAppended
<1> QED BY <1>1, <1>3

\* The other end's close: it is answered and the frames behind it are gone.
LEMMA OnCloseKeeps == ASSUME IInv, NEW s \in Side, OnClose(s) PROVE Step
<1> DEFINE t == Other(s)
           g == IF sockets[s] = "open" THEN Append(ends[t].frames, "CLOSE") ELSE ends[t].frames
<1>1. t \in Side /\ t # s
  BY Ends
<1>2. /\ ends[t].frames \in Seq(Frame)
      /\ Once(ends[s].frames, ends[s].heard, sockets[t]) /\ Once(ends[t].frames, ends[t].heard, sockets[s])
      /\ sockets \in [Side -> Sockets] /\ spent \in Spents
  BY <1>1, FramesOf
<1>3. sockets' \in [Side -> Sockets] /\ sockets'[s] # "opening" /\ sockets'[t] = sockets[t]
  BY <1>1, <1>2 DEF OnClose, Sockets
<1>4. g \in Seq(Frame) /\ Once(g, ends[t].heard, sockets'[s])
  <2>1. "CLOSE" \in Frame \ {"CONNECT"} /\ (sockets[s] = "open" => sockets[s] # "opening")
    BY DEF Frame
  <2>2. CASE sockets[s] = "open"
    BY <1>2, <1>3, <2>1, <2>2, OtherFrame
  <2>3. CASE sockets[s] # "open"
    <3>1. Once(ends[t].frames, ends[t].heard, sockets'[s])
      BY <1>2, <1>3 DEF Once
    <3> QED BY <1>2, <2>3, <3>1
  <2> QED BY <2>2, <2>3
<1>5. <<>> \in Seq(Frame) /\ Once(<<>>, ends[s].heard, sockets'[t])
  BY <1>2, <1>3, OnceEmptied
<1>6. ends' = [ends EXCEPT ![s].frames = <<>>, ![t].frames = g]
  <2>1. ends \in [Side -> Controller]
    BY DEF IInv, TypeOK, Controller
  <2> QED BY <1>1, <2>1 DEF OnClose
<1>7. setup' = setup /\ orchestrator' = orchestrator /\ spent' \in Spents
  BY <1>2 DEF OnClose
<1> HIDE DEF g, t
<1>8. t = Other(s)
  BY DEF t
<1>9. BothThisCode => /\ Promised(<<>>, ends[s].heard, ends[t].heard)
                      /\ Promised(g, ends[t].heard, ends[s].heard)
  <2> SUFFICES ASSUME BothThisCode
               PROVE  /\ Promised(<<>>, ends[s].heard, ends[t].heard)
                      /\ Promised(g, ends[t].heard, ends[s].heard)
    OBVIOUS
  <2>1. /\ Promised(ends[s].frames, ends[s].heard, ends[t].heard)
        /\ Promised(ends[t].frames, ends[t].heard, ends[s].heard)
    BY <1>1, <1>8, FramesOf
  <2>2. Promised(Append(ends[t].frames, "CLOSE"), ends[t].heard, ends[s].heard)
    <3>1. /\ <<"CLOSE">> \in Seq(Frame) /\ Len(<<"CLOSE">>) = 1 /\ <<"CLOSE">>[1] = "CLOSE"
          /\ Append(ends[t].frames, "CLOSE") = ends[t].frames \o <<"CLOSE">>
      <4>1. "CLOSE" \in Frame
        BY DEF Frame
      <4> QED BY <1>2, <4>1, OneFrame, AppendedFrame
    <3>2. \A m \in {"ACK", "OK"} : ~Contains(<<"CLOSE">>, m)
      BY <3>1 DEF Contains
    <3> QED BY <1>2, <2>1, <3>1, <3>2, PromisedAppended
  <2> QED BY <2>1, <2>2, PromisedEmptied DEF g
<1> QED BY <1>1, <1>3, <1>4, <1>5, <1>6, <1>7, <1>8, <1>9, BothFramesKeep

\* A fault is one of those that are left.
LEMMA FaultSpends == ASSUME IInv, Fault PROVE spent' \in Spents
<1>1. spent \in Spents
  BY DEF IInv, TypeOK, Spents
<1> QED BY <1>1, WS2Pv2Assumption DEF Fault, Spents

\* The connection breaks, and takes all frames with it.
LEMMA BreakKeeps == ASSUME IInv, Break PROVE Step
<1>1. spent' \in Spents
  BY FaultSpends DEF Break
<1>2. setup' = setup /\ orchestrator' = orchestrator /\ sockets' \in [Side -> {"closed", "fatal"}]
  BY DEF Break
<1>3. ends' = [x \in Side |-> [ends[x] EXCEPT !.frames = <<>>]]
  BY DEF Break
<1> QED BY <1>1, <1>2, <1>3, LostKeeps

\* What the orchestrator does changes no end.
LEMMA OrchestratorLeavesKeeps == ASSUME IInv, NEW s \in Side, OrchestratorLeaves(s) PROVE Step
<1>1. spent' \in Spents
  BY FaultSpends DEF OrchestratorLeaves
<1>2. orchestrator' \in [Side -> [there : BOOLEAN, told : State, announced : ConnectType \cup {"none"}]]
  BY DEF OrchestratorLeaves, IInv, TypeOK
<1>3. setup' = setup /\ ends' = ends /\ sockets' = sockets
      /\ \A x \in Side : orchestrator'[x].announced = orchestrator[x].announced
  BY DEF OrchestratorLeaves, IInv, TypeOK
<1>4. Knowledge' /\ Promises'
  BY <1>3 DEF IInv, Knowledge, Knows, Announced, AnnouncedType, TypeOf, TypeAt, CommonFeatures,
              Promises, BothThisCode
<1> QED BY <1>1, <1>2, <1>3, <1>4 DEF Step, IInv, TypeOK, ConnectOnce, Negotiates, Spents

\* The steps of an end that does not run this code.
LEMMA ForeignOpensKeeps == ASSUME IInv, NEW s \in Side, ForeignOpens(s) PROVE Step
<1>0. PICK c \in {"CONNECT", "BARE_CONNECT"} :
            ends' = [ends EXCEPT ![Other(s)].frames = Append(@, c)]
  BY DEF ForeignOpens
<1> DEFINE t == Other(s)
           f == ends[s].frames
           g == Append(ends[t].frames, c)
<1>1. t \in Side /\ t # s
  BY Ends
<1>2. /\ ends[t].frames \in Seq(Frame) /\ f \in Seq(Frame)
      /\ Once(f, ends[s].heard, sockets[t]) /\ Once(ends[t].frames, ends[t].heard, sockets[s])
      /\ sockets \in [Side -> Sockets] /\ spent \in Spents
  BY <1>1, FramesOf
<1>3. /\ sockets[s] = "opening" /\ sockets' \in [Side -> Sockets]
      /\ sockets'[s] # "opening" /\ sockets'[t] = sockets[t]
  BY <1>1, <1>2 DEF ForeignOpens, Sockets
<1>4. g \in Seq(Frame) /\ Once(g, ends[t].heard, sockets'[s])
  <2>1. c \in Frame
    BY DEF Frame
  <2>2. /\ <<c>> \in Seq(Frame) /\ Len(<<c>>) = 1
    BY <2>1, OneFrame
  <2>3. g = ends[t].frames \o <<c>> /\ g \in Seq(Frame)
    BY <1>2, <2>1, AppendedFrame
  <2> HIDE DEF g
  <2>4. \A i, j \in 1 .. Len(<<c>>) : i = j
    BY <2>2
  <2>5. Once(ends[t].frames \o <<c>>, ends[t].heard, sockets'[s])
    BY <1>2, <1>3, <2>2, <2>4, OnceAppended
  <2> QED BY <2>3, <2>5
<1>5. ends' = [ends EXCEPT ![s].frames = f, ![t].frames = g]
  <2>1. ends \in [Side -> Controller]
    BY DEF IInv, TypeOK, Controller
  <2>2. ends[s] = [ends[s] EXCEPT !.frames = f]
    BY <2>1 DEF Controller
  <2>3. [ends EXCEPT ![s].frames = f] = ends
    BY <2>1, <2>2
  <2> QED BY <1>0, <1>1, <2>1, <2>3
<1>6. setup' = setup /\ orchestrator' = orchestrator /\ spent' \in Spents
  BY <1>2 DEF ForeignOpens
<1>7. Once(f, ends[s].heard, sockets'[t]) /\ t = Other(s)
  BY <1>2, <1>3
<1> HIDE DEF f, g, t
<1>9. ~BothThisCode
  BY DEF ForeignOpens, ThisCode, BothThisCode, Side
<1> QED BY <1>1, <1>2, <1>3, <1>4, <1>5, <1>6, <1>7, <1>9, BothFramesKeep

\* It sends what it likes, but a CONNECT only when it opens.
LEMMA ForeignSendsKeeps ==
    ASSUME IInv, NEW s \in Side, NEW frame \in Frame \ {"CONNECT"}, ForeignSends(s, frame)
    PROVE  Step
<1> DEFINE t == Other(s)
           f == ends[s].frames
           g == Append(ends[t].frames, frame)
<1>1. t \in Side /\ t # s
  BY Ends
<1>2. /\ ends[t].frames \in Seq(Frame) /\ f \in Seq(Frame)
      /\ Once(f, ends[s].heard, sockets[t]) /\ Once(ends[t].frames, ends[t].heard, sockets[s])
      /\ sockets \in [Side -> Sockets]
  BY <1>1, FramesOf
<1>3. /\ sockets' \in [Side -> Sockets]
      /\ sockets'[s] # "opening" /\ sockets'[t] = sockets[t]
  BY <1>1, <1>2 DEF ForeignSends, Sockets
<1>4. g \in Seq(Frame) /\ Once(g, ends[t].heard, sockets'[s])
  BY <1>2, <1>3, OtherFrame
<1>5. ends' = [ends EXCEPT ![s].frames = f, ![t].frames = g]
  <2>1. ends \in [Side -> Controller]
    BY DEF IInv, TypeOK, Controller
  <2>2. ends[s] = [ends[s] EXCEPT !.frames = f]
    BY <2>1 DEF Controller
  <2>3. [ends EXCEPT ![s].frames = f] = ends
    BY <2>1, <2>2
  <2> QED BY <1>1, <2>1, <2>3 DEF ForeignSends
<1>6. setup' = setup /\ orchestrator' = orchestrator
  BY DEF ForeignSends
<1>7. spent' \in Spents
  <2>1. spent \in Spents
    BY DEF IInv, TypeOK, Spents
  <2>2. spent.foreign + 1 \in 0 .. MaxForeign
    BY <2>1, WS2Pv2Assumption DEF ForeignSends, Spents
  <2> QED BY <2>1, <2>2 DEF ForeignSends, Spents
<1>8. Once(f, ends[s].heard, sockets'[t]) /\ t = Other(s)
  BY <1>2, <1>3
<1> HIDE DEF f, g, t
<1>9. ~BothThisCode
  BY DEF ForeignSends, ThisCode, BothThisCode, Side
<1> QED BY <1>1, <1>2, <1>3, <1>4, <1>5, <1>6, <1>7, <1>8, <1>9, BothFramesKeep

\* What a foreign end reads is of no account: what it has heard is not changed.
LEMMA ForeignReadsKeeps == ASSUME IInv, NEW s \in Side, ForeignReads(s) PROVE Step
<1> DEFINE t == Other(s)
           closes == Head(ends[s].frames) = "CLOSE"
           answer == IF closes /\ sockets[s] = "open" THEN <<"CLOSE">> ELSE <<>>
           f == IF closes THEN <<>> ELSE Tail(ends[s].frames)
           g == ends[t].frames \o answer
<1>1. t \in Side /\ t # s
  BY Ends
<1>2. /\ ends[t].frames \in Seq(Frame) /\ ends[s].frames \in Seq(Frame) /\ ends[s].frames # <<>>
      /\ Once(ends[s].frames, ends[s].heard, sockets[t]) /\ Once(ends[t].frames, ends[t].heard, sockets[s])
      /\ sockets \in [Side -> Sockets] /\ spent \in Spents
  BY <1>1, FramesOf DEF ForeignReads
<1>3. /\ sockets' \in [Side -> Sockets]
      /\ sockets'[s] # "opening" /\ sockets'[t] = sockets[t]
  BY <1>1, <1>2 DEF ForeignReads, Sockets
<1>4. g \in Seq(Frame) /\ Once(g, ends[t].heard, sockets'[s])
  <2>1. "CLOSE" \in Frame
    BY DEF Frame
  <2>2. <<"CLOSE">> \in Seq(Frame) /\ ~Contains(<<"CLOSE">>, "CONNECT")
    BY <2>1, OneFrame DEF Contains
  <2>3. <<>> \in Seq(Frame) /\ ~Contains(<<>>, "CONNECT")
    BY DEF Contains
  <2>4. answer \in Seq(Frame) /\ ~Contains(answer, "CONNECT")
    BY <2>2, <2>3
  <2> HIDE DEF answer
  <2> QED BY <1>2, <1>3, <2>4, OnceAppended
<1>5. f \in Seq(Frame) /\ Once(f, ends[s].heard, sockets'[t])
  <2>1. Once(<<>>, ends[s].heard, sockets'[t])
    BY <1>2, <1>3, OnceEmptied
  <2>2. Once(Tail(ends[s].frames), ends[s].heard, sockets'[t])
    BY <1>2, <1>3, OnceTaken DEF Heard
  <2> QED BY <1>2, <2>1, <2>2
<1>6. ends' = [ends EXCEPT ![s].frames = f, ![t].frames = g]
  <2>1. ends \in [Side -> Controller]
    BY DEF IInv, TypeOK, Controller
  <2> QED BY <1>1, <2>1 DEF ForeignReads
<1>7. setup' = setup /\ orchestrator' = orchestrator /\ spent' \in Spents
  BY <1>2 DEF ForeignReads
<1> HIDE DEF f, g, t
<1>8. t = Other(s)
  BY DEF t
<1>9. ~BothThisCode
  BY DEF ForeignReads, ThisCode, BothThisCode, Side
<1> QED BY <1>1, <1>3, <1>4, <1>5, <1>6, <1>7, <1>8, <1>9, BothFramesKeep

-----------------------------------------------------------------------------
(* Two ends of this code that nothing disturbs. *)

\* Each sends three messages, one for its websocket and one for each of the first two
\* messages it takes; each takes them in that order.
Script == <<"CONNECT", "ACK", "OK">>
Scripted == {"WaitingConnectMsg", "ConnectMessOk", "AckMsgOk", "Established"}
Turn(end) ==
    CASE end.state = "ConnectMessOk" -> 1
      [] end.state = "AckMsgOk" -> 2
      [] end.state = "Established" -> 3
      [] OTHER -> 0
SentAfter(turn) == IF turn = 3 THEN 3 ELSE turn + 1
SentBy(s) == IF sockets[s] = "opening" THEN 0 ELSE SentAfter(Turn(ends[s]))

\* What is on its way is what was sent and not taken yet.
OnItsWay(frames, turn, sent) ==
    /\ Len(frames) = sent - turn
    /\ \A i \in 1 .. Len(frames) : frames[i] = Script[turn + i]
OnScript(s) ==
    /\ orchestrator[s].there
    /\ sockets[s] = "opening" => ends[s].state = "TryToOpenWS"
    /\ sockets[s] = "open" => ends[s].state \in Scripted
    /\ Turn(ends[s]) > 0 => ends[s].remote # "none"
    /\ OnItsWay(ends[s].frames, Turn(ends[s]), SentBy(Other(s)))

Undisturbed ==
    /\ BothThisCode /\ setup.expected /\ spent.faults = 0
    /\ \A s \in Side : sockets[s] \in {"opening", "open"}
ScriptFollowed == Undisturbed => \A s \in Side : OnScript(s)

\* The first of the frames is taken.
LEMMA TakenOnItsWay ==
    ASSUME NEW f \in Seq(Frame), f # <<>>, NEW turn \in Nat, NEW sent \in Nat,
           OnItsWay(f, turn, sent)
    PROVE  turn < sent /\ Head(f) = Script[turn + 1] /\ OnItsWay(Tail(f), turn + 1, sent)
<1>1. /\ 1 \in 1 .. Len(f) /\ Head(f) = f[1] /\ Len(Tail(f)) = Len(f) - 1 /\ Len(f) \in Nat
      /\ \A i \in 1 .. Len(Tail(f)) : i + 1 \in 1 .. Len(f) /\ Tail(f)[i] = f[i + 1]
  OBVIOUS
<1>2. \A i \in 1 .. Len(Tail(f)) : turn + (i + 1) = (turn + 1) + i
  OBVIOUS
<1>3. \A i \in 1 .. Len(Tail(f)) : Tail(f)[i] = Script[(turn + 1) + i]
  <2> SUFFICES ASSUME NEW i \in 1 .. Len(Tail(f)) PROVE Tail(f)[i] = Script[(turn + 1) + i]
    OBVIOUS
  <2>1. Tail(f)[i] = Script[turn + (i + 1)]
    BY <1>1 DEF OnItsWay
  <2> QED BY <1>2, <2>1
<1> QED BY <1>1, <1>3 DEF OnItsWay

\* The next message of the script is sent.
LEMMA SentOnItsWay ==
    ASSUME NEW f \in Seq(Frame), NEW turn \in Nat, NEW sent \in 0 .. 2, NEW m \in Frame,
           m = Script[sent + 1], OnItsWay(f, turn, sent)
    PROVE  OnItsWay(f \o <<m>>, turn, sent + 1)
<1>1. Len(<<m>>) = 1 /\ <<m>>[1] = m /\ <<m>> \in Seq(Frame)
  OBVIOUS
<1>2. Len(f \o <<m>>) = Len(f) + 1 /\ Len(f) \in Nat /\ (f \o <<m>>)[Len(f) + 1] = m
  BY <1>1
<1>3. \A i \in 1 .. Len(f) : (f \o <<m>>)[i] = f[i]
  BY <1>1
<1>4. turn + (Len(f) + 1) = sent + 1
  BY <1>2 DEF OnItsWay
<1>5. \A i \in 1 .. Len(f \o <<m>>) : (f \o <<m>>)[i] = Script[turn + i]
  <2> SUFFICES ASSUME NEW i \in 1 .. Len(f \o <<m>>) PROVE (f \o <<m>>)[i] = Script[turn + i]
    OBVIOUS
  <2>1. i \in 1 .. Len(f) \/ i = Len(f) + 1
    BY <1>2
  <2> QED BY <1>2, <1>3, <1>4, <2>1 DEF OnItsWay
<1> QED BY <1>2, <1>4, <1>5 DEF OnItsWay

\* The script goes on when one end moves on in it and has sent what its new turn asks.
LEMMA ScriptGoesOn ==
    ASSUME NEW s \in Side, NEW t \in Side, t = Other(s), OnScript(t),
           \A x \in Side : orchestrator'[x].there, sockets'[s] = "open", sockets'[t] = sockets[t],
           ends'[s].state \in Scripted, Turn(ends'[s]) > 0 => ends'[s].remote # "none",
           ends'[t].state = ends[t].state, ends'[t].remote = ends[t].remote,
           OnItsWay(ends'[s].frames, Turn(ends'[s]), SentBy(t)),
           OnItsWay(ends'[t].frames, Turn(ends[t]), SentAfter(Turn(ends'[s])))
    PROVE  \A x \in Side : OnScript(x)'
<1>1. Side = {s, t} /\ s # t /\ Other(t) = s
  BY Ends DEF Side, Other
<1>2. Turn(ends'[t]) = Turn(ends[t])
  BY DEF Turn
<1>3. SentBy(t)' = SentBy(t) /\ SentBy(s)' = SentAfter(Turn(ends'[s]))
  BY <1>2 DEF SentBy
<1>4. OnScript(s)'
  BY <1>1, <1>3 DEF OnScript
<1>5. OnScript(t)'
  BY <1>1, <1>2, <1>3 DEF OnScript
<1> QED BY <1>1, <1>4, <1>5

\* The handler sends what the order says, or nothing, and does not close.
Calmly(s, t, end, state, frames) ==
    /\ ends'[s] = [end EXCEPT !.state = state]
    /\ ends'[t].frames = ends[t].frames \o frames
    /\ ends'[t].state = ends[t].state /\ ends'[t].remote = ends[t].remote
    /\ sockets'[s] = "open" /\ sockets'[t] = sockets[t]
    /\ \A x \in Side : orchestrator'[x].there = orchestrator[x].there
LEMMA AfterCalm ==
    ASSUME IInv, NEW s \in Side, NEW t \in Side, t = Other(s), sockets[s] \in {"opening", "open"},
           NEW end \in Controller, NEW state, NEW frames, After(s, end, state, frames, FALSE)
    PROVE  Calmly(s, t, end, state, frames)
<1>1. s # t
  BY Ends
<1>2. ends \in [Side -> Controller] /\ sockets \in [Side -> Sockets] /\ orchestrator \in [Side -> Known]
  BY DEF IInv, TypeOK, Controller, Sockets, Known
<1>3. /\ ends'[s] = [end EXCEPT !.state = state]
      /\ ends'[t] = [ends[t] EXCEPT !.frames = ends[t].frames \o frames]
  BY <1>1, <1>2 DEF After
<1>4. /\ ends'[t].frames = ends[t].frames \o frames
      /\ ends'[t].state = ends[t].state /\ ends'[t].remote = ends[t].remote
  BY <1>2, <1>3 DEF Controller
<1>5. sockets'[s] = "open" /\ sockets'[t] = sockets[t]
  BY <1>1, <1>2 DEF After
<1>6. \A x \in Side : orchestrator'[x].there = orchestrator[x].there
  <2>1. orchestrator' = [orchestrator EXCEPT ![s] = Tell(orchestrator[s], state)]
    BY DEF After
  <2>2. Tell(orchestrator[s], state).there = orchestrator[s].there
    BY <1>2 DEF Tell, Known
  <2> QED BY <1>2, <2>1, <2>2
<1> QED BY <1>3, <1>4, <1>5, <1>6 DEF Calmly

\* A close, a fault or an end that does not run this code is a disturbance.
LEMMA FaultDisturbs == ASSUME IInv, Fault PROVE ~Undisturbed'
<1>1. spent.faults \in Nat /\ spent' = [spent EXCEPT !.faults = spent.faults + 1]
  BY WS2Pv2Assumption DEF Fault, IInv, TypeOK
<1>2. spent'.faults = spent.faults + 1
  BY <1>1 DEF IInv, TypeOK
<1> QED BY <1>1, <1>2 DEF Undisturbed

LEMMA CloseDisturbs == ASSUME IInv, NEW s \in Side, NEW order, Close(s, order) PROVE ~Undisturbed'
<1>1. CASE After(s, order.end, order.ok, <<>>, TRUE)
  <2>1. sockets'[s] = "closing"
    BY <1>1 DEF After, IInv, TypeOK
  <2> QED BY <2>1 DEF Undisturbed
<1>2. CASE Fault
  BY <1>2, FaultDisturbs
<1> QED BY <1>1, <1>2 DEF Close

\* An undisturbed end that sends moves on.
LEMMA SendOnScript ==
    ASSUME IInv, Undisturbed, Undisturbed', NEW s \in Side, \A x \in Side : OnScript(x),
           NEW order, SendMessage(s, order), order.end \in Controller, NEW sent \in 0 .. 2,
           sent = SentBy(s), order.action \in Frame, order.action = Script[sent + 1],
           order.ok \in Scripted, SentAfter(Turn([order.end EXCEPT !.state = order.ok])) = sent + 1,
           Turn([order.end EXCEPT !.state = order.ok]) > 0 => order.end.remote # "none",
           OnItsWay(order.end.frames, Turn([order.end EXCEPT !.state = order.ok]), SentBy(Other(s)))
    PROVE  \A x \in Side : OnScript(x)'
<1> DEFINE t == Other(s)
           new == [order.end EXCEPT !.state = order.ok]
<1>1. t \in Side /\ t # s /\ Other(t) = s
  BY Ends
<1>2. After(s, order.end, order.ok, <<order.action>>, FALSE)
  BY FaultDisturbs DEF SendMessage, OnScript
<1> HIDE DEF new, t
<1>3. Calmly(s, t, order.end, order.ok, <<order.action>>)
  <2>1. sockets[s] \in {"opening", "open"}
    BY DEF Undisturbed
  <2>2. t = Other(s)
    BY DEF t
  <2> QED BY <1>1, <1>2, <2>1, <2>2, AfterCalm
<1>4. /\ ends'[s] = new
      /\ new.state = order.ok /\ new.remote = order.end.remote /\ new.frames = order.end.frames
  BY <1>3 DEF Controller, new, Calmly
<1>5. Turn(ends[t]) \in Nat /\ OnItsWay(ends[t].frames, Turn(ends[t]), sent) /\ ends[t].frames \in Seq(Frame)
  BY <1>1 DEF OnScript, Turn, IInv, TypeOK
<1>6. OnItsWay(ends[t].frames \o <<order.action>>, Turn(ends[t]), sent + 1)
  BY <1>5, SentOnItsWay
<1>7. t = Other(s) /\ OnScript(t) /\ \A x \in Side : orchestrator'[x].there
  BY <1>1, <1>3 DEF t, OnScript, Calmly
<1>8. SentAfter(Turn(new)) = sent + 1 /\ (Turn(new) > 0 => new.remote # "none")
  BY <1>4 DEF new
<1>9. OnItsWay(new.frames, Turn(new), SentBy(t))
  BY <1>4 DEF new, t
<1>10. /\ ends'[t].state = ends[t].state /\ ends'[t].remote = ends[t].remote
       /\ ends'[t].frames = ends[t].frames \o <<order.action>>
       /\ sockets'[s] = "open" /\ sockets'[t] = sockets[t]
  BY <1>3 DEF Calmly
<1> QED BY <1>1, <1>4, <1>6, <1>7, <1>8, <1>9, <1>10, ScriptGoesOn

\* The first message is sent when the websocket opens.
LEMMA OnOpenOnScript ==
    ASSUME IInv, Undisturbed, Undisturbed', NEW s \in Side, \A x \in Side : OnScript(x), OnOpen(s)
    PROVE  \A x \in Side : OnScript(x)'
<1> DEFINE end == [ends[s] EXCEPT !.state = "TryToSendConnectMsg"]
           order == Order(end, "CONNECT", "WaitingConnectMsg", "Unreachable")
<1>1. /\ sockets[s] = "opening" /\ orchestrator[s].there /\ ends[s].state = "TryToOpenWS"
      /\ OnItsWay(ends[s].frames, Turn(ends[s]), SentBy(Other(s)))
  BY DEF OnOpen, OnScript
<1>2. end \in Controller /\ end.frames = ends[s].frames
  <2>1. ends[s] \in Controller
    BY DEF IInv, TypeOK, Controller
  <2> QED BY <2>1 DEF Controller, State
<1>3. /\ order.end = end /\ order.action = "CONNECT" /\ order.ok = "WaitingConnectMsg"
  BY DEF Order
<1>4. Exec(s, order)
  BY <1>1 DEF OnOpen
<1> HIDE DEF end, order
<1>5. SendMessage(s, order)
  BY <1>3, <1>4 DEF Exec
<1>6. [end EXCEPT !.state = "WaitingConnectMsg"].state = "WaitingConnectMsg"
  BY <1>2 DEF Controller
<1>7. /\ Turn([end EXCEPT !.state = "WaitingConnectMsg"]) = 0 /\ Turn(ends[s]) = 0 /\ SentBy(s) = 0
  BY <1>1, <1>6 DEF Turn, SentBy
<1>8. "CONNECT" \in Frame /\ "CONNECT" = Script[0 + 1] /\ "WaitingConnectMsg" \in Scripted
  BY DEF Frame, Script, Scripted
<1>9. SentAfter(0) = 0 + 1 /\ 0 \in 0 .. 2 /\ ~(0 > 0)
  BY DEF SentAfter
<1> QED BY <1>1, <1>2, <1>3, <1>5, <1>7, <1>8, <1>9, SendOnScript

\* Each message finds the end in the state before its turn, and is answered.
LEMMA OnMessageOnScript ==
    ASSUME IInv, Undisturbed, Undisturbed', NEW s \in Side, \A x \in Side : OnScript(x), OnMessage(s)
    PROVE  \A x \in Side : OnScript(x)'
<1> DEFINE t == Other(s)
           end == [ends[s] EXCEPT !.frames = Tail(@)]
           frame == Head(ends[s].frames)
           turn == Turn(ends[s])
<1>1. t \in Side /\ t # s /\ Other(t) = s
  BY Ends
<1>2. sockets[s] = "open" /\ ends[s].frames # <<>> /\ Exec(s, Process(s, end, frame))
  BY DEF OnMessage, Handles, Undisturbed
<1>3. ends[s] \in Controller /\ ends[s].frames \in Seq(Frame)
  BY DEF IInv, TypeOK, Controller
<1>4. /\ end \in Controller /\ end.frames = Tail(ends[s].frames) /\ end.state = ends[s].state
      /\ end.remote = ends[s].remote
  BY TakenFollows, <1>2 DEF Same
<1>5. turn \in 0 .. 3 /\ SentBy(t) \in 0 .. 3 /\ SentBy(s) = SentAfter(turn)
  BY <1>2 DEF Turn, SentBy, SentAfter
<1>6. turn < SentBy(t) /\ frame = Script[turn + 1] /\ OnItsWay(end.frames, turn + 1, SentBy(t))
  <2>1. OnItsWay(ends[s].frames, turn, SentBy(t))
    BY DEF OnScript
  <2>2. turn \in Nat /\ SentBy(t) \in Nat
    BY <1>5
  <2> HIDE DEF turn, t
  <2> QED BY <1>2, <1>3, <1>4, <2>1, <2>2, TakenOnItsWay
<1>7. ends[s].state \in Scripted /\ orchestrator[s].there /\ (turn > 0 => end.remote # "none")
  BY <1>2, <1>4 DEF OnScript
<1>8. CASE turn = 0
  <2> DEFINE type == IF s = "client" THEN "Incoming"
                     ELSE TypeFromFlags(Flags(TypeOf(t)), NamesChunk(TypeOf(t)))
             known == [end EXCEPT !.remote = IF end.state = "WaitingConnectMsg" THEN t ELSE @,
                                  !.remote_type = IF end.state = "WaitingConnectMsg" THEN type ELSE @]
             merged == MergedFeatures(setup.features[s], setup.features[t], end.features)
             new == [known EXCEPT !.features = merged, !.heard = {"CONNECT"}]
             order == Order(new, "ACK", "ConnectMessOk", "Unreachable")
  <2>1. frame = "CONNECT" /\ end.state = "WaitingConnectMsg"
    BY <1>4, <1>6, <1>7, <1>8 DEF Script, Scripted, Turn
  <2>2. Process(s, end, frame) = order
    <3> HIDE DEF end, frame
    <3>1. Process(s, end, frame) = HearConnect(s, end)
      BY <2>1 DEF Process
    <3> QED BY <2>1, <3>1 DEF HearConnect, Undisturbed
  <2>3. /\ order.end = new /\ order.action = "ACK" /\ order.ok = "ConnectMessOk"
    BY DEF Order
  <2>4. new.frames = end.frames /\ new.remote = t
    BY <1>4, <2>1 DEF Controller
  <2>5. Sound(s, Process(s, end, frame))
    BY <1>2, ProcessIsSound
  <2> HIDE DEF new, order, end, frame, turn, t
  <2>6. new \in Controller /\ SendMessage(s, order)
    BY <1>2, <2>2, <2>3, <2>5 DEF Sound, Follows, Exec
  <2>7. [new EXCEPT !.state = "ConnectMessOk"].state = "ConnectMessOk"
    BY <2>6 DEF Controller
  <2>8. Turn([new EXCEPT !.state = "ConnectMessOk"]) = 1 /\ SentBy(s) = 1
    BY <1>5, <1>8, <2>7 DEF Turn, SentAfter
  <2>9. /\ "ACK" \in Frame /\ "ACK" = Script[1 + 1] /\ "ConnectMessOk" \in Scripted
        /\ SentAfter(1) = 1 + 1 /\ 1 \in 0 .. 2
    BY DEF Frame, Script, Scripted, SentAfter
  <2>10. new.remote # "none" /\ OnItsWay(new.frames, 1, SentBy(Other(s)))
    BY <1>1, <1>6, <1>8, <2>4 DEF Side, t
  <2> QED BY <2>3, <2>6, <2>8, <2>9, <2>10, SendOnScript
<1>9. CASE turn = 1
  <2> DEFINE new == [end EXCEPT !.heard = @ \cup {"ACK"}]
             order == Order(new, "OK", "AckMsgOk", "Unreachable")
  <2>1. frame = "ACK" /\ end.state = "ConnectMessOk"
    BY <1>4, <1>6, <1>7, <1>9 DEF Script, Scripted, Turn
  <2>2. Process(s, end, frame) = order
    <3> HIDE DEF end, frame
    <3>1. Process(s, end, frame) = HearAck(end, TRUE)
      BY <2>1 DEF Process
    <3> QED BY <2>1, <3>1 DEF HearAck
  <2>3. /\ order.end = new /\ order.action = "OK" /\ order.ok = "AckMsgOk"
    BY DEF Order
  <2>4. new.frames = end.frames /\ new.remote = end.remote
    BY <1>4 DEF Controller
  <2>5. Sound(s, Process(s, end, frame))
    BY <1>2, ProcessIsSound
  <2> HIDE DEF new, order, end, frame, turn, t
  <2>6. new \in Controller /\ SendMessage(s, order)
    BY <1>2, <2>2, <2>3, <2>5 DEF Sound, Follows, Exec
  <2>7. [new EXCEPT !.state = "AckMsgOk"].state = "AckMsgOk"
    BY <2>6 DEF Controller
  <2>8. Turn([new EXCEPT !.state = "AckMsgOk"]) = 2 /\ SentBy(s) = 2
    BY <1>5, <1>9, <2>7 DEF Turn, SentAfter
  <2>9. /\ "OK" \in Frame /\ "OK" = Script[2 + 1] /\ "AckMsgOk" \in Scripted
        /\ SentAfter(2) = 2 + 1 /\ 2 \in 0 .. 2
    BY DEF Frame, Script, Scripted, SentAfter
  <2>10. new.remote # "none" /\ OnItsWay(new.frames, 2, SentBy(Other(s)))
    BY <1>1, <1>6, <1>7, <1>9, <2>4 DEF t
  <2> QED BY <2>3, <2>6, <2>8, <2>9, <2>10, SendOnScript
<1>10. CASE turn = 2
  <2> DEFINE new == [end EXCEPT !.state = "Established", !.heard = @ \cup {"OK"}]
             known == Tell(orchestrator[s], new.state)
  <2>1. frame = "OK" /\ end.state = "AckMsgOk"
    BY <1>4, <1>6, <1>7, <1>10 DEF Script, Scripted, Turn
  <2>2. Process(s, end, frame) = NoOrder(new)
    <3> HIDE DEF end, frame
    <3>1. Process(s, end, frame) = HearOk(end)
      BY <2>1 DEF Process
    <3> QED BY <1>7, <1>10, <2>1, <3>1 DEF HearOk
  <2>3. NoOrder(new).end = new /\ NoOrder(new).action = "none"
    BY DEF NoOrder, Order
  <2>4. new.frames = end.frames /\ new.remote = end.remote /\ new.state = "Established"
    BY <1>4 DEF Controller
  <2> HIDE DEF new, end, frame
  <2>5. Settle(s, new)
    BY <1>2, <2>2, <2>3 DEF Exec
  <2>6. known.there /\ \A type : [known EXCEPT !.announced = type].there
    BY <1>7 DEF Tell, IInv, TypeOK
  <2>7. /\ ends' = [ends EXCEPT ![s] = new] /\ sockets' = sockets
        /\ orchestrator' = [orchestrator EXCEPT ![s] =
              IF new.state = "Established" /\ known.there
              THEN [known EXCEPT !.announced = AnnouncedType(s, new)] ELSE known]
    BY <1>4, <2>1, <2>4, <2>5, <2>6 DEF Settle
  <2> HIDE DEF known, turn, t
  <2>8. \A x \in Side : orchestrator'[x].there
    BY <2>6, <2>7 DEF OnScript, IInv, TypeOK
  <2>9. ends'[s] = new /\ ends'[t] = ends[t]
    BY <1>1, <2>7 DEF IInv, TypeOK
  <2>10. Turn(new) = 3 /\ SentBy(s) = 3 /\ SentAfter(3) = 3 /\ "Established" \in Scripted
    BY <1>5, <1>10, <2>4 DEF Turn, SentAfter, Scripted
  <2>11. OnItsWay(ends[t].frames, Turn(ends[t]), SentBy(s))
    BY <1>1 DEF OnScript
  <2>12. new.remote # "none" /\ OnItsWay(new.frames, 3, SentBy(t))
    BY <1>6, <1>7, <1>10, <2>4
  <2>13. t = Other(s) /\ OnScript(t)
    BY <1>1 DEF t
  <2> QED BY <1>1, <1>2, <2>4, <2>7, <2>8, <2>9, <2>10, <2>11, <2>12, <2>13, ScriptGoesOn
<1> QED BY <1>5, <1>6, <1>8, <1>9, <1>10

\* What is undisturbed after an order was so before.
LEMMA ExecCalm ==
    ASSUME IInv, NEW s \in Side, NEW order, Exec(s, order), Undisturbed'
    PROVE  Undisturbed
<1>1. setup' = setup /\ \A end, state : ~Fatal(s)
  BY DEF Exec, Fatal, Undisturbed
<1>2. ASSUME spent' = spent,
             \A x \in Side : sockets'[x] \in {"opening", "open"} => sockets[x] \in {"opening", "open"}
      PROVE  Undisturbed
  BY <1>1, <1>2 DEF Undisturbed, BothThisCode
<1>3. \A other : ~Close(s, other)
  BY CloseDisturbs
<1>4. CASE SendMessage(s, order)
  <2>1. PICK frames : After(s, order.end, order.ok, frames, ~orchestrator[s].there) /\ UNCHANGED spent
    BY <1>4, FaultDisturbs DEF SendMessage
  <2> QED BY <1>2, <2>1 DEF After, IInv, TypeOK
<1>5. CASE Settle(s, order.end)
  BY <1>2, <1>3, <1>5 DEF Settle
<1> QED BY <1>1, <1>3, <1>4, <1>5 DEF Exec

\* Every action but the two that follow the script is a disturbance.
LEMMA NextOnScript ==
    ASSUME IInv, ScriptFollowed, [Next]_vars
    PROVE  ScriptFollowed'
<1> SUFFICES ASSUME Undisturbed' PROVE \A x \in Side : OnScript(x)'
  BY DEF ScriptFollowed
<1>1. CASE UNCHANGED vars
  BY <1>1 DEF vars, ScriptFollowed, Undisturbed, BothThisCode, OnScript, SentBy
<1>2. ~Fault
  BY FaultDisturbs
<1>3. ASSUME NEW s \in Side, OnOpen(s) PROVE \A x \in Side : OnScript(x)'
  <2>1. Undisturbed
    BY <1>3, ExecCalm DEF OnOpen
  <2> QED BY <1>3, <2>1, OnOpenOnScript DEF ScriptFollowed
<1>4. ASSUME NEW s \in Side, OnMessage(s) PROVE \A x \in Side : OnScript(x)'
  <2>1. Undisturbed
    BY <1>4, ExecCalm DEF OnMessage
  <2> QED BY <1>4, <2>1, OnMessageOnScript DEF ScriptFollowed
<1>5. ASSUME NEW s \in Side, CheckTimeouts(s) PROVE FALSE
  <2>1. Close(s, TimeoutOrder(ends[s]))
    BY <1>5 DEF CheckTimeouts, Exec, TimeoutOrder, Order
  <2> QED BY <2>1, CloseDisturbs
<1>6. ASSUME NEW s \in Side, OnClose(s) PROVE FALSE
  BY <1>6 DEF OnClose, Undisturbed, IInv, TypeOK
<1>7. ASSUME NEW s \in Side, ~ThisCode(s), setup' = setup PROVE FALSE
  BY <1>7 DEF ThisCode, Undisturbed, BothThisCode, Side
<1>8. \A s \in Side : ~ForeignOpens(s) /\ ~ForeignReads(s) /\ \A frame : ~ForeignSends(s, frame)
  BY <1>7 DEF ForeignOpens, ForeignReads, ForeignSends
<1>9. ~Break /\ \A s \in Side : ~OrchestratorLeaves(s)
  BY <1>2 DEF Break, OrchestratorLeaves
<1> QED BY <1>1, <1>3, <1>4, <1>5, <1>6, <1>8, <1>9 DEF Next, End

-----------------------------------------------------------------------------
(* The theorems. *)

\* IInv holds at first.
LEMMA InitIInv == Init => IInv
<1> SUFFICES ASSUME Init PROVE IInv
  OBVIOUS
<1>1. NewController \in Controller
  BY DEF NewController, Controller, State
<1>2. /\ NewController.state = "TryToOpenWS" /\ NewController.heard = {}
      /\ NewController.frames = <<>> /\ NewController.remote_type = "none"
  BY DEF NewController
<1>3. \A s \in Side : ends[s] = NewController
  BY DEF Init
<1>4. /\ setup \in Setups /\ ends \in [Side -> Controller] /\ sockets \in [Side -> Sockets]
      /\ spent \in Spents
  BY <1>1, WS2Pv2Assumption DEF Init, Spents, Sockets
<1>5. orchestrator \in [Side -> [there : BOOLEAN, told : State, announced : ConnectType \cup {"none"}]]
  BY DEF Init, State
<1>6. TypeOK
  BY <1>4, <1>5 DEF TypeOK, Controller, Spents, Sockets
<1>7. ConnectOnce
  BY <1>2, <1>3 DEF ConnectOnce, Once, Contains
<1>8. \A s \in Side : StateHeard(ends[s].state, ends[s].heard)
  BY <1>2, <1>3 DEF StateHeard
<1>9. Promises
  BY <1>2, <1>3 DEF Promises, Promised, Contains
<1>10. Knowledge
  BY <1>3 DEF Knowledge, Knows, Announced, NewController, Init
<1> QED BY <1>2, <1>3, <1>6, <1>7, <1>8, <1>9, <1>10 DEF IInv, Side

\* Each step keeps IInv, and is a step of the handshake or changes nothing of it.
LEMMA NextStep == IInv /\ [Next]_vars => Step
<1> SUFFICES ASSUME IInv, [Next]_vars PROVE Step
  OBVIOUS
<1>1. CASE UNCHANGED vars
  BY <1>1 DEF vars, Step, IInv, TypeOK, ConnectOnce, Negotiates, Promises, BothThisCode,
              Knowledge, Knows, Announced, AnnouncedType, TypeOf, TypeAt, CommonFeatures
<1>2. CASE Break
  BY <1>2, BreakKeeps
<1>3. ASSUME NEW s \in Side, End(s) PROVE Step
  BY <1>3, OnOpenKeeps, OnMessageKeeps, CheckTimeoutsKeeps, OnCloseKeeps DEF End
<1>4. ASSUME NEW s \in Side, OrchestratorLeaves(s) \/ ForeignOpens(s) \/ ForeignReads(s) PROVE Step
  BY <1>4, OrchestratorLeavesKeeps, ForeignOpensKeeps, ForeignReadsKeeps
<1>5. ASSUME NEW s \in Side, NEW frame \in Frame \ {"CONNECT"}, ForeignSends(s, frame) PROVE Step
  BY <1>5, ForeignSendsKeeps
<1> QED BY <1>1, <1>2, <1>3, <1>4, <1>5 DEF Next

\* The controllers, frames, websockets and what the orchestrators were told keep
\* their types: in particular a connection is announced only as a type that an
\* outgoing connection can have.
THEOREM TypeCorrect == Spec => []TypeOK
<1>1. IInv /\ [Next]_vars => IInv'
  BY NextStep DEF Step
<1>2. IInv => TypeOK
  BY DEF IInv
<1> QED BY InitIInv, <1>1, <1>2, PTL DEF Spec

\* An end is established only once it has heard CONNECT, ACK and OK from the other
\* end, whatever that end sends and whatever is lost.
THEOREM EstablishedHasHeardAll == Spec => []EstablishedHeardAll
<1>1. IInv /\ [Next]_vars => IInv'
  BY NextStep DEF Step
<1>2. IInv => EstablishedHeardAll
  BY DEF IInv, StateHeard, EstablishedHeardAll
<1> QED BY InitIInv, <1>1, <1>2, PTL DEF Spec

\* What the two ends have established is the same: an end is established only when the
\* other has heard its CONNECT and its ACK, both announce the type that the connection
\* was opened with when the flags tell it, each names the other, and the features they
\* settle on are those both have.
THEOREM EndsAlwaysAgree == Spec => []EndsAgree
<1>1. IInv /\ [Next]_vars => IInv'
  BY NextStep DEF Step
<1>2. IInv => EndsAgree
  <2> SUFFICES ASSUME IInv PROVE EndsAgree
    OBVIOUS
  <2>1. EstablishedIsShared
    BY DEF IInv, StateHeard, Promises, Promised, Claims, EstablishedIsShared
  <2>2. SameConnection
    BY DEF IInv, Knowledge, Announced, TypeAt, FlagsTell, SameConnection
  <2>3. FeaturesAreShared
    BY DEF IInv, Knowledge, Knows, CommonFeatures, FeaturesAreShared
  <2> QED BY <2>1, <2>2, <2>3 DEF EndsAgree
<1> QED BY InitIInv, <1>1, <1>2, PTL DEF Spec

\* Two ends of this code that nothing disturbs follow a script of three messages each:
\* when no frame is left both have gone through it, and are established.
THEOREM QuietEndsAreEstablished == Spec => []QuietMeansEstablished
<1>1. Init => ScriptFollowed
  BY DEF Init, NewController, ScriptFollowed, OnScript, Turn, SentBy, OnItsWay, Side, Other
<1>2. IInv /\ ScriptFollowed /\ [Next]_vars => IInv' /\ ScriptFollowed'
  BY NextStep, NextOnScript DEF Step
<1>3. ScriptFollowed => QuietMeansEstablished
  <2> SUFFICES ASSUME ScriptFollowed, BothThisCode, setup.expected, Quiet, spent.faults = 0,
                      NEW s \in Side
               PROVE  ends[s].state = "Established"
    BY DEF QuietMeansEstablished
  <2> DEFINE t == Other(s)
  <2>1. t \in Side /\ Other(t) = s /\ sockets[s] = "open" /\ sockets[t] = "open"
    BY Ends DEF Quiet
  <2>2. OnScript(s) /\ OnScript(t)
    BY <2>1 DEF ScriptFollowed, Undisturbed, Quiet
  <2>3. Turn(ends[s]) \in 0 .. 3 /\ Turn(ends[t]) \in 0 .. 3
    BY DEF Turn
  <2>4. Len(ends[s].frames) = 0 /\ Len(ends[t].frames) = 0
    BY <2>1 DEF Quiet
  <2> HIDE DEF t
  <2>5. SentAfter(Turn(ends[t])) - Turn(ends[s]) = 0 /\ SentAfter(Turn(ends[s])) - Turn(ends[t]) = 0
    BY <2>1, <2>2, <2>4 DEF OnScript, OnItsWay, SentBy, t
  <2>6. Turn(ends[s]) = 3
    BY <2>3, <2>5 DEF SentAfter
  <2> QED BY <2>6 DEF Turn
<1> QED BY InitIInv, <1>1, <1>2, <1>3, PTL DEF Spec

\* The messages of the other end count once each, CONNECT first: the two controllers
\* implement the handshake that both versions of WS2P promise.
THEOREM NegotiationRefines == Spec => NegotiatesInOrder
<1> DEFINE hears == [s \in Side |-> ends[s].heard]
<1>1. Init => Handshake!Init
  BY DEF Init, NewController, Handshake!Init
<1>2. Negotiates => [Handshake!Next]_hears
  <2>1. CASE \A t \in Side : ends'[t].heard = ends[t].heard
    BY <2>1
  <2>2. ASSUME NEW s \in Side, NEW m \in {"CONNECT", "ACK", "OK"}, HearsOne(s, m)
        PROVE  Handshake!Next
    <3>1. hears' = [hears EXCEPT ![s] = hears[s] \cup {m}]
      BY <2>2 DEF HearsOne
    <3>2. Handshake!Hear(s, m)
      BY <2>2, <3>1 DEF HearsOne, Handshake!Hear
    <3> QED BY <3>2 DEF Handshake!Next, Handshake!Messages
  <2> QED BY <2>1, <2>2 DEF Negotiates
<1>3. IInv /\ [Next]_vars => IInv' /\ [Handshake!Next]_hears
  BY <1>2, NextStep DEF Step
<1> QED BY InitIInv, <1>1, <1>3, PTL DEF Spec, NegotiatesInOrder, Handshake!Spec
=============================================================================
