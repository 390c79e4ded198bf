--------------------------- MODULE WS2PHandshake ---------------------------
(***************************************************************************)
(* What WS2P promises about negotiations, whichever version of the         *)
(* protocol a node speaks: on each side of a connection, each of the three *)
(* messages of the remote node counts once, CONNECT before the two others  *)
(* (they answer challenges that only CONNECT makes known), and the side is *)
(* established when all three have been heard and not before.              *)
(***************************************************************************)
CONSTANT Side       \* the connections of a node, or the two ends of one
VARIABLE heard      \* per side, the messages of the remote node accepted so far

Messages == {"CONNECT", "ACK", "OK"}

Hear(side, message) ==
    /\ message \notin heard[side]
    /\ message = "CONNECT" \/ "CONNECT" \in heard[side]
    /\ heard' = [heard EXCEPT ![side] = @ \cup {message}]

Init == heard = [side \in Side |-> {}]
Next == \E side \in Side, message \in Messages : Hear(side, message)
Spec == Init /\ [][Next]_heard
=============================================================================
