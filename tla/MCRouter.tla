------------------------------ MODULE MCRouter ------------------------------
(***************************************************************************)
(* An instance of Router for TLC: the block-chain module, a network module *)
(* and the user interface, with the subscriptions and roles of their       *)
(* registrations.  The network module asks for the current block from its  *)
(* main thread while its proxy thread registers; the block-chain announces *)
(* two blocks.                                                             *)
(***************************************************************************)
EXTENDS Router

MCModule == {"blockchain", "ws2p1", "tui"}
MCNetwork == {"ws2p1"}
MCInterests ==
    [blockchain |-> <<"NewBlockFromNetwork", "BlockchainDatas", "BlockValidation">>,
     ws2p1 |-> <<"NewValidBlock", "NewWotDocInPool", "InterNodesNetwork">>,
     tui |-> <<"NewValidBlock", "ConnectionsChangeNodeNetwork", "UserInterface">>]

Event(from, to, no) ==
    [kind |-> "Event", from |-> from, to |-> to, no |-> no, answers |-> NoMessage]
CurrentBlockstamp ==
    [kind |-> "Request", from |-> "ws2p1", to |-> "BlockchainDatas", no |-> 1,
     answers |-> NoMessage]
CurrentBlockstampResponse ==
    [kind |-> "Response", from |-> "blockchain", to |-> "ws2p1", no |-> 1,
     answers |-> "BlockchainDatas"]

StartMessages ==
    {Event("blockchain", "NewValidBlock", 1), Event("blockchain", "NewValidBlock", 2),
     CurrentBlockstamp, CurrentBlockstampResponse}
StopMessages == {Event("blockchain", "NewValidBlock", 1), CurrentBlockstamp}
=============================================================================
