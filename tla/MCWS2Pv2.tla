------------------------------ MODULE MCWS2Pv2 ------------------------------
(***************************************************************************)
(* An instance of WS2Pv2 for TLC.  Two nodes of this code, with compatible *)
(* and incompatible features, the expected node or another, and types that *)
(* the flags tell or not; or a node of this code and another one.          *)
(***************************************************************************)
EXTENDS WS2Pv2

Pair == [client |-> {"DEF", "ABF"}, server |-> {"DEF"}]

MCSetups ==
    [foreign : {"none"}, type : {"OutgoingServer", "SyncAskChunk"}, expected : BOOLEAN,
     features : [Side -> {{}, {"DEF", "ABF"}, {"DEF", "LOW"}}]]
    \cup [foreign : {"none"}, type : {"OutgoingClient", "SyncFromBlock"}, expected : {TRUE},
           features : {Pair}]
    \cup [foreign : Side, type : {"OutgoingServer"}, expected : {TRUE}, features : {Pair}]
=============================================================================
