------------------------------ MODULE MCWS2Pv1 ------------------------------
(***************************************************************************)
(* An instance of WS2Pv1 for TLC: an endpoint of the configuration, and    *)
(* one that a peer card announces.                                         *)
(***************************************************************************)
EXTENDS WS2Pv1

\* The table of a run that was connected to e1.
MCSavedTables ==
    {[e \in Endpoint |-> IF e = "e1" THEN "Established" ELSE "Absent"]}

MCIssuer == [e \in Endpoint |-> IF e = "e1" THEN "k1" ELSE "k2"]
=============================================================================
