----------------------------- MODULE MCRequests -----------------------------
(***************************************************************************)
(* An instance of Requests for TLC: a node that answers and one that does  *)
(* not, which comes first in the table of endpoints.  The scenarios: two   *)
(* requests at the same time; two while a branch of the network fails; a   *)
(* chain fetched while one connection or the other ends; heads while       *)
(* connections end.  In those with a chain to fetch the answer about the   *)
(* current block may overtake the events of both its blocks.               *)
(***************************************************************************)
EXTENDS Requests

Order == <<"silent", "honest">>
Nothing == [start |-> 0, asks |-> {}, ends |-> {}, heads |-> {}, forks |-> 0, waiting |-> 0, messages |-> 1]
HeadOf(n, block, step, sig) == [node |-> n, block |-> block, step |-> step, sig |-> sig, sig_v2 |-> "valid"]

Scenarios == {
    [Nothing EXCEPT !.asks = {<<"silent", "GetCurrent">>, <<"honest", "GetBlock">>}, !.messages = 2],
    [Nothing EXCEPT !.asks = {<<"silent", "GetRequirementsPending">>, <<"honest", "GetCurrent">>}, !.forks = 1],
    [Nothing EXCEPT !.start = NoBlock, !.ends = {<<"silent", "WSError">>}, !.waiting = 1],
    [Nothing EXCEPT !.start = NoBlock, !.ends = {<<"honest", "Close">>}, !.waiting = 1],
    [Nothing EXCEPT !.ends = {<<"silent", "NegociationTimeout">>, <<"honest", "Timeout">>},
                    !.heads = {HeadOf("silent", 1, 1, "valid"), HeadOf("silent", 0, 1, "valid")}]}
=============================================================================
