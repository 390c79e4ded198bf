----------------------------- MODULE MCCurrency -----------------------------
(***************************************************************************)
(* Instances of Currency for TLC: a member and a wallet, dividends of 10   *)
(* units (1000 hundredths), and in one run of 11 after a change of base.   *)
(***************************************************************************)
EXTENDS Currency

CONSTANTS k1, k2

OneBase == {[amount |-> 1000, base |-> 0]}
TwoBases == OneBase \cup {[amount |-> 110, base |-> 1]}
=============================================================================
