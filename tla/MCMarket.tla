------------------------------ MODULE MCMarket ------------------------------
(***************************************************************************)
(* Two providers with an item each, one with a daily quota and one with a  *)
(* monthly quota, of which one call may be used and the rest is kept back; *)
(* two prices and an alert between them.                                   *)
(***************************************************************************)
EXTENDS Market, TLC

MCProvider == {"brsapi", "navasan"}
MCLimit    == [p \in MCProvider |-> 4]
MCReserve  == [p \in MCProvider |-> 3]
MCItemsOf  == [p \in MCProvider |-> IF p = "brsapi" THEN {"USD"} ELSE {"usd_sell"}]
MCAlertItem == [a \in {"dear"} |-> "USD"]
MCAlertHit  == [a \in {"dear"} |-> {2}]
Symmetry    == Permutations(Session)
=============================================================================
