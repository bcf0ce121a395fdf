---------------------------- MODULE MCMarketFeed ----------------------------
(***************************************************************************)
(* MarketFeed with two markets: two bids of m1, 0.92 and 0.98, and an ask  *)
(* of m2, 1.04, with one displayed decimal.  The level of the second bid   *)
(* is 1.0, which is written "1": without a decimal both bids round to it.  *)
(***************************************************************************)
EXTENDS MarketFeed

CONSTANTS m1, m2, o1, o2, o3

MCMarketOf == [o \in Orders |-> IF o = o3 THEN m2 ELSE m1]
MCPrice == [o \in Orders |-> CASE o = o1 -> 92 [] o = o2 -> 98 [] o = o3 -> 104]
=============================================================================
