---------------------------- MODULE MCPageStart ----------------------------
(***************************************************************************)
(* PageStart with two markets, t1 and t2.  While lists are loaded, t2 is   *)
(* renamed (e2) and removed from the registry (e1), in either order; each  *)
(* visit is to the market that t2 had the symbol of at first.              *)
(***************************************************************************)
EXTENDS PageStart, TLC

CONSTANTS t1, t2, sa, sb, sc, e1, e2, l1, l2

MCMarketSeq == <<t1, t2>>
MCFirstSymbol == (t1 :> sa) @@ (t2 :> sb)
MCEdit(op, t, s, owner) == [op |-> op, token |-> t, symbol |-> s, owner |-> owner]
MCEditOf ==
    (e1 :> MCEdit("remove", t2, sb, TRUE)) @@ (e2 :> MCEdit("rename", t2, sc, TRUE))
MCUrls == {sb}
MCEarlierVisit == [markets |-> <<sa, sb>>, selected |-> t2]
=============================================================================
