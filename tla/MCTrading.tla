----------------------------- MODULE MCTrading ------------------------------
(***************************************************************************)
(* Trading with two accounts in the plugin.  The asks s1 and s2 make a     *)
(* price level, at two quote tokens; the level's price is that of s1, and  *)
(* s2 is cheaper.  The user's own order b1 buys a base token with account  *)
(* a1.  The command line has the wallet of c, who sells with s1 and s3,    *)
(* until that of m, who sells with s2, is imported.                        *)
(***************************************************************************)
EXTENDS Trading, TLC

CONSTANTS a1, a2, m, c, s1, s2, s3, b1, x1, x2, q1, q2

MCMaker == (s1 :> c) @@ (s2 :> m) @@ (s3 :> c) @@ (b1 :> a1)
MCBase == (s1 :> 1) @@ (s2 :> 2) @@ (s3 :> 1) @@ (b1 :> 1)
MCQuote == (s1 :> 2) @@ (s2 :> 3) @@ (s3 :> 2) @@ (b1 :> 2)
MCBalance(base, quote, eth) == [base |-> base, quote |-> quote, eth |-> eth]
MCFirstBalance ==
    (a1 :> MCBalance(1, 6, 1)) @@ (a2 :> MCBalance(0, 0, 1)) @@ (m :> MCBalance(2, 0, 0)) @@
    (c :> MCBalance(2, 2, 1))
MCFirstAllowed == (a1 :> {"quote"}) @@ (a2 :> {}) @@ (m :> {"base"}) @@
    (c :> {"base", "quote"})
MCCommands ==
    {[verb |-> "trade", order |-> b1, amount |-> 1],
     [verb |-> "trade", order |-> s2, amount |-> 1],
     [verb |-> "cancel", order |-> s1],
     [verb |-> "sell", order |-> s3],
     [verb |-> "revoke", token |-> "base"], [verb |-> "approve", token |-> "base"],
     [verb |-> "weth2eth", amount |-> 1], [verb |-> "eth2weth", amount |-> 1]}
=============================================================================
