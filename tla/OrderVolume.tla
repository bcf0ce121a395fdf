---------------------------- MODULE OrderVolume ----------------------------
(***************************************************************************)
(* The amounts of an order, as validateOrder and OrderTaskHandler.handle   *)
(* compute them from what the exchange contract reports.  An order sells   *)
(* MakerAmount of one token for TakerAmount of the other.  The contract    *)
(* answers availableVolume in units of the taker token; the node derives   *)
(* the maker volume from it, rounded down, and compares both with the      *)
(* configured minimum order sizes.                                         *)
(***************************************************************************)
EXTENDS Integers

CONSTANTS
    Orders,       \* orders, each identified by its hash
    Asks,         \* the orders that sell the base token; the others are bids
    MakerAmount,  \* MakerAmount[o]: amount of the token the maker sells
    TakerAmount,  \* TakerAmount[o]: amount of the token the maker asks for
    MinBase,      \* marketDefault.minOrderBaseVolume, in base units
    MinQuote      \* marketDefault.minOrderQuoteVolume, in quote units

ASSUME OrderAssumption ==
    /\ Asks \subseteq Orders
    /\ MakerAmount \in [Orders -> Nat \ {0}]
    /\ TakerAmount \in [Orders -> Nat \ {0}]
    /\ MinBase \in Nat
    /\ MinQuote \in Nat

Bids == Orders \ Asks

\* What availableVolume may answer for o: filled, cancelled, expired or
\* unfunded orders have 0, an untouched and funded one its TakerAmount.
Volumes(o) == 0 .. TakerAmount[o]

\* availableVolume * makerTokenAmount / takerTokenAmount, ROUND_DOWN.
MakerVolume(o, v) == (v * MakerAmount[o]) \div TakerAmount[o]

RemainingBase(o, v)  == IF o \in Asks THEN MakerVolume(o, v) ELSE v
RemainingQuote(o, v) == IF o \in Asks THEN v ELSE MakerVolume(o, v)

\* The admission test of validateOrder: neither minimum exceeds the amount.
Admissible(o, v) ==
    /\ ~(MinBase > RemainingBase(o, v))
    /\ ~(MinQuote > RemainingQuote(o, v))

\* The delisting test of OrderTaskHandler.handle: `lte`, so an order of
\* exactly the minimum size is admitted and then delisted.
Unfunded(o, v) ==
    \/ RemainingBase(o, v) <= MinBase
    \/ RemainingQuote(o, v) <= MinQuote
=============================================================================
