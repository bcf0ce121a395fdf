-------------------------- MODULE OrderAggregates --------------------------
(***************************************************************************)
(* How the orders of a book are grouped into price levels: topBidOrders,   *)
(* topAskOrders and queryOrderAggregateByPrice of OrderbookService, and    *)
(* the rounding that the web client applies to a new order.                *)
(*                                                                         *)
(* A price is a natural number of fine units, Tick of which make the last  *)
(* displayed decimal; the price of a level is a number of ticks.  Orders   *)
(* of one price are interchangeable here, so a sorted array is the set of  *)
(* its orders.  A side of a book maps the prices of its levels to the      *)
(* volumes of the orders of each level.                                    *)
(***************************************************************************)
EXTENDS Integers, FiniteSets

CONSTANTS
    Orders,
    Asks,     \* the orders that sell the base token; the others are bids
    Price,    \* Price[o], in fine units
    Tick,     \* fine units in the last displayed decimal
    Decimals, \* displayed decimals
    Limit     \* levels per side in an answer

ASSUME AggregateAssumption ==
    /\ Asks \subseteq Orders
    /\ Price \in [Orders -> Nat]
    /\ Tick \in Nat \ {0}
    /\ Decimals \in Nat
    /\ Limit \in Nat

Sides == {"bid", "ask"}

SideOf(o) == IF o \in Asks THEN "ask" ELSE "bid"

OfSide(orders, side) == {o \in orders : SideOf(o) = side}

\* decimalPlaces with ROUND_UP, to a multiple of unit.
RoundedUp(p, unit) == ((p + unit - 1) \div unit) * unit

\* decimalPlaces: the library rounds half up by default.
Rounded(p, unit) == ((2 * p + unit) \div (2 * unit)) * unit

LevelOf(o) == Rounded(Price[o], Tick) \div Tick

\* In the order of the sorted array.
NotAfter(p, o) == IF o \in Asks THEN Price[p] <= Price[o] ELSE Price[p] >= Price[o]

\* takeLimitOrderFn tells prices apart by rounding asks up.
CountedPrice(o) ==
    IF o \in Asks THEN RoundedUp(Price[o], Tick) ELSE Rounded(Price[o], Tick)

\* takeLimitOrderFn: orders are taken until Limit prices were counted.
Taken(orders) ==
    {o \in orders :
        Cardinality({CountedPrice(p) : p \in {q \in orders : NotAfter(q, o)}}) <= Limit}

\* topBidOrders and topAskOrders: what was taken, grouped by rounded price.
TopLevels(orders, volume) ==
    [price \in {LevelOf(o) : o \in Taken(orders)} |->
        [o \in {p \in Taken(orders) : LevelOf(p) = price} |-> volume[o]]]

\* WsOrderAgQueryHandler takes the number of decimals from the price as it is
\* written, without trailing zeros: 1.50000 asks for one decimal.
WrittenUnit(price) ==
    Tick * 10 ^ (CHOOSE k \in 0 .. Decimals :
                   /\ price % (10 ^ k) = 0
                   /\ \A j \in 0 .. Decimals : price % (10 ^ j) = 0 => j <= k)

\* queryOrderAggregateByPrice: the orders of one rounded price, if any.
LevelByPrice(orders, volume, price) ==
    LET unit == WrittenUnit(price)
        HasPrice(o) == price * Tick = IF o \in Asks THEN RoundedUp(Price[o], unit)
                                      ELSE Rounded(Price[o], unit)
    IN  [o \in {p \in orders : HasPrice(p)} |-> volume[o]]

\* uniqWith of mergeSorted([new, old]): of two levels of a price, the new one.
MergedLevels(new, old) ==
    [price \in DOMAIN new \cup DOMAIN old |->
        IF price \in DOMAIN new THEN new[price] ELSE old[price]]
=============================================================================
