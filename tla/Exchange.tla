------------------------------ MODULE Exchange ------------------------------
(***************************************************************************)
(* The exchange contract and the tokens of one market, and the calls of    *)
(* the contract API that trade in them.  The contracts are not part of the *)
(* repository: they are modelled from how the API and its callers use      *)
(* them.  An ask sells the base token for the quote token, a bid buys it;  *)
(* the quote token is wrapped ether.  Fees are not modelled.               *)
(***************************************************************************)
EXTENDS Integers, Sequences, FiniteSets, SequencesExt

CONSTANTS
    Accounts,       \* owners of tokens
    Orders,         \* signed orders
    Asks,           \* those that sell the base token
    Maker,          \* Maker[o]: account that offers o
    BaseAmount,     \* BaseAmount[o], QuoteAmount[o]: amounts of o
    QuoteAmount,
    FirstBalance,   \* FirstBalance[a][t]: what a owns of t at first
    FirstAllowed,   \* FirstAllowed[a]: tokens the gateway may move for a at first
    MaxEvents       \* bound: what users, other traders and faults do

Tokens == {"base", "quote", "eth"}

ASSUME ExchangeAssumption ==
    /\ Asks \subseteq Orders
    /\ Maker \in [Orders -> Accounts]
    /\ BaseAmount \in [Orders -> Nat \ {0}] /\ QuoteAmount \in [Orders -> Nat \ {0}]
    /\ FirstBalance \in [Accounts -> [Tokens -> Nat]]
    /\ FirstAllowed \in [Accounts -> SUBSET {"base", "quote"}]
    /\ MaxEvents \in Nat

VARIABLES
    ledger,     \* balances, allowances, and what is filled of each order
    events      \* what is left of MaxEvents

Ledgers ==
    [bal : [Accounts -> [Tokens -> Nat]],
     allowed : [Accounts -> SUBSET {"base", "quote"}],
     filled : [Orders -> Nat]]

ExchangeTypeOK ==
    /\ ledger \in Ledgers
    /\ \A o \in Orders :
         ledger.filled[o] <= IF o \in Asks THEN QuoteAmount[o] ELSE BaseAmount[o]
    /\ events \in 0 .. MaxEvents

ExchangeInit ==
    /\ ledger = [bal |-> FirstBalance, allowed |-> FirstAllowed,
                 filled |-> [o \in Orders |-> 0]]
    /\ events = MaxEvents

\* One of the bounded events.
Event == events > 0 /\ events' = events - 1

Least(S) == CHOOSE n \in S : \A m \in S : n <= m

-----------------------------------------------------------------------------
(***************************************************************************)
(* Orders.                                                                 *)
(***************************************************************************)
MakerToken(o) == IF o \in Asks THEN "base" ELSE "quote"
TakerToken(o) == IF o \in Asks THEN "quote" ELSE "base"
MakerAmount(o) == IF o \in Asks THEN BaseAmount[o] ELSE QuoteAmount[o]
TakerAmount(o) == IF o \in Asks THEN QuoteAmount[o] ELSE BaseAmount[o]

\* What the gateway can move of a token of an account.
Spendable(l, a, t) == IF t \in l.allowed[a] THEN l.bal[a][t] ELSE 0

\* availableVolume: of the taker's token, what is not filled and what the
\* maker can pay for.
Volume(l, o) ==
    Least({TakerAmount(o) - l.filled[o],
           (Spendable(l, Maker[o], MakerToken(o)) * TakerAmount(o)) \div MakerAmount(o)})

\* The maker's side of an amount of the taker's token.
InMakerToken(o, n) == (n * MakerAmount(o)) \div TakerAmount(o)
BaseOf(o, n) == IF o \in Asks THEN InMakerToken(o, n) ELSE n
QuoteOf(o, n) == IF o \in Asks THEN n ELSE InMakerToken(o, n)

\* t of account a changes by n.
Moved(bal, a, t, n) == [bal EXCEPT ![a][t] = @ + n]

\* A broken fill: the taker is not asked for what is missing.
FillableUnpaid(l, o, taker, n) == Least({n, Volume(l, o)})

\* fillOrder, with shouldThrowOnInsufficientBalanceOrAllowance = false: as much
\* of n as there is and as the taker can pay.
Fillable(l, o, taker, n) == Least({n, Volume(l, o), Spendable(l, taker, TakerToken(o))})

FillOrder(l, o, taker, n) ==
    LET paid == Fillable(l, o, taker, n)
        got == InMakerToken(o, paid)
        debited == Moved(l.bal, taker, TakerToken(o), -paid)
        credited == Moved(debited, Maker[o], TakerToken(o), paid)
        given == Moved(credited, Maker[o], MakerToken(o), -got)
    IN  [l EXCEPT !.bal = Moved(given, taker, MakerToken(o), got), !.filled[o] = @ + paid]

\* fillOrdersUpTo: the orders in turn, until n is paid.
FillOrdersUpTo(l, orders, taker, n) ==
    FoldLeft(LAMBDA acc, o :
                [ledger |-> FillOrder(acc.ledger, o, taker, acc.left),
                 left |-> acc.left - Fillable(acc.ledger, o, taker, acc.left)],
             [ledger |-> l, left |-> n], orders).ledger

\* cancelOrder: what is cancelled counts as filled.
CancelOrder(l, o, n) ==
    [l EXCEPT !.filled[o] = @ + Least({n, TakerAmount(o) - @})]

-----------------------------------------------------------------------------
(***************************************************************************)
(* Tokens: TokenHelper, WrappedETH and ERC20Contract.                      *)
(***************************************************************************)
Convert(l, a, from, to, n) ==
    [l EXCEPT !.bal = Moved(Moved(@, a, from, -n), a, to, n)]

WrapEth(l, a, n) == Convert(l, a, "eth", "quote", n)
UnwrapEth(l, a, n) == Convert(l, a, "quote", "eth", n)
ApproveGateway(l, a, t) == [l EXCEPT !.allowed[a] = @ \cup {t}]
RevokeGatewayApproval(l, a, t) == [l EXCEPT !.allowed[a] = @ \ {t}]
=============================================================================
