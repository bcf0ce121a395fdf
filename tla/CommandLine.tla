---------------------------- MODULE CommandLine -----------------------------
(***************************************************************************)
(* The commands of nexex-cli that change something, and what they need of  *)
(* the order book service.  A command reads the chain or the service,      *)
(* checks what it read, asks for the passphrase of the wallet, and then    *)
(* sends what it computed before: by then anything may have changed.       *)
(*                                                                         *)
(* The service is as OrderLifecycle promises: it records an order it has   *)
(* accepted for good, and delists it when too little can be traded.        *)
(***************************************************************************)
EXTENDS Exchange

CONSTANTS
    Cli,            \* account of wallet.json at first
    Imports,        \* accounts that may be imported into it
    Commands,       \* commands that may be given
    NoCommand,
    FirstListed,    \* orders the service lists at first
    MinBase,        \* minOrderBaseVolume, minOrderQuoteVolume
    MinQuote

Verbs == {"trade", "cancel", "buy", "sell", "approve", "revoke", "eth2weth", "weth2eth"}

\* A command about an order, a token or an amount; a trade has an amount of
\* the base token.
ASSUME CommandAssumption ==
    /\ Cli \in Accounts
    /\ Imports \subseteq Accounts
    /\ \A c \in Commands :
         /\ c.verb \in Verbs
         /\ c.verb \in {"trade", "cancel", "buy", "sell"} => c.order \in Orders
         /\ c.verb \in {"approve", "revoke"} => c.token \in {"base", "quote"}
         /\ c.verb \in {"trade", "eth2weth", "weth2eth"} => c.amount \in Nat \ {0}
    /\ NoCommand \notin Commands
    /\ FirstListed \subseteq Orders
    /\ {MinBase, MinQuote} \subseteq Nat

VARIABLES
    wallet,     \* account of wallet.json
    cli,        \* the command that waits for the passphrase, and its fill amount
    listed,     \* orders in the books of the service
    stored      \* orders it has records of

commandVars == <<wallet, cli, listed, stored>>

CommandTypeOK ==
    /\ wallet \in Imports \cup {Cli}
    /\ cli \in [cmd : Commands \cup {NoCommand}, fill : Nat]
    /\ listed \subseteq stored
    /\ stored \subseteq Orders

Idle == [cmd |-> NoCommand, fill |-> 0]

CommandInit ==
    /\ wallet = Cli
    /\ cli = Idle
    /\ listed = FirstListed
    /\ stored = FirstListed

-----------------------------------------------------------------------------
(***************************************************************************)
(* The service.                                                            *)
(***************************************************************************)
EnoughVolume(o) ==
    /\ BaseOf(o, Volume(ledger, o)) >= MinBase
    /\ QuoteOf(o, Volume(ledger, o)) >= MinQuote

\* validateOrder: the maker has signed, and enough can be traded.
ValidOrder(o, signer) == signer = Maker[o] /\ EnoughVolume(o)

\* NEW_ORDER_ONBOARD, of an order the service has not seen.
Onboard(o) == listed' = listed \cup {o} /\ stored' = stored \cup {o}

\* DexOrderPipe and the handler: an order that is not valid is refused.
PlaceOrder(o, signer) ==
    IF ValidOrder(o, signer) THEN Onboard(o) ELSE UNCHANGED <<listed, stored>>

\* queryOrder finds a record, listed or not.
Recorded(o) == o \in stored

\* The worker's condition: an order of exactly a minimum is accepted, and is
\* delisted at its next check.
Delistable(o) ==
    \/ BaseOf(o, Volume(ledger, o)) <= MinBase
    \/ QuoteOf(o, Volume(ledger, o)) <= MinQuote

\* The orders that SortedArray.remove may take for o: it compares prices.
Removable(o) ==
    {p \in listed : /\ p \in Asks <=> o \in Asks
                    /\ QuoteAmount[p] * BaseAmount[o] = QuoteAmount[o] * BaseAmount[p]}

\* The worker finds o unfunded, and OrderbookService.delistOrder removes an order.
Delist(o) ==
    /\ o \in listed
    /\ Delistable(o)
    /\ \E p \in Removable(o) : listed' = listed \ {p}
    /\ UNCHANGED <<ledger, events, wallet, cli, stored>>

-----------------------------------------------------------------------------
(***************************************************************************)
(* The commands.                                                           *)
(***************************************************************************)

\* A broken fill amount: rounded down.
FillAmountDown(c) ==
    IF c.order \in Asks
      THEN (c.amount * TakerAmount(c.order)) \div MakerAmount(c.order)
      ELSE c.amount

\* market:trade: an amount of the base token in the taker's token.
FillAmount(c) ==
    IF c.order \in Asks
      THEN (c.amount * TakerAmount(c.order)) \div MakerAmount(c.order) + 1
      ELSE c.amount

\* What the commands check before they ask for the passphrase.
CanTrade(c) ==
    /\ Recorded(c.order)
    /\ FillAmount(c) <= ledger.bal[wallet][TakerToken(c.order)]

CanCancel(c) == Recorded(c.order) /\ Maker[c.order] = wallet

\* A new order: its salt makes it different from any other.
New(c) == ~Recorded(c.order) /\ Maker[c.order] = wallet

CanBuy(c) ==
    New(c) /\ c.order \notin Asks /\ ledger.bal[wallet]["quote"] > QuoteAmount[c.order]

CanSell(c) ==
    New(c) /\ c.order \in Asks /\ ledger.bal[wallet]["base"] > BaseAmount[c.order]

CanApprove(c) == c.token \notin ledger.allowed[wallet]
CanRevoke(c) == c.token \in ledger.allowed[wallet]
CanWrap(c) == ledger.bal[wallet]["eth"] >= c.amount
CanUnwrap(c) == ledger.bal[wallet]["quote"] >= c.amount

Checks(c) ==
    CASE c.verb = "trade" -> CanTrade(c)
      [] c.verb = "cancel" -> CanCancel(c)
      [] c.verb = "buy" -> CanBuy(c)
      [] c.verb = "sell" -> CanSell(c)
      [] c.verb = "approve" -> CanApprove(c)
      [] c.verb = "revoke" -> CanRevoke(c)
      [] c.verb = "eth2weth" -> CanWrap(c)
      [] c.verb = "weth2eth" -> CanUnwrap(c)

\* wallet:import writes another account.
ImportWallet(a) ==
    /\ Event
    /\ a # wallet
    /\ wallet' = a
    /\ UNCHANGED <<ledger, cli, listed, stored>>

\* A command that fails its checks exits, and changes nothing.
Prepare(c) ==
    /\ cli = Idle
    /\ Event
    /\ Checks(c)
    /\ cli' = [cmd |-> c, fill |-> IF c.verb = "trade" THEN FillAmount(c) ELSE 0]
    /\ UNCHANGED <<ledger, wallet, listed, stored>>

\* The prompt for the passphrase is cancelled.
Abandon ==
    /\ cli # Idle
    /\ cli' = Idle
    /\ UNCHANGED <<ledger, events, wallet, listed, stored>>

\* The transactions of the commands, mined: the ledger that they leave.  They are
\* signed with the account that wallet.json has by then.
TradeTx(c) == FillOrder(ledger, c.order, wallet, cli.fill)
CancelTx(c) == CancelOrder(ledger, c.order, TakerAmount(c.order))
ApproveTx(c) == ApproveGateway(ledger, wallet, c.token)
RevokeTx(c) == RevokeGatewayApproval(ledger, wallet, c.token)
WrapTx(c) == WrapEth(ledger, wallet, c.amount)
UnwrapTx(c) == UnwrapEth(ledger, wallet, c.amount)

\* A withdrawal or a deposit of more than the account has is reverted, and so is
\* the cancellation of another maker's order.
Executed(c) ==
    CASE c.verb = "trade" -> TradeTx(c)
      [] c.verb = "cancel" /\ wallet = Maker[c.order] -> CancelTx(c)
      [] c.verb = "approve" -> ApproveTx(c)
      [] c.verb = "revoke" -> RevokeTx(c)
      [] c.verb = "eth2weth" /\ CanWrap(c) -> WrapTx(c)
      [] c.verb = "weth2eth" /\ CanUnwrap(c) -> UnwrapTx(c)
      [] OTHER -> ledger

\* An order is signed and sent to the service.
BuyOrSell(c) == PlaceOrder(c.order, wallet)

\* The passphrase is given, and wallet.json is read again: the order is placed,
\* or the transaction is mined.
Execute ==
    /\ cli # Idle
    /\ cli' = Idle
    /\ ledger' = Executed(cli.cmd)
    /\ IF cli.cmd.verb \in {"buy", "sell"}
         THEN BuyOrSell(cli.cmd)
         ELSE UNCHANGED <<listed, stored>>
    /\ UNCHANGED <<events, wallet>>

-----------------------------------------------------------------------------
\* Whoever trades through the command line gets (from a bid: gives) no less of the
\* base token than was asked for, although the contract counts in the taker's
\* token and rounds down, as long as the order still offers that much, the
\* account that signs can pay, and it is not the maker's own.
RequestCovered ==
    [][Execute /\ cli.cmd.verb = "trade" =>
         LET o == cli.cmd.order
             change == ledger'.bal[wallet]["base"] - ledger.bal[wallet]["base"]
         IN  /\ wallet # Maker[o]
             /\ BaseOf(o, Volume(ledger, o)) >= cli.cmd.amount
             /\ Spendable(ledger, wallet, TakerToken(o)) >= cli.fill
             => (IF o \in Asks THEN change ELSE -change) >= cli.cmd.amount
      ]_<<cli, ledger, wallet>>
=============================================================================
