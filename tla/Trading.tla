------------------------------ MODULE Trading -------------------------------
(***************************************************************************)
(* What the user of the web application does with the wallet: submit and   *)
(* cancel orders, trade the orders of a price level, wrap and unwrap       *)
(* ether, approve and revoke tokens; and the list of the user's own        *)
(* orders, which the page polls.  Other traders use the command line.      *)
(*                                                                         *)
(* The plugin signs with the account it has when the user confirms, which  *)
(* may not be the one that the page took for the user's.                   *)
(***************************************************************************)
EXTENDS WalletSession, CommandLine, FiniteSetsExt

CONSTANTS
    Ops,            \* bounds the user's operations
    LevelOrders,    \* orders of the price level that can be selected, one side
    LevelPrice,     \* its price: quote per base token
    OwnOrders,      \* orders that the user may submit, one each
    WrapAmount      \* what is wrapped or unwrapped at once

ASSUME TradingAssumption ==
    /\ LevelOrders \subseteq Orders /\ IsFiniteSet(LevelOrders)
    /\ LevelOrders \subseteq Asks \/ LevelOrders \cap Asks = {}
    /\ LevelPrice \in Nat \ {0}
    /\ OwnOrders \subseteq Orders
    /\ \A o \in OwnOrders : Maker[o] \in PluginAccounts
    /\ WrapAmount \in Nat \ {0}

VARIABLES
    panel,      \* ui.orderbookWidget.selectedOrder: what the orders of the level
                \* offered when it was selected, empty if none is
    op,         \* op[x]: progress of an operation of the user
    mine        \* mine[o]: entry of an own order in the list of orders, or None

tradeVars == <<panel, op, mine>>
vars == <<ledger, events, walletVars, commandVars, tradeVars>>

Kinds == {"none", "trade", "submit", "cancel", "wrap", "unwrap", "approve", "revoke"}
Steps == {"done", "query", "signing", "placing", "publishing", "sent", "failed"}

\* what: the order or token of an operation; level: the panel of a trade;
\* amount: what to pay; chosen: the orders to fill.
NoOp == [kind |-> "none", st |-> "done", what |-> None, level |-> <<>>, chosen |-> <<>>,
         amount |-> 0, signer |-> None]
NewOp(kind, st, what) == [NoOp EXCEPT !.kind = kind, !.st = st, !.what = what]

TypeOK ==
    /\ SessionTypeOK
    /\ CommandTypeOK
    /\ DOMAIN panel \subseteq LevelOrders
    /\ \A x \in Ops :
         /\ op[x].kind \in Kinds /\ op[x].st \in Steps
         /\ op[x].what \in Orders \cup {"base", "quote", None}
         /\ DOMAIN op[x].level \subseteq LevelOrders
         /\ op[x].chosen \in Seq(LevelOrders)
         /\ op[x].amount \in Nat
         /\ op[x].signer \in PluginAccounts \cup {None}
    /\ mine \in [OwnOrders -> {None, "OPEN", "CLOSED"}]

Init ==
    /\ SessionInit
    /\ CommandInit
    /\ panel = <<>>
    /\ op = [x \in Ops |-> NoOp]
    /\ mine = [o \in OwnOrders |-> None]

\* The first free place for an operation.  One that has ended leaves its place.
Free(x) == op[x] = NoOp /\ x = CHOOSE y \in Ops : op[y] = NoOp

\* The user begins an operation.
Begin(x, new) ==
    /\ ~dead
    /\ Event
    /\ Free(x)
    /\ op' = [op EXCEPT ![x] = new]
    /\ UNCHANGED <<ledger, walletVars, commandVars, panel, mine>>

-----------------------------------------------------------------------------
(***************************************************************************)
(* Trading the orders of a price level.                                    *)
(***************************************************************************)

\* queryOrderAggregateByPrice, of the level.
Offered == {o \in LevelOrders \cap listed : Volume(ledger, o) > 0}

\* ORDER_SELECT: the panel keeps what the orders of the level offer now.
SelectOrder ==
    /\ ~dead
    /\ Event
    /\ Offered # {}
    /\ panel' = [o \in Offered |-> Volume(ledger, o)]
    /\ UNCHANGED <<ledger, walletVars, commandVars, op, mine>>

\* ORDER_DESELECT.
DeselectOrder ==
    /\ panel # <<>>
    /\ panel' = <<>>
    /\ UNCHANGED <<ledger, events, walletVars, commandVars, op, mine>>

ShownBase(level) == [o \in DOMAIN level |-> BaseOf(o, level[o])]

\* The balances of the tokens of the market and of ether that the page shows.
BalanceShown(t) == shown.bal[t]

\* The most that the form takes: the level, up to the balance of base tokens
\* that is shown.
MaxAmount(level) ==
    LET all == SumFunction(ShownBase(level))
    IN  IF BalanceShown("base") = None THEN all ELSE Least({BalanceShown("base"), all})

\* handelInputChange cuts what is typed to the most there is.
Typed(level) == 0 .. MaxAmount(level)

\* The amount of base tokens in the form: all of the level, which it shows at
\* first (handleOrderSelected), or what was typed.
FormAmounts(level) == {SumFunction(ShownBase(level))} \cup Typed(level)

\* handleTradeOrder: what to pay, in the taker's token.
PayAmount(level, n) == IF DOMAIN level \subseteq Asks THEN n * LevelPrice ELSE n

\* The orders that a sort may give: it does not look at what is equal.
SmallestFirst(level) ==
    {s \in SetToSeqs(DOMAIN level) : \A i, j \in DOMAIN s :
        i < j => ShownBase(level)[s[i]] <= ShownBase(level)[s[j]]}

\* What the first orders of s offer.
Paid(level, s, i) == SumFunctionOnSet([j \in DOMAIN s |-> level[s[j]]], 1 .. i)

\* A broken selection: it stops before the order that completes the amount.
ChosenShort(level, s, n) ==
    SubSeq(s, 1, Cardinality({i \in DOMAIN s : Paid(level, s, i) <= n}))

\* The smallest orders, as many as it takes to pay n.
Chosen(level, s, n) ==
    SubSeq(s, 1, Cardinality({i \in DOMAIN s : Paid(level, s, i - 1) < n}))

\* The client's queryOrderBatch.
AskForOrders(level, s, pay) ==
    [NewOp("trade", "query", None) EXCEPT
       !.level = level, !.amount = pay, !.chosen = Chosen(level, s, pay)]

\* fillOrderUpToEpic asks the service for the signed orders.  switchMap drops
\* the answer to an earlier question.  The panel stays as it is.
Trade(x) ==
    /\ ~dead
    /\ Event
    /\ panel # <<>>
    /\ Free(x)
    /\ \E n \in FormAmounts(panel), s \in SmallestFirst(panel) :
         op' = [y \in Ops |->
                 CASE y = x -> AskForOrders(panel, s, PayAmount(panel, n))
                   [] y # x /\ op[y].st = "query" -> NoOp
                   [] OTHER -> op[y]]
    /\ UNCHANGED <<ledger, walletVars, commandVars, panel, mine>>

\* buildFillUpToTx: the orders that are still in the book.
Found(chosen) ==
    FoldLeft(LAMBDA ret, o : IF o \in listed THEN Append(ret, o) ELSE ret, <<>>, chosen)

\* WsOrderBatchQueryHandler answers, and the page asks for a signature.
QueryOrderBatch(x) ==
    /\ ~dead
    /\ op[x].st = "query"
    /\ op' = [op EXCEPT ![x].st = "signing", ![x].chosen = Found(@)]
    /\ UNCHANGED <<ledger, events, walletVars, commandVars, panel, mine>>

-----------------------------------------------------------------------------
(***************************************************************************)
(* The user's own orders, and the wallet.                                  *)
(***************************************************************************)

\* handleSubmitOrder: the order names the account that is shown as its maker.
\* There is a form for new orders while no level is selected.
SubmitOrder(x, o) ==
    /\ panel = <<>>
    /\ app.addr = Maker[o]
    /\ mine[o] = None /\ \A y \in Ops : op[y].what # o
    /\ Begin(x, NewOp("submit", "signing", o))

\* The client's placeOrder is answered.  What the answer is, nobody looks at.
Placed(x) == op' = [op EXCEPT ![x].st = "publishing"]

\* WsOrderPlaceHandler.
Place(x) ==
    /\ op[x].st = "placing"
    /\ PlaceOrder(op[x].what, op[x].signer)
    /\ Placed(x)
    /\ UNCHANGED <<ledger, events, walletVars, wallet, cli, panel, mine>>

\* updateFtOrderBalance: the states it may find.  What the contract answers for
\* an order that another account has signed is not known.
StatesOf(o, signer) ==
    CASE Volume(ledger, o) = 0 -> {"CLOSED"}
      [] Volume(ledger, o) > 0 /\ signer = Maker[o] -> {"OPEN"}
      [] OTHER -> {"OPEN", "CLOSED"}

\* USER_ORDER_INSERT.
Inserted(o, st) == mine' = [mine EXCEPT ![o] = st]

\* userOrderEpic, after ORDER_PUBLISHED.
Publish(x) ==
    /\ ~dead
    /\ op[x].st = "publishing"
    /\ \E st \in StatesOf(op[x].what, op[x].signer) : Inserted(op[x].what, st)
    /\ op' = [op EXCEPT ![x] = NoOp]
    /\ UNCHANGED <<ledger, events, walletVars, commandVars, panel>>

\* getMyOrder: the orders of the account that is shown.
MyOrders == {o \in OwnOrders : mine[o] # None /\ app.addr = Maker[o]}

\* Those that a tick of updateUserOrderEpic asks for.
Polled == {o \in MyOrders : mine[o] = "OPEN"}

\* USER_ORDER_UPDATE.
Updated(o, st) == mine' = [mine EXCEPT ![o] = st]

\* A broken poll: it asks for the orders of the last operation only.
PollRecent(o) ==
    /\ ~dead
    /\ o \in Polled /\ \E x \in Ops : op[x].what = o
    /\ Volume(ledger, o) = 0
    /\ Updated(o, "CLOSED")
    /\ UNCHANGED <<ledger, events, walletVars, commandVars, panel, op>>

\* updateUserOrderEpic finds that nothing is left of an open order.
PollOrder(o) ==
    /\ ~dead
    /\ o \in Polled
    /\ Volume(ledger, o) = 0
    /\ Updated(o, "CLOSED")
    /\ UNCHANGED <<ledger, events, walletVars, commandVars, panel, op>>

\* cancelOrderEpic.
Cancel(x, o) == Begin(x, NewOp("cancel", "signing", o))

\* MyOrderPanel offers to cancel them, whatever their state.
CancelMine(x) == \E o \in MyOrders : Cancel(x, o)

\* The buttons of the balance panel open a dialog while the plugin is unlocked;
\* it bounds the amount by the balance that is shown.
HasShown(t, n) == app.access = "FULL" /\ BalanceShown(t) # None /\ BalanceShown(t) >= n
WrapDialog == HasShown("eth", WrapAmount)
UnwrapDialog == HasShown("quote", WrapAmount)

Wrap(x) == WrapDialog /\ Begin(x, NewOp("wrap", "signing", None))
Unwrap(x) == UnwrapDialog /\ Begin(x, NewOp("unwrap", "signing", None))

\* baseTokenSpin, quoteTokenSpin: a switch is hidden while a transaction about
\* its token is pending, whoever sent it, and as long as its allowance was never
\* read.
Spin(t) ==
    \/ t \notin shown.known
    \/ \E y \in Ops : /\ op[y].kind \in {"approve", "revoke"} /\ op[y].what = t
                     /\ op[y].st \in {"sent", "failed"}

\* getBaseTokenEnableStatus, getQuoteTokenEnableStatus: the allowances that
\* were read.
Enabled(t) == t \in shown.allowed

\* A switch of the balance panel stays usable while the plugin is locked.
Approve(x, t) ==
    ~Enabled(t) /\ ~Spin(t) /\ Begin(x, NewOp("approve", "signing", t))
Revoke(x, t) ==
    Enabled(t) /\ ~Spin(t) /\ Begin(x, NewOp("revoke", "signing", t))

WalletAction(x) ==
    \/ CancelMine(x) \/ Wrap(x) \/ Unwrap(x)
    \/ \E t \in {"base", "quote"} : Approve(x, t) \/ Revoke(x, t)

-----------------------------------------------------------------------------
(***************************************************************************)
(* Signing, and the chain.                                                 *)
(***************************************************************************)

\* The user confirms in the plugin.
Confirm(x, next) ==
    /\ op[x].st = "signing"
    /\ plugin.acct # None
    /\ op' = [op EXCEPT ![x].signer = plugin.acct, ![x].st = next]
    /\ UNCHANGED <<ledger, events, walletVars, commandVars, panel, mine>>

\* Dex.signOrder, with the plugin's account.
SignOrder(x) == op[x].kind = "submit" /\ Confirm(x, "placing")

\* The transaction is sent: TX_TXHASH, it is pending.
SendTransaction(x) == op[x].kind # "submit" /\ Confirm(x, "sent")

\* The user refuses, or the plugin is locked.
Withdraw(x) ==
    /\ op[x].st = "signing"
    /\ op' = [op EXCEPT ![x] = NoOp]
    /\ UNCHANGED <<ledger, events, plugin, app, shown, read, commandVars, panel, mine>>

\* submitOrderEpic has no catch: the epics end.
RefuseOrder(x) == op[x].kind = "submit" /\ Withdraw(x) /\ dead' = TRUE

\* fromTransactionEvent catches: USER_DENIED_TX_SIGNATURE, TX_ERROR.
RefuseTransaction(x) == op[x].kind # "submit" /\ Withdraw(x) /\ UNCHANGED dead

\* The ledger after a transaction; a transaction that is reverted leaves it.
Applied(t) ==
    CASE t.kind = "trade" -> FillOrdersUpTo(ledger, t.chosen, t.signer, t.amount)
      [] t.kind = "cancel" /\ t.signer = Maker[t.what] ->
            CancelOrder(ledger, t.what, TakerAmount(t.what))
      [] t.kind = "wrap" /\ ledger.bal[t.signer]["eth"] >= WrapAmount ->
            WrapEth(ledger, t.signer, WrapAmount)
      [] t.kind = "unwrap" /\ ledger.bal[t.signer]["quote"] >= WrapAmount ->
            UnwrapEth(ledger, t.signer, WrapAmount)
      [] t.kind = "approve" -> ApproveGateway(ledger, t.signer, t.what)
      [] t.kind = "revoke" -> RevokeGatewayApproval(ledger, t.signer, t.what)
      [] OTHER -> ledger

\* TX_RECEIPT: the transaction is not pending any more.
Received(x) == op' = [op EXCEPT ![x] = NoOp]

Mine(x) ==
    /\ op[x].st = "sent"
    /\ ledger' = Applied(op[x])
    /\ Received(x)
    /\ UNCHANGED <<events, walletVars, commandVars, panel, mine>>

\* The transaction fails: TX_ERROR.  No reducer handles it: what is pending stays
\* so, which shows in the switches only.
TransactionFails(x) ==
    /\ Event
    /\ op[x].st = "sent"
    /\ op' = [op EXCEPT ![x] = IF @.kind \in {"approve", "revoke"}
                                 THEN [@ EXCEPT !.st = "failed"] ELSE NoOp]
    /\ UNCHANGED <<ledger, walletVars, commandVars, panel, mine>>

-----------------------------------------------------------------------------
Wallet ==
    \/ \E a \in PluginAccounts \cup {None} : SwitchAccount(a)
    \/ \E n \in Networks : SwitchNetwork(n)
    \/ \E a \in PluginAccounts : Enable(a)
    \/ Disable \/ CheckEnabled
    \/ CheckNetwork \/ EpicsEnd \/ CheckStatus \/ NewBlock
    \/ \E q \in Reads : FinishRead(q) \/ \E t \in Tokens : ReadFails(q, t)

Command ==
    \/ \E o \in Orders : Delist(o)
    \/ \E a \in Imports : ImportWallet(a)
    \/ \E c \in Commands : Prepare(c)
    \/ Execute \/ Abandon

Next ==
    \/ Wallet /\ UNCHANGED <<commandVars, tradeVars>>
    \/ Command /\ UNCHANGED <<walletVars, tradeVars>>
    \/ SelectOrder \/ DeselectOrder
    \/ \E x \in Ops :
         \/ Trade(x) \/ QueryOrderBatch(x)
         \/ \E o \in OwnOrders : SubmitOrder(x, o)
         \/ Place(x) \/ Publish(x) \/ WalletAction(x)
         \/ SignOrder(x) \/ SendTransaction(x) \/ RefuseOrder(x) \/ RefuseTransaction(x)
         \/ Mine(x) \/ TransactionFails(x)
    \/ \E o \in OwnOrders : PollOrder(o)

Spec == Init /\ [][Next]_vars

\* The polls go on, blocks are mined, and calls return.
Fairness ==
    /\ WF_vars(CheckNetwork /\ UNCHANGED <<commandVars, tradeVars>>)
    /\ WF_vars(CheckEnabled /\ UNCHANGED <<commandVars, tradeVars>>)
    /\ WF_vars(CheckStatus /\ UNCHANGED <<commandVars, tradeVars>>)
    /\ WF_vars(NewBlock /\ UNCHANGED <<commandVars, tradeVars>>)
    /\ \A q \in Reads : WF_vars(FinishRead(q) /\ UNCHANGED <<commandVars, tradeVars>>)
    /\ \A o \in OwnOrders : WF_vars(PollOrder(o))

FairSpec == Spec /\ Fairness

-----------------------------------------------------------------------------
\* A trade pays no more than was asked for; and if none of the orders of its
\* panel has changed or been delisted by the time it is mined, it pays all of
\* it, as far as the level goes and the account that signed can pay: the orders
\* that were chosen and found again suffice.  The orders of the level are of
\* different makers, none of them the user: the balance of a maker backs all
\* orders of that maker.
AskedIsTraded ==
    [][\A x \in Ops :
        Mine(x) /\ op[x].kind = "trade" =>
          LET t == op[x]
              token == IF DOMAIN t.level \subseteq Asks THEN "quote" ELSE "base"
              paid == ledger.bal[t.signer][token] - ledger'.bal[t.signer][token]
          IN  /\ paid <= t.amount
              /\ (\A o \in DOMAIN t.level : o \in listed /\ Volume(ledger, o) = t.level[o]) =>
                   paid = Least({t.amount, SumFunction(t.level),
                                 Spendable(ledger, t.signer, token)})
      ]_vars

\* The page comes to know of each of the user's orders of which nothing is left,
\* whoever filled or cancelled it, unless the plugin shows another account.
EventuallyKnowsClosed ==
    <>[](dead \/ \A o \in MyOrders : mine[o] = "OPEN" => Volume(ledger, o) > 0)
=============================================================================
