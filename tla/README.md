# Verification of the nexex order book

nexex-mono is an exchange for ERC20 tokens. Orders are signed off chain and
filled by a contract on chain. An order book service keeps the open orders in
MongoDB and in memory, one or several nodes of it share the database, and a web
client shows the book of the selected market and the trades that the contract
logged. The same client, and a command line, trade through the contract. The TLA+
modules in this directory model the parts of that program that keep state under
concurrency, TLC checks them on small instances, and TLAPS proves the main safety
properties for every instance.

Paths below are relative to `src/packages/`.

## Contents

| file | what it is |
|---|---|
| `OrderVolume.tla` | amounts of an order, admission and delisting tests |
| `OrderStore.tla` | the `orders` collection and the operations of `OrderService` |
| `OrderbookCluster.tla` | nodes, handlers, event queues, task loop, start-up, crashes |
| `OrderbookCluster_proofs.tla` | theorems about `OrderbookCluster` |
| `OrderLifecycle.tla` | the abstract promise of the service about the life of an order |
| `OrderLifecycle_proofs.tla` | `OrderbookCluster` implements it |
| `ListedOrders_proofs.tla` | theorems about `OrderbookCluster`: the books and the database |
| `OrderAggregates.tla` | grouping of a book into price levels |
| `MarketFeed.tla` | WebSocket gateway, socket, and the order book state of the web client |
| `MarketFeed_proofs.tla` | theorems about `MarketFeed` |
| `FillSync.tla` | the trade history of the web client |
| `FillSync_proofs.tla` | theorems about `FillSync` |
| `TokenRegistry.tla` | the registry of tokens and the calls that edit it |
| `TokenRegistry_proofs.tla` | lemmas about `TokenRegistry` |
| `MarketList.tla` | the list of markets, and the local cache that keeps it |
| `PageStart.tla` | how a page comes to show a market and its configuration |
| `PageStart_proofs.tla` | theorems about `PageStart` |
| `Exchange.tla` | the contract, the tokens, and the API calls that trade in them |
| `WalletSession.tla` | the browser plugin, and the balances and allowances that a page shows |
| `CommandLine.tla` | the commands of `nexex-cli`, and what they need of the service |
| `Trading.tla` | what the user of a page does, up to the transaction that is mined |
| `Trading_proofs.tla` | theorems about `Trading` |
| `MC*.tla`, `MC*.cfg` | the instances that TLC checks |
| `PROJECT.json` | components, runs, mutants, source lines, findings, hazards, theorems |

## Inventory of the system

### Order book service (`orderbook/src`)

* **Order book core** (`orderbook/orderbook.service.ts`,
  `orderbook/orderbook.handler.ts`, `order/order.handler.ts`,
  `task/order.task.ts`). *State*: per market two sorted arrays of order objects,
  `ready`, and an event bus (`events$`, a `ReplaySubject`). *Operations*:
  `validateOrder`, `addOrder`, `updateBalance`, `delistOrder`, the queries, one
  event handler per event type, and a loop that checks each listed order on the
  contract every 30 s. *Correct if*: no open order is lost from the book, no
  unfunded one stays or returns, whatever is listed is persisted, the listed
  amounts follow the chain. *Hard*: each handler awaits the database, the
  contract or `whenReady` between its steps, so handlers of one order interleave.
* **Order store** (`order/order.service.ts`). *State*: the collection `orders`,
  shared by all nodes. *Operations*: `insertOrder` (`$setOnInsert`),
  `updateVolume` (`$set`, no upsert), `orderExists`, `loadOrders`. *Correct if*:
  a record that was closed is never opened again.
* **Peer transport** (`zeromq/zeromq.gateway.ts`, `zeromq/zeromq.task.gateway.ts`).
  PUB/SUB of `PEER_EVENT`s between nodes, PUSH/PULL of balance checks to
  workers. *Correct if*: undisturbed nodes agree at rest. *Hard*: PUB/SUB loses
  events while a peer is not connected, and nothing repairs that.
* **IPFS** (`ipfs/`): orders of other clusters come in as submissions.
* **WebSocket gateway** (`ws/`): a room per market, events of the market to its
  room, answers to requests. *Correct if*: a client is in the room of the market
  it selected, through reconnections.
* **REST** (`rest/`): `placeLimitOrder` validates and answers, the rest reads.
* **Local cache** (`utils/LocalCache.ts`, `utils/decorators.ts`). *State*: values
  with expiry timers and loaders. It keeps the list of markets. *Correct if*: the
  list is served without a gap and becomes that of the registry. *Hard*: loads of
  callers and of the timer end in any order.
* **Configuration, bootstrap**: the roles of a node. `config.yaml` is an
  all-in-one node; `config-node0.yaml` (a server, no tasks) and
  `config-worker.yaml` (task node and worker) subscribe to each other.

### Libraries

* **Contract API** (`api/src`): wrappers of contract calls, amounts, fee rates,
  the token registry. `availableVolume` is what the order book core relies on.
  *Correct if*: what a call asserts before it sends is what the contract requires.
  *Hard*: between the assertion and the transaction others transact.
* **Types and templates** (`types/src`): events and records.
* **Client library** (`orderbook-client/src`): `subscribe` and requests with ids
  over one socket; subscribes again after a reconnection.

### Web client (`web/src/redux`)

* **Order book state** (`epics/orderbook.epic.ts`, `reducers/orderbook.reducer.ts`):
  periodic snapshots merged with the events of the room. *Correct if*: what is
  shown is in the server's book or news of it is on its way. *Hard*: answers to
  requests made before a switch of the market, lost connections, rounding.
* **Fill history** (`epics/exchange.epic.ts`, `reducers/exchange.reducer.ts`,
  `storage.ts`): a batched backward scan of contract logs, repeated every 15 s.
  *Correct if*: `lastBlock` never claims blocks that were not merged, and the
  loop of the selected market never dies. *Hard*: switches of the market,
  failures and reloads in the middle of a scan.
* **Session and selection** (`epics/global.epic.ts`, `reducers/global.reducer.ts`):
  list of markets, URL, selected market, stored state of an earlier visit. *Correct
  if*: the URL names the market that is shown. *Hard*: the list, the location and
  the stored state come in any order.
* **Transactions, wallet, user** (`epics/ethereum.epic.ts`, `wallet.epic.ts`,
  `user.epic.ts`). *State*: the plugin's account and network as last polled,
  balances, allowances, pending transactions, the user's orders. *Correct if*: all
  of it follows the plugin and the chain. *Hard*: reads overlap, answers belong to
  an account that was switched away.
* **Forms** (`components/`, `reducers/ui`): bounds of amounts, buttons that spin.

### Command line (`cli/src`)

Commands that read the chain and the service, check, ask for the passphrase of
`wallet.json`, and then transact. *Correct if*: a trade gets what was asked for.
*Hard*: what was checked is stale after the prompt.

### How they interact

```
 REST / WS / IPFS --validateOrder--> event bus --handlers--> book (memory)
                                       |  ^                     |
             DOWNSTREAM_EVENT, answers |  | task loop     OrderService
                                       v  |                     v
 web client <-- WS gateway (rooms)   ZeroMQ <--> peers      MongoDB (shared)
   |    ^                                        |
   |    +-- placeOrder, orders of a level -- command line, other pages
   +--- getLogs, trades, balances ---> Ethereum node <--- availableVolume (task handler)
        (signed by the plugin)               ^
                                             +--- trades of the command line
```

`PROJECT.json` lists each component with what is modelled of it, and every
hazard with its line and the properties that would catch it.

## The modules and the code

### OrderVolume, OrderStore

`OrderVolume` computes what `validateOrder` and `OrderTaskHandler.handle` derive
from `availableVolume`: the maker volume, rounded down, the amounts of the base
and the quote token, and the two tests against the configured minimum sizes. The
tests differ: admission refuses *less than* the minimum, delisting removes
*up to* the minimum. `OrderStore` has one operator per operation of
`OrderService` on the records, which MongoDB performs atomically.

### OrderbookCluster

| variable | code |
|---|---|
| `phase[n]` | start-up of node n: `init`, `loadOrderbook`, `ready` |
| `sub[n]` | the publishers that n's SUB socket is connected to |
| `book[n]`, `remaining[n]` | the objects in the sorted arrays, and their amounts |
| `queue[n][p]` | events of p (or of n itself) that n has yet to handle |
| `onboard[r]`, `payload[r]` | a submission and the object `validateOrder` made of it |
| `task[t]` | a balance check in flight |
| `store`, `available` | the database and the contract |

An action is one stretch of code between two awaits, which JavaScript runs
without interruption. `ObNewOrderHandler.handle` is `CheckExists`, `AddOrder`,
`Insert`, `Announce` (the database's own step, `Insert`, is separate from the
handler's next stretch); `OrderTaskHandler.handle` is `TaskRead`, `TaskStore` and
`EmitDelist` or `EmitBalance`; `init` is `Boot`, `LoadBids`, `LoadAsks`, `Ready`.
Crashes, broken connections, failures and moves of the chain are actions, each
limited by a budget.

Order objects are named by what created them (a submission, or a load of an order
from the database), because the code compares orders by hash in one place and by
price in another: `ListedAs` finds by hash, `Removable` is what
`SortedArray.remove` finds by its price comparator.

Where the model departs from the code:

* *Time* is not modelled: 30 s may pass between any two steps. With
  `PromptWrites` an insert is never so slow that the task loop checks the order
  before its insert is done. Without that assumption a check can find no record
  to close, and the insert then opens the record of a delisted order.
* `validateOrder` awaits the contract's answer and the decimals of two tokens.
  What it returns depends on the chain at the moment of the answer, and nobody
  else sees the order before the event, so it is one action; the time until the
  event is part of the time until `CheckExists`.
* A node does not subscribe to itself (`n \notin Subscriptions[n]`), as in
  `config-node0.yaml` and `config-worker.yaml`. `config-task.yaml` lists its own
  address; that deployment is excluded.
* A database operation that is in flight when its node crashes either has
  happened before the crash or never happens. It does not happen afterwards.
* Handlers subscribe to the bus before the first event, as the constructors of
  the modules do.
* IPFS is an entry of submissions; that the publishing side loses messages makes
  no difference to a single cluster.

### OrderLifecycle

The promise of the service without queues, checks or phases: a record is created
once, closed once, and an order is shown only while it is recorded or about to be,
and hidden only when it is closed (or its insert failed, or the node stops).
`OrderbookCluster` implements it under the mapping at the end of that module:
`record` is the state in the store, `shown` what each node lists, `unsaved` the
submissions between the existence check and the insert, `failed` those whose
insert failed. `ImplementsLifecycle` needs distinct prices and `PromptWrites`.

### OrderAggregates, MarketFeed

`OrderAggregates` groups the orders of a side into price levels the way
`topBidOrders`, `topAskOrders` and `queryOrderAggregateByPrice` do, with prices
in fine units, so that both kinds of rounding and the number of decimals in a
written price are what the code computes. `MarketFeed` puts a server, a socket
and one web client around it. Server actions change a book and emit the event in
the order the handlers do; `OnSubscribe`, `AnswerTopOrders` and `AnswerLevel` are
the gateway; `SelectMarket` is all that the epics do at `MARKET_SELECTED`;
`NewOrderArrival`, `UpdateObOrder`, `DelistObOrder` and `MergeAnswer` are an epic
and its reducer; `Disconnect` and `Reconnect` are the socket.

* `status` is how far the news of an order are, `book` what the sorted arrays hold.
  They differ after `DelistOrder`: as in the code it removes *any* order of the same
  side and price (`Removable`), and tells the clients of the order it was asked to remove.
* A check that is still under way when its order leaves the book may publish what it found
  later (`Checked`). After the delisting of an order it may do so only while the order is
  still in the book; later news of an order that is gone change nothing on the client.
* The amounts of an order are one volume. Quote amounts, and the decimals they
  are shown with, are left out.
* The server is ready and its books are loaded; there is one client. A reload of
  the page is a new client.
* Each message of the socket is a task of its own, so the continuations of
  resolved promises run before the next message, as they do with the WebSocket
  transport. With long polling several messages may be handled at once.
* `mergeSorted` is a library: as its use with `uniqWith` expects, of two equal
  elements it puts that of the first array first.
* No update or delisting of an order precedes its announcement (`PromptWrites`).
* `round` and `mixed` are auxiliary: they record which selection a request was
  made for, and whether an answer of an earlier one was merged.
* If a new order arrives for a side without any level, `newOrderArrivalEpic`
  reads `price` of `undefined`, and all epics of the page end. That is
  `alive = FALSE`. The properties exclude it, and nothing recovers from it
  before the page is loaded again.

### FillSync

The scan (`requestSyncEventsEpic`, `syncEventsEpic`), its rounds
(`startNewRoundSyncEpic`), the reducer and what `storageMiddleware` saves. A block
stands for the fills in it. `last` is `lastBlock`: 0 without an entry, 1 when
fills were merged but no scan has finished.

* Two identical scans in flight are one: they would ask and merge the same.
* After a load of the page the provider first reports the newest block, and block
  numbers never go back. `blocknumberEpic` listens once a market was selected.
* The saved store is loaded before the first `MARKET_SELECTED`; a save may or may
  not be done before the page goes.
* The chain is longer than `backTrackBlocks`.
* A rejected `getLogs` ends all epics (`alive = FALSE`); the next load of the page
  starts from what was saved.

### TokenRegistry, MarketList, PageStart

A call that edits the registry is `SendEdit` (its reads, its assertions, the
transaction) and `MineEdit` (the contract applies or reverts it). `MarketList` is
`getMarkets`, one market at a time, around the entry that `@localCache` keeps of
it: `Put` arms the timer, `Expire` starts the loader, `FailLoad` deletes the entry
after a failure of the loader. `PageStart` puts one page around it: the request for
the list, `tradeUrlChangeEpic` (`Follow`), the selection with the request for a
configuration and the `CLEAR` (`Select`), the menu, visited locations, the load of
the stored state, and a broken connection.

* All markets have one quote token, and a name or a symbol is one value. The
  decimals that `TokenHelper` keeps for the life of the process (18 if they cannot
  be read) are left out.
* What the contract requires of an edit is an assumption, taken from what the
  calls assert and pass.
* `checkMetamaskStatus` has run: the model begins when the plugin's access is known.
* `WsMarketConfigHandler` answers with the type of another request; the client
  finds the request by its id, so this makes no difference.

### Exchange, WalletSession, CommandLine, Trading

`Exchange` is the ledger: balances, the tokens each account allows the gateway to
move, and what is filled of each order, with `fillOrder`, `fillOrdersUpTo`,
`cancelOrder` and the token calls as operators on it. `WalletSession` is what a page
knows of the plugin (`app`) against the plugin itself (`plugin`), and the balances
it shows (`shown`) against those it is reading (`read`). `CommandLine` has the
service as `OrderLifecycle` promises it, and each command as `Prepare` (read, check,
prompt) and `Execute` (read `wallet.json` again, send, mined). `Trading` composes
them and adds the operations of a page (`op`): a trade of a level is `SelectOrder`,
`Trade`, `QueryOrderBatch`, `SendTransaction`, `Mine`; a new order is `SubmitOrder`,
`SignOrder`, `Place`, `Publish`, and `PollOrder` afterwards.

* `Delist` takes an order of the same side and price out of the book (`Removable`), as the
  service does. In the run `trading` the asks `s1` and `s3` have one price.
* A transaction is mined in one step after it was sent; what it does depends on
  the ledger at that moment. Fees, gas, expiry of orders, the forms of prices and
  cancellation by amount are left out, and so are batch calls, which nothing uses.
* What the plugin, the contract and the tokens do is modelled from their use.
* `submitOrderEpic` does not look at the answer of `placeOrder`, and has no `catch`:
  a refused signature ends every epic of the page (`dead`).
* `userOrderEpic` uses the market that is selected when the order is published;
  the model has one market.
* What the contract answers about an order that another account signed than the
  one it names is not known from the source: `StatesOf` leaves it open.
* Amounts of a new order are not rounded, as in `NewOrderPanel`. The bound of a
  trade is the balance of *base* tokens for buyers too, as in `TradeOrderPanel`.
* `SmallestFirst` is any order of the panel by amount: the comparator of
  `fillOrderUpToEpic` does not look at orders of equal amounts.
* The list of the user's orders is cut at 200 in the reducer; it never gets there.

## Runs

| run | question | instance | distinct states |
|---|---|---|---|
| `all_in_one` | does one node lose an open order, or keep or revive an unfunded one? | 2 orders, 3 submissions (two of one order), 2 checks at once; 1 restart, 1 failure, 1 move | 575 000 |
| `two_nodes` | is what a peer lists persisted, do undisturbed nodes agree, does the cluster implement `OrderLifecycle`? | server and task node, 1 order that reaches both; 1 restart, 1 broken connection, 1 failure, 1 move | 427 000 |
| `worker` | the same with a worker that compares with a copy; do books become accurate? | 2 overlapping checks, 2 moves | 5 500 |
| `one_order` | liveness of one node | 1 order submitted twice, 2 checks; 1 restart, 1 failure, 1 move | 104 000 |
| `fill_sync` | is the history complete, does the loop go on? | 2 markets, 3 selections, 1 reload, 1 failure, 2 new blocks; a full scan has 2 batches | 390 000 |
| `market_feed` | does the client follow the server? | 2 markets, 3 orders, 2 levels, 2 selections, 1 broken connection, 1 move | 735 000 |
| `page_start` | does a page show the market of its URL, with its configuration, and does the list become fresh? | 2 markets, 2 edits of one token, 2 loads at once; 1 visit, 1 broken connection, 1 failure, a stored state | 375 000 |
| `trading` | do trades pay what was asked for, does the page follow the plugin, the chain and its orders? | 2 accounts in the plugin, 2 that trade by commands, a level of 2 orders, 1 own order, 2 operations and 2 reads at once; 3 events | 158 000 |
| `same_price`, `failed_insert`, `resubmit`, `rounding` | the findings below | the smallest that shows each | |

**Why these bounds.** Two submissions of an order are needed for the race of the
existence check, and two checks in flight for an older volume to be written
last; a third adds no new pair of steps. One crash, one failure and one broken
connection each can hit every step. The second order of `all_in_one` is a bid
whose maker volume rounds to 0 while volume is left. `MinBase` of `two_nodes` is
such that a volume of exactly the minimum occurs. `two_nodes` has no second
order: orders interact only through equal prices (`same_price`). In
`market_feed` the prices are 0.92 and 0.98 (the second rounds up to a level that is
written without decimals, so both round to it in a level query) and 1.04. In
`fill_sync` the fills lie on both sides of each batch's edge.
`MaxPending` and `MaxInFlight` limit how many events wait when a *new* check or
snapshot starts; they never stop a handler.

In `page_start` both edits are of the second market, so that a list read in between
mixes names; the visited location is the name that this market had at first. In
`trading` the two orders of the level have different prices, one cheaper than the
price of the level, and amounts whose division leaves a rest; the chain moves by
commands of the two other accounts. `MaxEvents` counts everything that users,
other traders and faults begin: three suffice for a trade, a change of the
account or of an order beneath it, and a command in between. `MinQuote` is such
that an order of exactly the minimum is accepted and then delisted.

Deadlock is not checked: with the budgets used up, each system may rest.

**Symmetry.** `all_in_one` permutes the two submissions of the same order and the
checks. It checks invariants and properties of single steps only; the liveness
runs use no symmetry.

### Properties worth explaining

* `BookBackedByStore`, `AnnouncedIsStored`: whatever a node lists is in the
  database, or its own handler has yet to insert it (or failed to).
* `OpenOrdersListed`, `UnfundedOnItsWayOut`: on a single node the book and the
  database describe the same set of orders, up to events on their way. They
  cover `init` racing with handlers that waited for `whenReady`.
* `UnfundedIsFinal`, `OnlyUnfundedLeave`: a closed record stays closed, and only
  an order found unfunded leaves a book.
* `AgreeAtRest`: without disturbance, nodes at rest list what the database has
  open. It is not claimed after a lost event, which nothing repairs, nor where the
  checks of an order run on another node than the one that took it and there is a
  third, or where that node has its checks run by a peer: news of one order then
  comes over the connections of different publishers, a node may get the delisting
  before the announcement, and lists the closed order from then on. TLC finds both.
* `EventuallyAccurate`, `SuccessIsKept`, `EventuallySynced`,
  `EventuallyShowsTopOrders`: liveness.
* `RoomFollowsSelection`, `ShownIsListed`: the client's room and what it shows.
  `ShownIsListed` needs distinct prices, as `market_feed` has them: if two orders of a side have
  one price, TLC finds that the delisting of one removes the other, which the client goes
  on showing. `TypeOK`, `RoomFollowsSelection` and `EventuallyShowsTopOrders` hold there too.
* `ImplementsLifecycle`: the refinement described above.
* `RevertedWasOvertaken`: the assertions of the registry calls foresee the contract.
  Its exceptions are cases that the code lets through.
* `SelectedByUrl`, `ConfigOnItsWay`: what is shown is what the URL names, and the order
  form gets its configuration. Both exclude a stored state that is read after the list
  has arrived; `ConfigOnItsWay` also a selection that finds its configuration and
  clears it.
* `ServedWhileRefreshing`, `EventuallyFresh`: the promise of the comment in
  `LocalCache.ts`, and that no load that is still in flight makes the list old for ever.
* `AskedIsTraded`: a trade pays no more than was asked for, and all of it if the level
  has not changed: the orders chosen from the panel, found again in the book and
  filled in turn by the contract suffice, in spite of their different prices.
* `RequestCovered`: the `+ 1` of `market:trade` makes up for two roundings.
* `EventuallyFollowsPlugin`, `EventuallyShowsBalances`, `EventuallyKnowsClosed`: the polls
  and the overlapping reads repair each other, up to an error that ends all epics.
* `RecentFillsShown`, `SyncGoesOn`: `lastBlock` never claims what was not merged,
  in the store and in the saved one; a loop for the selected market exists.

### Fairness

* *Weak fairness of handlers*: a promise that is resolved has its continuation
  run, and databases, contracts and `getLogs` answer or fail.
* *Weak fairness of `Starting`*: a node that stopped is started again, by whoever
  operates it. Without it the books of a stopped node owe nothing.
* *Weak fairness of `Connect`, `Reconnect`*: zeromq and socket.io retry.
* *Strong fairness of `TaskStart`* per listed object: the loop comes back to each
  listed order every 15 s for ever. Weak fairness would say less than the code does,
  because the model has few slots in `Tasks`, and a slot may be taken whenever
  the loop looks; the code has no such limit.
* *Weak fairness of `RequestSnapshot`, `NextRound`, `Expire`, and of the polls*
  (`CheckNetwork`, `CheckEnabled`, `CheckStatus`, `PollOrder`): timers fire. A poll that finds
  nothing new changes nothing, so only those that do are actions.
* *Weak fairness of `NewBlock`*: blocks are mined for ever.
* *Weak fairness of the messages and loads of `PageStart`, and of `FinishRead`*: calls return.
  A call that fails, and a connection that breaks, are actions without fairness.
* No fairness for clients, commands, the plugin's owner, users, makers, miners, or the environment's faults.

## Findings

1. **`same_price`** (bug, `orderbook.service.ts:141`). `delistOrder` finds the order by
   its hash and removes it with `SortedArray.remove`, whose binary search compares
   prices only. An order of the same side and price may be removed instead, and
   the unfunded one stays.
2. **`resubmit`** (bug, `orderbook.handler.ts:50`). `orderExists` is awaited and the
   record inserted later, so two submissions of an order both find it absent and
   both list it. `updateBalance` and `delistOrder` then act on one of the two.
3. **`failed_insert`** (divergence, `orderbook.handler.ts:82`). A failed `insertOrder` is
   logged, and the order stays listed: unpersisted and unannounced, though
   `types/src/orderbook.ts:62` announces a validated and persisted order.
4. **`rounding`** (divergence, `orderbook.service.ts:350`). Comments at lines 304 and 328
   promise levels rounded down for bids and up for asks; both are rounded half up.

The properties that pass exclude exactly the first three cases (distinct
`Level`s or `Price`s, `AddedOnce`, `FailedInsert`), and the runs show that each exclusion
is needed. The models of the client and of the command line remove an order by its price
too.

Also seen, and not stated as a property: the first order of an empty side ends the
epics of the web client (`orderbook.epic.ts:68`); selecting the loaded market
again wipes its configuration (`orderbook.epic.ts:198`); the ask levels of an
answer are counted by one rounding and grouped by another, which can cut the last
level (`orderbook.service.ts:332`); a transaction that fails stays pending, because no
reducer handles `TX_ERROR`, and the switch of its token spins until the page is loaded
again; `handleOpenDialog` of the wrap dialog dispatches the action that it listens to;
`order.pipes.ts:12` returns a promise without awaiting it, so its `catch` never runs;
`fillOrderEpic` is not part of the root epic; `updateFtOrderBalance` (`user.epic.ts:82`) throws
if the volume that remains of an own order is not an integer amount, and all epics end (the
model has this only as `EpicsEnd`, which may happen at any time, and
`EventuallyKnowsClosed` excuses a page whose epics have ended); `checkNetwork` keeps the number of the first
wrong network; a percentage of a new order is computed from the swapped balances
(`NewOrderPanel.tsx:114`); quote amounts are built with the decimals of the base token
(`wallet.epic.ts:80`); `fillOrKill` is documented to throw but calls `fillOrder`.

## Proofs

All are for every value of the constants that satisfies the named assumptions:
any number of nodes, peers, orders, submissions and checks, any bounds.

**OrderbookCluster_proofs** (assumptions `OrderAssumption`, `ClusterAssumption`).

* `TypeCorrect`: `TypeOK` is inductive. Its parts are lemmas on `Sent`, `Handled`
  and the store.
* `UnfundedStays`: each operation of the store keeps a closed record closed
  (`StoreGrows`), so every step does.
* `AnnouncedStored` and `BookBacked`: neither is inductive alone. `StoredInv`
  adds that a submission past its insert has its record (`InsertedIsStored`):
  then an announcement names a stored order, a peer lists only what was
  announced, a load lists only records, and records never go (`StoredStays`).
  `QueueStep`, `ProgressStep` and `BookStep` say what any step can add to a queue,
  to the progress of a submission and to a book; the preservation proofs use them
  instead of a case per action.
* `DelistedWasUnfunded`: if prices are distinct and inserts prompt, only an
  order found unfunded leaves the book. The event that removes an order was
  issued by an earlier step of another handler, so the invariant follows it back:
  a checked order has its record (`CheckedIsStored`, where `PromptWrites` is
  needed), a check that found it unfunded has closed it (`UnfundedIsClosed`), and
  so has whoever queued a delisting (`DelistIsClosed`). `UnfundedStays` keeps it
  closed until the event is handled.

**ListedOrders_proofs** (the same assumptions, distinct prices).

* `OpenListed` (with `PromptWrites`): `OpenOrdersListed` speaks of a node that is
  ready, but a record is opened, or loaded, while it starts. `OpenInv` therefore says of
  each side of the book that is loaded that it has the open orders of that side
  (`OpenAreListed`), and that handlers run on a node that is ready only
  (`HandlersNeedReady`), after `addOrder` (`AddedIsListed`). That no order is taken
  out while its record is open is `DelistInv`.
* `UnfundedLeaves`: `OutInv` adds to `StoredInv` where an `ORDER_DELIST` may be:
  queued, or about to be issued by the check that closed the record
  (`UnfundedPending`). A node that starts loads open orders only, with no handler of
  its own under way (`RequestsAreReady`, `LoadedAlone`); whoever finds an order absent
  while its record exists is a second submission of it (`AbsentIsSecond`). Prompt inserts
  are not needed.
* `AgreesAtRest` (with `PromptWrites`, `AllConnected`, `ChecksFollowNews`): for any number
  of nodes. `AgreeInv` has `DelistInv` and, as long as nothing was lost, `Agreement`: every
  announcement is listed by each node or still queued for it, once, and before any
  delisting of its order (`NewsGetsThrough`, `NewsIsFresh`, `NewsIsOnce`,
  `CheckedIsAnnounced`); a closed order is listed only where its delisting is on the way
  (`UnfundedIsLeaving`). `ChecksFollowNews` says that the checks of an order run on the
  node that took it, or are the own checks of the other of two nodes, as in
  `config-node0.yaml` and `config-worker.yaml`. It is needed: if a node
  delegates its checks to a peer, the peer's `ORDER_DELIST` can overtake the
  node's announcement at a third node, or at the peer itself.

**OrderLifecycle_proofs** (the same assumptions, distinct prices and `PromptWrites`).

* `ClusterImplementsLifecycle`: `ImplementsLifecycle`. Each action of the cluster maps to
  one action of the life cycle or to a stutter; one lemma per group of actions. What
  makes an `ORDER_DELIST` a `Hide`, and a peer's event a `Show`, is `DelistInv` and `StoredInv`.

**FillSync_proofs** (assumption `FillAssumption`).

* `SyncTypeCorrect`.
* `SyncNeverStops`: `SyncGoesOn`, inductive together with `TypeOK`: each action
  that ends a request, a scan or a delay of the selected market starts the next.
* `RecentFillsAreShown`: `SyncInv` says what each scan already knows: the fills
  from `BackTrack` below its start up to below its end, and those above its
  cursor; when the two meet the claim of `lastBlock` is true. A round knows the
  same of the finished scan it follows (`TimersKnow`), a waiting request has seen
  the present `lastBlock` (`WaitingKnow`), and no `lastBlock` is ahead of the
  chain (`BlocksInOrder`). `Complete(saved)` carries it over a reload.

**MarketFeed_proofs** (assumptions `AggregateAssumption`, `FeedAssumption`).

* `FeedTypeCorrect`: `FeedTypeOK` adds the types of the messages to `TypeOK`.
* `RoomIsSelected`: `RoomFollowsSelection` is inductive with the types. Requests are
  handled from the head of the queue, and a subscription is only ever appended.
* `ShownIsRight`: if no two orders of a side of a market have one price
  (`DistinctPrices`; the other two theorems do not need it), `ShownIsListed` holds. With
  `BookKnown`, an order is then in the book exactly if it was added and not yet found
  unfunded. `ShownIsListed` speaks of what is shown, but what is shown next is in
  a message. `News` says of the view, of each answer and of each event that what it says
  of an order is what the book has, or that a later event says otherwise. It rests on
  `Ordered` (a request comes after the subscription of its selection, and when there is
  something to show the client is in the room, so that no event is missed) and on
  `Begun` (an order that is not accepted has its first volume wherever it is shown: the
  book has it before the clients are told, and an answer may overtake the news). One
  lemma says what sending any event does, one what handling any event does, and so for
  answers; each action is an instance.

**TokenRegistry_proofs, PageStart_proofs** (assumptions `RegistryAssumption`,
`ListAssumption`, `PageAssumption`).

* `PageTypeCorrect`, `ShowsMarketOfUrl`, `ConfigurationComes`: `PageInv` is the
  conjunction of the three with `RegistryInv`, `LoadsInList` (a load that runs has a
  market left to read) and `ToldList` (what the service tells the page is a list).
* `RevertsForeseen`: `RegistryInv` adds that the list has each registered token once
  (swapping the last one into a gap keeps it so), and that what a sent edit has asserted
  is still so until it is overtaken (`SentForeseen`).
* `ListServedWhileRefreshing`: an action property; only `Fail` empties the cache, as
  a load that ends has a list to put in its place.

**Trading_proofs** (assumptions `ExchangeAssumption`, `SessionAssumption`,
`CommandAssumption`, `TradingAssumption`).

* `TradingTypeCorrect`: the types of the ledger are inductive only with `Sound`: no
  balance is below zero, no order is filled beyond its amount. One lemma per call of the
  contract shows that it keeps `Sound`; trades of several orders are folds.
* `RequestsCovered`: `FillAmountSuffices` is the arithmetic of the `+ 1`, for every price
  and amount; `TradeCovers` carries it through the contract's division. `Prepare`'s answer
  is part of `TypeInv`, whatever happens before `Execute`.
* `TradesWhatIsAsked` (with `OthersOrders`: the orders of a level are of different makers, none
  of them the user). `TradeInv` follows a trade of the page: what was chosen suffices
  for what was asked (`Suffices`), when the level was selected and as long as its
  orders are unchanged, after the answer of the service (`FoundSuffices`) and whatever
  happens to the book (`BookShrinks`). `ChosenSuffices` is about `takeWhile` over the sorted
  orders: it takes a prefix that offers enough. `ChainPaysAll` is about the contract: the
  orders, filled in turn, pay what they offer until the amount is used up.
  `OthersOrders` is needed: a maker's balance backs all its orders, so a fill of one takes
  from the volume of the next, and who fills an own order pays nothing.
  If both orders of the run `trading` have one maker, TLC finds a trade that pays less.

Statements about all lengths of a fold or a sum would be proved by induction, but the
library's induction theorems take an operator as a parameter, which the provers cannot
instantiate. Those proofs use a smallest counterexample instead: `SmallestSet`,
`SmallestNumber` and `FirstFailure` say that a set of finite sets or of numbers that is
not empty has a smallest element, and a fact that fails somewhere has a first place
where it fails, which the step before it refutes.

**Only model-checked.** Liveness (`EventuallyAccurate`, `SuccessIsKept`,
`EventuallySynced`, `EventuallyShowsTopOrders`, `EventuallyFresh`, `EventuallyStarted`,
`EventuallyFollowsPlugin`, `EventuallyShowsBalances`, `EventuallyKnowsClosed`): the prover
handles neither fairness nor `ENABLED`. Every other property of a passing run is a
theorem, some of them for the instances that meet the conditions named above. What
`OrderAggregates` computes is checked through `MarketFeed` and in the run `rounding`.
None of the modules has a `RECURSIVE` operator, which the provers cannot use.

## Not modelled

* Fees and fee rates, gas, expiry, conversions between units: arithmetic and
  formatting without state.
* Owner-only calls of the exchange, batch fills, the Portal: no caller in the client,
  the service or the commands.
* `LocalCache.remove`, and `TokenHelper`'s cache of decimals.
* Layout, charts, grids, dialogs and formatting of the web application; the site
  configuration.
* `token:add`, the daemon and its launchers, the local web server, the configuration
  file, and the commands and the robot script that only read or repeat others.
* Queries that only read (`getSnapshot`, `queryPlainOrders`), REST documentation,
  logging, connection set-up.
* IPFS rooms and publication: from one cluster, other clusters are clients. On the
  publishing side an order is sent once, by the node that took it, after its insert;
  a crash in between loses it for the other clusters.
* The memory of the event bus, a `ReplaySubject` that frees nothing, and of caches.

## Plan

Order of the modules, most important behaviour first. All are written.

1. `OrderVolume`, `OrderStore`, `OrderbookCluster`: the service, with theorems.
2. `FillSync`: the trade history, with theorems.
3. `OrderAggregates`, `MarketFeed`: from a book to the screen.
4. `OrderLifecycle`: the abstract promise, with the refinement proved.
5. `TokenRegistry`, `MarketList`, `PageStart`: from the registry to a selected market.
6. `Exchange`, `WalletSession`, `CommandLine`, `Trading`: trades.

To come:

* Theorems: what of `TradesWhatIsAsked` is left when makers are shared, and what of
  `AgreesAtRest` when `ChecksFollowNews` is not met; lemmas about the levels of
  `OrderAggregates` (each order is in one level, and no volume is lost).
* Three nodes in `OrderbookCluster`: what holds when news of one order comes over
  several connections.
* Two markets in `Trading`, and a trade made through a `MarketFeed` instead of the books.
