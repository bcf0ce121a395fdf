-------------------------- MODULE OrderbookCluster --------------------------
(***************************************************************************)
(* The order book service: one or several server nodes that share one      *)
(* database.  Each node keeps the open orders of a market in memory, takes *)
(* orders from clients, tells its peers over ZeroMQ what it accepted, and, *)
(* if it is a task node, polls the exchange contract to refresh and delist *)
(* the orders.  An all-in-one deployment is a cluster of one node.         *)
(*                                                                         *)
(* A handler is one action per stretch of code between two awaits, since   *)
(* JavaScript runs such a stretch without interruption: the database and   *)
(* the contract answer between the stretches, and other handlers run.      *)
(***************************************************************************)
EXTENDS OrderStore, Sequences, FiniteSets

CONSTANTS
    Nodes,          \* server nodes
    Requests,       \* submissions of orders: by REST, WebSocket or IPFS
    OrderOf,        \* OrderOf[r]: the order submission r carries
    EntryNode,      \* EntryNode[r]: the node that receives submission r
    Tasks,          \* bounds the balance checks that are in flight at once
    Level,          \* Level[o]: side and price of o, what the sorted array compares
    Subscriptions,  \* Subscriptions[n]: config.zmq.nodes, whose events n receives
    Runners,        \* Runners[n]: where the task loop of n has a task run
    PromptWrites,   \* an insert takes less than UPDATE_INTERVAL_SECONDS
    None,           \* no node and no object
    MaxCrashes,     \* bounds: crashes of nodes,
    MaxDrops,       \* broken connections,
    MaxFaults,      \* failures of the database and of the contract calls,
    MaxMoves,       \* changes of a volume on the chain,
    MaxPending      \* events pending on a node when it starts a check

ASSUME ClusterAssumption ==
    /\ Requests \cap Orders = {}
    /\ OrderOf \in [Requests -> Orders]
    /\ EntryNode \in [Requests -> Nodes]
    /\ Subscriptions \in [Nodes -> SUBSET Nodes]
    /\ \A n \in Nodes : n \notin Subscriptions[n]
    /\ Runners \in [Nodes -> SUBSET Nodes]
    /\ PromptWrites \in BOOLEAN
    /\ None \notin Nodes \cup Requests \cup Orders
    /\ {MaxCrashes, MaxDrops, MaxFaults, MaxMoves, MaxPending} \subseteq Nat

(***************************************************************************)
(* The OrderbookOrder objects of a node are named by what created them: a  *)
(* submission r (on EntryNode[r], and on each peer that is told of it), or *)
(* the load of order o from the database at start-up.                      *)
(***************************************************************************)
Objects == Requests \cup Orders

HashOf(x) == IF x \in Requests THEN OrderOf[x] ELSE x

VARIABLES
    phase,      \* phase[n]: how far node n has started
    sub,        \* sub[n]: publishers that n is connected to
    book,       \* book[n]: objects in the sorted arrays of n
    remaining,  \* remaining[n][x]: remaining taker volume in object x of n
    queue,      \* queue[n][p]: events of p that n has yet to handle, in order
    onboard,    \* onboard[r]: progress of submission r
    payload,    \* payload[r]: volume that validateOrder found for r
    task,       \* task[t]: a balance check in flight
    store,      \* the database
    available,  \* available[o]: availableVolume of o on the chain
    budget      \* what is left of the bounds on the environment

nodeVars == <<phase, sub, book, remaining>>
vars == <<phase, sub, book, remaining, queue, onboard, payload, task, store,
          available, budget>>

\* getOrderbooks and findOrderMarket see the market once init has loaded it;
\* whenReady resolves after init has been through every market.
Serving == {"loaded", "ready"}
Phases == {"down", "bids", "asks", "failed"} \cup Serving

Progress == {"idle", "refused", "onboard", "rejected", "absent", "added",
             "failed", "stored", "announced", "lost"}

\* A handler of submission r is in flight on EntryNode[r].
InFlight == {"onboard", "absent", "added", "stored"}

Messages == [type : {"accepted", "balance", "delist"},
             object : Objects, volume : Nat]

NoTask == [pc |-> "idle", node |-> None, object |-> None, local |-> FALSE,
           seen |-> 0, volume |-> 0]

ActiveTasks == [pc : {"started", "read", "funded", "unfunded"}, node : Nodes,
                object : Objects, local : BOOLEAN, seen : Nat, volume : Nat]

Budgets == [crashes : Nat, drops : Nat, faults : Nat, moves : Nat]

TypeOK ==
    /\ phase \in [Nodes -> Phases]
    /\ sub \in [Nodes -> SUBSET Nodes]
    /\ book \in [Nodes -> SUBSET Objects]
    /\ remaining \in [Nodes -> [Objects -> Nat]]
    /\ queue \in [Nodes -> [Nodes -> Seq(Messages)]]
    /\ onboard \in [Requests -> Progress]
    /\ payload \in [Requests -> Nat]
    /\ task \in [Tasks -> ActiveTasks \cup {NoTask}]
    /\ store \in Stores
    /\ available \in [Orders -> Nat]
    /\ budget \in Budgets

\* A newly deployed cluster: an empty database, and every node has started.
Init ==
    /\ phase = [n \in Nodes |-> "ready"]
    /\ sub = Subscriptions
    /\ book = [n \in Nodes |-> {}]
    /\ remaining = [n \in Nodes |-> [x \in Objects |-> 0]]
    /\ queue = [n \in Nodes |-> [p \in Nodes |-> <<>>]]
    /\ onboard = [r \in Requests |-> "idle"]
    /\ payload = [r \in Requests |-> 0]
    /\ task = [t \in Tasks |-> NoTask]
    /\ store = EmptyStore
    /\ available = TakerAmount
    /\ budget = [crashes |-> MaxCrashes, drops |-> MaxDrops,
                 faults |-> MaxFaults, moves |-> MaxMoves]
-----------------------------------------------------------------------------
(***************************************************************************)
(* Events.  A handler of an event of the node itself or of a peer first    *)
(* awaits whenReady, so events wait in queue[n][p] while n starts, and are *)
(* handled in the order p issued them.                                     *)
(***************************************************************************)

\* A broken event bus: PEER_EVENT has no subscriber.
SentHere(n, msg, local) ==
    IF local THEN [queue EXCEPT ![n][n] = Append(@, msg)] ELSE queue

\* events$.next(PEER_EVENT) on n: ZeromqGateway publishes msg to the peers
\* that are connected; with `local`, msg also goes to the handlers of n.
Sent(n, msg, local) ==
    [m \in Nodes |-> [p \in Nodes |->
        IF p = n /\ (n \in sub[m] \/ (local /\ m = n))
          THEN Append(queue[m][p], msg)
          ELSE queue[m][p]]]

Handled(n, p) == [queue EXCEPT ![n][p] = Tail(@)]

HasEvent(n, p, type) ==
    /\ phase[n] = "ready"
    /\ queue[n][p] # <<>>
    /\ Head(queue[n][p]).type = type

-----------------------------------------------------------------------------
(***************************************************************************)
(* The operations of OrderbookService on the book of a node.               *)
(***************************************************************************)

\* addOrder.
Added(n, x, v) ==
    /\ book' = [book EXCEPT ![n] = @ \cup {x}]
    /\ remaining' = [remaining EXCEPT ![n][x] = v]

\* orders.array.find(order => order.orderHash === orderHash): one of these.
ListedAs(n, o) == {x \in book[n] : HashOf(x) = o}

\* updateBalance: of two objects of an order only the one found is changed.
UpdateBalance(n, o, v) ==
    IF ListedAs(n, o) = {}
      THEN UNCHANGED remaining
      ELSE \E x \in ListedAs(n, o) : remaining' = [remaining EXCEPT ![n][x] = v]

\* A broken comparator, that finds all orders equal.
RemovableAny(n, x) == book[n]

\* SortedArray.remove(x) finds its victim by a binary search with the price
\* comparator: any object of the same side and price as x.
Removable(n, x) == {y \in book[n] : Level[HashOf(y)] = Level[HashOf(x)]}

\* delistOrder: find the order by its hash, then orders.remove(match).
DelistOrder(n, o) ==
    IF ListedAs(n, o) = {}
      THEN UNCHANGED book
      ELSE \E x \in ListedAs(n, o) : \E y \in Removable(n, x) :
             book' = [book EXCEPT ![n] = @ \ {y}]

-----------------------------------------------------------------------------
(***************************************************************************)
(* Onboarding: the callers of validateOrder, then ObNewOrderHandler.       *)
(***************************************************************************)

\* validateOrder, then NEW_ORDER_ONBOARD; a client is now told "success".  The
\* submission is refused if it is malformed, if the contract does not answer,
\* or if too little of the order is available.
Validate(r) ==
    LET n == EntryNode[r]
        o == OrderOf[r]
    IN  /\ onboard[r] = "idle"
        /\ phase[n] \in Serving
        /\ \/ /\ Admissible(o, available[o])
              /\ onboard' = [onboard EXCEPT ![r] = "onboard"]
              /\ payload' = [payload EXCEPT ![r] = available[o]]
           \/ /\ onboard' = [onboard EXCEPT ![r] = "refused"]
              /\ UNCHANGED payload
        /\ UNCHANGED <<nodeVars, queue, task, store, available, budget>>

\* A broken CheckExists: it looks in memory instead of in the database.
CheckListed(r) ==
    /\ onboard[r] = "onboard"
    /\ phase[EntryNode[r]] = "ready"
    /\ onboard' = [onboard EXCEPT ![r] =
                     IF ListedAs(EntryNode[r], OrderOf[r]) # {} THEN "rejected" ELSE "absent"]
    /\ UNCHANGED <<nodeVars, queue, payload, task, store, available, budget>>

\* await whenReady, then await orderExists.
CheckExists(r) ==
    /\ onboard[r] = "onboard"
    /\ phase[EntryNode[r]] = "ready"
    /\ onboard' = [onboard EXCEPT ![r] =
                     IF OrderExists(store, OrderOf[r]) THEN "rejected" ELSE "absent"]
    /\ UNCHANGED <<nodeVars, queue, payload, task, store, available, budget>>

\* The order was absent: addOrder puts it in memory, and insertOrder starts.
AddOrder(r) ==
    LET n == EntryNode[r]
    IN  /\ onboard[r] = "absent"
        /\ Added(n, r, payload[r])
        /\ onboard' = [onboard EXCEPT ![r] = "added"]
        /\ UNCHANGED <<phase, sub, queue, payload, task, store, available, budget>>

\* The database performs insertOrder.
Insert(r) ==
    /\ onboard[r] = "added"
    /\ store' = InsertOrder(store, OrderOf[r], payload[r])
    /\ onboard' = [onboard EXCEPT ![r] = "stored"]
    /\ UNCHANGED <<nodeVars, queue, payload, task, available, budget>>

\* A broken Announce: insertOrder is not awaited, and its record is lost if
\* the event is out first.
AnnounceUnawaited(r) ==
    LET n == EntryNode[r]
    IN  /\ onboard[r] \in {"added", "stored"}
        /\ queue' = Sent(n, [type |-> "accepted", object |-> r,
                             volume |-> remaining[n][r]], FALSE)
        /\ onboard' = [onboard EXCEPT ![r] = "announced"]
        /\ UNCHANGED <<nodeVars, payload, task, store, available, budget>>

\* insertOrder returned: NEW_ORDER_ACCEPTED, and PEER_EVENT with the object
\* as it is in memory by now.
Announce(r) ==
    LET n == EntryNode[r]
    IN  /\ onboard[r] = "stored"
        /\ queue' = Sent(n, [type |-> "accepted", object |-> r,
                             volume |-> remaining[n][r]], FALSE)
        /\ onboard' = [onboard EXCEPT ![r] = "announced"]
        /\ UNCHANGED <<nodeVars, payload, task, store, available, budget>>

\* The database fails.  In orderExists that ends the handler; in insertOrder
\* the catch block only logs, and the order stays in memory.
OnboardFault(r) ==
    /\ budget.faults > 0
    /\ \/ /\ onboard[r] = "onboard"
          /\ phase[EntryNode[r]] = "ready"
          /\ onboard' = [onboard EXCEPT ![r] = "lost"]
       \/ /\ onboard[r] = "added"
          /\ onboard' = [onboard EXCEPT ![r] = "failed"]
    /\ budget' = [budget EXCEPT !.faults = @ - 1]
    /\ UNCHANGED <<nodeVars, queue, payload, task, store, available>>

-----------------------------------------------------------------------------
(***************************************************************************)
(* The handlers that change the book of a node.                            *)
(***************************************************************************)

\* NewOrderFromPeerHandler.handle: addOrder, without any check.
NewOrderFromPeer(n, p) ==
    /\ HasEvent(n, p, "accepted")
    /\ LET m == Head(queue[n][p]) IN Added(n, m.object, m.volume)
    /\ queue' = Handled(n, p)
    /\ UNCHANGED <<phase, sub, onboard, payload, task, store, available, budget>>

\* OrderUpdateHandler.handle.
OrderUpdate(n, p) ==
    /\ HasEvent(n, p, "balance")
    /\ LET m == Head(queue[n][p]) IN UpdateBalance(n, m.object, m.volume)
    /\ queue' = Handled(n, p)
    /\ UNCHANGED <<phase, sub, book, onboard, payload, task, store, available, budget>>

\* OrderDelistHandler.handle.
OrderDelist(n, p) ==
    /\ HasEvent(n, p, "delist")
    /\ DelistOrder(n, Head(queue[n][p]).object)
    /\ queue' = Handled(n, p)
    /\ UNCHANGED <<phase, sub, remaining, onboard, payload, task, store, available,
                   budget>>

\* On a node whose market failed to load, addOrder, updateBalance and
\* delistOrder throw; the handlers log it, and the event is gone.
MissingMarket(n, p) ==
    /\ phase[n] = "failed"
    /\ queue[n][p] # <<>>
    /\ queue' = Handled(n, p)
    /\ UNCHANGED <<nodeVars, onboard, payload, task, store, available, budget>>

-----------------------------------------------------------------------------
(***************************************************************************)
(* Balance checks: OrderTask.run, then OrderTaskHandler.handle.  The loop  *)
(* looks at every listed order each 15 s and starts a check of those that  *)
(* were not updated for 30 s; it does not look for one in flight already.  *)
(* Time is not modelled: 30 s may pass between any two steps, except that  *)
(* with PromptWrites an insert is never that slow.                         *)
(***************************************************************************)

BeingInserted(n, x) ==
    x \in Requests /\ EntryNode[x] = n /\ onboard[x] \in {"added", "stored"}

\* OrderTask.process: on the node itself, which then handles the very object
\* of its book, or by zeromq on a worker, which gets a copy of it (the push
\* socket keeps the message while the worker is down).  The loop
\* runs from a timer: events of the node itself are handled before, by the
\* continuations of promises that are resolved, unless they await whenReady.
TaskStart(t, n, w, x) ==
    /\ task[t] = NoTask
    /\ phase[n] \in Serving
    /\ x \in book[n]
    /\ w \in Runners[n]
    /\ PromptWrites => ~BeingInserted(n, x)
    /\ phase[n] = "ready" => queue[n][n] = <<>>
    /\ Len(queue[n][w]) < MaxPending
    /\ task' = [task EXCEPT ![t] =
                  [pc |-> "started", node |-> w, object |-> x, local |-> w = n,
                   seen |-> IF w = n THEN 0 ELSE remaining[n][x], volume |-> 0]]
    /\ UNCHANGED <<nodeVars, queue, onboard, payload, store, available, budget>>

TaskOrder(t) == HashOf(task[t].object)

\* The contract answers availableVolume.
TaskRead(t) ==
    /\ task[t].pc = "started"
    /\ phase[task[t].node] # "down"
    /\ task' = [task EXCEPT ![t].pc = "read",
                            ![t].volume = available[TaskOrder(t)]]
    /\ UNCHANGED <<nodeVars, queue, onboard, payload, store, available, budget>>

\* The database performs updateVolume, in state UNFUNDED or without a state.
TaskStore(t) ==
    LET o == TaskOrder(t)
        v == task[t].volume
    IN  /\ task[t].pc = "read"
        /\ IF Unfunded(o, v)
             THEN /\ store' = MarkUnfunded(store, o, v)
                  /\ task' = [task EXCEPT ![t].pc = "unfunded"]
             ELSE /\ store' = UpdateVolume(store, o, v)
                  /\ task' = [task EXCEPT ![t].pc = "funded"]
        /\ UNCHANGED <<nodeVars, queue, onboard, payload, available, budget>>

\* A broken EmitDelist: the event goes to the peers only.
EmitDelistAway(t) ==
    /\ task[t].pc = "unfunded"
    /\ queue' = Sent(task[t].node, [type |-> "delist", object |-> TaskOrder(t),
                                    volume |-> 0], FALSE)
    /\ task' = [task EXCEPT ![t] = NoTask]
    /\ UNCHANGED <<nodeVars, onboard, payload, store, available, budget>>

\* updateVolume returned: ORDER_DELIST, here and to the peers.
EmitDelist(t) ==
    /\ task[t].pc = "unfunded"
    /\ queue' = Sent(task[t].node, [type |-> "delist", object |-> TaskOrder(t),
                                    volume |-> 0], TRUE)
    /\ task' = [task EXCEPT ![t] = NoTask]
    /\ UNCHANGED <<nodeVars, onboard, payload, store, available, budget>>

\* The amounts the order object has when the handler compares: a local task
\* shares the object with the book, so they are those of this moment.
AmountsInHand(t) ==
    IF task[t].local THEN remaining[task[t].node][task[t].object] ELSE task[t].seen

\* A broken EmitBalance: the event goes to the peers only.
EmitBalanceAway(t) ==
    /\ task[t].pc = "funded"
    /\ IF AmountsInHand(t) # task[t].volume
         THEN queue' = Sent(task[t].node, [type |-> "balance", object |-> TaskOrder(t),
                                           volume |-> task[t].volume], FALSE)
         ELSE UNCHANGED queue
    /\ task' = [task EXCEPT ![t] = NoTask]
    /\ UNCHANGED <<nodeVars, onboard, payload, store, available, budget>>

\* updateVolume returned: ORDER_BALANCE_UPDATE if the amounts differ.
EmitBalance(t) ==
    /\ task[t].pc = "funded"
    /\ IF AmountsInHand(t) # task[t].volume
         THEN queue' = Sent(task[t].node, [type |-> "balance", object |-> TaskOrder(t),
                                           volume |-> task[t].volume], TRUE)
         ELSE UNCHANGED queue
    /\ task' = [task EXCEPT ![t] = NoTask]
    /\ UNCHANGED <<nodeVars, onboard, payload, store, available, budget>>

\* The contract or the database fails: the catch block logs it.
TaskFault(t) ==
    /\ budget.faults > 0
    /\ task[t].pc \in {"started", "read"}
    /\ task' = [task EXCEPT ![t] = NoTask]
    /\ budget' = [budget EXCEPT !.faults = @ - 1]
    /\ UNCHANGED <<nodeVars, queue, onboard, payload, store, available>>

-----------------------------------------------------------------------------
(***************************************************************************)
(* Start-up: OrderbookService.init and loadOrderbook.                      *)
(***************************************************************************)

Boot(n) ==
    /\ phase[n] = "down"
    /\ phase' = [phase EXCEPT ![n] = "bids"]
    /\ UNCHANGED <<sub, book, remaining, queue, onboard, payload, task, store,
                   available, budget>>

\* Objects named after the orders, with the amounts of the records.
Loaded(n, orders) ==
    /\ book' = [book EXCEPT ![n] = @ \cup orders]
    /\ remaining' = [remaining EXCEPT ![n] =
                       [x \in Objects |-> IF x \in orders THEN store[x].volume ELSE @[x]]]

LoadBids(n) ==
    /\ phase[n] = "bids"
    /\ Loaded(n, LoadOrders(store, Bids))
    /\ phase' = [phase EXCEPT ![n] = "asks"]
    /\ UNCHANGED <<sub, queue, onboard, payload, task, store, available, budget>>

\* A broken LoadAsks: it loads the bids once more.
LoadBidsTwice(n) ==
    /\ phase[n] = "asks"
    /\ Loaded(n, LoadOrders(store, Bids))
    /\ phase' = [phase EXCEPT ![n] = "loaded"]
    /\ UNCHANGED <<sub, queue, onboard, payload, task, store, available, budget>>

LoadAsks(n) ==
    /\ phase[n] = "asks"
    /\ Loaded(n, LoadOrders(store, Asks))
    /\ phase' = [phase EXCEPT ![n] = "loaded"]
    /\ UNCHANGED <<sub, queue, onboard, payload, task, store, available, budget>>

\* init swallows the error of a market: the node gets ready without it.
LoadFault(n) ==
    /\ budget.faults > 0
    /\ phase[n] \in {"bids", "asks"}
    /\ phase' = [phase EXCEPT ![n] = "failed"]
    /\ book' = [book EXCEPT ![n] = {}]
    /\ budget' = [budget EXCEPT !.faults = @ - 1]
    /\ UNCHANGED <<sub, remaining, queue, onboard, payload, task, store, available>>

\* ready.resolve(), after the other markets.
Ready(n) ==
    /\ phase[n] = "loaded"
    /\ phase' = [phase EXCEPT ![n] = "ready"]
    /\ UNCHANGED <<sub, book, remaining, queue, onboard, payload, task, store,
                   available, budget>>

-----------------------------------------------------------------------------
(***************************************************************************)
(* The environment.                                                        *)
(***************************************************************************)

\* A node stops: its memory, its handlers in flight and its connections go.
Crash(n) ==
    /\ budget.crashes > 0
    /\ phase[n] # "down"
    /\ phase' = [phase EXCEPT ![n] = "down"]
    /\ book' = [book EXCEPT ![n] = {}]
    /\ remaining' = [remaining EXCEPT ![n] = [x \in Objects |-> 0]]
    /\ sub' = [m \in Nodes |-> IF m = n THEN {} ELSE sub[m] \ {n}]
    /\ queue' = [queue EXCEPT ![n] = [p \in Nodes |-> <<>>]]
    /\ onboard' = [r \in Requests |->
                     IF EntryNode[r] = n /\ onboard[r] \in InFlight
                       THEN "lost" ELSE onboard[r]]
    /\ task' = [t \in Tasks |-> IF task[t].node = n THEN NoTask ELSE task[t]]
    /\ budget' = [budget EXCEPT !.crashes = @ - 1]
    /\ UNCHANGED <<payload, store, available>>

\* The sub socket of n connects to p, at once or when zeromq retries.
Connect(n, p) ==
    /\ p \in Subscriptions[n] \ sub[n]
    /\ phase[n] # "down"
    /\ phase[p] # "down"
    /\ sub' = [sub EXCEPT ![n] = @ \cup {p}]
    /\ UNCHANGED <<phase, book, remaining, queue, onboard, payload, task, store,
                   available, budget>>

\* A connection breaks; what was on its way is lost from some point on.
Disconnect(n, p) ==
    /\ budget.drops > 0
    /\ p \in sub[n]
    /\ sub' = [sub EXCEPT ![n] = @ \ {p}]
    /\ \E k \in 0 .. Len(queue[n][p]) :
         queue' = [queue EXCEPT ![n][p] = SubSeq(@, 1, k)]
    /\ budget' = [budget EXCEPT !.drops = @ - 1]
    /\ UNCHANGED <<phase, book, remaining, onboard, payload, task, store, available>>

\* Fills, cancellations, expiry and transfers of the maker's tokens.
ChainMove(o) ==
    /\ budget.moves > 0
    /\ \E v \in Volumes(o) \ {available[o]} :
         available' = [available EXCEPT ![o] = v]
    /\ budget' = [budget EXCEPT !.moves = @ - 1]
    /\ UNCHANGED <<nodeVars, queue, onboard, payload, task, store>>

-----------------------------------------------------------------------------
Onboarding(r) ==
    \/ CheckExists(r) \/ AddOrder(r) \/ Insert(r) \/ Announce(r)

Handling(n, p) ==
    \/ NewOrderFromPeer(n, p) \/ OrderUpdate(n, p) \/ OrderDelist(n, p)
    \/ MissingMarket(n, p)

Checking(t) ==
    \/ TaskRead(t) \/ TaskStore(t) \/ EmitDelist(t) \/ EmitBalance(t)

Starting(n) ==
    \/ Boot(n) \/ LoadBids(n) \/ LoadAsks(n) \/ Ready(n)

Next ==
    \/ \E r \in Requests : Validate(r) \/ Onboarding(r) \/ OnboardFault(r)
    \/ \E n, p \in Nodes : Handling(n, p) \/ Connect(n, p) \/ Disconnect(n, p)
    \/ \E t \in Tasks : Checking(t) \/ TaskFault(t)
    \/ \E t \in Tasks, n, w \in Nodes, x \in Objects : TaskStart(t, n, w, x)
    \/ \E n \in Nodes : Starting(n) \/ LoadFault(n) \/ Crash(n)
    \/ \E o \in Orders : ChainMove(o)

Spec == Init /\ [][Next]_vars

\* Handlers run on, databases and contracts answer, connections are retried
\* and nodes restarted (pm2); clients, faults and the chain owe nothing.  The
\* task loop comes back to each listed order: strong fairness, because a slot
\* in Tasks may be taken each time, which is a limit of the model alone.
Fairness ==
    /\ \A r \in Requests : WF_vars(Onboarding(r))
    /\ \A n, p \in Nodes : WF_vars(Handling(n, p)) /\ WF_vars(Connect(n, p))
    /\ \A t \in Tasks : WF_vars(Checking(t))
    /\ \A n \in Nodes : WF_vars(Starting(n))
    /\ \A n \in Nodes, x \in Objects :
         SF_vars(\E t \in Tasks, w \in Nodes : TaskStart(t, n, w, x))

FairSpec == Spec /\ Fairness

-----------------------------------------------------------------------------
(***************************************************************************)
(* Properties.                                                             *)
(***************************************************************************)

Stored(x) == OrderExists(store, HashOf(x))

\* A peer is never told of an order that the database does not hold: the
\* insert of ObNewOrderHandler precedes its PEER_EVENT, whatever crashes.
AnnouncedIsStored ==
    \A n, p \in Nodes : \A i \in DOMAIN queue[n][p] :
        queue[n][p][i].type = "accepted" => Stored(queue[n][p][i].object)

\* An order is listed on a node only if the database holds it, or if this
\* node's own handler put it there and its insert is under way or has failed.
\* So no restart, peer message or task makes a node list an order of which
\* nothing remains after a restart.
BookBackedByStore ==
    \A n \in Nodes : \A x \in book[n] :
        \/ Stored(x)
        \/ /\ x \in Requests
           /\ EntryNode[x] = n
           /\ onboard[x] \in {"added", "failed"}

Listed(n) == {HashOf(x) : x \in book[n]}

FailedInsert(o) == \E r \in Requests : OrderOf[r] = o /\ onboard[r] = "failed"

\* No open order gets lost: on an all-in-one node that is ready, each order
\* that is OPEN in the database is listed, whichever submissions, checks,
\* delistings and restarts interleave (its insert never failed).
OpenOrdersListed ==
    \A n \in Nodes : \A o \in Orders :
        /\ Nodes = {n}
        /\ phase[n] = "ready"
        /\ store[o].state = "OPEN"
        /\ ~FailedInsert(o)
        => o \in Listed(n)

AddedOnce(o) ==
    \A r, s \in Requests :
        /\ OrderOf[r] = o /\ onboard[r] \in {"added", "stored", "announced", "failed"}
        /\ OrderOf[s] = o /\ onboard[s] \in {"added", "stored", "announced", "failed"}
        => r = s

DelistPending(n, o) ==
    \/ \E p \in Nodes : \E i \in DOMAIN queue[n][p] :
         queue[n][p][i].type = "delist" /\ queue[n][p][i].object = o
    \/ \E t \in Tasks : task[t].pc = "unfunded" /\ TaskOrder(t) = o

\* An order that became UNFUNDED in the database is on its way out of the
\* book of an all-in-one node: if it is still listed, an ORDER_DELIST for it
\* is queued or about to be issued (unless two racing submissions listed it
\* twice).  No stale check or late load brings it back.
UnfundedOnItsWayOut ==
    \A n \in Nodes : \A o \in Listed(n) :
        /\ Nodes = {n}
        /\ phase[n] = "ready"
        /\ store[o].state = "UNFUNDED"
        /\ AddedOnce(o)
        => DelistPending(n, o)

\* UNFUNDED is final: no resubmission, and no check that read the chain
\* before the order was delisted, opens the record again.
UnfundedIsFinal ==
    [][\A o \in Orders :
         store[o].state = "UNFUNDED" => store'[o].state = "UNFUNDED"]_vars

\* "remove order if balance is 0 or lower than min amount"
\* (order.handler.ts:55): an order leaves the book of a node that stays up
\* only if its own balance was found too low (its insert never failed).
OnlyUnfundedLeave ==
    [][\A n \in Nodes : \A x \in book[n] \ book'[n] :
         phase[n] = "ready" /\ phase'[n] = "ready" /\ ~FailedInsert(HashOf(x))
           => store[HashOf(x)].state # "OPEN"]_vars

\* AddedOnce: updateBalance finds the first of two objects of an order only,
\* and a second one keeps the amounts it came with.
Accurate(n, x) ==
    LET o == HashOf(x)
    IN  AddedOnce(o) =>
        /\ remaining[n][x] = available[o]
        /\ ~Unfunded(o, available[o])
        /\ Stored(x) => store[o].volume = available[o]

\* Once the chain moves no more, the task loop makes every listed order, and
\* its record, show the volume the contract reports, and delists the others:
\* overlapping checks that write an older volume last are repaired.
EventuallyAccurate == <>[](\A n \in Nodes : \A x \in book[n] : Accurate(n, x))

\* A submission answered "success" ends in the database, unless a fault or a
\* crash on the way takes it.
SuccessIsKept ==
    \A r \in Requests :
        onboard[r] = "onboard" ~>
            Stored(r) \/ onboard[r] \in {"failed", "lost"}

\* Nothing was lost so far, and nothing is on its way.
Undisturbed ==
    /\ budget.crashes = MaxCrashes
    /\ budget.drops = MaxDrops
    /\ budget.faults = MaxFaults

AtRest ==
    /\ \A n, p \in Nodes : queue[n][p] = <<>>
    /\ \A r \in Requests : onboard[r] \notin {"added", "stored"}
    /\ \A t \in Tasks : task[t].pc # "unfunded"

\* "validate the order and persist it into db => NewOrderAcceptedEvent when
\* success" (orderbook.ts:62): once the handlers are done, an order that
\* clients are shown is one that the database holds.
ListedArePersisted ==
    AtRest => \A n \in Nodes : \A x \in book[n] : Stored(x)

\* "order already exists" (orderbook.handler.ts:51): the check of
\* ObNewOrderHandler keeps a second submission of an order out of the book.
ListedOnce ==
    \A n \in Nodes : \A x, y \in book[n] : HashOf(x) = HashOf(y) => x = y

\* While no node crashes, no connection breaks and no call fails, the nodes
\* agree whenever they are at rest: each lists exactly the open orders of the
\* database (but for those that two racing submissions listed twice).  This is
\* so if the checks of an order run on the node that took it, or on the other of
\* two nodes: to a third node, or to a worker that checks for the node that
\* took the order, the delisting may come before the announcement.
AgreeAtRest ==
    Undisturbed /\ AtRest =>
        \A n \in Nodes : \A o \in Orders :
            AddedOnce(o) => (o \in Listed(n) <=> store[o].state = "OPEN")
-----------------------------------------------------------------------------
(***************************************************************************)
(* The abstract specification.                                             *)
(***************************************************************************)
Unsaved(n) ==
    {OrderOf[r] : r \in {q \in Requests : /\ EntryNode[q] = n
                                         /\ onboard[q] \in {"absent", "added"}}}

Lifecycle ==
    INSTANCE OrderLifecycle WITH
        record  <- [o \in Orders |-> store[o].state],
        shown   <- [n \in Nodes |-> Listed(n)],
        unsaved <- [n \in Nodes |-> Unsaved(n)],
        failed  <- {o \in Orders : FailedInsert(o)}

\* The cluster implements OrderLifecycle: whatever submissions, checks, peer
\* events, lost connections, faults and restarts interleave, a step of any
\* handler is a step in the life of one order, or none.  This holds if inserts
\* are prompt and no two orders share a side and a price.
ImplementsLifecycle == Lifecycle!Spec
=============================================================================
