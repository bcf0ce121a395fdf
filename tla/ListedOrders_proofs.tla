------------------------ MODULE ListedOrders_proofs ------------------------
(***************************************************************************)
(* What the books of the nodes show of the open orders in the database:    *)
(* theorems about OrderbookCluster, for every number of orders,            *)
(* submissions and checks in flight, and for every bound on the            *)
(* environment.                                                            *)
(***************************************************************************)
EXTENDS OrderbookCluster_proofs

(***************************************************************************)
(* How each part of the state changes in one step, and by which action.    *)
(***************************************************************************)
LEMMA PhaseStep ==
  ASSUME TypeOK, [Next]_vars, NEW n \in Nodes
  PROVE  \/ phase'[n] = phase[n]
         \/ Crash(n) /\ phase'[n] = "down"
         \/ phase[n] = "down" /\ phase'[n] = "bids"
         \/ LoadBids(n) /\ phase'[n] = "asks"
         \/ LoadAsks(n) /\ phase'[n] = "loaded"
         \/ LoadFault(n) /\ phase'[n] = "failed"
         \/ phase[n] = "loaded" /\ phase'[n] = "ready"
<1>1. CASE UNCHANGED phase
  BY <1>1
<1>2. ASSUME NEW m \in Nodes, Starting(m) \/ LoadFault(m) \/ Crash(m)
      PROVE  \/ phase'[n] = phase[n]
             \/ Crash(n) /\ phase'[n] = "down"
             \/ phase[n] = "down" /\ phase'[n] = "bids"
             \/ LoadBids(n) /\ phase'[n] = "asks"
             \/ LoadAsks(n) /\ phase'[n] = "loaded"
             \/ LoadFault(n) /\ phase'[n] = "failed"
             \/ phase[n] = "loaded" /\ phase'[n] = "ready"
  <2> USE DEF TypeOK
  <2>1. CASE Boot(m)
    BY <2>1 DEF Boot
  <2>2. CASE LoadBids(m)
    <3>1. phase' = [phase EXCEPT ![m] = "asks"]
      BY <2>2 DEF LoadBids
    <3> QED
      BY <2>2, <3>1
  <2>3. CASE LoadAsks(m)
    <3>1. phase' = [phase EXCEPT ![m] = "loaded"]
      BY <2>3 DEF LoadAsks
    <3> QED
      BY <2>3, <3>1
  <2>4. CASE LoadFault(m)
    <3>1. phase' = [phase EXCEPT ![m] = "failed"]
      BY <2>4 DEF LoadFault
    <3> QED
      BY <2>4, <3>1
  <2>5. CASE Ready(m)
    BY <2>5 DEF Ready
  <2>6. CASE Crash(m)
    <3>1. phase' = [phase EXCEPT ![m] = "down"]
      BY <2>6 DEF Crash
    <3> QED
      BY <2>6, <3>1
  <2> QED
    BY <1>2, <2>1, <2>2, <2>3, <2>4, <2>5, <2>6 DEF Starting
<1> QED
  BY <1>1, <1>2 DEF Next, vars, nodeVars, Validate, Onboarding, CheckExists,
     AddOrder, Insert, Announce, OnboardFault, Handling, NewOrderFromPeer,
     OrderUpdate, OrderDelist, MissingMarket, Checking, TaskRead, TaskStore,
     EmitDelist, EmitBalance, TaskFault, TaskStart, Connect, Disconnect, ChainMove

LEMMA OnboardStep ==
  ASSUME TypeOK, [Next]_vars, NEW r \in Requests
  PROVE  \/ onboard'[r] = onboard[r]
         \/ Validate(r) /\ onboard'[r] \in {"onboard", "refused"}
         \/ CheckExists(r) /\ onboard'[r] \in {"absent", "rejected"}
         \/ AddOrder(r) /\ onboard'[r] = "added"
         \/ Insert(r) /\ onboard'[r] = "stored"
         \/ Announce(r) /\ onboard'[r] = "announced"
         \/ OnboardFault(r) /\ onboard[r] = "onboard" /\ onboard'[r] = "lost"
         \/ OnboardFault(r) /\ onboard[r] = "added" /\ onboard'[r] = "failed"
         \/ /\ Crash(EntryNode[r])
            /\ onboard[r] \in InFlight
            /\ onboard'[r] = "lost"
<1>1. CASE UNCHANGED onboard
  BY <1>1
<1>2. ASSUME NEW s \in Requests, Validate(s) \/ Onboarding(s) \/ OnboardFault(s)
      PROVE  \/ onboard'[r] = onboard[r]
             \/ Validate(r) /\ onboard'[r] \in {"onboard", "refused"}
             \/ CheckExists(r) /\ onboard'[r] \in {"absent", "rejected"}
             \/ AddOrder(r) /\ onboard'[r] = "added"
             \/ Insert(r) /\ onboard'[r] = "stored"
             \/ Announce(r) /\ onboard'[r] = "announced"
             \/ OnboardFault(r) /\ onboard[r] = "onboard" /\ onboard'[r] = "lost"
             \/ OnboardFault(r) /\ onboard[r] = "added" /\ onboard'[r] = "failed"
  <2>0. onboard \in [Requests -> Progress]
    BY DEF TypeOK
  <2>1. CASE s # r
    BY <1>2, <2>0, <2>1 DEF Validate, Onboarding, CheckExists, AddOrder, Insert,
       Announce, OnboardFault
  <2>2. CASE s = r
    <3>1. Validate(r) => onboard'[r] \in {"onboard", "refused"}
      BY <2>0 DEF Validate
    <3>2. CheckExists(r) => onboard'[r] \in {"absent", "rejected"}
      BY <2>0 DEF CheckExists
    <3>3. AddOrder(r) => onboard'[r] = "added"
      BY <2>0 DEF AddOrder
    <3>4. Insert(r) => onboard'[r] = "stored"
      BY <2>0 DEF Insert
    <3>5. Announce(r) => onboard'[r] = "announced"
      BY <2>0 DEF Announce
    <3>6. OnboardFault(r) => \/ onboard[r] = "onboard" /\ onboard'[r] = "lost"
                             \/ onboard[r] = "added" /\ onboard'[r] = "failed"
      BY <2>0 DEF OnboardFault
    <3> QED
      BY <1>2, <2>2, <3>1, <3>2, <3>3, <3>4, <3>5, <3>6 DEF Onboarding
  <2> QED
    BY <2>1, <2>2
<1>3. ASSUME NEW n \in Nodes, Crash(n)
      PROVE  \/ onboard'[r] = onboard[r]
             \/ /\ Crash(EntryNode[r])
                /\ onboard[r] \in InFlight
                /\ onboard'[r] = "lost"
  <2>1. onboard'[r] = IF EntryNode[r] = n /\ onboard[r] \in InFlight
                        THEN "lost" ELSE onboard[r]
    BY <1>3 DEF Crash
  <2> QED
    BY <1>3, <2>1
<1> QED
  BY <1>1, <1>2, <1>3 DEF Next, vars, nodeVars, Handling, NewOrderFromPeer,
     OrderUpdate, OrderDelist, MissingMarket, Checking, TaskRead, TaskStore,
     EmitDelist, EmitBalance, TaskFault, TaskStart, Starting, Boot, LoadBids,
     LoadAsks, LoadFault, Ready, Connect, Disconnect, ChainMove

LEMMA StateStep ==
  ASSUME TypeOK, [Next]_vars, NEW o \in Orders
  PROVE  \/ store'[o].state = store[o].state
         \/ /\ store[o].state = "none"
            /\ store'[o].state = "OPEN"
            /\ \E r \in Requests : Insert(r) /\ OrderOf[r] = o
         \/ /\ store'[o].state = "UNFUNDED"
            /\ OrderExists(store, o)
            /\ \E t \in Tasks : /\ TaskStore(t)
                                /\ TaskOrder(t) = o
                                /\ task'[t] = [task[t] EXCEPT !.pc = "unfunded"]
<1>1. CASE UNCHANGED store
  BY <1>1
<1>2. ASSUME NEW r \in Requests, Insert(r)
      PROVE  \/ store'[o].state = store[o].state
             \/ /\ store[o].state = "none"
                /\ store'[o].state = "OPEN"
                /\ OrderOf[r] = o
  BY <1>2 DEF Insert, InsertOrder, OrderExists, TypeOK, Stores
<1>3. ASSUME NEW t \in Tasks, TaskStore(t)
      PROVE  \/ store'[o].state = store[o].state
             \/ /\ store'[o].state = "UNFUNDED"
                /\ OrderExists(store, o)
                /\ TaskOrder(t) = o
                /\ task'[t] = [task[t] EXCEPT !.pc = "unfunded"]
  <2>1. store[o] \in Records \cup {NoRecord}
    BY DEF TypeOK, Stores
  <2>2. CASE store' = UpdateVolume(store, TaskOrder(t), task[t].volume)
    BY <2>1, <2>2 DEF UpdateVolume, OrderExists, TypeOK, Stores, Records, NoRecord
  <2>3. CASE /\ store' = MarkUnfunded(store, TaskOrder(t), task[t].volume)
             /\ task' = [task EXCEPT ![t].pc = "unfunded"]
    <3>1. CASE TaskOrder(t) = o
      BY <2>3, <3>1 DEF MarkUnfunded, OrderExists, TypeOK, Stores
    <3>2. CASE TaskOrder(t) # o
      BY <2>3, <3>2 DEF MarkUnfunded, OrderExists, TypeOK, Stores
    <3> QED
      BY <3>1, <3>2
  <2> QED
    BY <1>3, <2>2, <2>3 DEF TaskStore
<1> QED
  BY <1>1, <1>2, <1>3 DEF Next, vars, nodeVars, Validate, Onboarding, CheckExists,
     AddOrder, Announce, OnboardFault, Handling, NewOrderFromPeer, OrderUpdate,
     OrderDelist, MissingMarket, Checking, TaskRead, EmitDelist, EmitBalance,
     TaskFault, TaskStart, Starting, Boot, LoadBids, LoadAsks, LoadFault, Ready,
     Crash, Connect, Disconnect, ChainMove

\* An object gets into a book by the handler of its submission, by the news of
\* a peer, or when the node loads the open orders of one side.
LEMMA EnterStep ==
  ASSUME TypeOK, [Next]_vars, NEW n \in Nodes, NEW x \in book'[n], x \notin book[n]
  PROVE  \/ x \in Requests /\ AddOrder(x) /\ EntryNode[x] = n
         \/ \E p \in Nodes : NewOrderFromPeer(n, p) /\ x = Head(queue[n][p]).object
         \/ LoadBids(n) /\ x \in LoadOrders(store, Bids)
         \/ LoadAsks(n) /\ x \in LoadOrders(store, Asks)
<1> USE DEF TypeOK
<1>1. ASSUME NEW r \in Requests, AddOrder(r)
      PROVE  x \in Requests /\ AddOrder(x) /\ EntryNode[x] = n
  <2>1. book' = [book EXCEPT ![EntryNode[r]] = @ \cup {r}]
    BY <1>1 DEF AddOrder, Added
  <2>2. x = r /\ EntryNode[r] = n
    BY <2>1
  <2> QED
    BY <1>1, <2>2
<1>2. ASSUME NEW m \in Nodes, NEW p \in Nodes, NewOrderFromPeer(m, p)
      PROVE  NewOrderFromPeer(n, p) /\ x = Head(queue[n][p]).object
  <2>1. book' = [book EXCEPT ![m] = @ \cup {Head(queue[m][p]).object}]
    BY <1>2 DEF NewOrderFromPeer, Added
  <2>2. m = n /\ x = Head(queue[m][p]).object
    BY <2>1
  <2> QED
    BY <1>2, <2>2
<1>3. ASSUME NEW m \in Nodes, NEW p \in Nodes, OrderDelist(m, p) PROVE FALSE
  BY <1>3 DEF OrderDelist, DelistOrder
<1>4. ASSUME NEW m \in Nodes, LoadBids(m)
      PROVE  LoadBids(n) /\ x \in LoadOrders(store, Bids)
  <2>1. book' = [book EXCEPT ![m] = @ \cup LoadOrders(store, Bids)]
    BY <1>4 DEF LoadBids, Loaded
  <2>2. m = n /\ x \in LoadOrders(store, Bids)
    BY <2>1
  <2> QED
    BY <1>4, <2>2
<1>5. ASSUME NEW m \in Nodes, LoadAsks(m)
      PROVE  LoadAsks(n) /\ x \in LoadOrders(store, Asks)
  <2>1. book' = [book EXCEPT ![m] = @ \cup LoadOrders(store, Asks)]
    BY <1>5 DEF LoadAsks, Loaded
  <2>2. m = n /\ x \in LoadOrders(store, Asks)
    BY <2>1
  <2> QED
    BY <1>5, <2>2
<1>6. ASSUME NEW m \in Nodes, LoadFault(m) \/ Crash(m) PROVE FALSE
  BY <1>6 DEF LoadFault, Crash
<1> QED
  BY <1>1, <1>2, <1>3, <1>4, <1>5, <1>6 DEF Next, vars, nodeVars, Validate,
     Onboarding, CheckExists, Insert, Announce, OnboardFault, Handling, OrderUpdate,
     MissingMarket, Checking, TaskRead, TaskStore, EmitDelist, EmitBalance,
     TaskFault, TaskStart, Starting, Boot, Ready, Connect, Disconnect, ChainMove

\* An object leaves a book by an ORDER_DELIST, or when the node stops or fails
\* to load the market.
LEMMA LeaveStep ==
  ASSUME TypeOK, [Next]_vars, NEW n \in Nodes, NEW x \in book[n] \ book'[n]
  PROVE  \/ \E p \in Nodes : OrderDelist(n, p)
         \/ LoadFault(n) /\ phase'[n] = "failed"
         \/ Crash(n) /\ phase'[n] = "down"
<1>1. CASE phase[n] = "ready" /\ phase'[n] = "ready"
  BY <1>1, DelistStep
<1> USE DEF TypeOK
<1>2. ASSUME NEW r \in Requests, AddOrder(r) PROVE FALSE
  BY <1>2 DEF AddOrder, Added
<1>3. ASSUME NEW m \in Nodes, NEW p \in Nodes, NewOrderFromPeer(m, p) PROVE FALSE
  BY <1>3 DEF NewOrderFromPeer, Added
<1>4. ASSUME NEW m \in Nodes, NEW p \in Nodes, OrderDelist(m, p) PROVE m = n
  <2>1. PICK y : book' = [book EXCEPT ![m] = @ \ {y}]
    BY <1>4 DEF OrderDelist, DelistOrder
  <2> QED
    BY <2>1
<1>5. ASSUME NEW m \in Nodes, LoadBids(m) \/ LoadAsks(m) PROVE FALSE
  <2>1. PICK orders : Loaded(m, orders)
    BY <1>5 DEF LoadBids, LoadAsks
  <2> QED
    BY <2>1 DEF Loaded
<1>6. ASSUME NEW m \in Nodes, LoadFault(m)
      PROVE  LoadFault(n) /\ phase'[n] = "failed"
  <2>1. /\ book' = [book EXCEPT ![m] = {}]
        /\ phase' = [phase EXCEPT ![m] = "failed"]
    BY <1>6 DEF LoadFault
  <2> QED
    BY <1>6, <2>1
<1>7. ASSUME NEW m \in Nodes, Crash(m)
      PROVE  Crash(n) /\ phase'[n] = "down"
  <2>1. /\ book' = [book EXCEPT ![m] = {}]
        /\ phase' = [phase EXCEPT ![m] = "down"]
    BY <1>7 DEF Crash
  <2> QED
    BY <1>7, <2>1
<1> QED
  BY <1>1, <1>2, <1>3, <1>4, <1>5, <1>6, <1>7 DEF Next, vars, nodeVars, Validate,
     Onboarding, CheckExists, Insert, Announce, OnboardFault, Handling, OrderUpdate,
     MissingMarket, Checking, TaskRead, TaskStore, EmitDelist, EmitBalance,
     TaskFault, TaskStart, Starting, Boot, Ready, Connect, Disconnect, ChainMove

\* A check in flight keeps its node and its object until it ends.
LEMMA CheckStep ==
  ASSUME TypeOK, [Next]_vars, NEW t \in Tasks
  PROVE  \/ task'[t] = task[t]
         \/ /\ task'[t].pc # "idle"
            /\ task[t].pc \in {"started", "read"}
            /\ task'[t].object = task[t].object
            /\ task'[t].node = task[t].node
         \/ EmitDelist(t) /\ task'[t] = NoTask
         \/ task'[t] = NoTask /\ task[t].pc # "unfunded"
         \/ Crash(task[t].node) /\ task'[t] = NoTask
         \/ /\ \E n, w \in Nodes, x \in Objects :
                 TaskStart(t, n, w, x) /\ task'[t].object = x /\ task'[t].node = w
            /\ task[t] = NoTask
<1> USE DEF TypeOK
<1>1. CASE UNCHANGED task
  BY <1>1
<1>2. ASSUME NEW s \in Tasks, TaskRead(s) \/ TaskStore(s)
      PROVE  \/ task'[t] = task[t]
             \/ /\ task'[t].pc # "idle"
                /\ task[t].pc \in {"started", "read"}
                /\ task'[t].object = task[t].object
                /\ task'[t].node = task[t].node
  <2>1. CASE s = t
    <3>1. task[t] \in ActiveTasks /\ task[t].pc \in {"started", "read"}
      BY <1>2, <2>1, ActiveTask DEF TaskRead, TaskStore
    <3>2. \/ task'[t] = [task[t] EXCEPT !.pc = "read", !.volume = available[TaskOrder(t)]]
          \/ task'[t] = [task[t] EXCEPT !.pc = "unfunded"]
          \/ task'[t] = [task[t] EXCEPT !.pc = "funded"]
      BY <1>2, <2>1 DEF TaskRead, TaskStore
    <3> QED
      BY <3>1, <3>2 DEF ActiveTasks
  <2>2. CASE s # t
    BY <1>2, <2>2 DEF TaskRead, TaskStore
  <2> QED
    BY <2>1, <2>2
<1>3. ASSUME NEW s \in Tasks, EmitDelist(s)
      PROVE  task'[t] = task[t] \/ (EmitDelist(t) /\ task'[t] = NoTask)
  <2>1. task' = [task EXCEPT ![s] = NoTask]
    BY <1>3 DEF EmitDelist
  <2> QED
    BY <1>3, <2>1
<1>4. ASSUME NEW s \in Tasks, EmitBalance(s) \/ TaskFault(s)
      PROVE  task'[t] = task[t] \/ (task'[t] = NoTask /\ task[t].pc # "unfunded")
  BY <1>4 DEF EmitBalance, TaskFault
<1>5. ASSUME NEW s \in Tasks, NEW n \in Nodes, NEW w \in Nodes, NEW x \in Objects,
             TaskStart(s, n, w, x)
      PROVE  \/ task'[t] = task[t]
             \/ /\ TaskStart(t, n, w, x)
                /\ task'[t].object = x
                /\ task'[t].node = w
                /\ task[t] = NoTask
  <2>1. CASE s = t
    <3>1. task'[t] = [pc |-> "started", node |-> w, object |-> x, local |-> w = n,
                      seen |-> IF w = n THEN 0 ELSE remaining[n][x], volume |-> 0]
      BY <1>5, <2>1 DEF TaskStart
    <3>2. task[t] = NoTask
      BY <1>5, <2>1 DEF TaskStart
    <3> QED
      BY <1>5, <2>1, <3>1, <3>2
  <2>2. CASE s # t
    BY <1>5, <2>2 DEF TaskStart
  <2> QED
    BY <2>1, <2>2
<1>6. ASSUME NEW n \in Nodes, Crash(n)
      PROVE  task'[t] = task[t] \/ (Crash(task[t].node) /\ task'[t] = NoTask)
  <2>1. task'[t] = IF task[t].node = n THEN NoTask ELSE task[t]
    BY <1>6 DEF Crash
  <2> QED
    BY <1>6, <2>1
<1>7. \/ UNCHANGED task
      \/ \E s \in Tasks : \/ TaskRead(s) \/ TaskStore(s)
                          \/ EmitDelist(s)
                          \/ EmitBalance(s) \/ TaskFault(s)
      \/ \E s \in Tasks, n, w \in Nodes, x \in Objects : TaskStart(s, n, w, x)
      \/ \E n \in Nodes : Crash(n)
  BY DEF Next, vars, nodeVars, Validate, Onboarding, CheckExists, AddOrder, Insert,
     Announce, OnboardFault, Handling, NewOrderFromPeer, OrderUpdate, OrderDelist,
     MissingMarket, Checking, Starting, Boot, LoadBids, LoadAsks, LoadFault, Ready,
     Connect, Disconnect, ChainMove
<1>8. ASSUME NEW s \in Tasks, NEW n \in Nodes, NEW w \in Nodes, NEW x \in Objects,
             TaskStart(s, n, w, x)
      PROVE  \/ task'[t] = task[t]
             \/ /\ \E m, v \in Nodes, y \in Objects :
                     TaskStart(t, m, v, y) /\ task'[t].object = y /\ task'[t].node = v
                /\ task[t] = NoTask
  BY <1>5, <1>8
<1> QED
  BY <1>1, <1>2, <1>3, <1>4, <1>6, <1>7, <1>8
-----------------------------------------------------------------------------
(***************************************************************************)
(* No open order gets lost.                                                *)
(***************************************************************************)
\* A handler of ObNewOrderHandler goes on from whenReady only, and its node
\* stays ready as long as the handler lives.
HandlersNeedReady ==
    \A r \in Requests :
        onboard[r] \in {"absent", "added", "stored"} => phase[EntryNode[r]] = "ready"

AddedIsListed ==
    \A r \in Requests :
        onboard[r] = "added" => \/ OrderOf[r] \in Listed(EntryNode[r])
                                \/ Closed(OrderOf[r])

\* The side of o is loaded on n.
SideLoaded(n, o) ==
    phase[n] \in Serving \/ (phase[n] = "asks" /\ o \in Bids)

OpenAreListed ==
    \A n \in Nodes : \A o \in Orders :
        /\ Nodes = {n}
        /\ SideLoaded(n, o)
        /\ store[o].state = "OPEN"
        /\ ~FailedInsert(o)
        => o \in Listed(n)

OpenInv ==
    /\ DelistInv
    /\ HandlersNeedReady
    /\ AddedIsListed
    /\ OpenAreListed

LEMMA HandlersNeedReadyNext ==
  ASSUME TypeOK, HandlersNeedReady, [Next]_vars
  PROVE  HandlersNeedReady'
<1> SUFFICES ASSUME NEW r \in Requests, NEW n \in Nodes, n = EntryNode[r],
                    onboard'[r] \in {"absent", "added", "stored"}
             PROVE  phase'[n] = "ready"
  BY ClusterAssumption DEF HandlersNeedReady, ClusterAssumption
<1>1. phase[n] = "ready"
  <2>1. \/ onboard'[r] = onboard[r]
        \/ CheckExists(r) \/ AddOrder(r) \/ Insert(r)
    BY OnboardStep
  <2>2. CheckExists(r) => phase[n] = "ready"
    BY DEF CheckExists
  <2>3. AddOrder(r) => onboard[r] = "absent"
    BY DEF AddOrder
  <2>4. Insert(r) => onboard[r] = "added"
    BY DEF Insert
  <2> QED
    BY <2>1, <2>2, <2>3, <2>4 DEF HandlersNeedReady
<1>2. ~Crash(n)
  BY DEF Crash, InFlight
<1>3. ~LoadBids(n) /\ ~LoadAsks(n) /\ ~LoadFault(n)
  BY <1>1 DEF LoadBids, LoadAsks, LoadFault
<1> QED
  BY <1>1, <1>2, <1>3, PhaseStep

\* An object that leaves the book of a node that is up carries a closed order.
LEMMA LeavingIsClosed ==
  ASSUME DelistInv, [Next]_vars, NEW n \in Nodes, NEW x \in book[n] \ book'[n],
         \A a, b \in Orders : Level[a] = Level[b] => a = b,
         phase'[n] \notin {"failed", "down"}
  PROVE  Closed(HashOf(x)) /\ Closed(HashOf(x))'
<1>1. TypeOK
  BY DEF DelistInv, StoredInv
<1>2. PICK p \in Nodes : OrderDelist(n, p)
  BY <1>1, LeaveStep
<1>3. Closed(HashOf(x))
  BY <1>2, DelistedIsClosed
<1>4. x \in Objects
  BY <1>1 DEF TypeOK
<1> QED
  BY <1>1, <1>3, <1>4, HashIsOrder, ClosedStays

LEMMA AddedIsListedNext ==
  ASSUME DelistInv, HandlersNeedReady, AddedIsListed, [Next]_vars,
         \A a, b \in Orders : Level[a] = Level[b] => a = b
  PROVE  AddedIsListed'
<1>1. TypeOK
  BY DEF DelistInv, StoredInv
<1> SUFFICES ASSUME NEW r \in Requests, NEW n \in Nodes, n = EntryNode[r],
                    NEW o \in Orders, o = OrderOf[r],
                    onboard'[r] = "added"
             PROVE  o \in Listed(n)' \/ Closed(o)'
  BY ClusterAssumption DEF AddedIsListed, ClusterAssumption, Listed, Closed, FailedInsert
<1>2. phase'[n] = "ready"
  BY <1>1, HandlersNeedReadyNext DEF HandlersNeedReady
<1>3. CASE AddOrder(r)
  <2>1. r \in book'[n]
    BY <1>1, <1>3 DEF AddOrder, Added, TypeOK
  <2>2. HashOf(r) = o
    BY DEF HashOf
  <2> QED
    BY <2>1, <2>2 DEF Listed
<1>4. CASE onboard[r] = "added"
  <2>1. CASE Closed(o)
    BY <1>1, <2>1, ClosedStays
  <2>2. CASE o \in Listed(n)
    <3>1. PICK x \in book[n] : HashOf(x) = o
      BY <2>2 DEF Listed
    <3>2. CASE x \in book'[n]
      BY <3>1, <3>2 DEF Listed
    <3>3. CASE x \notin book'[n]
      BY <1>2, <3>1, <3>3, LeavingIsClosed
    <3> QED
      BY <3>2, <3>3
  <2> QED
    BY <1>4, <2>1, <2>2 DEF AddedIsListed
<1> QED
  BY <1>1, <1>3, <1>4, OnboardStep

LEMMA OpenAreListedNext ==
  ASSUME DelistInv, HandlersNeedReady, AddedIsListed, OpenAreListed, [Next]_vars,
         \A a, b \in Orders : Level[a] = Level[b] => a = b
  PROVE  OpenAreListed'
<1>1. TypeOK
  BY DEF DelistInv, StoredInv
<1> SUFFICES ASSUME NEW n \in Nodes, NEW o \in Orders, Nodes = {n},
                    SideLoaded(n, o)', store'[o].state = "OPEN", ~FailedInsert(o)'
             PROVE  o \in Listed(n)'
  BY DEF OpenAreListed
<1>2. ~FailedInsert(o)
  BY <1>1, FailedStays
<1>3. phase'[n] \notin {"failed", "down"}
  BY DEF SideLoaded, Serving
<1>4. ~Closed(o)'
  BY DEF Closed
<1>5. ASSUME NEW x \in book[n], HashOf(x) = o PROVE o \in Listed(n)'
  BY <1>3, <1>4, <1>5, LeavingIsClosed DEF Listed
<1>6. o \in Listed(n) => o \in Listed(n)'
  BY <1>5 DEF Listed
<1>7. CASE store[o].state = "OPEN" /\ SideLoaded(n, o)
  BY <1>2, <1>6, <1>7 DEF OpenAreListed
<1>8. CASE store[o].state = "OPEN" /\ ~SideLoaded(n, o)
  <2>1. o \in book'[n]
    <3>1. LoadBids(n) /\ o \in Bids => o \in book'[n]
      BY <1>1, <1>8 DEF LoadBids, Loaded, LoadOrders, TypeOK
    <3>2. LoadAsks(n) /\ o \in Asks => o \in book'[n]
      BY <1>1, <1>8 DEF LoadAsks, Loaded, LoadOrders, TypeOK
    <3>3. LoadAsks(n) => phase[n] = "asks"
      BY DEF LoadAsks
    <3> QED
      BY <1>1, <1>8, <3>1, <3>2, <3>3, PhaseStep DEF SideLoaded, Serving, Bids
  <2>2. HashOf(o) = o
    BY ClusterAssumption DEF HashOf, ClusterAssumption
  <2> QED
    BY <2>1, <2>2 DEF Listed
<1>9. CASE store[o].state # "OPEN"
  <2>1. PICK r \in Requests : Insert(r) /\ OrderOf[r] = o
    BY <1>1, <1>9, StateStep
  <2>2. onboard[r] = "added" /\ store[o].state # "UNFUNDED"
    BY <1>1, <2>1, StoreGrows DEF Insert
  <2>3. EntryNode[r] = n
    BY ClusterAssumption DEF ClusterAssumption
  <2>4. o \in Listed(n)
    BY <1>2, <2>1, <2>2, <2>3 DEF AddedIsListed, Closed
  <2> QED
    BY <1>6, <2>4
<1> QED
  BY <1>7, <1>8, <1>9

\* No open order gets lost: an all-in-one node that is ready lists each order
\* that is OPEN in the database, whichever submissions, checks, delistings,
\* faults and restarts interleave.  It holds if no two orders share a side and
\* a price and inserts are prompt: OrderDelistHandler then takes closed orders
\* out only, and a record is OPEN only after addOrder.
THEOREM OpenListed ==
  ASSUME PromptWrites, \A a, b \in Orders : Level[a] = Level[b] => a = b
  PROVE  Spec => []OpenOrdersListed
<1>1. Init => OpenInv
  <2> SUFFICES ASSUME Init PROVE OpenInv
    OBVIOUS
  <2>1. HandlersNeedReady /\ AddedIsListed
    BY DEF Init, HandlersNeedReady, AddedIsListed
  <2>2. OpenAreListed
    BY DEF Init, OpenAreListed, EmptyStore, NoRecord
  <2> QED
    BY <2>1, <2>2, DelistInvInit DEF OpenInv
<1>2. OpenInv /\ [Next]_vars => OpenInv'
  <2> SUFFICES ASSUME OpenInv, [Next]_vars PROVE OpenInv'
    OBVIOUS
  <2>1. DelistInv' /\ TypeOK
    BY DelistInvNext DEF OpenInv, DelistInv, StoredInv
  <2> QED
    BY <2>1, HandlersNeedReadyNext, AddedIsListedNext, OpenAreListedNext DEF OpenInv
<1>3. OpenInv => OpenOrdersListed
  BY DEF OpenInv, OpenAreListed, OpenOrdersListed, SideLoaded, Serving
<1> QED
  BY <1>1, <1>2, <1>3, PTL DEF Spec
-----------------------------------------------------------------------------
(***************************************************************************)
(* How the events that wait on a node change in one step.                  *)
(***************************************************************************)
LEMMA AppendAt ==
  ASSUME NEW q \in Seq(Messages), NEW msg \in Messages
  PROVE  /\ Len(q) + 1 \in DOMAIN Append(q, msg)
         /\ Append(q, msg)[Len(q) + 1] = msg
         /\ \A j \in DOMAIN q : /\ j \in DOMAIN Append(q, msg)
                                /\ Append(q, msg)[j] = q[j]
                                /\ j < Len(q) + 1
         /\ \A j \in DOMAIN Append(q, msg) : j = Len(q) + 1 \/ j \in DOMAIN q
  OBVIOUS

LEMMA TailAt ==
  ASSUME NEW q \in Seq(Messages), q # <<>>
  PROVE  /\ 1 \in DOMAIN q
         /\ Head(q) = q[1]
         /\ \A j \in DOMAIN Tail(q) : /\ j \in Nat
                                      /\ j + 1 \in DOMAIN q
                                      /\ j + 1 # 1
                                      /\ Tail(q)[j] = q[j + 1]
         /\ \A i \in DOMAIN q : \/ i = 1
                                \/ /\ i - 1 \in DOMAIN Tail(q)
                                   /\ Tail(q)[i - 1] = q[i]
  OBVIOUS

LEMMA QueueChange ==
  ASSUME TypeOK, [Next]_vars, NEW m \in Nodes, NEW k \in Nodes
  PROVE  \/ queue'[m][k] = queue[m][k]
         \/ /\ Handling(m, k)
            /\ queue[m][k] # <<>>
            /\ queue'[m][k] = Tail(queue[m][k])
         \/ \E r \in Requests, msg \in Messages :
              /\ Announce(r) /\ EntryNode[r] = k /\ k \in sub[m]
              /\ msg.type = "accepted" /\ msg.object = r
              /\ queue'[m][k] = Append(queue[m][k], msg)
         \/ \E t \in Tasks, msg \in Messages :
              /\ EmitDelist(t)
              /\ msg.type = "delist" /\ msg.object = TaskOrder(t)
              /\ queue'[m][k] = Append(queue[m][k], msg)
         \/ \E msg \in Messages :
              /\ msg.type = "balance"
              /\ queue'[m][k] = Append(queue[m][k], msg)
         \/ Crash(m)
         \/ Disconnect(m, k)
<1>0. queue \in [Nodes -> [Nodes -> Seq(Messages)]]
  BY DEF TypeOK
<1>1. CASE UNCHANGED queue
  BY <1>1
<1>2. ASSUME NEW r \in Requests, Announce(r)
      PROVE  \/ queue'[m][k] = queue[m][k]
             \/ \E msg \in Messages :
                  /\ EntryNode[r] = k /\ k \in sub[m]
                  /\ msg.type = "accepted" /\ msg.object = r
                  /\ queue'[m][k] = Append(queue[m][k], msg)
  <2> DEFINE n == EntryNode[r]
             msg == [type |-> "accepted", object |-> r, volume |-> remaining[n][r]]
  <2>1. n \in Nodes /\ r \in Objects
    BY ClusterAssumption DEF ClusterAssumption, Objects
  <2>2. msg \in Messages /\ msg.type = "accepted" /\ msg.object = r
    BY <2>1 DEF Messages, TypeOK
  <2>3. queue' = Sent(n, msg, FALSE)
    BY <1>2 DEF Announce
  <2> HIDE DEF msg
  <2>4. \/ queue'[m][k] = queue[m][k]
        \/ n = k /\ k \in sub[m] /\ queue'[m][k] = Append(queue[m][k], msg)
    BY <2>3 DEF Sent
  <2> QED
    BY <2>2, <2>4
<1>3. ASSUME NEW t \in Tasks, EmitDelist(t)
      PROVE  \/ queue'[m][k] = queue[m][k]
             \/ \E msg \in Messages :
                  /\ msg.type = "delist" /\ msg.object = TaskOrder(t)
                  /\ queue'[m][k] = Append(queue[m][k], msg)
  <2> DEFINE msg == [type |-> "delist", object |-> TaskOrder(t), volume |-> 0]
  <2>1. task[t] \in ActiveTasks
    BY <1>3, ActiveTask DEF EmitDelist, TypeOK
  <2>2. TaskOrder(t) \in Orders
    BY <2>1, HashIsOrder DEF ActiveTasks, TaskOrder
  <2>3. msg \in Messages /\ msg.type = "delist" /\ msg.object = TaskOrder(t)
    BY <2>2 DEF Messages, Objects
  <2>4. queue' = Sent(task[t].node, msg, TRUE)
    BY <1>3 DEF EmitDelist
  <2> HIDE DEF msg
  <2>5. \/ queue'[m][k] = queue[m][k]
        \/ queue'[m][k] = Append(queue[m][k], msg)
    BY <2>4 DEF Sent
  <2> QED
    BY <2>3, <2>5
<1>4. ASSUME NEW t \in Tasks, EmitBalance(t)
      PROVE  \/ queue'[m][k] = queue[m][k]
             \/ \E msg \in Messages :
                  /\ msg.type = "balance"
                  /\ queue'[m][k] = Append(queue[m][k], msg)
  <2> DEFINE msg == [type |-> "balance", object |-> TaskOrder(t),
                     volume |-> task[t].volume]
  <2>1. task[t] \in ActiveTasks
    BY <1>4, ActiveTask DEF EmitBalance, TypeOK
  <2>2. TaskOrder(t) \in Orders /\ task[t].volume \in Nat
    BY <2>1, HashIsOrder DEF ActiveTasks, TaskOrder
  <2>3. msg \in Messages /\ msg.type = "balance"
    BY <2>2 DEF Messages, Objects
  <2>4. queue' = queue \/ queue' = Sent(task[t].node, msg, TRUE)
    BY <1>4 DEF EmitBalance
  <2> HIDE DEF msg
  <2>5. \/ queue'[m][k] = queue[m][k]
        \/ queue'[m][k] = Append(queue[m][k], msg)
    BY <2>4 DEF Sent
  <2> QED
    BY <2>3, <2>5
<1>5. ASSUME NEW n \in Nodes, NEW p \in Nodes, Handling(n, p)
      PROVE  \/ queue'[m][k] = queue[m][k]
             \/ /\ Handling(m, k)
                /\ queue[m][k] # <<>>
                /\ queue'[m][k] = Tail(queue[m][k])
  <2>1. queue[n][p] # <<>> /\ queue' = Handled(n, p)
    BY <1>5 DEF Handling, NewOrderFromPeer, OrderUpdate, OrderDelist, MissingMarket,
                HasEvent
  <2>2. CASE n = m /\ p = k
    BY <1>0, <1>5, <2>1, <2>2 DEF Handled
  <2>3. CASE ~(n = m /\ p = k)
    BY <1>0, <2>1, <2>3 DEF Handled
  <2> QED
    BY <2>2, <2>3
<1>6. ASSUME NEW n \in Nodes, Crash(n) PROVE queue'[m][k] = queue[m][k] \/ Crash(m)
  <2>1. queue' = [queue EXCEPT ![n] = [p \in Nodes |-> <<>>]]
    BY <1>6 DEF Crash
  <2> QED
    BY <1>0, <1>6, <2>1
<1>7. ASSUME NEW n \in Nodes, NEW p \in Nodes, Disconnect(n, p)
      PROVE  queue'[m][k] = queue[m][k] \/ Disconnect(m, k)
  <2>1. CASE n = m /\ p = k
    BY <1>7, <2>1
  <2>2. CASE ~(n = m /\ p = k)
    BY <1>0, <1>7, <2>2 DEF Disconnect
  <2> QED
    BY <2>1, <2>2
<1>8. \/ UNCHANGED queue
      \/ \E r \in Requests : Announce(r)
      \/ \E t \in Tasks : EmitDelist(t) \/ EmitBalance(t)
      \/ \E n, p \in Nodes : Handling(n, p) \/ Disconnect(n, p)
      \/ \E n \in Nodes : Crash(n)
  BY DEF Next, vars, nodeVars, Validate, Onboarding, CheckExists, AddOrder, Insert,
     OnboardFault, Checking, TaskRead, TaskStore, TaskFault, TaskStart, Starting,
     Boot, LoadBids, LoadAsks, LoadFault, Ready, Connect, ChainMove
<1> QED
  BY <1>1, <1>2, <1>3, <1>4, <1>5, <1>6, <1>7, <1>8

\* An announcement reaches each node that is connected to its publisher.
LEMMA AnnounceSends ==
  ASSUME TypeOK, NEW r \in Requests, Announce(r), NEW m \in Nodes,
         EntryNode[r] \in sub[m]
  PROVE  \E msg \in Messages :
           /\ msg.type = "accepted" /\ msg.object = r
           /\ queue'[m][EntryNode[r]] = Append(queue[m][EntryNode[r]], msg)
<1> DEFINE n == EntryNode[r]
           msg == [type |-> "accepted", object |-> r, volume |-> remaining[n][r]]
<1>1. n \in Nodes /\ r \in Objects
  BY ClusterAssumption DEF ClusterAssumption, Objects
<1>2. msg \in Messages /\ msg.type = "accepted" /\ msg.object = r
  BY <1>1 DEF Messages, TypeOK
<1>3. queue' = Sent(n, msg, FALSE)
  BY DEF Announce
<1> HIDE DEF msg
<1>4. queue'[m][n] = Append(queue[m][n], msg)
  BY <1>1, <1>3 DEF Sent
<1> QED
  BY <1>2, <1>4

\* A delisting reaches its own node, and each node that is connected to it;
\* no other queue changes.
LEMMA DelistSends ==
  ASSUME TypeOK, NEW t \in Tasks, EmitDelist(t), NEW m \in Nodes,
         task[t].node \in sub[m] \/ m = task[t].node
  PROVE  /\ \E msg \in Messages :
              /\ msg.type = "delist" /\ msg.object = TaskOrder(t)
              /\ queue'[m][task[t].node] = Append(queue[m][task[t].node], msg)
         /\ \A k \in Nodes : k # task[t].node => queue'[m][k] = queue[m][k]
<1> DEFINE n == task[t].node
           msg == [type |-> "delist", object |-> TaskOrder(t), volume |-> 0]
<1>1. task[t] \in ActiveTasks
  BY ActiveTask DEF EmitDelist, TypeOK
<1>2. n \in Nodes /\ TaskOrder(t) \in Orders
  BY <1>1, HashIsOrder DEF ActiveTasks, TaskOrder
<1>3. msg \in Messages /\ msg.type = "delist" /\ msg.object = TaskOrder(t)
  BY <1>2 DEF Messages, Objects
<1>4. queue' = Sent(n, msg, TRUE)
  BY DEF EmitDelist
<1> HIDE DEF msg
<1>5. queue'[m][n] = Append(queue[m][n], msg)
  BY <1>2, <1>4 DEF Sent
<1>6. \A k \in Nodes : k # n => queue'[m][k] = queue[m][k]
  BY <1>4 DEF Sent
<1> QED
  BY <1>3, <1>5, <1>6
-----------------------------------------------------------------------------
(***************************************************************************)
(* An unfunded order is on its way out.                                    *)
(***************************************************************************)
\* The handler of the submission has put its object into the book.
BeyondCheck == {"added", "stored", "announced", "failed"}

SubsAreConfigured == \A n \in Nodes : sub[n] \subseteq Subscriptions[n]

\* A node does not hear its own announcements.
NewsIsOfPeers ==
    \A n, p \in Nodes : \A i \in DOMAIN queue[n][p] :
        queue[n][p][i].type = "accepted" => p # n

FailedIsEmpty == \A n \in Nodes : phase[n] = "failed" => book[n] = {}

RequestsAreReady(n) ==
    \A x \in book[n] : x \in Requests => onboard[x] \in BeyondCheck /\ phase[n] = "ready"

\* An order that the node loaded has no object of a submission beside it, and
\* CheckExists keeps it so.
LoadedAlone(n) ==
    \A o \in Orders \cap book[n] : \A r \in Requests :
        OrderOf[r] = o => r \notin book[n] /\ onboard[r] # "absent"

\* Two submissions of an order passed CheckExists if one is stored when the
\* other is absent.
AbsentIsSecond ==
    \A r \in Requests : onboard[r] = "absent" /\ Stored(r) =>
        \E s \in Requests : /\ s # r
                            /\ OrderOf[s] = OrderOf[r]
                            /\ onboard[s] \in {"stored", "announced"}

UnfundedPending(n) ==
    \A o \in Listed(n) :
        store[o].state = "UNFUNDED" /\ AddedOnce(o) => DelistPending(n, o)

OutInv ==
    /\ StoredInv
    /\ HandlersNeedReady
    /\ SubsAreConfigured
    /\ NewsIsOfPeers
    /\ FailedIsEmpty
    /\ \A n \in Nodes : Nodes = {n} =>
         /\ RequestsAreReady(n)
         /\ LoadedAlone(n)
         /\ AbsentIsSecond
         /\ UnfundedPending(n)

LEMMA BeyondStep ==
  ASSUME TypeOK, [Next]_vars, NEW r \in Requests
  PROVE  /\ onboard[r] = "announced" => onboard'[r] = "announced"
         /\ onboard[r] = "failed" => onboard'[r] = "failed"
         /\ onboard[r] = "stored" =>
              onboard'[r] \in {"stored", "announced"} \/ Crash(EntryNode[r])
         /\ onboard[r] = "added" =>
              onboard'[r] \in {"added", "stored", "failed"} \/ Crash(EntryNode[r])
  BY OnboardStep DEF Validate, CheckExists, AddOrder, Insert, Announce, OnboardFault,
     InFlight

\* Who added an order once has added it once before.
LEMMA AddedOnceBefore ==
  ASSUME TypeOK, [Next]_vars, NEW o \in Orders, AddedOnce(o)',
         \A n \in Nodes : ~Crash(n)
  PROVE  AddedOnce(o)
<1>1. \A r \in Requests : onboard[r] \in BeyondCheck => onboard'[r] \in BeyondCheck
  BY BeyondStep, ClusterAssumption DEF ClusterAssumption, BeyondCheck
<1> QED
  BY <1>1 DEF AddedOnce, BeyondCheck

LEMMA HandlingHead ==
  ASSUME NEW n \in Nodes, NEW p \in Nodes, Handling(n, p)
  PROVE  /\ phase[n] \in {"ready", "failed"}
         /\ phase[n] = "ready" /\ Head(queue[n][p]).type = "accepted"
              => NewOrderFromPeer(n, p)
         /\ phase[n] = "ready" /\ Head(queue[n][p]).type = "delist"
              => OrderDelist(n, p)
  BY DEF Handling, NewOrderFromPeer, OrderUpdate, OrderDelist, MissingMarket, HasEvent

LEMMA SubsAreConfiguredNext ==
  ASSUME TypeOK, SubsAreConfigured, [Next]_vars
  PROVE  SubsAreConfigured'
<1> USE DEF TypeOK, SubsAreConfigured
<1>1. CASE UNCHANGED sub
  BY <1>1
<1>2. ASSUME NEW n \in Nodes, NEW p \in Nodes, Connect(n, p) PROVE SubsAreConfigured'
  BY <1>2 DEF Connect
<1>3. ASSUME NEW n \in Nodes, NEW p \in Nodes, Disconnect(n, p) PROVE SubsAreConfigured'
  BY <1>3 DEF Disconnect
<1>4. ASSUME NEW n \in Nodes, Crash(n) PROVE SubsAreConfigured'
  BY <1>4 DEF Crash
<1> QED
  BY <1>1, <1>2, <1>3, <1>4 DEF Next, vars, nodeVars, Validate, Onboarding,
     CheckExists, AddOrder, Insert, Announce, OnboardFault, Handling,
     NewOrderFromPeer, OrderUpdate, OrderDelist, MissingMarket, Checking, TaskRead,
     TaskStore, EmitDelist, EmitBalance, TaskFault, TaskStart, Starting, Boot,
     LoadBids, LoadAsks, LoadFault, Ready, ChainMove

LEMMA NewsIsOfPeersNext ==
  ASSUME TypeOK, SubsAreConfigured, NewsIsOfPeers, [Next]_vars
  PROVE  NewsIsOfPeers'
<1> SUFFICES ASSUME NEW n \in Nodes, NEW p \in Nodes, NEW i \in DOMAIN queue'[n][p],
                    queue'[n][p][i].type = "accepted", p = n
             PROVE  FALSE
  BY DEF NewsIsOfPeers
<1>1. ASSUME NEW j \in DOMAIN queue[n][p], queue'[n][p][i] = queue[n][p][j] PROVE FALSE
  BY <1>1 DEF NewsIsOfPeers
<1>2. queue[n][p] \in Seq(Messages)
  BY DEF TypeOK
<1>3. CASE queue'[n][p] = queue[n][p]
  BY <1>1, <1>3
<1>4. CASE queue[n][p] # <<>> /\ queue'[n][p] = Tail(queue[n][p])
  BY <1>1, <1>2, <1>4, TailAt
<1>5. ASSUME NEW msg \in Messages, queue'[n][p] = Append(queue[n][p], msg)
      PROVE  msg.type = "accepted"
  <2>1. i = Len(queue[n][p]) + 1 \/ i \in DOMAIN queue[n][p]
    BY <1>2, <1>5, AppendAt
  <2> QED
    BY <1>1, <1>2, <1>5, <2>1, AppendAt
<1>6. p \notin sub[n]
  BY ClusterAssumption DEF SubsAreConfigured, ClusterAssumption
<1>7. ~Disconnect(n, p)
  BY <1>6 DEF Disconnect
<1>8. CASE Crash(n)
  <2>1. queue'[n][p] = <<>>
    BY <1>8 DEF Crash, TypeOK
  <2> QED
    BY <2>1
<1> QED
  BY <1>3, <1>4, <1>5, <1>6, <1>7, <1>8, QueueChange

LEMMA FailedIsEmptyNext ==
  ASSUME TypeOK, HandlersNeedReady, FailedIsEmpty, [Next]_vars
  PROVE  FailedIsEmpty'
<1> SUFFICES ASSUME NEW n \in Nodes, phase'[n] = "failed", NEW x \in book'[n]
             PROVE  FALSE
  BY DEF FailedIsEmpty
<1>1. CASE LoadFault(n)
  BY <1>1 DEF LoadFault, TypeOK
<1>2. CASE phase[n] = "failed"
  <2>1. book[n] = {}
    BY <1>2 DEF FailedIsEmpty
  <2>2. x \in Requests /\ AddOrder(x) /\ EntryNode[x] = n => FALSE
    BY <1>2 DEF AddOrder, HandlersNeedReady
  <2>3. ASSUME NEW p \in Nodes PROVE ~NewOrderFromPeer(n, p)
    BY <1>2 DEF NewOrderFromPeer, HasEvent
  <2>4. ~LoadBids(n) /\ ~LoadAsks(n)
    BY <1>2 DEF LoadBids, LoadAsks
  <2> QED
    BY <2>1, <2>2, <2>3, <2>4, EnterStep
<1> QED
  BY <1>1, <1>2, PhaseStep

\* On a node without peers, an object gets into the book by the handler of its
\* submission or by a load.
LEMMA EnterAlone ==
  ASSUME TypeOK, NewsIsOfPeers, [Next]_vars, NEW n \in Nodes, Nodes = {n},
         NEW x \in book'[n], x \notin book[n]
  PROVE  \/ x \in Requests /\ AddOrder(x)
         \/ /\ LoadBids(n) \/ LoadAsks(n)
            /\ x \in Orders /\ store[x].state = "OPEN" /\ UNCHANGED store
<1>1. ASSUME NEW p \in Nodes, NewOrderFromPeer(n, p) PROVE FALSE
  <2>1. queue[n][p] \in Seq(Messages) /\ queue[n][p] # <<>>
    BY <1>1 DEF TypeOK, NewOrderFromPeer, HasEvent
  <2>2. 1 \in DOMAIN queue[n][p] /\ Head(queue[n][p]) = queue[n][p][1]
    BY <2>1, TailAt
  <2> QED
    BY <1>1, <2>2 DEF NewOrderFromPeer, HasEvent, NewsIsOfPeers
<1>2. LoadBids(n) \/ LoadAsks(n) => UNCHANGED store
  BY DEF LoadBids, LoadAsks
<1>3. Bids \subseteq Orders /\ Asks \subseteq Orders
  BY OrderAssumption DEF Bids, OrderAssumption
<1> QED
  BY <1>1, <1>2, <1>3, EnterStep DEF LoadOrders

LEMMA RequestsAreReadyNext ==
  ASSUME TypeOK, TypeOK', HandlersNeedReady, NewsIsOfPeers, [Next]_vars,
         NEW n \in Nodes, Nodes = {n}, RequestsAreReady(n)
  PROVE  RequestsAreReady(n)'
<1> SUFFICES ASSUME NEW r \in book'[n], r \in Requests
             PROVE  onboard'[r] \in BeyondCheck /\ phase'[n] = "ready"
  BY DEF RequestsAreReady
<1>1. EntryNode[r] = n
  BY ClusterAssumption DEF ClusterAssumption
<1>2. CASE r \in book[n]
  <2>1. onboard[r] \in BeyondCheck /\ phase[n] = "ready"
    BY <1>2 DEF RequestsAreReady
  <2>2. ~Crash(n)
    BY DEF Crash, TypeOK
  <2>3. onboard'[r] \in BeyondCheck
    BY <1>1, <2>1, <2>2, BeyondStep DEF BeyondCheck
  <2>4. ~LoadBids(n) /\ ~LoadAsks(n) /\ ~LoadFault(n)
    BY <2>1 DEF LoadBids, LoadAsks, LoadFault
  <2> QED
    BY <2>1, <2>2, <2>3, <2>4, PhaseStep
<1>3. CASE r \notin book[n]
  <2>1. AddOrder(r)
    BY <1>3, EnterAlone, ClusterAssumption DEF ClusterAssumption
  <2>2. onboard[r] = "absent" /\ onboard'[r] = "added" /\ UNCHANGED phase
    BY <2>1 DEF AddOrder, TypeOK
  <2> QED
    BY <1>1, <2>2 DEF BeyondCheck, HandlersNeedReady
<1> QED
  BY <1>2, <1>3

LEMMA LoadedAloneNext ==
  ASSUME StoredInv, TypeOK, HandlersNeedReady, NewsIsOfPeers, [Next]_vars,
         NEW n \in Nodes, Nodes = {n}, RequestsAreReady(n), LoadedAlone(n)
  PROVE  LoadedAlone(n)'
<1> SUFFICES ASSUME NEW o \in Orders, o \in book'[n], NEW r \in Requests, OrderOf[r] = o
             PROVE  r \notin book'[n] /\ onboard'[r] # "absent"
  BY DEF LoadedAlone
<1>0. EntryNode[r] = n /\ o \notin Requests /\ r \notin Orders
  BY ClusterAssumption DEF ClusterAssumption
<1>1. CASE o \in book[n]
  <2>1. r \notin book[n] /\ onboard[r] # "absent"
    BY <1>1 DEF LoadedAlone
  <2>2. ~AddOrder(r)
    BY <2>1 DEF AddOrder
  <2>3. r \notin book'[n]
    BY <1>0, <2>1, <2>2, EnterAlone
  <2>4. OrderExists(store, o)
    BY <1>0, <1>1 DEF StoredInv, BookBackedByStore, Stored, HashOf
  <2>5. CheckExists(r) => onboard'[r] = "rejected"
    BY <2>4 DEF CheckExists, TypeOK
  <2> QED
    BY <2>1, <2>3, <2>5, OnboardStep
<1>2. CASE o \notin book[n]
  <2>1. LoadBids(n) \/ LoadAsks(n)
    BY <1>0, <1>2, EnterAlone
  <2>2. phase[n] # "ready" /\ UNCHANGED onboard
    BY <2>1 DEF LoadBids, LoadAsks
  <2>3. r \notin book[n] /\ onboard[r] # "absent"
    BY <1>0, <2>2 DEF RequestsAreReady, HandlersNeedReady
  <2>4. ~AddOrder(r)
    BY <2>3 DEF AddOrder
  <2> QED
    BY <1>0, <2>2, <2>3, <2>4, EnterAlone
<1> QED
  BY <1>1, <1>2

LEMMA AbsentIsSecondNext ==
  ASSUME TypeOK, [Next]_vars, NEW n \in Nodes, Nodes = {n}, AbsentIsSecond
  PROVE  AbsentIsSecond'
<1> SUFFICES ASSUME NEW r \in Requests, onboard'[r] = "absent",
                    NEW o \in Orders, o = OrderOf[r], OrderExists(store', o)
             PROVE  \E s \in Requests : /\ s # r
                                        /\ OrderOf[s] = o
                                        /\ onboard'[s] \in {"stored", "announced"}
  BY ClusterAssumption DEF AbsentIsSecond, Stored, HashOf, ClusterAssumption
<1>1. ~CheckExists(r)
  <2>1. CheckExists(r) => OrderExists(store, o) /\ onboard'[r] =
          IF OrderExists(store, OrderOf[r]) THEN "rejected" ELSE "absent"
    BY DEF CheckExists, TypeOK
  <2> QED
    BY <2>1
<1>2. onboard[r] = "absent"
  BY <1>1, OnboardStep
<1>3. CASE OrderExists(store, o)
  <2>1. PICK s \in Requests : /\ s # r
                              /\ OrderOf[s] = o
                              /\ onboard[s] \in {"stored", "announced"}
    BY <1>2, <1>3 DEF AbsentIsSecond, Stored, HashOf
  <2>2. EntryNode[r] = n /\ EntryNode[s] = n
    BY ClusterAssumption DEF ClusterAssumption
  <2>3. ~Crash(n)
    BY <1>2, <2>2 DEF Crash, InFlight
  <2> QED
    BY <2>1, <2>2, <2>3, BeyondStep
<1>4. CASE ~OrderExists(store, o)
  <2>1. PICK s \in Requests : Insert(s) /\ OrderOf[s] = o
    BY <1>4, StateStep DEF OrderExists
  <2>2. onboard'[s] = "stored"
    BY <2>1 DEF Insert, TypeOK
  <2> QED
    BY <2>1, <2>2
<1> QED
  BY <1>3, <1>4

\* Of an order that was added once, a book holds one object.
LEMMA OneObject ==
  ASSUME TypeOK, NEW n \in Nodes, RequestsAreReady(n), LoadedAlone(n),
         NEW o \in Orders, AddedOnce(o),
         NEW x \in book[n], NEW y \in book[n], HashOf(x) = o, HashOf(y) = o
  PROVE  x = y
<1>1. x \in Objects /\ y \in Objects
  BY DEF TypeOK
<1>2. ASSUME x \in Requests, y \in Requests PROVE x = y
  BY <1>2 DEF RequestsAreReady, AddedOnce, BeyondCheck, HashOf
<1>3. ~(x \in Requests /\ y \notin Requests) /\ ~(x \notin Requests /\ y \in Requests)
  BY <1>1 DEF LoadedAlone, HashOf, Objects
<1> QED
  BY <1>2, <1>3 DEF HashOf

\* What an ORDER_DELIST takes out of a book with one object of its order.
LEMMA DelistTakesOut ==
  ASSUME TypeOK, NEW n \in Nodes, NEW p \in Nodes, OrderDelist(n, p),
         \A a, b \in Orders : Level[a] = Level[b] => a = b,
         NEW o \in Orders, Head(queue[n][p]).object = o,
         \A x, y \in book[n] : HashOf(x) = o /\ HashOf(y) = o => x = y
  PROVE  o \notin Listed(n)'
<1>1. CASE ListedAs(n, o) = {}
  BY <1>1 DEF OrderDelist, DelistOrder, ListedAs, Listed
<1>2. CASE ListedAs(n, o) # {}
  <2>1. PICK x, y : /\ x \in ListedAs(n, o)
                    /\ y \in Removable(n, x)
                    /\ book' = [book EXCEPT ![n] = @ \ {y}]
    BY <1>2 DEF OrderDelist, DelistOrder
  <2>2. x \in book[n] /\ y \in book[n] /\ HashOf(x) = o
    BY <2>1 DEF ListedAs, Removable
  <2>3. HashOf(y) = o
    BY <2>1, <2>2, HashIsOrder DEF Removable, TypeOK
  <2>4. book'[n] = book[n] \ {y}
    BY <2>1 DEF TypeOK
  <2> QED
    BY <2>2, <2>3, <2>4 DEF Listed
<1> QED
  BY <1>1, <1>2

\* An ORDER_DELIST waits until OrderDelistHandler takes it, on a node that is
\* up and keeps its connections.
LEMMA DelistWaits ==
  ASSUME TypeOK, [Next]_vars, NEW n \in Nodes, NEW p \in Nodes,
         ~Crash(n), ~Disconnect(n, p), phase[n] # "failed",
         NEW i \in DOMAIN queue[n][p], queue[n][p][i].type = "delist",
         NEW o, queue[n][p][i].object = o
  PROVE  \/ \E j \in DOMAIN queue'[n][p] :
              queue'[n][p][j].type = "delist" /\ queue'[n][p][j].object = o
         \/ OrderDelist(n, p) /\ Head(queue[n][p]).object = o
<1>1. queue[n][p] \in Seq(Messages)
  BY DEF TypeOK
<1>2. CASE queue'[n][p] = queue[n][p]
  BY <1>2
<1>3. CASE /\ Handling(n, p)
           /\ queue[n][p] # <<>>
           /\ queue'[n][p] = Tail(queue[n][p])
  <2>1. CASE i = 1
    <3>1. Head(queue[n][p]) = queue[n][p][i]
      BY <1>1, <1>3, <2>1, TailAt
    <3> QED
      BY <1>3, <3>1, HandlingHead
  <2>2. CASE i # 1
    <3>1. /\ i - 1 \in DOMAIN Tail(queue[n][p])
          /\ Tail(queue[n][p])[i - 1] = queue[n][p][i]
      BY <1>1, <1>3, <2>2, TailAt
    <3> QED
      BY <1>3, <3>1
  <2> QED
    BY <2>1, <2>2
<1>4. ASSUME NEW msg \in Messages, queue'[n][p] = Append(queue[n][p], msg)
      PROVE  \E j \in DOMAIN queue'[n][p] :
               queue'[n][p][j].type = "delist" /\ queue'[n][p][j].object = o
  BY <1>1, <1>4, AppendAt
<1> QED
  BY <1>2, <1>3, <1>4, QueueChange

LEMMA UnfundedPendingNext ==
  ASSUME OutInv, [Next]_vars, NEW n \in Nodes, Nodes = {n},
         \A a, b \in Orders : Level[a] = Level[b] => a = b
  PROVE  UnfundedPending(n)'
<1>1. /\ StoredInv /\ TypeOK /\ NewsIsOfPeers /\ RequestsAreReady(n)
      /\ LoadedAlone(n) /\ AbsentIsSecond /\ UnfundedPending(n)
  BY DEF OutInv, StoredInv
<1> SUFFICES ASSUME NEW o \in Orders, o \in Listed(n)',
                    store'[o].state = "UNFUNDED", AddedOnce(o)'
             PROVE  DelistPending(n, o)'
  <2>1. Listed(n)' \subseteq Orders
    BY <1>1, HashIsOrder, TypeNext DEF Listed, TypeOK
  <2> QED
    BY <2>1 DEF UnfundedPending
<1>2. PICK x \in book'[n] : HashOf(x) = o
  BY DEF Listed
<1>3. ~Crash(n)
  BY <1>1, <1>2 DEF Crash, TypeOK
<1>4. AddedOnce(o)
  BY <1>1, <1>3, AddedOnceBefore
<1>5. CASE store[o].state # "UNFUNDED"
  <2>1. PICK t \in Tasks : /\ TaskStore(t)
                           /\ TaskOrder(t) = o
                           /\ task'[t] = [task[t] EXCEPT !.pc = "unfunded"]
    BY <1>1, <1>5, StateStep
  <2>2. task[t] \in ActiveTasks
    BY <1>1, <2>1, ActiveTask DEF TaskStore, TypeOK
  <2>3. task'[t].pc = "unfunded" /\ HashOf(task'[t].object) = o
    BY <2>1, <2>2 DEF ActiveTasks, TaskOrder
  <2> QED
    BY <2>3 DEF DelistPending, TaskOrder
<1>6. CASE store[o].state = "UNFUNDED" /\ o \notin Listed(n)
  <2>1. x \notin book[n]
    BY <1>2, <1>6 DEF Listed
  <2>2. CASE x \in Requests /\ AddOrder(x)
    <3>1. onboard[x] = "absent" /\ onboard'[x] = "added"
      BY <1>1, <2>2 DEF AddOrder, TypeOK
    <3>2. Stored(x)
      BY <1>2, <1>6 DEF Stored, OrderExists
    <3>3. PICK s \in Requests : /\ s # x
                                /\ OrderOf[s] = OrderOf[x]
                                /\ onboard[s] \in {"stored", "announced"}
      BY <1>1, <2>2, <3>1, <3>2 DEF AbsentIsSecond
    <3>4. onboard'[s] = onboard[s]
      BY <1>1, <2>2, <3>3 DEF AddOrder, TypeOK
    <3> QED
      BY <1>2, <2>2, <3>1, <3>3, <3>4 DEF AddedOnce, HashOf
  <2>3. CASE x \in Orders /\ store[x].state = "OPEN"
    BY <1>2, <1>6, <2>3, ClusterAssumption DEF HashOf, ClusterAssumption
  <2> QED
    BY <1>1, <2>1, <2>2, <2>3, EnterAlone
<1>7. CASE store[o].state = "UNFUNDED" /\ o \in Listed(n)
  <2>1. DelistPending(n, o)
    BY <1>1, <1>4, <1>7 DEF UnfundedPending
  <2>2. ASSUME NEW t \in Tasks, task[t].pc = "unfunded", TaskOrder(t) = o
        PROVE  DelistPending(n, o)'
    <3>1. task[t] \in ActiveTasks /\ NoTask.pc # "unfunded"
      BY <1>1, <2>2, ActiveTask DEF TypeOK, NoTask
    <3>2. task[t].node = n
      BY <3>1 DEF ActiveTasks
    <3>3. CASE task'[t] = task[t]
      BY <2>2, <3>3 DEF DelistPending, TaskOrder
    <3>4. CASE EmitDelist(t)
      <4>1. PICK msg \in Messages :
              /\ msg.type = "delist" /\ msg.object = TaskOrder(t)
              /\ queue'[n][n] = Append(queue[n][n], msg)
        BY <1>1, <3>2, <3>4, DelistSends
      <4>2. queue[n][n] \in Seq(Messages)
        BY <1>1 DEF TypeOK
      <4>3. /\ Len(queue[n][n]) + 1 \in DOMAIN queue'[n][n]
            /\ queue'[n][n][Len(queue[n][n]) + 1] = msg
        BY <4>1, <4>2, AppendAt
      <4> QED
        BY <2>2, <4>1, <4>3 DEF DelistPending
    <3> QED
      BY <1>1, <1>3, <2>2, <3>1, <3>2, <3>3, <3>4, CheckStep
  <2>3. ASSUME NEW p \in Nodes, NEW i \in DOMAIN queue[n][p],
               queue[n][p][i].type = "delist", queue[n][p][i].object = o
        PROVE  DelistPending(n, o)'
    <3>1. phase[n] # "failed"
      BY <1>7 DEF OutInv, FailedIsEmpty, Listed
    <3>2. ~Disconnect(n, p)
      BY ClusterAssumption DEF Disconnect, OutInv, SubsAreConfigured, ClusterAssumption
    <3>3. ~(OrderDelist(n, p) /\ Head(queue[n][p]).object = o)
      <4>1. \A y, z \in book[n] : HashOf(y) = o /\ HashOf(z) = o => y = z
        BY <1>1, <1>4, OneObject
      <4> QED
        BY <1>1, <4>1, DelistTakesOut
    <3> QED
      BY <1>1, <1>3, <2>3, <3>1, <3>2, <3>3, DelistWaits DEF DelistPending
  <2> QED
    BY <2>1, <2>2, <2>3 DEF DelistPending
<1> QED
  BY <1>5, <1>6, <1>7

\* An order that the database holds as UNFUNDED is on its way out of the book
\* of an all-in-one node: while it is listed, an ORDER_DELIST of it is queued
\* or about to be issued, unless two racing submissions listed it twice.  It
\* needs no prompt inserts; but with two orders of one side and price, the
\* ORDER_DELIST of one may take the other out.
THEOREM UnfundedLeaves ==
  ASSUME \A a, b \in Orders : Level[a] = Level[b] => a = b
  PROVE  Spec => []UnfundedOnItsWayOut
<1>1. Init => OutInv
  <2> SUFFICES ASSUME Init PROVE OutInv
    OBVIOUS
  <2>1. HandlersNeedReady /\ FailedIsEmpty /\ SubsAreConfigured
    BY DEF Init, HandlersNeedReady, FailedIsEmpty, SubsAreConfigured
  <2>2. NewsIsOfPeers
    BY DEF Init, NewsIsOfPeers
  <2>3. ASSUME NEW n \in Nodes
        PROVE  /\ RequestsAreReady(n)
               /\ LoadedAlone(n)
               /\ AbsentIsSecond
               /\ UnfundedPending(n)
    BY DEF Init, RequestsAreReady, LoadedAlone, AbsentIsSecond, UnfundedPending, Listed
  <2> QED
    BY <2>1, <2>2, <2>3, StoredInvInit DEF OutInv
<1>2. OutInv /\ [Next]_vars => OutInv'
  <2> SUFFICES ASSUME OutInv, [Next]_vars PROVE OutInv'
    OBVIOUS
  <2>1. StoredInv /\ StoredInv' /\ TypeOK /\ TypeOK'
    BY StoredInvNext, TypeNext DEF OutInv, StoredInv
  <2>2. HandlersNeedReady' /\ SubsAreConfigured' /\ NewsIsOfPeers' /\ FailedIsEmpty'
    BY <2>1, HandlersNeedReadyNext, SubsAreConfiguredNext, NewsIsOfPeersNext,
       FailedIsEmptyNext DEF OutInv
  <2>3. ASSUME NEW n \in Nodes, Nodes = {n}
        PROVE  /\ RequestsAreReady(n)'
               /\ LoadedAlone(n)'
               /\ AbsentIsSecond'
               /\ UnfundedPending(n)'
    <3>1. /\ HandlersNeedReady /\ NewsIsOfPeers /\ RequestsAreReady(n)
          /\ LoadedAlone(n) /\ AbsentIsSecond
      BY <2>3 DEF OutInv
    <3> QED
      BY <2>1, <2>3, <3>1, RequestsAreReadyNext, LoadedAloneNext, AbsentIsSecondNext,
         UnfundedPendingNext
  <2> QED
    BY <2>1, <2>2, <2>3 DEF OutInv
<1>3. OutInv => UnfundedOnItsWayOut
  BY DEF OutInv, UnfundedPending, UnfundedOnItsWayOut
<1> QED
  BY <1>1, <1>2, <1>3, PTL DEF Spec
-----------------------------------------------------------------------------
(***************************************************************************)
(* Nodes at rest agree.                                                    *)
(***************************************************************************)
\* Every node hears of every other.
AllConnected == \A n \in Nodes : Subscriptions[n] = Nodes \ {n}

\* The check of an order runs on the node that took its submissions, or is
\* the own check of the other one of two nodes.  So whatever a check publishes
\* of the order comes over the connection that announced it, or after it.
ChecksFollowNews ==
    \A r \in Requests : \A n \in Nodes : \A w \in Runners[n] :
        \/ w = EntryNode[r]
        \/ n # EntryNode[r] /\ Nodes = {n, EntryNode[r]}

NewsAt(n, p, i, o) ==
    queue[n][p][i].type = "accepted" /\ HashOf(queue[n][p][i].object) = o

Settled(o) == \E r \in Requests : OrderOf[r] = o /\ onboard[r] = "announced"

BudgetsBounded ==
    /\ budget.crashes <= MaxCrashes
    /\ budget.drops <= MaxDrops
    /\ budget.faults <= MaxFaults

AllUp ==
    \A n \in Nodes : /\ phase[n] = "ready"
                     /\ sub[n] = Subscriptions[n]
                     /\ book[n] \subseteq Requests

NoneLost == \A r \in Requests : onboard[r] \notin {"failed", "lost"}

\* A node lists what its own handler added, or what was announced.
ListedIsAnnounced ==
    \A n \in Nodes : \A r \in Requests \cap book[n] :
        /\ onboard[r] \in BeyondCheck
        /\ n # EntryNode[r] => onboard[r] = "announced"

\* An announcement on its way comes from the node that took the submission,
\* to another one, which does not list the object yet.
NewsIsFresh ==
    \A m, p \in Nodes : \A i \in DOMAIN queue[m][p] :
        queue[m][p][i].type = "accepted" =>
            \E r \in Requests : /\ queue[m][p][i].object = r
                                /\ p = EntryNode[r] /\ m # p
                                /\ onboard[r] = "announced"
                                /\ r \notin book[m]

\* Nothing is announced twice.
OnceIn(q) ==
    \A i, j \in DOMAIN q :
        /\ q[i].type = "accepted" /\ q[j].type = "accepted"
        /\ q[i].object = q[j].object
        => i = j

NewsIsOnce == \A m, p \in Nodes : OnceIn(queue[m][p])

OwnIsListed ==
    \A r \in Requests :
        onboard[r] \in {"added", "stored", "announced"} =>
            r \in book[EntryNode[r]] \/ Closed(OrderOf[r])

\* What was announced is listed, delisted, or on its way, on each other node.
NewsGetsThrough ==
    \A r \in Requests : \A m \in Nodes :
        onboard[r] = "announced" /\ m # EntryNode[r] =>
            \/ r \in book[m]
            \/ Closed(OrderOf[r])
            \/ \E i \in DOMAIN queue[m][EntryNode[r]] :
                 /\ queue[m][EntryNode[r]][i].type = "accepted"
                 /\ queue[m][EntryNode[r]][i].object = r

RecordHasSubmission ==
    \A o \in Orders : OrderExists(store, o) =>
        \E r \in Requests : OrderOf[r] = o /\ onboard[r] \in {"stored", "announced"}

\* The announcement of an order that is checked comes from the node that
\* checks it.
CheckedIsAnnounced ==
    \A t \in Tasks : task[t].pc # "idle" /\ AddedOnce(TaskOrder(t)) =>
        /\ Settled(TaskOrder(t))
        /\ \A n, p \in Nodes : \A i \in DOMAIN queue[n][p] :
             NewsAt(n, p, i, TaskOrder(t)) => p = task[t].node

\* The ORDER_DELIST of o waits behind the announcements of o.
DelistLast(n, o) ==
    \E p \in Nodes : \E i \in DOMAIN queue[n][p] :
        /\ queue[n][p][i].type = "delist" /\ queue[n][p][i].object = o
        /\ \A q \in Nodes : \A j \in DOMAIN queue[n][q] :
             NewsAt(n, q, j, o) => q = p /\ j < i

Gone(n, o) ==
    /\ o \notin Listed(n)
    /\ \A q \in Nodes : \A j \in DOMAIN queue[n][q] : ~NewsAt(n, q, j, o)

UnfundedIsLeaving ==
    \A o \in Orders : store[o].state = "UNFUNDED" /\ AddedOnce(o) =>
        /\ Settled(o)
        /\ \/ \E t \in Tasks : task[t].pc = "unfunded" /\ TaskOrder(t) = o
           \/ \A n \in Nodes : DelistLast(n, o) \/ Gone(n, o)

Agreement ==
    /\ AllUp
    /\ NoneLost
    /\ ListedIsAnnounced
    /\ NewsIsFresh
    /\ NewsIsOnce
    /\ OwnIsListed
    /\ NewsGetsThrough
    /\ RecordHasSubmission
    /\ CheckedIsAnnounced
    /\ UnfundedIsLeaving

AgreeInv ==
    /\ DelistInv
    /\ BudgetsBounded
    /\ Undisturbed => Agreement

\* What is left of the bounds never grows, and each disturbance takes of it.
LEMMA BudgetStep ==
  ASSUME TypeOK, [Next]_vars
  PROVE  /\ budget'.crashes <= budget.crashes
         /\ budget'.drops <= budget.drops
         /\ budget'.faults <= budget.faults
         /\ \A n \in Nodes : Crash(n) => budget'.crashes < budget.crashes
         /\ \A n, p \in Nodes : Disconnect(n, p) => budget'.drops < budget.drops
         /\ \A n \in Nodes : LoadFault(n) => budget'.faults < budget.faults
         /\ \A r \in Requests : OnboardFault(r) => budget'.faults < budget.faults
<1>0. /\ budget \in Budgets
      /\ budget.crashes \in Nat /\ budget.drops \in Nat /\ budget.faults \in Nat
  BY DEF TypeOK, Budgets
<1>1. ASSUME budget' = [budget EXCEPT !.crashes = @ - 1]
      PROVE  /\ budget'.crashes = budget.crashes - 1
             /\ budget'.drops = budget.drops
             /\ budget'.faults = budget.faults
  BY <1>0, <1>1 DEF Budgets
<1>2. ASSUME budget' = [budget EXCEPT !.drops = @ - 1]
      PROVE  /\ budget'.drops = budget.drops - 1
             /\ budget'.crashes = budget.crashes
             /\ budget'.faults = budget.faults
  BY <1>0, <1>2 DEF Budgets
<1>3. ASSUME budget' = [budget EXCEPT !.faults = @ - 1]
      PROVE  /\ budget'.faults = budget.faults - 1
             /\ budget'.crashes = budget.crashes
             /\ budget'.drops = budget.drops
  BY <1>0, <1>3 DEF Budgets
<1>4. ASSUME budget' = [budget EXCEPT !.moves = @ - 1]
      PROVE  /\ budget'.crashes = budget.crashes
             /\ budget'.drops = budget.drops
             /\ budget'.faults = budget.faults
  BY <1>0, <1>4 DEF Budgets
<1>5. \A n \in Nodes : Crash(n) => budget'.crashes < budget.crashes
  BY <1>0, <1>1 DEF Crash
<1>6. \A n, p \in Nodes : Disconnect(n, p) => budget'.drops < budget.drops
  BY <1>0, <1>2 DEF Disconnect
<1>7. /\ \A n \in Nodes : LoadFault(n) => budget'.faults < budget.faults
      /\ \A r \in Requests : OnboardFault(r) => budget'.faults < budget.faults
  BY <1>0, <1>3 DEF LoadFault, OnboardFault
<1>8. \/ UNCHANGED budget
      \/ budget' = [budget EXCEPT !.crashes = @ - 1]
      \/ budget' = [budget EXCEPT !.drops = @ - 1]
      \/ budget' = [budget EXCEPT !.faults = @ - 1]
      \/ budget' = [budget EXCEPT !.moves = @ - 1]
  BY DEF Next, vars, nodeVars, Validate, Onboarding, CheckExists, AddOrder, Insert,
     Announce, OnboardFault, Handling, NewOrderFromPeer, OrderUpdate, OrderDelist,
     MissingMarket, Checking, TaskRead, TaskStore, EmitDelist, EmitBalance, TaskFault,
     TaskStart, Starting, Boot, LoadBids, LoadAsks, LoadFault, Ready, Crash, Connect,
     Disconnect, ChainMove
<1>9. /\ budget'.crashes <= budget.crashes
      /\ budget'.drops <= budget.drops
      /\ budget'.faults <= budget.faults
  BY <1>0, <1>1, <1>2, <1>3, <1>4, <1>8
<1> QED
  BY <1>5, <1>6, <1>7, <1>9

\* If nothing was lost up to a state, then nothing was up to the state before,
\* and the step between is no disturbance.
LEMMA CalmStep ==
  ASSUME AgreeInv, [Next]_vars, Undisturbed'
  PROVE  /\ TypeOK /\ StoredInv /\ DelistInv
         /\ Undisturbed /\ Agreement
         /\ \A n \in Nodes : ~Crash(n) /\ ~LoadFault(n) /\ ~LoadBids(n) /\ ~LoadAsks(n)
         /\ \A n, p \in Nodes : ~Disconnect(n, p)
         /\ \A r \in Requests : ~OnboardFault(r)
<1>1. TypeOK /\ StoredInv /\ DelistInv
  BY DEF AgreeInv, DelistInv, StoredInv
<1>2. /\ budget.crashes \in Nat /\ budget.drops \in Nat /\ budget.faults \in Nat
      /\ budget'.crashes \in Nat /\ budget'.drops \in Nat /\ budget'.faults \in Nat
  BY <1>1, TypeNext DEF TypeOK, Budgets
<1>3. MaxCrashes \in Nat /\ MaxDrops \in Nat /\ MaxFaults \in Nat
  BY ClusterAssumption DEF ClusterAssumption
<1>4. /\ Undisturbed
      /\ \A n \in Nodes : ~Crash(n) /\ ~LoadFault(n)
      /\ \A n, p \in Nodes : ~Disconnect(n, p)
      /\ \A r \in Requests : ~OnboardFault(r)
  BY <1>1, <1>2, <1>3, BudgetStep DEF AgreeInv, BudgetsBounded, Undisturbed
<1>5. Agreement
  BY <1>4 DEF AgreeInv
<1>6. \A n \in Nodes : ~LoadBids(n) /\ ~LoadAsks(n)
  BY <1>5 DEF Agreement, AllUp, LoadBids, LoadAsks
<1> QED
  BY <1>1, <1>4, <1>5, <1>6

LEMMA BudgetsBoundedNext ==
  ASSUME TypeOK, BudgetsBounded, [Next]_vars
  PROVE  BudgetsBounded'
<1>1. /\ budget.crashes \in Nat /\ budget.drops \in Nat /\ budget.faults \in Nat
      /\ budget'.crashes \in Nat /\ budget'.drops \in Nat /\ budget'.faults \in Nat
  BY TypeNext DEF TypeOK, Budgets
<1>2. MaxCrashes \in Nat /\ MaxDrops \in Nat /\ MaxFaults \in Nat
  BY ClusterAssumption DEF ClusterAssumption
<1> QED
  BY <1>1, <1>2, BudgetStep DEF BudgetsBounded

LEMMA NoneLostNext ==
  ASSUME AgreeInv, [Next]_vars, Undisturbed'
  PROVE  NoneLost'
<1> SUFFICES ASSUME NEW r \in Requests PROVE onboard'[r] \notin {"failed", "lost"}
  BY DEF NoneLost
<1>1. EntryNode[r] \in Nodes
  BY ClusterAssumption DEF ClusterAssumption
<1>2. onboard[r] \notin {"failed", "lost"} /\ ~OnboardFault(r) /\ ~Crash(EntryNode[r])
  BY <1>1, CalmStep DEF Agreement, NoneLost
<1> QED
  BY <1>2, CalmStep, OnboardStep

\* The news that a node handles is an announcement of another node, that was
\* made before.
LEMMA NewsHandled ==
  ASSUME TypeOK, NewsIsFresh, NEW n \in Nodes, NEW p \in Nodes, NewOrderFromPeer(n, p)
  PROVE  /\ 1 \in DOMAIN queue[n][p]
         /\ queue[n][p][1] = Head(queue[n][p])
         /\ queue[n][p][1].type = "accepted"
         /\ queue'[n][p] = Tail(queue[n][p])
         /\ \E r \in Requests : /\ Head(queue[n][p]).object = r
                                /\ p = EntryNode[r] /\ n # p
                                /\ onboard[r] = "announced"
<1>1. queue[n][p] \in Seq(Messages) /\ queue[n][p] # <<>>
  BY DEF TypeOK, NewOrderFromPeer, HasEvent
<1>2. 1 \in DOMAIN queue[n][p] /\ queue[n][p][1] = Head(queue[n][p])
  BY <1>1, TailAt
<1>3. queue[n][p][1].type = "accepted"
  BY <1>2 DEF NewOrderFromPeer, HasEvent
<1>4. queue'[n][p] = Tail(queue[n][p])
  BY DEF NewOrderFromPeer, Handled, TypeOK
<1> QED
  BY <1>2, <1>3, <1>4 DEF NewsIsFresh

LEMMA AllUpNext ==
  ASSUME AgreeInv, [Next]_vars, Undisturbed'
  PROVE  AllUp'
<1> SUFFICES ASSUME NEW n \in Nodes
             PROVE  /\ phase'[n] = "ready"
                    /\ sub'[n] = Subscriptions[n]
                    /\ book'[n] \subseteq Requests
  BY DEF AllUp
<1>1. TypeOK /\ AllUp /\ NewsIsFresh
  BY CalmStep DEF Agreement
<1>2. phase'[n] = "ready"
  BY <1>1, CalmStep, PhaseStep DEF AllUp
<1>3. UNCHANGED sub
  <2>1. \A m, p \in Nodes : ~Connect(m, p)
    BY <1>1 DEF Connect, AllUp
  <2> QED
    BY <2>1, CalmStep DEF Next, vars, nodeVars, Validate, Onboarding, CheckExists,
       AddOrder, Insert, Announce, OnboardFault, Handling, NewOrderFromPeer,
       OrderUpdate, OrderDelist, MissingMarket, Checking, TaskRead, TaskStore,
       EmitDelist, EmitBalance, TaskFault, TaskStart, Starting, Boot, Ready, ChainMove
<1>4. ASSUME NEW x \in book'[n] PROVE x \in Requests
  <2>1. CASE x \in book[n]
    BY <1>1, <2>1 DEF AllUp
  <2>2. CASE x \notin book[n]
    BY <1>1, <2>2, CalmStep, EnterStep, NewsHandled
  <2> QED
    BY <2>1, <2>2
<1> QED
  BY <1>1, <1>2, <1>3, <1>4 DEF AllUp

LEMMA ListedIsAnnouncedNext ==
  ASSUME AgreeInv, [Next]_vars, Undisturbed'
  PROVE  ListedIsAnnounced'
<1> SUFFICES ASSUME NEW n \in Nodes, NEW r \in Requests, r \in book'[n]
             PROVE  /\ onboard'[r] \in BeyondCheck
                    /\ n # EntryNode[r] => onboard'[r] = "announced"
  BY DEF ListedIsAnnounced
<1>1. TypeOK /\ NewsIsFresh /\ ListedIsAnnounced
  BY CalmStep DEF Agreement
<1>2. EntryNode[r] \in Nodes
  BY ClusterAssumption DEF ClusterAssumption
<1>3. CASE r \in book[n]
  BY <1>1, <1>2, <1>3, CalmStep, BeyondStep DEF ListedIsAnnounced, BeyondCheck
<1>4. CASE AddOrder(r) /\ EntryNode[r] = n
  BY <1>1, <1>4 DEF AddOrder, TypeOK, BeyondCheck
<1>5. ASSUME NEW p \in Nodes, NewOrderFromPeer(n, p), r = Head(queue[n][p]).object
      PROVE  onboard'[r] = "announced"
  BY <1>1, <1>5, NewsHandled, BeyondStep
<1> QED
  BY <1>1, <1>3, <1>4, <1>5, CalmStep, EnterStep DEF BeyondCheck

LEMMA NewsIsFreshNext ==
  ASSUME AgreeInv, [Next]_vars, Undisturbed'
  PROVE  NewsIsFresh'
<1> SUFFICES ASSUME NEW m \in Nodes, NEW p \in Nodes, NEW i \in DOMAIN queue'[m][p],
                    queue'[m][p][i].type = "accepted"
             PROVE  \E r \in Requests : /\ queue'[m][p][i].object = r
                                        /\ p = EntryNode[r] /\ m # p
                                        /\ onboard'[r] = "announced"
                                        /\ r \notin book'[m]
  BY DEF NewsIsFresh
<1>1. TypeOK /\ AllUp /\ NewsIsFresh /\ NewsIsOnce /\ ListedIsAnnounced
  BY CalmStep DEF Agreement
<1>2. queue[m][p] \in Seq(Messages)
  BY <1>1 DEF TypeOK
<1>3. ASSUME NEW j \in DOMAIN queue[m][p], queue'[m][p][i] = queue[m][p][j]
      PROVE  \E r \in Requests : /\ queue'[m][p][i].object = r
                                 /\ p = EntryNode[r] /\ m # p
                                 /\ onboard'[r] = "announced"
                                 /\ r \notin book'[m]
  <2>1. PICK r \in Requests : /\ queue[m][p][j].object = r
                              /\ p = EntryNode[r] /\ m # p
                              /\ onboard[r] = "announced"
                              /\ r \notin book[m]
    BY <1>1, <1>3 DEF NewsIsFresh
  <2>2. ~AddOrder(r)
    BY <2>1 DEF AddOrder
  <2>3. ASSUME NEW q \in Nodes, NewOrderFromPeer(m, q), r = Head(queue[m][q]).object
        PROVE  FALSE
    <3>1. /\ q = p
          /\ 1 \in DOMAIN queue[m][p]
          /\ queue[m][p][1].type = "accepted" /\ queue[m][p][1].object = r
          /\ queue'[m][p] = Tail(queue[m][p])
      <4>1. PICK s \in Requests : Head(queue[m][q]).object = s /\ q = EntryNode[s]
        BY <1>1, <2>3, NewsHandled
      <4>2. q = p
        BY <2>1, <2>3, <4>1
      <4> QED
        BY <1>1, <2>3, <4>2, NewsHandled
    <3>2. queue[m][p] # <<>>
      BY <1>2, <3>1
    <3>3. /\ i + 1 \in DOMAIN queue[m][p]
          /\ i + 1 # 1
          /\ queue'[m][p][i] = queue[m][p][i + 1]
      BY <1>2, <3>1, <3>2, TailAt
    <3>4. OnceIn(queue[m][p])
      BY <1>1 DEF NewsIsOnce
    <3> QED
      BY <1>3, <2>1, <3>1, <3>3, <3>4 DEF OnceIn
  <2>4. r \notin book'[m]
    BY <1>1, <2>1, <2>2, <2>3, CalmStep, EnterStep
  <2>5. onboard'[r] = "announced"
    BY <1>1, <2>1, BeyondStep
  <2> QED
    BY <1>3, <2>1, <2>4, <2>5
<1>4. CASE queue'[m][p] = queue[m][p]
  BY <1>3, <1>4
<1>5. CASE queue[m][p] # <<>> /\ queue'[m][p] = Tail(queue[m][p])
  <2>1. i + 1 \in DOMAIN queue[m][p] /\ queue'[m][p][i] = queue[m][p][i + 1]
    BY <1>2, <1>5, TailAt
  <2> QED
    BY <1>3, <2>1
<1>6. ASSUME NEW msg \in Messages, queue'[m][p] = Append(queue[m][p], msg),
             queue'[m][p][i] # msg
      PROVE  \E r \in Requests : /\ queue'[m][p][i].object = r
                                 /\ p = EntryNode[r] /\ m # p
                                 /\ onboard'[r] = "announced"
                                 /\ r \notin book'[m]
  <2>1. i \in DOMAIN queue[m][p] /\ queue'[m][p][i] = queue[m][p][i]
    BY <1>2, <1>6, AppendAt
  <2> QED
    BY <1>3, <2>1
<1>7. ASSUME NEW r \in Requests, NEW msg \in Messages,
             Announce(r), EntryNode[r] = p, p \in sub[m], msg.object = r
      PROVE  /\ msg.object = r
             /\ p = EntryNode[r] /\ m # p
             /\ onboard'[r] = "announced"
             /\ r \notin book'[m]
  <2>1. m # p
    BY <1>1, <1>7, ClusterAssumption DEF AllUp, ClusterAssumption
  <2>2. onboard[r] = "stored" /\ onboard'[r] = "announced" /\ UNCHANGED book
    BY <1>1, <1>7 DEF Announce, TypeOK, nodeVars
  <2> QED
    BY <1>1, <1>7, <2>1, <2>2 DEF ListedIsAnnounced
<1>8. ASSUME NEW msg \in Messages, queue'[m][p][i] = msg, msg.type # "accepted"
      PROVE  FALSE
  BY <1>8
<1> QED
  BY <1>1, <1>4, <1>5, <1>6, <1>7, <1>8, CalmStep, QueueChange

LEMMA OnceInTail ==
  ASSUME NEW q \in Seq(Messages), q # <<>>, OnceIn(q)
  PROVE  OnceIn(Tail(q))
<1> SUFFICES ASSUME NEW i \in DOMAIN Tail(q), NEW j \in DOMAIN Tail(q),
                    Tail(q)[i].type = "accepted", Tail(q)[j].type = "accepted",
                    Tail(q)[i].object = Tail(q)[j].object
             PROVE  i = j
  BY DEF OnceIn
<1>1. /\ i \in Nat /\ i + 1 \in DOMAIN q /\ Tail(q)[i] = q[i + 1]
      /\ j \in Nat /\ j + 1 \in DOMAIN q /\ Tail(q)[j] = q[j + 1]
  BY TailAt
<1>2. i + 1 = j + 1
  BY <1>1 DEF OnceIn
<1> QED
  BY <1>1, <1>2

LEMMA OnceInAppend ==
  ASSUME NEW q \in Seq(Messages), OnceIn(q), NEW msg \in Messages,
         \A j \in DOMAIN q : q[j].type = "accepted" /\ msg.type = "accepted"
                               => q[j].object # msg.object
  PROVE  OnceIn(Append(q, msg))
<1> SUFFICES ASSUME NEW i \in DOMAIN Append(q, msg), NEW j \in DOMAIN Append(q, msg),
                    Append(q, msg)[i].type = "accepted",
                    Append(q, msg)[j].type = "accepted",
                    Append(q, msg)[i].object = Append(q, msg)[j].object
             PROVE  i = j
  BY DEF OnceIn
<1>1. /\ i = Len(q) + 1 \/ i \in DOMAIN q
      /\ j = Len(q) + 1 \/ j \in DOMAIN q
      /\ Append(q, msg)[Len(q) + 1] = msg
      /\ \A k \in DOMAIN q : Append(q, msg)[k] = q[k]
  BY AppendAt
<1> QED
  BY <1>1 DEF OnceIn

LEMMA NewsIsOnceNext ==
  ASSUME AgreeInv, [Next]_vars, Undisturbed'
  PROVE  NewsIsOnce'
<1> SUFFICES ASSUME NEW m \in Nodes, NEW p \in Nodes PROVE OnceIn(queue'[m][p])
  BY DEF NewsIsOnce, OnceIn
<1>1. TypeOK /\ NewsIsFresh /\ OnceIn(queue[m][p])
  BY CalmStep DEF Agreement, NewsIsOnce
<1>2. queue[m][p] \in Seq(Messages)
  BY <1>1 DEF TypeOK
<1>3. ASSUME NEW r \in Requests, Announce(r), NEW j \in DOMAIN queue[m][p],
             queue[m][p][j].type = "accepted"
      PROVE  queue[m][p][j].object # r
  <2>1. onboard[r] = "stored"
    BY <1>3 DEF Announce
  <2> QED
    BY <1>1, <1>3, <2>1 DEF NewsIsFresh
<1>4. ASSUME NEW msg \in Messages,
             msg.type # "accepted" \/ \E r \in Requests : Announce(r) /\ msg.object = r,
             queue'[m][p] = Append(queue[m][p], msg)
      PROVE  OnceIn(queue'[m][p])
  BY <1>1, <1>2, <1>3, <1>4, OnceInAppend
<1>5. CASE queue[m][p] # <<>> /\ queue'[m][p] = Tail(queue[m][p])
  BY <1>1, <1>2, <1>5, OnceInTail
<1>6. CASE queue'[m][p] = queue[m][p]
  BY <1>1, <1>6
<1> QED
  BY <1>1, <1>4, <1>5, <1>6, CalmStep, QueueChange

\* While nothing is lost, an object leaves a book only if its order is closed.
LEMMA CalmLeaving ==
  ASSUME AgreeInv, [Next]_vars, Undisturbed', NEW n \in Nodes,
         NEW r \in Requests, r \in book[n], r \notin book'[n],
         \A a, b \in Orders : Level[a] = Level[b] => a = b
  PROVE  Closed(OrderOf[r])'
<1>1. phase'[n] \notin {"failed", "down"}
  BY AllUpNext DEF AllUp
<1>2. HashOf(r) = OrderOf[r]
  BY DEF HashOf
<1> QED
  BY <1>1, <1>2, CalmStep, LeavingIsClosed

LEMMA OwnIsListedNext ==
  ASSUME AgreeInv, [Next]_vars, Undisturbed',
         \A a, b \in Orders : Level[a] = Level[b] => a = b
  PROVE  OwnIsListed'
<1> SUFFICES ASSUME NEW r \in Requests, NEW n \in Nodes, n = EntryNode[r],
                    onboard'[r] \in {"added", "stored", "announced"}
             PROVE  r \in book'[n] \/ Closed(OrderOf[r])'
  BY ClusterAssumption DEF OwnIsListed, ClusterAssumption, Closed, FailedInsert
<1>1. TypeOK /\ OwnIsListed
  BY CalmStep DEF Agreement
<1>2. CASE AddOrder(r)
  BY <1>1, <1>2 DEF AddOrder, Added, TypeOK
<1>3. CASE onboard[r] \in {"added", "stored", "announced"}
  <2>1. OrderOf[r] \in Orders
    BY ClusterAssumption DEF ClusterAssumption
  <2>2. CASE Closed(OrderOf[r])
    BY <1>1, <2>1, <2>2, ClosedStays
  <2>3. CASE r \in book[n]
    BY <2>3, CalmLeaving
  <2> QED
    BY <1>1, <1>3, <2>2, <2>3 DEF OwnIsListed
<1>4. AddOrder(r) \/ onboard[r] \in {"added", "stored", "announced"}
  BY <1>1, OnboardStep DEF Insert, Announce
<1> QED
  BY <1>2, <1>3, <1>4

LEMMA NewsGetsThroughNext ==
  ASSUME AgreeInv, [Next]_vars, Undisturbed', AllConnected,
         \A a, b \in Orders : Level[a] = Level[b] => a = b
  PROVE  NewsGetsThrough'
<1> SUFFICES ASSUME NEW r \in Requests, NEW p \in Nodes, p = EntryNode[r],
                    NEW m \in Nodes, m # p, onboard'[r] = "announced"
             PROVE  \/ r \in book'[m]
                    \/ Closed(OrderOf[r])'
                    \/ \E i \in DOMAIN queue'[m][p] :
                         /\ queue'[m][p][i].type = "accepted"
                         /\ queue'[m][p][i].object = r
  BY ClusterAssumption
  DEF NewsGetsThrough, ClusterAssumption, Closed, FailedInsert
<1>1. TypeOK /\ AllUp /\ NewsGetsThrough
  BY CalmStep DEF Agreement
<1>2. queue[m][p] \in Seq(Messages) /\ OrderOf[r] \in Orders
  BY <1>1, ClusterAssumption DEF TypeOK, ClusterAssumption
<1>3. CASE Announce(r)
  <2>1. p \in sub[m]
    BY <1>1 DEF AllUp, AllConnected
  <2>2. PICK msg \in Messages : /\ msg.type = "accepted" /\ msg.object = r
                                /\ queue'[m][p] = Append(queue[m][p], msg)
    BY <1>1, <1>3, <2>1, AnnounceSends
  <2>3. /\ Len(queue[m][p]) + 1 \in DOMAIN queue'[m][p]
        /\ queue'[m][p][Len(queue[m][p]) + 1] = msg
    BY <1>2, <2>2, AppendAt
  <2> QED
    BY <2>2, <2>3
<1>4. CASE onboard[r] = "announced"
  <2>1. CASE Closed(OrderOf[r])
    BY <1>1, <1>2, <2>1, ClosedStays
  <2>2. CASE r \in book[m]
    BY <2>2, CalmLeaving
  <2>3. ASSUME NEW i \in DOMAIN queue[m][p],
               queue[m][p][i].type = "accepted", queue[m][p][i].object = r
        PROVE  \/ r \in book'[m]
               \/ \E j \in DOMAIN queue'[m][p] :
                    /\ queue'[m][p][j].type = "accepted"
                    /\ queue'[m][p][j].object = r
    <3>1. CASE queue'[m][p] = queue[m][p]
      BY <2>3, <3>1
    <3>2. ASSUME NEW msg \in Messages, queue'[m][p] = Append(queue[m][p], msg)
          PROVE  i \in DOMAIN queue'[m][p] /\ queue'[m][p][i] = queue[m][p][i]
      BY <1>2, <3>2, AppendAt
    <3>3. CASE /\ Handling(m, p)
               /\ queue[m][p] # <<>>
               /\ queue'[m][p] = Tail(queue[m][p])
      <4>1. CASE i = 1
        <5>1. Head(queue[m][p]) = queue[m][p][i]
          BY <1>2, <3>3, <4>1, TailAt
        <5>2. NewOrderFromPeer(m, p)
          BY <1>1, <2>3, <3>3, <5>1, HandlingHead DEF AllUp
        <5> QED
          BY <1>1, <2>3, <5>1, <5>2 DEF NewOrderFromPeer, Added, TypeOK
      <4>2. CASE i # 1
        <5>1. /\ i - 1 \in DOMAIN Tail(queue[m][p])
              /\ Tail(queue[m][p])[i - 1] = queue[m][p][i]
          BY <1>2, <3>3, <4>2, TailAt
        <5> QED
          BY <2>3, <3>3, <5>1
      <4> QED
        BY <4>1, <4>2
    <3> QED
      BY <1>1, <2>3, <3>1, <3>2, <3>3, CalmStep, QueueChange
  <2> QED
    BY <1>1, <1>4, <2>1, <2>2, <2>3 DEF NewsGetsThrough
<1>5. Announce(r) \/ onboard[r] = "announced"
  BY <1>1, OnboardStep
<1> QED
  BY <1>3, <1>4, <1>5

LEMMA RecordHasSubmissionNext ==
  ASSUME AgreeInv, [Next]_vars, Undisturbed'
  PROVE  RecordHasSubmission'
<1> SUFFICES ASSUME NEW o \in Orders, OrderExists(store', o)
             PROVE  \E r \in Requests : /\ OrderOf[r] = o
                                        /\ onboard'[r] \in {"stored", "announced"}
  BY DEF RecordHasSubmission
<1>1. TypeOK /\ RecordHasSubmission
  BY CalmStep DEF Agreement
<1>2. CASE OrderExists(store, o)
  <2>1. PICK r \in Requests : OrderOf[r] = o /\ onboard[r] \in {"stored", "announced"}
    BY <1>1, <1>2 DEF RecordHasSubmission
  <2>2. ~Crash(EntryNode[r])
    BY CalmStep, ClusterAssumption DEF ClusterAssumption
  <2> QED
    BY <1>1, <2>1, <2>2, BeyondStep
<1>3. CASE ~OrderExists(store, o)
  <2>1. PICK r \in Requests : Insert(r) /\ OrderOf[r] = o
    BY <1>1, <1>3, StateStep DEF OrderExists
  <2> QED
    BY <1>1, <2>1 DEF Insert, TypeOK
<1> QED
  BY <1>2, <1>3

\* Once the one submission that added an order is announced, no other adds or
\* announces it.
LEMMA SettledStep ==
  ASSUME AgreeInv, [Next]_vars, Undisturbed',
         NEW o \in Orders, Settled(o), AddedOnce(o)'
  PROVE  /\ Settled(o)'
         /\ \A s \in Requests : OrderOf[s] = o => ~AddOrder(s) /\ ~Announce(s)
<1>1. TypeOK
  BY CalmStep
<1>2. PICK r \in Requests : OrderOf[r] = o /\ onboard[r] = "announced"
  BY DEF Settled
<1>3. onboard'[r] = "announced"
  BY <1>1, <1>2, BeyondStep
<1>4. ASSUME NEW s \in Requests, OrderOf[s] = o, AddOrder(s) \/ Announce(s) PROVE FALSE
  <2>1. s # r
    BY <1>2, <1>4 DEF AddOrder, Announce
  <2>2. onboard'[s] \in {"added", "announced"}
    BY <1>1, <1>4 DEF AddOrder, Announce, TypeOK
  <2> QED
    BY <1>2, <1>3, <1>4, <2>1, <2>2 DEF AddedOnce
<1> QED
  BY <1>2, <1>3, <1>4 DEF Settled

\* Then news of the order that is on its way was so before.
LEMMA OldNews ==
  ASSUME TypeOK, [Next]_vars, NEW o \in Orders,
         \A s \in Requests : OrderOf[s] = o => ~Announce(s),
         NEW n \in Nodes, NEW q \in Nodes, NEW i \in DOMAIN queue'[n][q],
         queue'[n][q][i].type = "accepted", HashOf(queue'[n][q][i].object) = o
  PROVE  \E j \in DOMAIN queue[n][q] :
           NewsAt(n, q, j, o) /\ queue'[n][q][i] = queue[n][q][j]
<1>1. ASSUME NEW r \in Requests, Announce(r), queue'[n][q][i].object = r PROVE FALSE
  BY <1>1 DEF HashOf
<1> QED
  BY <1>1, QueueStep DEF NewsAt

LEMMA CheckedIsAnnouncedNext ==
  ASSUME AgreeInv, [Next]_vars, Undisturbed', PromptWrites, ChecksFollowNews
  PROVE  CheckedIsAnnounced'
<1>1. /\ TypeOK /\ AllUp /\ NoneLost /\ ListedIsAnnounced /\ NewsIsFresh
      /\ CheckedIsAnnounced
  BY CalmStep DEF Agreement
<1> SUFFICES ASSUME NEW t \in Tasks, task'[t].pc # "idle",
                    NEW x \in Objects, x = task'[t].object,
                    NEW o \in Orders, o = HashOf(x), AddedOnce(o)'
             PROVE  /\ Settled(o)'
                    /\ \A n, p \in Nodes : \A i \in DOMAIN queue'[n][p] :
                         /\ queue'[n][p][i].type = "accepted"
                         /\ HashOf(queue'[n][p][i].object) = o
                         => p = task'[t].node
  <2>1. \A t \in Tasks : task'[t].pc # "idle" => task'[t].object \in Objects
    BY <1>1, TypeNext, ActiveTask DEF TypeOK, ActiveTasks
  <2> QED
    BY <2>1, HashIsOrder DEF CheckedIsAnnounced, TaskOrder, NewsAt
<1>2. AddedOnce(o)
  BY <1>1, CalmStep, AddedOnceBefore
<1>3. ASSUME NEW w \in Nodes, task'[t].node = w, Settled(o),
             \A n, p \in Nodes : \A i \in DOMAIN queue[n][p] :
               NewsAt(n, p, i, o) => p = w
      PROVE  /\ Settled(o)'
             /\ \A n, p \in Nodes : \A i \in DOMAIN queue'[n][p] :
                  /\ queue'[n][p][i].type = "accepted"
                  /\ HashOf(queue'[n][p][i].object) = o
                  => p = task'[t].node
  BY <1>1, <1>3, SettledStep, OldNews
<1>4. CASE /\ task[t].pc # "idle"
           /\ task'[t].object = task[t].object
           /\ task'[t].node = task[t].node
  <2>1. task[t].node \in Nodes
    BY <1>1, <1>4, ActiveTask DEF TypeOK, ActiveTasks
  <2>2. TaskOrder(t) = o
    BY <1>4 DEF TaskOrder
  <2> QED
    BY <1>1, <1>2, <1>3, <1>4, <2>1, <2>2 DEF CheckedIsAnnounced
<1>5. ASSUME NEW n \in Nodes, NEW w \in Nodes, TaskStart(t, n, w, x),
             task'[t].node = w
      PROVE  /\ Settled(o)'
             /\ \A m, p \in Nodes : \A i \in DOMAIN queue'[m][p] :
                  /\ queue'[m][p][i].type = "accepted"
                  /\ HashOf(queue'[m][p][i].object) = o
                  => p = task'[t].node
  <2>1. x \in book[n] /\ w \in Runners[n] /\ ~BeingInserted(n, x)
    BY <1>5 DEF TaskStart
  <2>2. x \in Requests /\ OrderOf[x] = o
    BY <1>1, <2>1 DEF AllUp, HashOf
  <2>3. onboard[x] = "announced"
    BY <1>1, <2>1, <2>2 DEF ListedIsAnnounced, NoneLost, BeingInserted, BeyondCheck
  <2>4. ASSUME NEW m \in Nodes, NEW p \in Nodes, NEW i \in DOMAIN queue[m][p],
               NewsAt(m, p, i, o)
        PROVE  p = w
    <3>1. PICK s \in Requests : /\ queue[m][p][i].object = s
                                /\ p = EntryNode[s] /\ m # p
                                /\ onboard[s] = "announced"
                                /\ s \notin book[m]
      BY <1>1, <2>4 DEF NewsIsFresh, NewsAt
    <3>2. OrderOf[s] = o
      BY <2>4, <3>1 DEF NewsAt, HashOf
    <3>3. s = x
      BY <1>2, <2>2, <2>3, <3>1, <3>2 DEF AddedOnce
    <3>4. w = EntryNode[x] \/ (n # EntryNode[x] /\ Nodes = {n, EntryNode[x]})
      BY <2>1, <2>2 DEF ChecksFollowNews
    <3> QED
      BY <2>1, <3>1, <3>3, <3>4
  <2>5. Settled(o)
    BY <2>2, <2>3 DEF Settled
  <2> QED
    BY <1>3, <1>5, <2>4, <2>5
<1>6. NoTask.pc = "idle"
  BY DEF NoTask
<1>7. CASE task'[t] = task[t]
  BY <1>4, <1>7
<1>8. CASE /\ task[t].pc \in {"started", "read"}
           /\ task'[t].object = task[t].object
           /\ task'[t].node = task[t].node
  BY <1>4, <1>8
<1>9. CASE \E n, w \in Nodes, y \in Objects :
             TaskStart(t, n, w, y) /\ task'[t].object = y /\ task'[t].node = w
  BY <1>5, <1>9
<1> QED
  BY <1>1, <1>6, <1>7, <1>8, <1>9, CheckStep

\* DelistLast and Gone of the next state, written out.
DelistLastNext(n, o) ==
    \E p \in Nodes : \E i \in DOMAIN queue'[n][p] :
        /\ queue'[n][p][i].type = "delist" /\ queue'[n][p][i].object = o
        /\ \A q \in Nodes : \A j \in DOMAIN queue'[n][q] :
             queue'[n][q][j].type = "accepted" /\ HashOf(queue'[n][q][j].object) = o
               => q = p /\ j < i

GoneNext(n, o) ==
    /\ o \notin Listed(n)'
    /\ \A q \in Nodes : \A j \in DOMAIN queue'[n][q] :
         ~(queue'[n][q][j].type = "accepted" /\ HashOf(queue'[n][q][j].object) = o)

\* The ORDER_DELIST of a check comes behind the announcements of its order.
LEMMA CheckDelists ==
  ASSUME AgreeInv, [Next]_vars, Undisturbed', AllConnected,
         NEW t \in Tasks, EmitDelist(t), NEW o \in Orders, TaskOrder(t) = o,
         AddedOnce(o), NEW n \in Nodes
  PROVE  DelistLastNext(n, o)
<1>1. TypeOK /\ AllUp /\ CheckedIsAnnounced
  BY CalmStep DEF Agreement
<1>2. task[t].pc # "idle" /\ task[t].node \in Nodes
  BY <1>1, ActiveTask DEF EmitDelist, TypeOK, ActiveTasks
<1>3. PICK w \in Nodes : w = task[t].node
  BY <1>2
<1>4. \A q \in Nodes : \A j \in DOMAIN queue[n][q] : NewsAt(n, q, j, o) => q = w
  BY <1>1, <1>2, <1>3 DEF CheckedIsAnnounced
<1>5. w \in sub[n] \/ n = w
  BY <1>1 DEF AllUp, AllConnected
<1>6. PICK msg \in Messages : /\ msg.type = "delist" /\ msg.object = o
                              /\ queue'[n][w] = Append(queue[n][w], msg)
  BY <1>1, <1>3, <1>5, DelistSends
<1>7. \A k \in Nodes : k # w => queue'[n][k] = queue[n][k]
  BY <1>1, <1>3, <1>5, DelistSends
<1>8. queue[n][w] \in Seq(Messages)
  BY <1>1 DEF TypeOK
<1>9. /\ Len(queue[n][w]) + 1 \in DOMAIN queue'[n][w]
      /\ queue'[n][w][Len(queue[n][w]) + 1] = msg
  BY <1>6, <1>8, AppendAt
<1>10. ASSUME NEW q \in Nodes, NEW j \in DOMAIN queue'[n][q],
              queue'[n][q][j].type = "accepted", HashOf(queue'[n][q][j].object) = o
       PROVE  q = w /\ j < Len(queue[n][w]) + 1
  <2>1. q = w
    BY <1>4, <1>7, <1>10 DEF NewsAt
  <2>2. j = Len(queue[n][w]) + 1 \/ j \in DOMAIN queue[n][w]
    BY <1>6, <1>8, <1>10, <2>1, AppendAt
  <2>3. j # Len(queue[n][w]) + 1
    BY <1>6, <1>9, <1>10, <2>1
  <2> QED
    BY <1>6, <1>8, <2>1, <2>2, <2>3, AppendAt
<1> QED
  BY <1>6, <1>9, <1>10 DEF DelistLastNext

\* A node on which an unfunded order is gone does not list it again.
LEMMA GoneStays ==
  ASSUME AgreeInv, [Next]_vars, Undisturbed',
         NEW o \in Orders, NEW n \in Nodes, Gone(n, o),
         \A s \in Requests : OrderOf[s] = o => ~AddOrder(s) /\ ~Announce(s)
  PROVE  GoneNext(n, o)
<1>1. TypeOK /\ NewsIsFresh
  BY CalmStep DEF Agreement
<1>2. ASSUME NEW x \in book'[n], HashOf(x) = o PROVE FALSE
  <2>1. x \notin book[n]
    BY <1>2 DEF Gone, Listed
  <2>2. ~(x \in Requests /\ AddOrder(x))
    BY <1>2 DEF HashOf
  <2>3. ASSUME NEW p \in Nodes, NewOrderFromPeer(n, p), x = Head(queue[n][p]).object
        PROVE  FALSE
    BY <1>1, <1>2, <2>3, NewsHandled DEF Gone, NewsAt
  <2> QED
    BY <1>1, <2>1, <2>2, <2>3, CalmStep, EnterStep
<1>3. ASSUME NEW q \in Nodes, NEW j \in DOMAIN queue'[n][q],
             queue'[n][q][j].type = "accepted", HashOf(queue'[n][q][j].object) = o
      PROVE  FALSE
  BY <1>1, <1>3, OldNews DEF Gone
<1> QED
  BY <1>2, <1>3 DEF GoneNext, Listed

\* An ORDER_DELIST behind the announcements of its order stays so until it is
\* handled, and then the order is gone.
LEMMA DelistLastStep ==
  ASSUME AgreeInv, [Next]_vars, Undisturbed',
         \A a, b \in Orders : Level[a] = Level[b] => a = b,
         NEW o \in Orders, AddedOnce(o), NEW n \in Nodes, DelistLast(n, o),
         \A s \in Requests : OrderOf[s] = o => ~AddOrder(s) /\ ~Announce(s)
  PROVE  DelistLastNext(n, o) \/ GoneNext(n, o)
<1>1. TypeOK /\ AllUp /\ NewsIsFresh /\ ListedIsAnnounced
  BY CalmStep DEF Agreement
<1>2. PICK p \in Nodes : \E k \in DOMAIN queue[n][p] :
        /\ queue[n][p][k].type = "delist" /\ queue[n][p][k].object = o
        /\ \A q \in Nodes : \A j \in DOMAIN queue[n][q] :
             NewsAt(n, q, j, o) => q = p /\ j < k
  BY DEF DelistLast
<1>3. PICK i \in DOMAIN queue[n][p] :
        /\ queue[n][p][i].type = "delist" /\ queue[n][p][i].object = o
        /\ \A q \in Nodes : \A j \in DOMAIN queue[n][q] :
             NewsAt(n, q, j, o) => q = p /\ j < i
  BY <1>2
<1>4. queue[n][p] \in Seq(Messages)
  BY <1>1 DEF TypeOK
<1>5. ASSUME NEW q \in Nodes, NEW j \in DOMAIN queue'[n][q],
             queue'[n][q][j].type = "accepted", HashOf(queue'[n][q][j].object) = o
      PROVE  q = p
  BY <1>1, <1>3, <1>5, OldNews
<1>6. CASE queue'[n][p] = queue[n][p]
  BY <1>3, <1>5, <1>6 DEF DelistLastNext, NewsAt
<1>7. ASSUME NEW msg \in Messages, queue'[n][p] = Append(queue[n][p], msg),
             msg.type = "accepted" => HashOf(msg.object) # o
      PROVE  DelistLastNext(n, o)
  <2>1. i \in DOMAIN queue'[n][p] /\ queue'[n][p][i] = queue[n][p][i]
    BY <1>4, <1>7, AppendAt
  <2>2. ASSUME NEW j \in DOMAIN queue'[n][p],
               queue'[n][p][j].type = "accepted", HashOf(queue'[n][p][j].object) = o
        PROVE  j < i
    <3>1. j \in DOMAIN queue[n][p] /\ queue'[n][p][j] = queue[n][p][j]
      BY <1>4, <1>7, <2>2, AppendAt
    <3> QED
      BY <1>3, <2>2, <3>1 DEF NewsAt
  <2> QED
    BY <1>3, <1>5, <2>1, <2>2 DEF DelistLastNext
<1>8. CASE /\ Handling(n, p)
           /\ queue[n][p] # <<>>
           /\ queue'[n][p] = Tail(queue[n][p])
  <2>1. ASSUME NEW j \in DOMAIN queue'[n][p],
               queue'[n][p][j].type = "accepted", HashOf(queue'[n][p][j].object) = o
        PROVE  j \in Nat /\ i \in Nat /\ j + 1 < i
    <3>1. /\ j \in Nat /\ j + 1 \in DOMAIN queue[n][p]
          /\ queue'[n][p][j] = queue[n][p][j + 1]
      BY <1>4, <1>8, <2>1, TailAt
    <3>2. i \in Nat
      BY <1>4
    <3> QED
      BY <1>3, <2>1, <3>1, <3>2 DEF NewsAt
  <2>2. CASE i = 1
    <3>1. Head(queue[n][p]) = queue[n][p][i]
      BY <1>4, <1>8, <2>2, TailAt
    <3>2. OrderDelist(n, p)
      BY <1>1, <1>3, <1>8, <3>1, HandlingHead DEF AllUp
    <3>3. ASSUME NEW x \in book[n], NEW y \in book[n], HashOf(x) = o, HashOf(y) = o
          PROVE  x = y
      <4>1. x \in Requests /\ y \in Requests
        BY <1>1 DEF AllUp
      <4> QED
        BY <1>1, <3>3, <4>1 DEF ListedIsAnnounced, AddedOnce, BeyondCheck, HashOf
    <3>4. o \notin Listed(n)'
      BY <1>1, <1>3, <3>1, <3>2, <3>3, DelistTakesOut
    <3>5. ASSUME NEW j \in DOMAIN queue'[n][p],
                 queue'[n][p][j].type = "accepted", HashOf(queue'[n][p][j].object) = o
          PROVE  FALSE
      BY <2>1, <2>2, <3>5
    <3> QED
      BY <1>5, <3>4, <3>5 DEF GoneNext
  <2>3. CASE i # 1
    <3>1. /\ i - 1 \in DOMAIN queue'[n][p]
          /\ queue'[n][p][i - 1] = queue[n][p][i]
      BY <1>4, <1>8, <2>3, TailAt
    <3>2. ASSUME NEW j \in DOMAIN queue'[n][p],
                 queue'[n][p][j].type = "accepted", HashOf(queue'[n][p][j].object) = o
          PROVE  j < i - 1
      BY <2>1, <3>2
    <3> QED
      BY <1>3, <1>5, <3>1, <3>2 DEF DelistLastNext
  <2> QED
    BY <2>2, <2>3
<1>9. ASSUME NEW r \in Requests, Announce(r) PROVE HashOf(r) # o
  BY <1>9 DEF HashOf
<1>10. \/ queue'[n][p] = queue[n][p]
       \/ /\ Handling(n, p)
          /\ queue[n][p] # <<>>
          /\ queue'[n][p] = Tail(queue[n][p])
       \/ \E msg \in Messages :
            /\ msg.type = "accepted" => HashOf(msg.object) # o
            /\ queue'[n][p] = Append(queue[n][p], msg)
  BY <1>1, <1>9, CalmStep, QueueChange
<1> QED
  BY <1>6, <1>7, <1>8, <1>10

LEMMA UnfundedIsLeavingNext ==
  ASSUME AgreeInv, [Next]_vars, Undisturbed', AllConnected,
         \A a, b \in Orders : Level[a] = Level[b] => a = b
  PROVE  UnfundedIsLeaving'
<1>1. TypeOK /\ CheckedIsAnnounced /\ UnfundedIsLeaving
  BY CalmStep DEF Agreement
<1> SUFFICES ASSUME NEW o \in Orders, store'[o].state = "UNFUNDED", AddedOnce(o)'
             PROVE  /\ Settled(o)'
                    /\ \/ \E t \in Tasks : /\ task'[t].pc = "unfunded"
                                           /\ HashOf(task'[t].object) = o
                       \/ \A n \in Nodes : DelistLastNext(n, o) \/ GoneNext(n, o)
  BY DEF UnfundedIsLeaving, TaskOrder, DelistLast, Gone, NewsAt, DelistLastNext, GoneNext
<1>2. AddedOnce(o)
  BY <1>1, CalmStep, AddedOnceBefore
<1>3. CASE store[o].state # "UNFUNDED"
  <2>1. PICK t \in Tasks : /\ TaskStore(t)
                           /\ TaskOrder(t) = o
                           /\ task'[t] = [task[t] EXCEPT !.pc = "unfunded"]
    BY <1>1, <1>3, StateStep
  <2>2. task[t] \in ActiveTasks /\ task[t].pc # "idle"
    BY <1>1, <2>1, ActiveTask DEF TaskStore, TypeOK
  <2>3. Settled(o)
    BY <1>1, <1>2, <2>1, <2>2 DEF CheckedIsAnnounced
  <2>4. task'[t].pc = "unfunded" /\ HashOf(task'[t].object) = o
    BY <2>1, <2>2 DEF ActiveTasks, TaskOrder
  <2> QED
    BY <2>3, <2>4, SettledStep
<1>4. CASE store[o].state = "UNFUNDED"
  <2>1. /\ Settled(o)
        /\ \/ \E t \in Tasks : task[t].pc = "unfunded" /\ TaskOrder(t) = o
           \/ \A n \in Nodes : DelistLast(n, o) \/ Gone(n, o)
    BY <1>1, <1>2, <1>4 DEF UnfundedIsLeaving
  <2>2. /\ Settled(o)'
        /\ \A s \in Requests : OrderOf[s] = o => ~AddOrder(s) /\ ~Announce(s)
    BY <2>1, SettledStep
  <2>3. ASSUME NEW t \in Tasks, task[t].pc = "unfunded", TaskOrder(t) = o
        PROVE  \/ task'[t].pc = "unfunded" /\ HashOf(task'[t].object) = o
               \/ \A n \in Nodes : DelistLastNext(n, o)
    <3>1. task[t].node \in Nodes /\ NoTask.pc # "unfunded"
      BY <1>1, <2>3, ActiveTask DEF TypeOK, ActiveTasks, NoTask
    <3>2. task'[t] = task[t] \/ EmitDelist(t)
      BY <1>1, <2>3, <3>1, CalmStep, CheckStep
    <3> QED
      BY <1>2, <2>3, <3>2, CheckDelists DEF TaskOrder
  <2>4. ASSUME NEW n \in Nodes, DelistLast(n, o) \/ Gone(n, o)
        PROVE  DelistLastNext(n, o) \/ GoneNext(n, o)
    BY <1>2, <2>2, <2>4, DelistLastStep, GoneStays
  <2> QED
    BY <2>1, <2>2, <2>3, <2>4
<1> QED
  BY <1>3, <1>4

\* While no node crashes, no connection breaks and no call fails, the nodes
\* agree whenever they are at rest: each lists exactly the orders that are
\* OPEN in the database.  It holds of any number of nodes that all hear of each
\* other, if the checks of an order run where it was submitted, and of two
\* nodes that each check their own book; inserts must be prompt, and no two
\* orders share a side and a price.  Without the condition on the checks, the
\* ORDER_DELIST of one publisher may overtake the announcement of another.
THEOREM AgreesAtRest ==
  ASSUME PromptWrites, AllConnected, ChecksFollowNews,
         \A a, b \in Orders : Level[a] = Level[b] => a = b
  PROVE  Spec => []AgreeAtRest
<1>1. Init => AgreeInv
  <2> SUFFICES ASSUME Init PROVE AgreeInv
    OBVIOUS
  <2>1. BudgetsBounded
    BY ClusterAssumption DEF Init, BudgetsBounded, ClusterAssumption
  <2>2. AllUp /\ NoneLost /\ ListedIsAnnounced /\ OwnIsListed /\ NewsGetsThrough
    BY DEF Init, AllUp, NoneLost, ListedIsAnnounced, OwnIsListed, NewsGetsThrough
  <2>3. NewsIsFresh /\ NewsIsOnce
    BY DEF Init, NewsIsFresh, NewsIsOnce, OnceIn
  <2>4. RecordHasSubmission /\ CheckedIsAnnounced /\ UnfundedIsLeaving
    BY DEF Init, RecordHasSubmission, OrderExists, EmptyStore, NoRecord,
           CheckedIsAnnounced, NoTask, UnfundedIsLeaving
  <2> QED
    BY <2>1, <2>2, <2>3, <2>4, DelistInvInit DEF AgreeInv, Agreement
<1>2. AgreeInv /\ [Next]_vars => AgreeInv'
  <2> SUFFICES ASSUME AgreeInv, [Next]_vars PROVE AgreeInv'
    OBVIOUS
  <2>1. DelistInv' /\ BudgetsBounded'
    BY DelistInvNext, BudgetsBoundedNext DEF AgreeInv, DelistInv, StoredInv
  <2>2. ASSUME Undisturbed' PROVE Agreement'
    BY <2>2, AllUpNext, NoneLostNext, ListedIsAnnouncedNext, NewsIsFreshNext,
       NewsIsOnceNext, OwnIsListedNext, NewsGetsThroughNext, RecordHasSubmissionNext,
       CheckedIsAnnouncedNext, UnfundedIsLeavingNext DEF Agreement
  <2> QED
    BY <2>1, <2>2 DEF AgreeInv
<1>3. AgreeInv => AgreeAtRest
  <2> SUFFICES ASSUME AgreeInv, Undisturbed, AtRest,
                      NEW n \in Nodes, NEW o \in Orders, AddedOnce(o)
               PROVE  o \in Listed(n) <=> store[o].state = "OPEN"
    BY DEF AgreeAtRest
  <2>1. TypeOK /\ StoredInv /\ Agreement
    BY DEF AgreeInv, DelistInv, StoredInv
  <2>2. \A m, p \in Nodes : queue[m][p] = <<>>
    BY DEF AtRest
  <2>3. ASSUME o \in Listed(n) PROVE store[o].state = "OPEN"
    <3>1. PICK x \in book[n] : HashOf(x) = o
      BY <2>3 DEF Listed
    <3>2. x \in Requests /\ onboard[x] = "announced"
      BY <2>1, <3>1
      DEF Agreement, AllUp, ListedIsAnnounced, NoneLost, AtRest, BeyondCheck
    <3>3. OrderExists(store, o)
      BY <2>1, <3>1, <3>2 DEF StoredInv, InsertedIsStored, Stored
    <3>4. store[o].state \in {"OPEN", "UNFUNDED"}
      BY <2>1, <3>3 DEF TypeOK, Stores, Records, NoRecord, OrderExists
    <3>5. store[o].state # "UNFUNDED"
      BY <2>1, <2>2, <2>3 DEF Agreement, UnfundedIsLeaving, AtRest, DelistLast, Gone
    <3> QED
      BY <3>4, <3>5
  <2>4. ASSUME store[o].state = "OPEN" PROVE o \in Listed(n)
    <3>1. PICK r \in Requests : OrderOf[r] = o /\ onboard[r] = "announced"
      BY <2>1, <2>4 DEF Agreement, RecordHasSubmission, OrderExists, AtRest
    <3>2. ~Closed(o)
      BY <2>1, <2>4 DEF Closed, FailedInsert, Agreement, NoneLost
    <3>3. r \in book[n]
      <4>1. CASE n = EntryNode[r]
        BY <2>1, <3>1, <3>2, <4>1 DEF Agreement, OwnIsListed
      <4>2. CASE n # EntryNode[r]
        <5>1. EntryNode[r] \in Nodes
          BY ClusterAssumption DEF ClusterAssumption
        <5> QED
          BY <2>1, <2>2, <3>1, <3>2, <4>2, <5>1 DEF Agreement, NewsGetsThrough
      <4> QED
        BY <4>1, <4>2
    <3> QED
      BY <3>1, <3>3 DEF Listed, HashOf
  <2> QED
    BY <2>3, <2>4
<1> QED
  BY <1>1, <1>2, <1>3, PTL DEF Spec
=============================================================================
