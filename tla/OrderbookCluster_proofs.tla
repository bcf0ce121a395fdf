---------------------- MODULE OrderbookCluster_proofs ----------------------
(***************************************************************************)
(* Theorems about OrderbookCluster, for every number of nodes, orders,     *)
(* submissions and checks in flight, and for every bound on the            *)
(* environment.                                                            *)
(***************************************************************************)
EXTENDS OrderbookCluster, SequenceTheorems, TLAPS

(***************************************************************************)
(* The hash of an object is an order.                                      *)
(***************************************************************************)
LEMMA HashIsOrder == \A x \in Objects : HashOf(x) \in Orders
  BY ClusterAssumption DEF Objects, HashOf, ClusterAssumption

\* A check that is not idle has the shape of a running one.
LEMMA ActiveTask ==
  ASSUME NEW tk \in ActiveTasks \cup {NoTask}, tk.pc # "idle"
  PROVE  tk \in ActiveTasks
  BY DEF NoTask

\* Sent appends a message to queues, and leaves them queues.
LEMMA SentType ==
  ASSUME queue \in [Nodes -> [Nodes -> Seq(Messages)]], NEW n \in Nodes,
         NEW msg \in Messages, NEW local \in BOOLEAN
  PROVE  Sent(n, msg, local) \in [Nodes -> [Nodes -> Seq(Messages)]]
<1>1. \A m, p \in Nodes : Append(queue[m][p], msg) \in Seq(Messages)
  BY AppendProperties
<1> QED
  BY <1>1 DEF Sent

\* A handler takes a message off a queue, and leaves it a queue.
LEMMA HandledType ==
  ASSUME queue \in [Nodes -> [Nodes -> Seq(Messages)]], NEW n \in Nodes,
         NEW p \in Nodes, queue[n][p] # <<>>
  PROVE  /\ Handled(n, p) \in [Nodes -> [Nodes -> Seq(Messages)]]
         /\ Head(queue[n][p]) \in Messages
<1>1. /\ Tail(queue[n][p]) \in Seq(Messages)
      /\ Head(queue[n][p]) \in Messages
  BY HeadTailProperties
<1> QED
  BY <1>1 DEF Handled

\* The operations of OrderService keep the store well typed.
LEMMA StoreType ==
  ASSUME NEW st \in Stores, NEW o \in Orders, NEW v \in Nat
  PROVE  /\ InsertOrder(st, o, v) \in Stores
         /\ UpdateVolume(st, o, v) \in Stores
         /\ MarkUnfunded(st, o, v) \in Stores
         /\ st[o].volume \in Nat
<1>1. st[o] \in Records \cup {NoRecord}
  BY DEF Stores
<1>2. OrderExists(st, o) => st[o] \in Records
  BY <1>1 DEF OrderExists, NoRecord
<1>3. UpdateVolume(st, o, v) \in Stores
  BY <1>2 DEF UpdateVolume, Stores, Records
<1>4. InsertOrder(st, o, v) \in Stores
  BY DEF InsertOrder, Stores, Records
<1>5. MarkUnfunded(st, o, v) \in Stores
  BY DEF MarkUnfunded, Stores, Records
<1>6. st[o].volume \in Nat
  BY <1>1 DEF Records, NoRecord
<1> QED
  BY <1>3, <1>4, <1>5, <1>6

\* What is left of a bound stays a natural number.
LEMMA BudgetType ==
  ASSUME NEW b \in Budgets
  PROVE  /\ b.crashes > 0 => [b EXCEPT !.crashes = @ - 1] \in Budgets
         /\ b.drops > 0 => [b EXCEPT !.drops = @ - 1] \in Budgets
         /\ b.faults > 0 => [b EXCEPT !.faults = @ - 1] \in Budgets
         /\ b.moves > 0 => [b EXCEPT !.moves = @ - 1] \in Budgets
<1>1. ASSUME NEW k \in Nat, k > 0 PROVE k - 1 \in Nat
  BY <1>1
<1>2. b.crashes > 0 => [b EXCEPT !.crashes = @ - 1] \in Budgets
  BY <1>1 DEF Budgets
<1>3. b.drops > 0 => [b EXCEPT !.drops = @ - 1] \in Budgets
  BY <1>1 DEF Budgets
<1>4. b.faults > 0 => [b EXCEPT !.faults = @ - 1] \in Budgets
  BY <1>1 DEF Budgets
<1>5. b.moves > 0 => [b EXCEPT !.moves = @ - 1] \in Budgets
  BY <1>1 DEF Budgets
<1> QED
  BY <1>2, <1>3, <1>4, <1>5
-----------------------------------------------------------------------------
(***************************************************************************)
(* Type correctness.                                                       *)
(***************************************************************************)
LEMMA TypeInit == Init => TypeOK
<1> SUFFICES ASSUME Init PROVE TypeOK
  OBVIOUS
<1>1. phase \in [Nodes -> Phases] /\ onboard \in [Requests -> Progress]
  BY DEF Init, Phases, Serving, Progress
<1>2. sub \in [Nodes -> SUBSET Nodes] /\ book \in [Nodes -> SUBSET Objects]
  BY ClusterAssumption DEF Init, ClusterAssumption
<1>3. queue \in [Nodes -> [Nodes -> Seq(Messages)]]
  BY EmptySeq DEF Init
<1>4. /\ remaining \in [Nodes -> [Objects -> Nat]]
      /\ payload \in [Requests -> Nat]
      /\ task \in [Tasks -> ActiveTasks \cup {NoTask}]
      /\ store \in Stores
      /\ available \in [Orders -> Nat]
  BY OrderAssumption DEF Init, OrderAssumption, Stores, EmptyStore
<1>5. budget \in Budgets
  BY ClusterAssumption DEF Init, ClusterAssumption, Budgets
<1> QED
  BY <1>1, <1>2, <1>3, <1>4, <1>5 DEF TypeOK

\* TypeOK is inductive by itself: one step per action.
LEMMA TypeNext == TypeOK /\ [Next]_vars => TypeOK'
<1> SUFFICES ASSUME TypeOK, [Next]_vars PROVE TypeOK'
  OBVIOUS
<1> USE DEF TypeOK, nodeVars
<1>1. ASSUME NEW r \in Requests, Validate(r) PROVE TypeOK'
  <2>1. EntryNode[r] \in Nodes /\ OrderOf[r] \in Orders
    BY ClusterAssumption DEF ClusterAssumption
  <2> QED
    BY <1>1, <2>1 DEF Validate, Progress
<1>2. ASSUME NEW r \in Requests, CheckExists(r) PROVE TypeOK'
  BY <1>2 DEF CheckExists, Progress
<1>3. ASSUME NEW r \in Requests, AddOrder(r) PROVE TypeOK'
  <2>1. EntryNode[r] \in Nodes /\ r \in Objects
    BY ClusterAssumption DEF ClusterAssumption, Objects
  <2>2. book' \in [Nodes -> SUBSET Objects]
    BY <1>3, <2>1 DEF AddOrder, Added
  <2>3. remaining' \in [Nodes -> [Objects -> Nat]]
    BY <1>3, <2>1 DEF AddOrder, Added
  <2> QED
    BY <1>3, <2>2, <2>3 DEF AddOrder, Progress
<1>4. ASSUME NEW r \in Requests, Insert(r) PROVE TypeOK'
  <2>1. OrderOf[r] \in Orders
    BY ClusterAssumption DEF ClusterAssumption
  <2>2. store' \in Stores
    BY <1>4, <2>1, StoreType DEF Insert
  <2> QED
    BY <1>4, <2>2 DEF Insert, Progress
<1>5. ASSUME NEW r \in Requests, Announce(r) PROVE TypeOK'
  <2>1. EntryNode[r] \in Nodes /\ r \in Objects
    BY ClusterAssumption DEF ClusterAssumption, Objects
  <2>2. [type |-> "accepted", object |-> r, volume |-> remaining[EntryNode[r]][r]]
          \in Messages
    BY <2>1 DEF Messages
  <2>3. queue' \in [Nodes -> [Nodes -> Seq(Messages)]]
    BY <1>5, <2>1, <2>2, SentType DEF Announce
  <2> QED
    BY <1>5, <2>3 DEF Announce, Progress
<1>6. ASSUME NEW r \in Requests, OnboardFault(r) PROVE TypeOK'
  <2>1. budget' \in Budgets
    BY <1>6, BudgetType DEF OnboardFault
  <2>2. onboard' \in [Requests -> Progress]
    BY <1>6 DEF OnboardFault, Progress
  <2> QED
    BY <1>6, <2>1, <2>2 DEF OnboardFault
<1>7. ASSUME NEW n \in Nodes, NEW p \in Nodes, Handling(n, p) PROVE TypeOK'
  <2>1. queue[n][p] # <<>>
    BY <1>7 DEF Handling, NewOrderFromPeer, OrderUpdate, OrderDelist,
                MissingMarket, HasEvent
  <2>2. /\ Handled(n, p) \in [Nodes -> [Nodes -> Seq(Messages)]]
        /\ Head(queue[n][p]) \in Messages
    BY <2>1, HandledType
  <2>3. Head(queue[n][p]).object \in Objects /\ Head(queue[n][p]).volume \in Nat
    BY <2>2 DEF Messages
  <2>4. CASE NewOrderFromPeer(n, p)
    <3>1. book' \in [Nodes -> SUBSET Objects]
      BY <2>3, <2>4 DEF NewOrderFromPeer, Added
    <3>2. remaining' \in [Nodes -> [Objects -> Nat]]
      BY <2>3, <2>4 DEF NewOrderFromPeer, Added
    <3> QED
      BY <2>2, <2>4, <3>1, <3>2 DEF NewOrderFromPeer, Added
  <2>5. CASE OrderUpdate(n, p)
    <3>1. ListedAs(n, Head(queue[n][p]).object) \subseteq Objects
      BY DEF ListedAs
    <3>2. remaining' \in [Nodes -> [Objects -> Nat]]
      <4>1. CASE ListedAs(n, Head(queue[n][p]).object) = {}
        BY <2>5, <4>1 DEF OrderUpdate, UpdateBalance
      <4>2. CASE ListedAs(n, Head(queue[n][p]).object) # {}
        <5>1. PICK x \in Objects :
                remaining' = [remaining EXCEPT ![n][x] = Head(queue[n][p]).volume]
          BY <2>5, <3>1, <4>2 DEF OrderUpdate, UpdateBalance
        <5> QED
          BY <2>3, <5>1
      <4> QED
        BY <4>1, <4>2
    <3> QED
      BY <2>2, <2>5, <3>2 DEF OrderUpdate, UpdateBalance
  <2>6. CASE OrderDelist(n, p)
    <3>1. book' \in [Nodes -> SUBSET Objects]
      <4>1. CASE book' = book
        BY <4>1
      <4>2. CASE book' # book
        <5>1. PICK y : book' = [book EXCEPT ![n] = @ \ {y}]
          BY <2>6, <4>2 DEF OrderDelist, DelistOrder
        <5> QED
          BY <5>1
      <4> QED
        BY <4>1, <4>2
    <3> QED
      BY <2>2, <2>6, <3>1 DEF OrderDelist, DelistOrder
  <2>7. CASE MissingMarket(n, p)
    BY <2>2, <2>7 DEF MissingMarket
  <2> QED
    BY <1>7, <2>4, <2>5, <2>6, <2>7 DEF Handling
<1>8. ASSUME NEW t \in Tasks, NEW n \in Nodes, NEW w \in Nodes, NEW x \in Objects,
             TaskStart(t, n, w, x)
      PROVE  TypeOK'
  <2>1. [pc |-> "started", node |-> w, object |-> x, local |-> w = n,
         seen |-> IF w = n THEN 0 ELSE remaining[n][x], volume |-> 0] \in ActiveTasks
    BY DEF ActiveTasks
  <2> QED
    BY <1>8, <2>1 DEF TaskStart
<1>9. ASSUME NEW t \in Tasks, Checking(t) \/ TaskFault(t) PROVE TypeOK'
  <2>1. task[t].pc # "idle"
    BY <1>9 DEF Checking, TaskRead, TaskStore, EmitDelist, EmitBalance, TaskFault
  <2>2. task[t] \in ActiveTasks
    BY <2>1, ActiveTask
  <2>3. /\ task[t].node \in Nodes
        /\ TaskOrder(t) \in Orders
        /\ task[t].volume \in Nat
    BY <2>2, HashIsOrder DEF ActiveTasks, TaskOrder
  <2>4. CASE TaskRead(t)
    <3>1. [task[t] EXCEPT !.pc = "read", !.volume = available[TaskOrder(t)]]
            \in ActiveTasks
      BY <2>2, <2>3 DEF ActiveTasks
    <3> QED
      BY <2>4, <3>1 DEF TaskRead
  <2>5. CASE TaskStore(t)
    <3>1. store' \in Stores
      BY <2>3, <2>5, StoreType DEF TaskStore
    <3>2. /\ [task[t] EXCEPT !.pc = "unfunded"] \in ActiveTasks
          /\ [task[t] EXCEPT !.pc = "funded"] \in ActiveTasks
      BY <2>2 DEF ActiveTasks
    <3>3. task' \in [Tasks -> ActiveTasks \cup {NoTask}]
      BY <2>5, <3>2 DEF TaskStore
    <3> QED
      BY <2>5, <3>1, <3>3 DEF TaskStore
  <2>6. CASE EmitDelist(t)
    <3>1. [type |-> "delist", object |-> TaskOrder(t), volume |-> 0] \in Messages
      BY <2>3 DEF Messages, Objects
    <3>2. queue' \in [Nodes -> [Nodes -> Seq(Messages)]]
      BY <2>3, <2>6, <3>1, SentType DEF EmitDelist
    <3> QED
      BY <2>6, <3>2 DEF EmitDelist
  <2>7. CASE EmitBalance(t)
    <3>1. [type |-> "balance", object |-> TaskOrder(t), volume |-> task[t].volume]
            \in Messages
      BY <2>3 DEF Messages, Objects
    <3>2. queue' \in [Nodes -> [Nodes -> Seq(Messages)]]
      <4>1. Sent(task[t].node, [type |-> "balance", object |-> TaskOrder(t),
                                volume |-> task[t].volume], TRUE)
              \in [Nodes -> [Nodes -> Seq(Messages)]]
        BY <2>3, <3>1, SentType
      <4> QED
        BY <2>7, <4>1 DEF EmitBalance
    <3> QED
      BY <2>7, <3>2 DEF EmitBalance
  <2>8. CASE TaskFault(t)
    BY <2>8, BudgetType DEF TaskFault
  <2> QED
    BY <1>9, <2>4, <2>5, <2>6, <2>7, <2>8 DEF Checking
<1>10. ASSUME NEW n \in Nodes, Starting(n) \/ LoadFault(n) PROVE TypeOK'
  <2>1. ASSUME NEW orders \in SUBSET Orders, Loaded(n, orders)
        PROVE  /\ book' \in [Nodes -> SUBSET Objects]
               /\ remaining' \in [Nodes -> [Objects -> Nat]]
    <3>1. \A x \in orders : store[x].volume \in Nat
      BY <2>1, StoreType
    <3> QED
      BY <2>1, <3>1 DEF Loaded, Objects
  <2>2. CASE Boot(n)
    BY <2>2 DEF Boot, Phases
  <2>3. CASE LoadBids(n)
    BY <2>1, <2>3 DEF LoadBids, LoadOrders, Bids, Phases
  <2>4. CASE LoadAsks(n)
    BY <2>1, <2>4, OrderAssumption
    DEF LoadAsks, LoadOrders, OrderAssumption, Phases, Serving
  <2>5. CASE Ready(n)
    BY <2>5 DEF Ready, Phases, Serving
  <2>6. CASE LoadFault(n)
    BY <2>6, BudgetType DEF LoadFault, Phases
  <2> QED
    BY <1>10, <2>2, <2>3, <2>4, <2>5, <2>6 DEF Starting
<1>11. ASSUME NEW n \in Nodes, Crash(n) PROVE TypeOK'
  <2>1. /\ phase' \in [Nodes -> Phases]
        /\ onboard' \in [Requests -> Progress]
    BY <1>11 DEF Crash, Phases, Progress
  <2>2. /\ sub' \in [Nodes -> SUBSET Nodes]
        /\ book' \in [Nodes -> SUBSET Objects]
        /\ remaining' \in [Nodes -> [Objects -> Nat]]
    BY <1>11 DEF Crash
  <2>3. queue' \in [Nodes -> [Nodes -> Seq(Messages)]]
    BY <1>11, EmptySeq DEF Crash
  <2>4. task' \in [Tasks -> ActiveTasks \cup {NoTask}]
    BY <1>11 DEF Crash
  <2>5. budget' \in Budgets
    BY <1>11, BudgetType DEF Crash
  <2> QED
    BY <1>11, <2>1, <2>2, <2>3, <2>4, <2>5 DEF Crash
<1>12. ASSUME NEW n \in Nodes, NEW p \in Nodes, Connect(n, p) PROVE TypeOK'
  BY <1>12 DEF Connect
<1>13. ASSUME NEW n \in Nodes, NEW p \in Nodes, Disconnect(n, p) PROVE TypeOK'
  <2>1. \A k \in 0 .. Len(queue[n][p]) : SubSeq(queue[n][p], 1, k) \in Seq(Messages)
    BY SubSeqProperties
  <2>2. queue' \in [Nodes -> [Nodes -> Seq(Messages)]]
    BY <1>13, <2>1 DEF Disconnect
  <2> QED
    BY <1>13, <2>2, BudgetType DEF Disconnect
<1>14. ASSUME NEW o \in Orders, ChainMove(o) PROVE TypeOK'
  <2>1. Volumes(o) \subseteq Nat
    BY OrderAssumption DEF Volumes, OrderAssumption
  <2>2. available' \in [Orders -> Nat]
    BY <1>14, <2>1 DEF ChainMove
  <2> QED
    BY <1>14, <2>2, BudgetType DEF ChainMove
<1>15. CASE UNCHANGED vars
  BY <1>15 DEF vars
<1> QED
  BY <1>1, <1>2, <1>3, <1>4, <1>5, <1>6, <1>7, <1>8, <1>9, <1>10, <1>11, <1>12,
     <1>13, <1>14, <1>15 DEF Next, Onboarding

\* TypeOK: every variable stays in its type, at every bound.
THEOREM TypeCorrect == Spec => []TypeOK
  BY TypeInit, TypeNext, PTL DEF Spec
-----------------------------------------------------------------------------
(***************************************************************************)
(* No record of the database is ever deleted, or opened again.             *)
(***************************************************************************)
LEMMA StoreGrows ==
  ASSUME TypeOK, [Next]_vars, NEW o \in Orders
  PROVE  /\ OrderExists(store, o) => OrderExists(store', o)
         /\ store[o].state = "UNFUNDED" => store'[o].state = "UNFUNDED"
<1>1. CASE UNCHANGED store
  BY <1>1
<1>2. ASSUME NEW r \in Requests, Insert(r)
      PROVE  /\ OrderExists(store, o) => OrderExists(store', o)
             /\ store[o].state = "UNFUNDED" => store'[o].state = "UNFUNDED"
  BY <1>2 DEF Insert, InsertOrder, OrderExists, TypeOK, Stores
<1>3. ASSUME NEW t \in Tasks, TaskStore(t)
      PROVE  /\ OrderExists(store, o) => OrderExists(store', o)
             /\ store[o].state = "UNFUNDED" => store'[o].state = "UNFUNDED"
  <2>1. store[o] \in Records \cup {NoRecord}
    BY DEF TypeOK, Stores
  <2>2. PICK u \in Nat : \/ store' = MarkUnfunded(store, TaskOrder(t), u)
                         \/ store' = UpdateVolume(store, TaskOrder(t), u)
    <3>1. task[t] \in ActiveTasks
      BY <1>3, ActiveTask DEF TypeOK, TaskStore
    <3>2. task[t].volume \in Nat
      BY <3>1 DEF ActiveTasks
    <3> QED
      BY <1>3, <3>2 DEF TaskStore
  <2>3. CASE store' = MarkUnfunded(store, TaskOrder(t), u)
    BY <2>3 DEF MarkUnfunded, OrderExists, TypeOK, Stores
  <2>4. CASE store' = UpdateVolume(store, TaskOrder(t), u)
    BY <2>1, <2>4 DEF UpdateVolume, OrderExists, TypeOK, Stores, Records, NoRecord
  <2> QED
    BY <2>2, <2>3, <2>4
<1> QED
  BY <1>1, <1>2, <1>3 DEF Next, vars, nodeVars, Validate, Onboarding, CheckExists,
     AddOrder, Announce, OnboardFault, Handling, NewOrderFromPeer, OrderUpdate,
     OrderDelist, MissingMarket, Checking, TaskRead, EmitDelist, EmitBalance,
     TaskFault, TaskStart, Starting, Boot, LoadBids, LoadAsks, LoadFault, Ready,
     Crash, Connect, Disconnect, ChainMove

\* UNFUNDED is final, whatever submissions and checks interleave: insertOrder
\* writes on insert only, and updateVolume never writes OPEN.
THEOREM UnfundedStays == Spec => UnfundedIsFinal
<1>1. TypeOK /\ [Next]_vars =>
        [\A o \in Orders : store[o].state = "UNFUNDED"
                             => store'[o].state = "UNFUNDED"]_vars
  BY StoreGrows
<1> QED
  BY <1>1, TypeCorrect, PTL DEF Spec, UnfundedIsFinal
-----------------------------------------------------------------------------
(***************************************************************************)
(* What is announced and what is listed is in the database.                *)
(***************************************************************************)
InsertedIsStored ==
    \A r \in Requests : onboard[r] \in {"stored", "announced"} => Stored(r)

StoredInv ==
    /\ TypeOK
    /\ InsertedIsStored
    /\ AnnouncedIsStored
    /\ BookBackedByStore

\* A record, once inserted, is never removed: OrderService has no delete.
LEMMA StoredStays ==
  ASSUME TypeOK, [Next]_vars, NEW x \in Objects, Stored(x)
  PROVE  Stored(x)'
  BY StoreGrows, HashIsOrder DEF Stored

\* What is in a queue after Sent was there before, or is the message sent.
LEMMA SentElement ==
  ASSUME queue \in [Nodes -> [Nodes -> Seq(Messages)]], NEW n \in Nodes,
         NEW msg \in Messages, NEW local \in BOOLEAN,
         NEW m \in Nodes, NEW p \in Nodes, NEW i \in DOMAIN Sent(n, msg, local)[m][p]
  PROVE  \/ Sent(n, msg, local)[m][p][i] = msg
         \/ i \in DOMAIN queue[m][p] /\ Sent(n, msg, local)[m][p][i] = queue[m][p][i]
<1> DEFINE q == queue[m][p]
<1>1. q \in Seq(Messages)
  OBVIOUS
<1>2. Sent(n, msg, local)[m][p] \in {q, Append(q, msg)}
  BY DEF Sent
<1>3. ASSUME NEW j \in DOMAIN Append(q, msg)
      PROVE  \/ Append(q, msg)[j] = msg
             \/ j \in DOMAIN q /\ Append(q, msg)[j] = q[j]
  BY <1>1
<1> QED
  BY <1>2, <1>3

\* What is in a queue after a handler ran was there before.
LEMMA HandledElement ==
  ASSUME queue \in [Nodes -> [Nodes -> Seq(Messages)]], NEW n \in Nodes,
         NEW p \in Nodes, queue[n][p] # <<>>,
         NEW m \in Nodes, NEW k \in Nodes, NEW i \in DOMAIN Handled(n, p)[m][k]
  PROVE  \E j \in DOMAIN queue[m][k] : Handled(n, p)[m][k][i] = queue[m][k][j]
<1>1. CASE m = n /\ k = p
  <2>1. Handled(n, p)[m][k] = Tail(queue[m][k])
    BY <1>1 DEF Handled
  <2>2. queue[m][k] \in Seq(Messages) /\ queue[m][k] # <<>>
    BY <1>1
  <2>3. ASSUME NEW q \in Seq(Messages), q # <<>>, NEW j \in DOMAIN Tail(q)
        PROVE  j + 1 \in DOMAIN q /\ Tail(q)[j] = q[j + 1]
    BY <2>3
  <2> QED
    BY <2>1, <2>2, <2>3
<1>2. CASE ~(m = n /\ k = p)
  BY <1>2 DEF Handled
<1> QED
  BY <1>1, <1>2

\* No event is added but those that a step sends.
LEMMA QueueStep ==
  ASSUME TypeOK, [Next]_vars, NEW m \in Nodes, NEW k \in Nodes,
         NEW i \in DOMAIN queue'[m][k]
  PROVE  \/ \E j \in DOMAIN queue[m][k] : queue'[m][k][i] = queue[m][k][j]
         \/ \E r \in Requests :
              /\ Announce(r)
              /\ queue'[m][k][i].type = "accepted"
              /\ queue'[m][k][i].object = r
         \/ \E t \in Tasks :
              /\ EmitDelist(t)
              /\ queue'[m][k][i].type = "delist"
              /\ queue'[m][k][i].object = TaskOrder(t)
         \/ queue'[m][k][i].type = "balance"
<1> DEFINE Old == \E j \in DOMAIN queue[m][k] : queue'[m][k][i] = queue[m][k][j]
<1>0. queue \in [Nodes -> [Nodes -> Seq(Messages)]]
  BY DEF TypeOK
<1>1. CASE UNCHANGED queue
  BY <1>1
<1>2. ASSUME NEW r \in Requests, Announce(r)
      PROVE  Old \/ (queue'[m][k][i].type = "accepted" /\ queue'[m][k][i].object = r)
  <2> DEFINE n == EntryNode[r]
             msg == [type |-> "accepted", object |-> r, volume |-> remaining[n][r]]
  <2>1. n \in Nodes /\ r \in Objects
    BY ClusterAssumption DEF ClusterAssumption, Objects
  <2>2. msg \in Messages
    BY <2>1 DEF Messages, TypeOK
  <2>3. queue' = Sent(n, msg, FALSE)
    BY <1>2 DEF Announce
  <2>4. Old \/ queue'[m][k][i] = msg
    <3> HIDE DEF msg, n
    <3>1. i \in DOMAIN Sent(n, msg, FALSE)[m][k]
      BY <2>3
    <3>2. \/ Sent(n, msg, FALSE)[m][k][i] = msg
          \/ /\ i \in DOMAIN queue[m][k]
             /\ Sent(n, msg, FALSE)[m][k][i] = queue[m][k][i]
      BY <1>0, <2>1, <2>2, <3>1, SentElement
    <3> QED
      BY <2>3, <3>2
  <2> QED
    BY <2>4
<1>3. ASSUME NEW t \in Tasks, EmitDelist(t)
      PROVE  Old \/ ( /\ queue'[m][k][i].type = "delist"
                      /\ queue'[m][k][i].object = TaskOrder(t))
  <2> DEFINE msg == [type |-> "delist", object |-> TaskOrder(t), volume |-> 0]
  <2>1. task[t] \in ActiveTasks
    BY <1>3, ActiveTask DEF EmitDelist, TypeOK
  <2>2. task[t].node \in Nodes /\ TaskOrder(t) \in Orders
    BY <2>1, HashIsOrder DEF ActiveTasks, TaskOrder
  <2>3. msg \in Messages
    BY <2>2 DEF Messages, Objects
  <2>4. queue' = Sent(task[t].node, msg, TRUE)
    BY <1>3 DEF EmitDelist
  <2>5. Old \/ queue'[m][k][i] = msg
    <3> HIDE DEF msg
    <3>1. CASE queue' = Sent(task[t].node, msg, TRUE)
      <4>1. i \in DOMAIN Sent(task[t].node, msg, TRUE)[m][k]
        BY <3>1
      <4>2. \/ Sent(task[t].node, msg, TRUE)[m][k][i] = msg
            \/ /\ i \in DOMAIN queue[m][k]
               /\ Sent(task[t].node, msg, TRUE)[m][k][i] = queue[m][k][i]
        BY <1>0, <2>2, <2>3, <4>1, SentElement
      <4> QED
        BY <3>1, <4>2
    <3>2. CASE queue' = queue
      BY <3>2
    <3> QED
      BY <2>4, <3>1, <3>2
  <2> QED
    BY <2>5
<1>4. ASSUME NEW t \in Tasks, EmitBalance(t)
      PROVE  Old \/ queue'[m][k][i].type = "balance"
  <2> DEFINE msg == [type |-> "balance", object |-> TaskOrder(t),
                     volume |-> task[t].volume]
  <2>1. task[t] \in ActiveTasks
    BY <1>4, ActiveTask DEF EmitBalance, TypeOK
  <2>2. task[t].node \in Nodes /\ TaskOrder(t) \in Orders /\ task[t].volume \in Nat
    BY <2>1, HashIsOrder DEF ActiveTasks, TaskOrder
  <2>3. msg \in Messages
    BY <2>2 DEF Messages, Objects
  <2>4. queue' \in {queue, Sent(task[t].node, msg, TRUE)}
    BY <1>4 DEF EmitBalance
  <2>5. Old \/ queue'[m][k][i] = msg
    <3> HIDE DEF msg
    <3>1. CASE queue' = Sent(task[t].node, msg, TRUE)
      <4>1. i \in DOMAIN Sent(task[t].node, msg, TRUE)[m][k]
        BY <3>1
      <4>2. \/ Sent(task[t].node, msg, TRUE)[m][k][i] = msg
            \/ /\ i \in DOMAIN queue[m][k]
               /\ Sent(task[t].node, msg, TRUE)[m][k][i] = queue[m][k][i]
        BY <1>0, <2>2, <2>3, <4>1, SentElement
      <4> QED
        BY <3>1, <4>2
    <3>2. CASE queue' = queue
      BY <3>2
    <3> QED
      BY <2>4, <3>1, <3>2
  <2> QED
    BY <2>5
<1>5. ASSUME NEW n \in Nodes, NEW p \in Nodes, Handling(n, p) PROVE Old
  <2>1. queue[n][p] # <<>> /\ queue' = Handled(n, p)
    BY <1>5 DEF Handling, NewOrderFromPeer, OrderUpdate, OrderDelist, MissingMarket,
                HasEvent
  <2> QED
    BY <1>0, <2>1, HandledElement
<1>6. ASSUME NEW n \in Nodes, Crash(n) PROVE Old
  <2>1. CASE m = n
    BY <1>0, <1>6, <2>1 DEF Crash
  <2>2. CASE m # n
    BY <1>0, <1>6, <2>2 DEF Crash
  <2> QED
    BY <2>1, <2>2
<1>7. ASSUME NEW n \in Nodes, NEW p \in Nodes, Disconnect(n, p) PROVE Old
  <2>1. PICK l \in 0 .. Len(queue[n][p]) :
          queue' = [queue EXCEPT ![n][p] = SubSeq(@, 1, l)]
    BY <1>7 DEF Disconnect
  <2>2. ASSUME NEW q \in Seq(Messages), l \in 0 .. Len(q), NEW j \in DOMAIN SubSeq(q, 1, l)
        PROVE  j \in DOMAIN q /\ SubSeq(q, 1, l)[j] = q[j]
    BY <2>2
  <2> QED
    BY <1>0, <2>1, <2>2
<1> QED
  BY <1>1, <1>2, <1>3, <1>4, <1>5, <1>6, <1>7 DEF Next, vars, nodeVars, Validate,
     Onboarding, CheckExists, AddOrder, Insert, OnboardFault, Checking, TaskRead,
     TaskStore, TaskFault, TaskStart, Starting, Boot, LoadBids, LoadAsks, LoadFault,
     Ready, Connect, ChainMove

\* A new cluster has nothing to back.
LEMMA StoredInvInit == Init => StoredInv
<1> SUFFICES ASSUME Init PROVE StoredInv
  OBVIOUS
<1>1. InsertedIsStored /\ AnnouncedIsStored /\ BookBackedByStore
  BY DEF Init, InsertedIsStored, AnnouncedIsStored, BookBackedByStore
<1> QED
  BY <1>1, TypeInit DEF StoredInv

\* How the progress of a submission changes in one step.
LEMMA ProgressStep ==
  ASSUME TypeOK, [Next]_vars, NEW r \in Requests
  PROVE  /\ onboard'[r] = "stored" => onboard[r] = "stored" \/ Insert(r)
         /\ onboard'[r] = "announced" => onboard[r] \in {"stored", "announced"}
         /\ onboard[r] = "added" =>
              \/ onboard'[r] \in {"added", "failed", "stored"}
              \/ book'[EntryNode[r]] = {}
         /\ onboard[r] = "failed" => onboard'[r] = "failed"
<1> USE DEF TypeOK
<1>1. CASE UNCHANGED onboard
  BY <1>1
<1>2. ASSUME NEW s \in Requests, Validate(s) \/ Onboarding(s) \/ OnboardFault(s)
      PROVE  /\ onboard'[r] = "stored" => onboard[r] = "stored" \/ Insert(r)
             /\ onboard'[r] = "announced" => onboard[r] \in {"stored", "announced"}
             /\ onboard[r] = "added" => onboard'[r] \in {"added", "failed", "stored"}
             /\ onboard[r] = "failed" => onboard'[r] = "failed"
  <2>1. CASE Validate(s)
    BY <2>1 DEF Validate
  <2>2. CASE CheckExists(s)
    BY <2>2 DEF CheckExists
  <2>3. CASE AddOrder(s)
    BY <2>3 DEF AddOrder, Added
  <2>4. CASE Insert(s)
    BY <2>4 DEF Insert
  <2>5. CASE Announce(s)
    BY <2>5 DEF Announce
  <2>6. CASE OnboardFault(s)
    BY <2>6 DEF OnboardFault
  <2> QED
    BY <1>2, <2>1, <2>2, <2>3, <2>4, <2>5, <2>6 DEF Onboarding
<1>3. ASSUME NEW n \in Nodes, Crash(n)
      PROVE  /\ onboard'[r] \in {onboard[r], "lost"}
             /\ onboard'[r] = "lost" /\ onboard[r] # "lost" => EntryNode[r] = n
             /\ book'[n] = {}
             /\ onboard[r] = "failed" => onboard'[r] = "failed"
  BY <1>3 DEF Crash, InFlight
<1> QED
  BY <1>1, <1>2, <1>3 DEF Next, vars, nodeVars, Handling, NewOrderFromPeer,
     OrderUpdate, OrderDelist, MissingMarket, Checking, TaskRead, TaskStore,
     EmitDelist, EmitBalance, TaskFault, TaskStart, Starting, Boot, LoadBids,
     LoadAsks, LoadFault, Ready, Connect, Disconnect, ChainMove

\* Where an object of a book comes from.
LEMMA BookStep ==
  ASSUME TypeOK, [Next]_vars, NEW n \in Nodes, NEW x \in book'[n], x \notin book[n]
  PROVE  \/ x \in Requests /\ EntryNode[x] = n /\ onboard'[x] = "added"
         \/ \E p \in Nodes : HasEvent(n, p, "accepted") /\ x = Head(queue[n][p]).object
         \/ x \in Orders /\ store[x].state = "OPEN"
<1> USE DEF TypeOK
<1>1. ASSUME NEW r \in Requests, AddOrder(r)
      PROVE  x \in Requests /\ EntryNode[x] = n /\ onboard'[x] = "added"
  BY <1>1, ClusterAssumption DEF AddOrder, Added, ClusterAssumption
<1>2. ASSUME NEW m \in Nodes, NEW p \in Nodes, NewOrderFromPeer(m, p)
      PROVE  HasEvent(n, p, "accepted") /\ x = Head(queue[n][p]).object
  BY <1>2 DEF NewOrderFromPeer, Added
<1>3. ASSUME NEW m \in Nodes, NEW p \in Nodes, OrderDelist(m, p) PROVE FALSE
  BY <1>3 DEF OrderDelist, DelistOrder
<1>4. ASSUME NEW m \in Nodes, LoadBids(m) \/ LoadAsks(m)
      PROVE  x \in Orders /\ store[x].state = "OPEN"
  <2>1. PICK side \in SUBSET Orders : Loaded(m, LoadOrders(store, side))
    BY <1>4, OrderAssumption DEF LoadBids, LoadAsks, Bids, OrderAssumption
  <2>2. x \in LoadOrders(store, side)
    BY <2>1 DEF Loaded
  <2> QED
    BY <2>2 DEF LoadOrders
<1>5. ASSUME NEW m \in Nodes, LoadFault(m) \/ Crash(m) PROVE FALSE
  BY <1>5 DEF LoadFault, Crash
<1> QED
  BY <1>1, <1>2, <1>3, <1>4, <1>5 DEF Next, vars, nodeVars, Validate, Onboarding,
     CheckExists, Insert, Announce, OnboardFault, Handling, OrderUpdate,
     MissingMarket, Checking, TaskRead, TaskStore, EmitDelist, EmitBalance,
     TaskFault, TaskStart, Starting, Boot, Ready, Connect, Disconnect, ChainMove

\* Each action keeps every part of StoredInv: no event, object or check of an
\* order appears before its record.
LEMMA StoredInvNext == StoredInv /\ [Next]_vars => StoredInv'
<1> SUFFICES ASSUME StoredInv, [Next]_vars PROVE StoredInv'
  OBVIOUS
<1>1. TypeOK /\ TypeOK'
  BY TypeNext DEF StoredInv
<1>2. \A x \in Objects : Stored(x) => Stored(x)'
  BY <1>1, StoredStays
<1>3. InsertedIsStored'
  <2> SUFFICES ASSUME NEW r \in Requests, onboard'[r] \in {"stored", "announced"}
               PROVE  Stored(r)'
    BY DEF InsertedIsStored
  <2>1. r \in Objects
    BY DEF Objects
  <2>2. CASE Insert(r)
    BY <1>1, <2>2, ClusterAssumption
    DEF Insert, InsertOrder, Stored, HashOf, OrderExists, ClusterAssumption,
        TypeOK, Stores
  <2>3. CASE onboard[r] \in {"stored", "announced"}
    BY <1>2, <2>1, <2>3 DEF StoredInv, InsertedIsStored
  <2> QED
    BY <1>1, <2>2, <2>3, ProgressStep
<1>4. AnnouncedIsStored'
  <2> SUFFICES ASSUME NEW n \in Nodes, NEW p \in Nodes, NEW i \in DOMAIN queue'[n][p],
                      queue'[n][p][i].type = "accepted"
               PROVE  OrderExists(store', HashOf(queue'[n][p][i].object))
    BY DEF AnnouncedIsStored, Stored
  <2>1. ASSUME NEW x \in Objects, Stored(x), queue'[n][p][i].object = x
        PROVE  OrderExists(store', HashOf(queue'[n][p][i].object))
    BY <1>2, <2>1 DEF Stored
  <2>2. ASSUME NEW j \in DOMAIN queue[n][p], queue'[n][p][i] = queue[n][p][j]
        PROVE  OrderExists(store', HashOf(queue'[n][p][i].object))
    <3>1. Stored(queue[n][p][j].object)
      BY <2>2 DEF StoredInv, AnnouncedIsStored
    <3>2. queue[n][p][j] \in Messages
      BY <1>1, <2>2 DEF TypeOK
    <3>3. queue[n][p][j].object \in Objects
      BY <3>2 DEF Messages
    <3> QED
      BY <2>1, <2>2, <3>1, <3>3
  <2>3. ASSUME NEW r \in Requests, Announce(r), queue'[n][p][i].object = r
        PROVE  OrderExists(store', HashOf(queue'[n][p][i].object))
    <3>1. Stored(r)
      BY <2>3 DEF Announce, StoredInv, InsertedIsStored
    <3>2. r \in Objects
      BY DEF Objects
    <3> QED
      BY <2>1, <2>3, <3>1, <3>2
  <2> QED
    BY <1>1, <2>2, <2>3, QueueStep
<1>5. BookBackedByStore'
  <2> SUFFICES ASSUME NEW n \in Nodes, NEW x \in book'[n]
               PROVE  \/ Stored(x)'
                      \/ /\ x \in Requests
                         /\ EntryNode[x] = n
                         /\ onboard'[x] \in {"added", "failed"}
    BY DEF BookBackedByStore
  <2>1. x \in Objects
    BY <1>1 DEF TypeOK
  <2>2. CASE x \in book[n]
    <3>1. CASE Stored(x)
      BY <1>2, <2>1, <3>1
    <3>2. CASE /\ x \in Requests
               /\ EntryNode[x] = n
               /\ onboard[x] \in {"added", "failed"}
      <4>1. onboard'[x] \in {"added", "failed", "stored"}
        BY <1>1, <3>2, ProgressStep
      <4> QED
        BY <1>3, <3>2, <4>1 DEF InsertedIsStored
    <3> QED
      BY <2>2, <3>1, <3>2 DEF StoredInv, BookBackedByStore
  <2>3. ASSUME NEW p \in Nodes, HasEvent(n, p, "accepted"),
               x = Head(queue[n][p]).object
        PROVE  Stored(x)'
    <3>1. queue[n][p] \in Seq(Messages) /\ queue[n][p] # <<>>
      BY <1>1, <2>3 DEF TypeOK, HasEvent
    <3>2. 1 \in DOMAIN queue[n][p] /\ Head(queue[n][p]) = queue[n][p][1]
      BY <3>1
    <3> QED
      BY <1>2, <2>1, <2>3, <3>2 DEF HasEvent, StoredInv, AnnouncedIsStored
  <2>4. ASSUME x \in Orders, store[x].state = "OPEN" PROVE Stored(x)'
    <3>1. Stored(x)
      BY <2>4, ClusterAssumption DEF Stored, HashOf, OrderExists, ClusterAssumption
    <3> QED
      BY <1>2, <2>1, <3>1
  <2> QED
    BY <1>1, <2>2, <2>3, <2>4, BookStep
<1> QED
  BY <1>1, <1>3, <1>4, <1>5 DEF StoredInv

\* The inductive invariant holds in every reachable state.
THEOREM StoredInvariant == Spec => []StoredInv
  BY StoredInvInit, StoredInvNext, PTL DEF Spec

\* ObNewOrderHandler awaits insertOrder before it issues PEER_EVENT, so what a
\* peer hears of is in the database for good, whatever crashes or fails.
THEOREM AnnouncedStored == Spec => []AnnouncedIsStored
  BY StoredInvariant, PTL DEF StoredInv

\* A node lists an order that is not in the database only while its own
\* handler is between addOrder and insertOrder, or after that insert failed.
THEOREM BookBacked == Spec => []BookBackedByStore
  BY StoredInvariant, PTL DEF StoredInv
-----------------------------------------------------------------------------
(***************************************************************************)
(* Only orders whose balance was found too low leave a book.  Two          *)
(* conditions are needed: no two orders share a side and a price, because  *)
(* the sorted array removes by price; and an insert is done before a check *)
(* of the order starts, because updateVolume does nothing before.          *)
(***************************************************************************)
Closed(o) == store[o].state = "UNFUNDED" \/ FailedInsert(o)

CheckedIsStored ==
    \A t \in Tasks : task[t].pc # "idle" =>
        Stored(task[t].object) \/ FailedInsert(TaskOrder(t))

UnfundedIsClosed ==
    \A t \in Tasks : task[t].pc = "unfunded" => Closed(TaskOrder(t))

DelistIsClosed ==
    \A n, p \in Nodes : \A i \in DOMAIN queue[n][p] :
        queue[n][p][i].type = "delist" =>
            queue[n][p][i].object \in Orders /\ Closed(queue[n][p][i].object)

DelistInv ==
    /\ StoredInv
    /\ CheckedIsStored
    /\ UnfundedIsClosed
    /\ DelistIsClosed

\* A submission whose insert failed stays so.
LEMMA FailedStays ==
  ASSUME TypeOK, [Next]_vars, NEW o \in Orders, FailedInsert(o)
  PROVE  FailedInsert(o)'
  BY ProgressStep DEF FailedInsert

\* An order found unfunded stays so in the database: UNFUNDED is never undone.
LEMMA ClosedStays ==
  ASSUME TypeOK, [Next]_vars, NEW o \in Orders, Closed(o)
  PROVE  Closed(o)'
  BY StoreGrows, FailedStays DEF Closed

\* How a check in flight changes in one step.
LEMMA TaskStep ==
  ASSUME TypeOK, [Next]_vars, NEW t \in Tasks, task'[t].pc # "idle"
  PROVE  \/ /\ task'[t].object = task[t].object
            /\ task[t].pc # "idle"
            /\ task'[t].pc = "unfunded" =>
                 \/ task[t].pc = "unfunded"
                 \/ /\ task[t].pc = "read"
                    /\ store' = MarkUnfunded(store, TaskOrder(t), task[t].volume)
         \/ \E n, w \in Nodes, x \in Objects :
              TaskStart(t, n, w, x) /\ task'[t].object = x /\ task'[t].pc = "started"
<1> USE DEF TypeOK
<1> DEFINE Kept == /\ task'[t].object = task[t].object
                   /\ task[t].pc # "idle"
                   /\ task'[t].pc = "unfunded" =>
                        \/ task[t].pc = "unfunded"
                        \/ /\ task[t].pc = "read"
                           /\ store' = MarkUnfunded(store, TaskOrder(t), task[t].volume)
<1>1. CASE task'[t] = task[t]
  BY <1>1
<1>2. ASSUME NEW s \in Tasks, TaskRead(s) PROVE Kept
  <2>1. CASE s = t
    <3>1. task[t] \in ActiveTasks
      BY <1>2, <2>1, ActiveTask DEF TaskRead
    <3>2. task'[t] = [task[t] EXCEPT !.pc = "read", !.volume = available[TaskOrder(t)]]
      BY <1>2, <2>1 DEF TaskRead
    <3> QED
      BY <3>1, <3>2, <1>2, <2>1 DEF ActiveTasks, TaskRead
  <2>2. CASE s # t
    BY <1>1, <1>2, <2>2 DEF TaskRead
  <2> QED
    BY <2>1, <2>2
<1>3. ASSUME NEW s \in Tasks, TaskStore(s) PROVE Kept
  <2>1. CASE s = t
    <3>1. task[t] \in ActiveTasks
      BY <1>3, <2>1, ActiveTask DEF TaskStore
    <3>2. CASE Unfunded(TaskOrder(t), task[t].volume)
      BY <1>3, <2>1, <3>1, <3>2 DEF TaskStore, ActiveTasks
    <3>3. CASE ~Unfunded(TaskOrder(t), task[t].volume)
      BY <1>3, <2>1, <3>1, <3>3 DEF TaskStore, ActiveTasks
    <3> QED
      BY <3>2, <3>3
  <2>2. CASE s # t
    BY <1>1, <1>3, <2>2 DEF TaskStore
  <2> QED
    BY <2>1, <2>2
<1>4. ASSUME NEW s \in Tasks, EmitDelist(s) \/ EmitBalance(s) \/ TaskFault(s)
      PROVE  task'[t] = task[t]
  <2>1. task' = [task EXCEPT ![s] = NoTask]
    BY <1>4 DEF EmitDelist, EmitBalance, TaskFault
  <2>2. NoTask.pc = "idle"
    BY DEF NoTask
  <2> QED
    BY <2>1, <2>2
<1>5. ASSUME NEW s \in Tasks, NEW n \in Nodes, NEW w \in Nodes, NEW x \in Objects,
             TaskStart(s, n, w, x)
      PROVE  \/ task'[t] = task[t]
             \/ s = t /\ task'[t].object = x /\ task'[t].pc = "started"
  BY <1>5 DEF TaskStart
<1>6. ASSUME NEW n \in Nodes, Crash(n) PROVE task'[t] = task[t]
  BY <1>6 DEF Crash, NoTask
<1> QED
  BY <1>1, <1>2, <1>3, <1>4, <1>5, <1>6 DEF Next, vars, nodeVars, Validate,
     Onboarding, CheckExists, AddOrder, Insert, Announce, OnboardFault, Handling,
     NewOrderFromPeer, OrderUpdate, OrderDelist, MissingMarket, Checking, Starting,
     Boot, LoadBids, LoadAsks, LoadFault, Ready, Connect, Disconnect, ChainMove

\* A new cluster has no checks and no delistings.
LEMMA DelistInvInit == Init => DelistInv
<1> SUFFICES ASSUME Init PROVE DelistInv
  OBVIOUS
<1>1. CheckedIsStored /\ UnfundedIsClosed /\ DelistIsClosed
  BY DEF Init, CheckedIsStored, UnfundedIsClosed, DelistIsClosed, NoTask
<1> QED
  BY <1>1, StoredInvInit DEF DelistInv

\* With prompt inserts, each action keeps every part of DelistInv.
LEMMA DelistInvNext ==
  ASSUME PromptWrites
  PROVE  DelistInv /\ [Next]_vars => DelistInv'
<1> SUFFICES ASSUME DelistInv, [Next]_vars PROVE DelistInv'
  OBVIOUS
<1>1. StoredInv' /\ TypeOK /\ TypeOK'
  BY StoredInvNext, TypeNext DEF DelistInv, StoredInv
<1>2. \A t \in Tasks : task[t].pc # "idle" =>
        task[t].object \in Objects /\ TaskOrder(t) \in Orders
  BY <1>1, ActiveTask, HashIsOrder DEF TypeOK, ActiveTasks, TaskOrder
<1>3. CheckedIsStored'
  <2> SUFFICES ASSUME NEW t \in Tasks, task'[t].pc # "idle",
                      NEW x \in Objects, task'[t].object = x
               PROVE  Stored(x)' \/ FailedInsert(HashOf(x))'
    <3>1. \A t \in Tasks : task'[t].pc # "idle" => task'[t].object \in Objects
      BY <1>1, ActiveTask DEF TypeOK, ActiveTasks
    <3> QED
      BY <3>1 DEF CheckedIsStored, TaskOrder
  <2>1. Stored(x) \/ FailedInsert(HashOf(x)) => Stored(x)' \/ FailedInsert(HashOf(x))'
    BY <1>1, StoredStays, FailedStays, HashIsOrder
  <2>2. CASE task'[t].object = task[t].object /\ task[t].pc # "idle"
    BY <2>1, <2>2 DEF DelistInv, CheckedIsStored, TaskOrder
  <2>3. ASSUME NEW n \in Nodes, NEW w \in Nodes, TaskStart(t, n, w, x)
        PROVE  Stored(x)' \/ FailedInsert(HashOf(x))'
    <3>1. x \in book[n] /\ ~BeingInserted(n, x)
      BY <2>3 DEF TaskStart
    <3>2. \/ Stored(x)
          \/ x \in Requests /\ EntryNode[x] = n /\ onboard[x] \in {"added", "failed"}
      BY <3>1 DEF DelistInv, StoredInv, BookBackedByStore
    <3>3. Stored(x) \/ FailedInsert(HashOf(x))
      BY <3>1, <3>2 DEF BeingInserted, FailedInsert, HashOf
    <3> QED
      BY <2>1, <3>3
  <2> QED
    BY <1>1, <2>2, <2>3, TaskStep
<1>4. UnfundedIsClosed'
  <2> SUFFICES ASSUME NEW t \in Tasks, task'[t].pc = "unfunded",
                      NEW o \in Orders, o = TaskOrder(t)
               PROVE  Closed(o)'
    <3>1. \A t \in Tasks : task'[t].pc = "unfunded" =>
            task'[t].object = task[t].object /\ task[t].pc # "idle"
      BY <1>1, TaskStep
    <3> QED
      BY <1>2, <3>1 DEF UnfundedIsClosed, TaskOrder
  <2>1. \/ task[t].pc = "unfunded"
        \/ task[t].pc = "read" /\ store' = MarkUnfunded(store, o, task[t].volume)
    BY <1>1, TaskStep
  <2>2. CASE task[t].pc = "unfunded"
    BY <1>1, <2>2, ClosedStays DEF DelistInv, UnfundedIsClosed
  <2>3. CASE task[t].pc = "read" /\ store' = MarkUnfunded(store, o, task[t].volume)
    <3>1. CASE FailedInsert(o)
      BY <1>1, <3>1, FailedStays DEF Closed
    <3>2. CASE Stored(task[t].object)
      <4>1. OrderExists(store, o)
        BY <3>2 DEF Stored, TaskOrder
      <4>2. store'[o].state = "UNFUNDED"
        BY <1>1, <2>3, <4>1 DEF MarkUnfunded, TypeOK, Stores
      <4> QED
        BY <4>2 DEF Closed
    <3> QED
      BY <2>3, <3>1, <3>2 DEF DelistInv, CheckedIsStored
  <2> QED
    BY <2>1, <2>2, <2>3
<1>5. DelistIsClosed'
  <2> SUFFICES ASSUME NEW n \in Nodes, NEW p \in Nodes, NEW i \in DOMAIN queue'[n][p],
                      queue'[n][p][i].type = "delist",
                      NEW o, o = queue'[n][p][i].object
               PROVE  o \in Orders /\ Closed(o)'
    BY DEF DelistIsClosed, Closed, FailedInsert
  <2>1. ASSUME NEW j \in DOMAIN queue[n][p], queue'[n][p][i] = queue[n][p][j]
        PROVE  o \in Orders /\ Closed(o)'
    BY <1>1, <2>1, ClosedStays DEF DelistInv, DelistIsClosed
  <2>2. ASSUME NEW t \in Tasks, EmitDelist(t), o = TaskOrder(t)
        PROVE  o \in Orders /\ Closed(o)'
    <3>1. o \in Orders
      BY <1>2, <2>2 DEF EmitDelist
    <3>2. Closed(o)
      BY <2>2 DEF EmitDelist, DelistInv, UnfundedIsClosed
    <3> QED
      BY <1>1, <3>1, <3>2, ClosedStays
  <2> QED
    BY <1>1, <2>1, <2>2, QueueStep
<1> QED
  BY <1>1, <1>3, <1>4, <1>5 DEF DelistInv

\* An object leaves the book of a node that is ready by an ORDER_DELIST only.
LEMMA DelistStep ==
  ASSUME TypeOK, [Next]_vars, NEW n \in Nodes, NEW x \in book[n] \ book'[n],
         phase[n] = "ready", phase'[n] = "ready"
  PROVE  \E p \in Nodes : OrderDelist(n, p)
<1> USE DEF TypeOK
<1>1. ASSUME NEW r \in Requests, AddOrder(r) PROVE FALSE
  BY <1>1 DEF AddOrder, Added
<1>2. ASSUME NEW m \in Nodes, NEW p \in Nodes, NewOrderFromPeer(m, p) PROVE FALSE
  BY <1>2 DEF NewOrderFromPeer, Added
<1>3. ASSUME NEW m \in Nodes, NEW p \in Nodes, OrderDelist(m, p) PROVE m = n
  <2>1. CASE book' = book
    BY <2>1
  <2>2. CASE book' # book
    <3>1. PICK y : book' = [book EXCEPT ![m] = @ \ {y}]
      BY <1>3, <2>2 DEF OrderDelist, DelistOrder
    <3> QED
      BY <3>1
  <2> QED
    BY <2>1, <2>2
<1>4. ASSUME NEW m \in Nodes, LoadBids(m) \/ LoadAsks(m) PROVE FALSE
  <2>1. PICK orders : Loaded(m, orders)
    BY <1>4 DEF LoadBids, LoadAsks
  <2> QED
    BY <2>1 DEF Loaded
<1>5. ASSUME NEW m \in Nodes, LoadFault(m) \/ Crash(m) PROVE FALSE
  BY <1>5 DEF LoadFault, Crash
<1> QED
  BY <1>1, <1>2, <1>3, <1>4, <1>5 DEF Next, vars, nodeVars, Validate, Onboarding,
     CheckExists, Insert, Announce, OnboardFault, Handling, OrderUpdate,
     MissingMarket, Checking, TaskRead, TaskStore, EmitDelist, EmitBalance,
     TaskFault, TaskStart, Starting, Boot, Ready, Connect, Disconnect, ChainMove

\* What OrderDelistHandler takes out of a book of distinct prices is closed.
LEMMA DelistedIsClosed ==
  ASSUME DelistInv, NEW n \in Nodes, NEW p \in Nodes, OrderDelist(n, p),
         \A a, b \in Orders : Level[a] = Level[b] => a = b,
         NEW x \in book[n] \ book'[n]
  PROVE  Closed(HashOf(x))
<1>1. TypeOK
  BY DEF DelistInv, StoredInv
<1> DEFINE m == Head(queue[n][p])
<1>2. queue[n][p] \in Seq(Messages) /\ queue[n][p] # <<>>
  BY <1>1 DEF TypeOK, OrderDelist, HasEvent
<1>3. 1 \in DOMAIN queue[n][p] /\ m = queue[n][p][1]
  BY <1>2
<1>4. m.object \in Orders /\ Closed(m.object)
  BY <1>3 DEF OrderDelist, HasEvent, DelistInv, DelistIsClosed
<1>5. PICK z, y : /\ z \in ListedAs(n, m.object)
                  /\ y \in Removable(n, z)
                  /\ book' = [book EXCEPT ![n] = @ \ {y}]
  BY DEF OrderDelist, DelistOrder
<1>6. x = y
  BY <1>1, <1>5 DEF TypeOK
<1>7. z \in Objects /\ x \in Objects /\ HashOf(z) = m.object
  BY <1>1, <1>5 DEF TypeOK, ListedAs
<1>8. Level[HashOf(x)] = Level[HashOf(z)]
  BY <1>5, <1>6 DEF Removable
<1>9. HashOf(x) = m.object
  BY <1>7, <1>8, HashIsOrder
<1> QED
  BY <1>4, <1>9

\* "remove order if balance is 0 or lower than min amount": on a node that
\* stays up, an order leaves the book only after the database took it for
\* UNFUNDED, if no two orders have the same side and price and inserts are
\* prompt.  MCSamePrice shows that the first condition is needed.
THEOREM DelistedWasUnfunded ==
  ASSUME PromptWrites, \A a, b \in Orders : Level[a] = Level[b] => a = b
  PROVE  Spec => OnlyUnfundedLeave
<1> DEFINE Leaves == \A n \in Nodes : \A x \in book[n] \ book'[n] :
              phase[n] = "ready" /\ phase'[n] = "ready" /\ ~FailedInsert(HashOf(x))
                => store[HashOf(x)].state # "OPEN"
<1>1. DelistInv /\ [Next]_vars => Leaves
  <2> SUFFICES ASSUME DelistInv, [Next]_vars, NEW n \in Nodes,
                      NEW x \in book[n] \ book'[n],
                      phase[n] = "ready", phase'[n] = "ready", ~FailedInsert(HashOf(x))
               PROVE  store[HashOf(x)].state # "OPEN"
    OBVIOUS
  <2>1. TypeOK
    BY DEF DelistInv, StoredInv
  <2>2. PICK p \in Nodes : OrderDelist(n, p)
    BY <2>1, DelistStep
  <2>3. Closed(HashOf(x))
    BY <2>2, DelistedIsClosed
  <2> QED
    BY <2>3 DEF Closed
<1>2. Spec => []DelistInv
  BY DelistInvInit, DelistInvNext, PTL DEF Spec
<1>3. DelistInv /\ [Next]_vars => [Leaves]_vars
  BY <1>1
<1> QED
  BY <1>2, <1>3, PTL DEF Spec, OnlyUnfundedLeave
=============================================================================
