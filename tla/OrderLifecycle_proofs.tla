----------------------- MODULE OrderLifecycle_proofs -----------------------
(***************************************************************************)
(* OrderbookCluster implements OrderLifecycle.  Each action of the cluster *)
(* maps to one action of the life cycle, or leaves its variables alone; the*)
(* invariant DelistInv is what makes an ORDER_DELIST a Hide, and what makes*)
(* an event of a peer a Show.                                              *)
(***************************************************************************)
EXTENDS OrderbookCluster_proofs

\* The variables of the life cycle, as functions of those of the cluster.
Recorded == [o \in Orders |-> store[o].state]
Shown == [n \in Nodes |-> Listed(n)]
UnsavedAt == [n \in Nodes |-> Unsaved(n)]
Failures == {o \in Orders : FailedInsert(o)}

Mapped == <<Recorded, Shown, UnsavedAt, Failures>>

\* What a submission stands for depends on its own progress only.
LEMMA SameProgress ==
  ASSUME \A r \in Requests :
           /\ onboard'[r] \in {"absent", "added"} <=> onboard[r] \in {"absent", "added"}
           /\ onboard'[r] = "failed" <=> onboard[r] = "failed"
  PROVE  UnsavedAt' = UnsavedAt /\ Failures' = Failures
  BY DEF UnsavedAt, Unsaved, Failures, FailedInsert

LEMMA InitMaps == Init => Lifecycle!Init
<1> SUFFICES ASSUME Init PROVE Lifecycle!Init
  OBVIOUS
<1>1. Recorded = [o \in Orders |-> "none"]
  BY DEF Recorded, Init, EmptyStore, NoRecord
<1>2. Shown = [n \in Nodes |-> {}]
  BY DEF Shown, Listed, Init
<1>3. UnsavedAt = [n \in Nodes |-> {}]
  BY DEF UnsavedAt, Unsaved, Init
<1>4. Failures = {}
  BY DEF Failures, FailedInsert, Init
<1> QED
  BY <1>1, <1>2, <1>3, <1>4
  DEF Lifecycle!Init, Recorded, Shown, UnsavedAt, Failures

\* A submission that is found absent is admitted.
LEMMA CheckMaps ==
  ASSUME TypeOK, NEW r \in Requests, CheckExists(r)
  PROVE  Lifecycle!Admit(EntryNode[r], OrderOf[r]) \/ UNCHANGED Mapped
<1> DEFINE n == EntryNode[r]
           o == OrderOf[r]
<1>1. o \in Orders /\ n \in Nodes
  BY ClusterAssumption DEF ClusterAssumption
<1>2. Recorded' = Recorded /\ Shown' = Shown
  BY DEF CheckExists, nodeVars, Recorded, Shown, Listed
<1>3. CASE OrderExists(store, o)
  <2>1. onboard' = [onboard EXCEPT ![r] = "rejected"] /\ onboard[r] = "onboard"
    BY <1>3 DEF CheckExists
  <2>2. UnsavedAt' = UnsavedAt /\ Failures' = Failures
    BY <2>1, SameProgress DEF TypeOK
  <2> QED
    BY <1>2, <2>2 DEF Mapped
<1>4. CASE ~OrderExists(store, o)
  <2>1. onboard' = [onboard EXCEPT ![r] = "absent"] /\ onboard[r] = "onboard"
    BY <1>4 DEF CheckExists
  <2>2. Failures' = Failures
    BY <2>1 DEF TypeOK, Failures, FailedInsert
  <2>3. UnsavedAt' = [UnsavedAt EXCEPT ![n] = @ \cup {o}]
    <3>1. \A q \in Requests : q # r => onboard'[q] = onboard[q]
      BY <2>1 DEF TypeOK
    <3>2. onboard'[r] = "absent" /\ onboard[r] = "onboard"
      BY <2>1 DEF TypeOK
    <3>3. ASSUME NEW m \in Nodes, m # n PROVE Unsaved(m)' = Unsaved(m)
      BY <3>1, <3>2, <3>3 DEF Unsaved
    <3>4. Unsaved(n)' = Unsaved(n) \cup {o}
      BY <3>1, <3>2 DEF Unsaved
    <3> QED
      BY <1>1, <3>3, <3>4 DEF UnsavedAt
  <2>4. Recorded[o] = "none"
    BY <1>1, <1>4 DEF OrderExists, Recorded
  <2> QED
    BY <1>2, <2>2, <2>3, <2>4
    DEF Lifecycle!Admit, Recorded, Shown, UnsavedAt, Failures
<1> QED
  BY <1>3, <1>4

\* An object that joins the book of n shows its order.
LEMMA AddedShows ==
  ASSUME TypeOK, NEW n \in Nodes, NEW x \in Objects, NEW v, Added(n, x, v)
  PROVE  Shown' = [Shown EXCEPT ![n] = @ \cup {HashOf(x)}]
  BY DEF TypeOK, Added, Shown, Listed

LEMMA AddMaps ==
  ASSUME TypeOK, NEW r \in Requests, AddOrder(r)
  PROVE  Lifecycle!Show(EntryNode[r], OrderOf[r])
<1> DEFINE n == EntryNode[r]
           o == OrderOf[r]
<1>1. o \in Orders /\ n \in Nodes /\ r \in Objects /\ HashOf(r) = o
  BY ClusterAssumption DEF ClusterAssumption, Objects, HashOf
<1>2. Recorded' = Recorded
  BY DEF AddOrder, Recorded
<1>3. Shown' = [Shown EXCEPT ![n] = @ \cup {o}]
  BY <1>1, AddedShows DEF AddOrder
<1>4. onboard' = [onboard EXCEPT ![r] = "added"] /\ onboard[r] = "absent"
  BY DEF AddOrder
<1>5. UnsavedAt' = UnsavedAt /\ Failures' = Failures
  BY <1>4, SameProgress DEF TypeOK
<1>6. o \in UnsavedAt[n]
  BY <1>1, <1>4 DEF UnsavedAt, Unsaved
<1> QED
  BY <1>2, <1>3, <1>5, <1>6 DEF Lifecycle!Show, Recorded, Shown, UnsavedAt, Failures

\* When a submission of o leaves n's insert, n may still have another one.
LEMMA DoneMaps ==
  ASSUME TypeOK, NEW r \in Requests, NEW p \in Progress \ {"absent", "added"},
         onboard[r] = "added", onboard' = [onboard EXCEPT ![r] = p]
  PROVE  Lifecycle!Done(EntryNode[r], OrderOf[r])
<1> DEFINE n == EntryNode[r]
           o == OrderOf[r]
<1>1. o \in Orders /\ n \in Nodes
  BY ClusterAssumption DEF ClusterAssumption
<1>2. o \in UnsavedAt[n]
  BY <1>1 DEF UnsavedAt, Unsaved
<1>3. \A m \in Nodes : m # n => Unsaved(m)' = Unsaved(m)
  BY DEF TypeOK, Unsaved
<1>4. Unsaved(n)' = Unsaved(n) \/ Unsaved(n)' = Unsaved(n) \ {o}
  BY DEF TypeOK, Unsaved
<1>5. UnsavedAt' \in {UnsavedAt, [UnsavedAt EXCEPT ![n] = @ \ {o}]}
  BY <1>1, <1>3, <1>4 DEF UnsavedAt
<1> QED
  BY <1>2, <1>5 DEF Lifecycle!Done, UnsavedAt

LEMMA InsertMaps ==
  ASSUME TypeOK, NEW r \in Requests, Insert(r)
  PROVE  Lifecycle!Save(EntryNode[r], OrderOf[r])
<1> DEFINE o == OrderOf[r]
<1>1. o \in Orders
  BY ClusterAssumption DEF ClusterAssumption
<1>2. Shown' = Shown
  BY DEF Insert, nodeVars, Shown, Listed
<1>3. onboard' = [onboard EXCEPT ![r] = "stored"] /\ onboard[r] = "added"
  BY DEF Insert
<1>4. Failures' = Failures
  BY <1>3 DEF TypeOK, Failures, FailedInsert
<1>5. Recorded' = IF Recorded[o] = "none" THEN [Recorded EXCEPT ![o] = "OPEN"] ELSE Recorded
  BY <1>1 DEF Insert, InsertOrder, OrderExists, Recorded, TypeOK, Stores
<1>6. Lifecycle!Done(EntryNode[r], o)
  BY <1>3, DoneMaps DEF Progress
<1> QED
  BY <1>2, <1>4, <1>5, <1>6 DEF Lifecycle!Save, Recorded, Shown, Failures

LEMMA FaultMaps ==
  ASSUME TypeOK, NEW r \in Requests, OnboardFault(r)
  PROVE  Lifecycle!SaveFails(EntryNode[r], OrderOf[r]) \/ UNCHANGED Mapped
<1>1. Recorded' = Recorded /\ Shown' = Shown
  BY DEF OnboardFault, nodeVars, Recorded, Shown, Listed
<1>2. CASE onboard[r] = "onboard" /\ onboard' = [onboard EXCEPT ![r] = "lost"]
  BY <1>1, <1>2, SameProgress DEF TypeOK, Mapped
<1>3. CASE onboard[r] = "added" /\ onboard' = [onboard EXCEPT ![r] = "failed"]
  <2>1. OrderOf[r] \in Orders
    BY ClusterAssumption DEF ClusterAssumption
  <2>2. Failures' = Failures \cup {OrderOf[r]}
    BY <1>3, <2>1 DEF TypeOK, Failures, FailedInsert
  <2>3. Lifecycle!Done(EntryNode[r], OrderOf[r])
    BY <1>3, DoneMaps DEF Progress
  <2> QED
    BY <1>1, <2>2, <2>3 DEF Lifecycle!SaveFails, Recorded, Shown, Failures
<1> QED
  BY <1>2, <1>3 DEF OnboardFault

\* An event NEW_ORDER_ACCEPTED of a peer is about an order that is recorded.
LEMMA PeerMaps ==
  ASSUME StoredInv, NEW n \in Nodes, NEW p \in Nodes, NewOrderFromPeer(n, p)
  PROVE  Lifecycle!Show(n, HashOf(Head(queue[n][p]).object))
<1> DEFINE m == Head(queue[n][p])
           o == HashOf(m.object)
<1>1. TypeOK
  BY DEF StoredInv
<1>2. queue[n][p] \in Seq(Messages) /\ queue[n][p] # <<>>
  BY <1>1 DEF TypeOK, NewOrderFromPeer, HasEvent
<1>3. 1 \in DOMAIN queue[n][p] /\ m = queue[n][p][1] /\ m \in Messages
  BY <1>2
<1>4. m.object \in Objects /\ o \in Orders
  BY <1>3, HashIsOrder DEF Messages
<1>5. Recorded[o] # "none"
  <2>1. Stored(m.object)
    BY <1>3 DEF StoredInv, AnnouncedIsStored, NewOrderFromPeer, HasEvent
  <2> QED
    BY <2>1, <1>4 DEF Stored, OrderExists, Recorded
<1>6. Shown' = [Shown EXCEPT ![n] = @ \cup {o}]
  BY <1>1, <1>4, AddedShows DEF NewOrderFromPeer
<1>7. Recorded' = Recorded /\ UnsavedAt' = UnsavedAt /\ Failures' = Failures
  BY DEF NewOrderFromPeer, Recorded, UnsavedAt, Unsaved, Failures, FailedInsert
<1> QED
  BY <1>5, <1>6, <1>7 DEF Lifecycle!Show, Recorded, Shown, UnsavedAt, Failures

\* An ORDER_DELIST hides a closed order, unless the node has another object
\* of that order.
LEMMA DelistMaps ==
  ASSUME DelistInv, \A a, b \in Orders : Level[a] = Level[b] => a = b,
         NEW n \in Nodes, NEW p \in Nodes, OrderDelist(n, p)
  PROVE  (\E o \in Orders : Lifecycle!Hide(n, o)) \/ UNCHANGED Mapped
<1>1. TypeOK
  BY DEF DelistInv, StoredInv
<1>2. Recorded' = Recorded /\ UnsavedAt' = UnsavedAt /\ Failures' = Failures
  BY DEF OrderDelist, Recorded, UnsavedAt, Unsaved, Failures, FailedInsert
<1>3. CASE book' = book
  BY <1>2, <1>3 DEF Mapped, Shown, Listed
<1>4. CASE book' # book
  <2>1. PICK x : x \in Objects /\ book' = [book EXCEPT ![n] = @ \ {x}]
    BY <1>1, <1>4 DEF OrderDelist, DelistOrder, Removable, TypeOK
  <2>2. x \in book[n] \ book'[n]
    BY <1>1, <1>4, <2>1 DEF TypeOK
  <2> DEFINE o == HashOf(x)
  <2>3. o \in Orders /\ Closed(o)
    BY <2>1, <2>2, DelistedIsClosed, HashIsOrder
  <2>4. \A m \in Nodes : m # n => Listed(m)' = Listed(m)
    BY <2>1, <1>1 DEF Listed, TypeOK
  <2>5. Listed(n)' = Listed(n) \/ Listed(n)' = Listed(n) \ {o}
    BY <2>1, <2>2, <1>1 DEF Listed, TypeOK
  <2>6. Shown' = Shown \/ Shown' = [Shown EXCEPT ![n] = @ \ {o}]
    BY <2>4, <2>5 DEF Shown
  <2>7. Recorded[o] = "UNFUNDED" \/ o \in Failures
    BY <2>3 DEF Closed, Recorded, Failures
  <2>8. CASE Shown' = Shown
    BY <1>2, <2>8 DEF Mapped
  <2>9. CASE Shown' = [Shown EXCEPT ![n] = @ \ {o}]
    BY <1>2, <2>3, <2>7, <2>9
    DEF Lifecycle!Hide, Recorded, Shown, UnsavedAt, Failures
  <2> QED
    BY <2>6, <2>8, <2>9
<1> QED
  BY <1>3, <1>4

\* A check may close the record of its order; it does nothing else.
LEMMA TaskMaps ==
  ASSUME TypeOK, NEW t \in Tasks, TaskStore(t), NEW o \in Orders, o = TaskOrder(t)
  PROVE  Lifecycle!Close(o) \/ UNCHANGED Mapped
<1>2. Shown' = Shown /\ UnsavedAt' = UnsavedAt /\ Failures' = Failures
  BY DEF TaskStore, nodeVars, Shown, Listed, UnsavedAt, Unsaved, Failures, FailedInsert
<1>3. store[o] \in Records \cup {NoRecord}
  BY DEF TypeOK, Stores
<1>4. CASE store' = UpdateVolume(store, o, task[t].volume)
  <2>1. \A a \in Orders : store'[a].state = store[a].state
    BY <1>3, <1>4 DEF UpdateVolume, TypeOK, Stores, Records, NoRecord
  <2> QED
    BY <1>2, <2>1 DEF Mapped, Recorded
<1>5. CASE store' = MarkUnfunded(store, o, task[t].volume)
  <2>1. CASE store[o].state = "OPEN"
    <3>1. Recorded' = [Recorded EXCEPT ![o] = "UNFUNDED"] /\ Recorded[o] = "OPEN"
      BY <1>5, <2>1 DEF MarkUnfunded, OrderExists, TypeOK, Stores, Recorded
    <3> QED
      BY <1>2, <3>1 DEF Lifecycle!Close, Recorded, Shown, UnsavedAt, Failures
  <2>2. CASE store[o].state # "OPEN"
    <3>1. \A a \in Orders : store'[a].state = store[a].state
      BY <1>3, <1>5, <2>2
      DEF MarkUnfunded, OrderExists, TypeOK, Stores, Records, NoRecord
    <3> QED
      BY <1>2, <3>1 DEF Mapped, Recorded
  <2> QED
    BY <2>1, <2>2
<1> QED
  BY <1>4, <1>5 DEF TaskStore

\* A node that starts loads open orders.
LEMMA LoadMaps ==
  ASSUME TypeOK, NEW n \in Nodes, LoadBids(n) \/ LoadAsks(n)
  PROVE  Lifecycle!Load(n)
<1>1. PICK side \in SUBSET Orders : Loaded(n, LoadOrders(store, side))
  BY OrderAssumption DEF LoadBids, LoadAsks, Bids, OrderAssumption
<1> DEFINE open == LoadOrders(store, side)
<1>2. open \in SUBSET {o \in Orders : Recorded[o] = "OPEN"}
  BY DEF LoadOrders, Recorded
<1>3. \A x \in open : HashOf(x) = x
  BY <1>2, ClusterAssumption DEF HashOf, ClusterAssumption
<1>4. Shown' = [Shown EXCEPT ![n] = @ \cup open]
  <2>1. book' = [book EXCEPT ![n] = @ \cup open]
    BY <1>1 DEF Loaded
  <2>2. \A m \in Nodes : m # n => Listed(m)' = Listed(m)
    BY <2>1 DEF TypeOK, Listed
  <2>3. Listed(n)' = Listed(n) \cup open
    BY <1>3, <2>1 DEF TypeOK, Listed
  <2> QED
    BY <2>2, <2>3 DEF Shown
<1>5. Recorded' = Recorded /\ UnsavedAt' = UnsavedAt /\ Failures' = Failures
  BY DEF LoadBids, LoadAsks, Recorded, UnsavedAt, Unsaved, Failures, FailedInsert
<1> QED
  BY <1>2, <1>4, <1>5 DEF Lifecycle!Load, Recorded, Shown, UnsavedAt, Failures

LEMMA StopMaps ==
  ASSUME TypeOK, NEW n \in Nodes, LoadFault(n) \/ Crash(n)
  PROVE  Lifecycle!Stop(n)
<1>1. Recorded' = Recorded
  BY DEF LoadFault, Crash, Recorded
<1>2. Shown' = [Shown EXCEPT ![n] = {}]
  <2>1. book' = [book EXCEPT ![n] = {}]
    BY DEF LoadFault, Crash
  <2>2. Listed(n)' = {} /\ \A m \in Nodes : m # n => Listed(m)' = Listed(m)
    BY <2>1 DEF TypeOK, Listed
  <2> QED
    BY <2>2 DEF Shown
<1>3. CASE LoadFault(n)
  <2>1. UnsavedAt' = UnsavedAt /\ Failures' = Failures
    BY <1>3 DEF LoadFault, UnsavedAt, Unsaved, Failures, FailedInsert
  <2> QED
    BY <1>1, <1>2, <2>1 DEF Lifecycle!Stop, Recorded, Shown, UnsavedAt, Failures
<1>4. CASE Crash(n)
  <2>1. \A r \in Requests :
          onboard'[r] = IF EntryNode[r] = n /\ onboard[r] \in InFlight
                          THEN "lost" ELSE onboard[r]
    BY <1>4 DEF Crash
  <2>2. Failures' = Failures
    BY <2>1 DEF Failures, FailedInsert, InFlight
  <2>3. Unsaved(n)' = {}
    BY <2>1 DEF Unsaved, InFlight
  <2>4. \A m \in Nodes : m # n => Unsaved(m)' = Unsaved(m)
    BY <2>1 DEF Unsaved
  <2>5. UnsavedAt' = [UnsavedAt EXCEPT ![n] = {}]
    BY <2>3, <2>4 DEF UnsavedAt
  <2> QED
    BY <1>1, <1>2, <2>2, <2>5 DEF Lifecycle!Stop, Recorded, Shown, UnsavedAt, Failures
<1> QED
  BY <1>3, <1>4

LEMMA StepMaps ==
  ASSUME PromptWrites, \A a, b \in Orders : Level[a] = Level[b] => a = b
  PROVE  DelistInv /\ [Next]_vars => [Lifecycle!Next]_(Lifecycle!vars)
<1> SUFFICES ASSUME DelistInv, [Next]_vars
             PROVE  Lifecycle!Next \/ UNCHANGED Mapped
  BY DEF Lifecycle!vars, Mapped, Recorded, Shown, UnsavedAt, Failures
<1>1. TypeOK /\ StoredInv
  BY DEF DelistInv, StoredInv
<1>2. CASE UNCHANGED <<store, book, onboard>>
  BY <1>2 DEF Mapped, Recorded, Shown, Listed, UnsavedAt, Unsaved, Failures, FailedInsert
<1>3. ASSUME NEW r \in Requests, Validate(r) \/ Onboarding(r) \/ OnboardFault(r)
      PROVE  Lifecycle!Next \/ UNCHANGED Mapped
  <2>1. EntryNode[r] \in Nodes /\ OrderOf[r] \in Orders
    BY ClusterAssumption DEF ClusterAssumption
  <2>2. CASE Validate(r) \/ Announce(r)
    <3>1. UNCHANGED <<store, book>>
      BY <2>2 DEF Validate, Announce, nodeVars
    <3>2. UnsavedAt' = UnsavedAt /\ Failures' = Failures
      BY <1>1, <2>2, SameProgress DEF Validate, Announce, TypeOK
    <3> QED
      BY <3>1, <3>2 DEF Mapped, Recorded, Shown, Listed
  <2>3. CASE CheckExists(r)
    BY <1>1, <2>1, <2>3, CheckMaps DEF Lifecycle!Next
  <2>4. CASE AddOrder(r)
    BY <1>1, <2>1, <2>4, AddMaps DEF Lifecycle!Next
  <2>5. CASE Insert(r)
    BY <1>1, <2>1, <2>5, InsertMaps DEF Lifecycle!Next
  <2>6. CASE OnboardFault(r)
    BY <1>1, <2>1, <2>6, FaultMaps DEF Lifecycle!Next
  <2> QED
    BY <1>3, <2>2, <2>3, <2>4, <2>5, <2>6 DEF Onboarding
<1>4. ASSUME NEW n \in Nodes, NEW p \in Nodes, NewOrderFromPeer(n, p)
      PROVE  Lifecycle!Next
  <2>1. HashOf(Head(queue[n][p]).object) \in Orders
    <3>1. Head(queue[n][p]) \in Messages
      BY <1>1, <1>4 DEF TypeOK, NewOrderFromPeer, HasEvent
    <3> QED
      BY <3>1, HashIsOrder DEF Messages
  <2> QED
    BY <1>1, <1>4, <2>1, PeerMaps DEF Lifecycle!Next
<1>5. ASSUME NEW n \in Nodes, NEW p \in Nodes, OrderDelist(n, p)
      PROVE  Lifecycle!Next \/ UNCHANGED Mapped
  BY <1>5, DelistMaps DEF Lifecycle!Next
<1>6. ASSUME NEW t \in Tasks, TaskStore(t)
      PROVE  Lifecycle!Next \/ UNCHANGED Mapped
  <2>1. TaskOrder(t) \in Orders
    BY <1>1, <1>6, ActiveTask, HashIsOrder DEF TypeOK, TaskStore, TaskOrder, ActiveTasks
  <2>2. PICK o \in Orders : o = TaskOrder(t)
    BY <2>1
  <2>3. Lifecycle!Close(o) \/ UNCHANGED Mapped
    BY <1>1, <1>6, <2>2, TaskMaps
  <2> QED
    BY <2>3 DEF Lifecycle!Next
<1>7. ASSUME NEW n \in Nodes, LoadBids(n) \/ LoadAsks(n) PROVE Lifecycle!Next
  BY <1>1, <1>7, LoadMaps DEF Lifecycle!Next
<1>8. ASSUME NEW n \in Nodes, LoadFault(n) \/ Crash(n) PROVE Lifecycle!Next
  BY <1>1, <1>8, StopMaps DEF Lifecycle!Next
<1> QED
  BY <1>2, <1>3, <1>4, <1>5, <1>6, <1>7, <1>8 DEF Next, vars, nodeVars, Handling,
     OrderUpdate, MissingMarket, Checking, TaskRead, EmitDelist, EmitBalance,
     TaskFault, TaskStart, Starting, Boot, Ready, Connect, Disconnect, ChainMove

\* For any number of nodes, orders and submissions, the cluster implements
\* the life cycle of an order, if inserts are prompt and no two orders have
\* the same side and price: the service records an order once, shows it only
\* while it records it or after, and hides it only when its record is closed.
THEOREM ClusterImplementsLifecycle ==
  ASSUME PromptWrites, \A a, b \in Orders : Level[a] = Level[b] => a = b
  PROVE  Spec => ImplementsLifecycle
<1>1. Spec => []DelistInv
  BY DelistInvInit, DelistInvNext, PTL DEF Spec
<1>2. DelistInv /\ [Next]_vars => [Lifecycle!Next]_(Lifecycle!vars)
  BY StepMaps
<1>3. Init => Lifecycle!Init
  BY InitMaps
<1> QED
  BY <1>1, <1>2, <1>3, PTL DEF Spec, ImplementsLifecycle, Lifecycle!Spec
=============================================================================
