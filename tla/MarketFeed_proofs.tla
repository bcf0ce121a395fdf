------------------------- MODULE MarketFeed_proofs -------------------------
(***************************************************************************)
(* The room of the client follows its selection, and what the client shows *)
(* of an order is right or is about to be, for any markets, orders and     *)
(* bounds; the latter if no two orders of a side of a market have one      *)
(* price.                                                                  *)
(***************************************************************************)
EXTENDS MarketFeed, TLAPS

(***************************************************************************)
(* The types of messages and of what is shown.                             *)
(***************************************************************************)
LevelMaps == UNION {[S -> 1 .. MaxVolume] : S \in SUBSET Orders}
SideMaps == UNION {[S -> LevelMaps] : S \in SUBSET Nat}
Views == [Sides -> SideMaps]

EventTypes == {"accepted", "balance", "delist"}
AnswerTypes == {"top", "level"}

Requests ==
    [type : {"subscribe"}, market : Markets]
    \cup [type : {"top"}, market : Markets, round : Nat]
    \cup [type : {"level"}, market : Markets, round : Nat, side : Sides, price : Nat]

Messages ==
    [type : EventTypes, order : Orders, volume : 1 .. MaxVolume]
    \cup [type : AnswerTypes, round : Nat, view : Views]

FeedTypeOK ==
    /\ status \in [Orders -> {"new", "added", "accepted", "unfunded"}]
    /\ book \subseteq Orders
    /\ volume \in [Orders -> 1 .. MaxVolume]
    /\ connected \in BOOLEAN
    /\ room \in Markets \cup {NoMarket}
    /\ toServer \in Seq(Requests)
    /\ toClient \in Seq(Messages)
    /\ alive \in BOOLEAN
    /\ selected \in Markets \cup {NoMarket}
    /\ round \in Nat
    /\ view \in Views
    /\ mixed \in BOOLEAN
    /\ budget \in [moves : 0 .. MaxMoves, selects : 0 .. MaxSelects, drops : 0 .. MaxDrops]

-----------------------------------------------------------------------------
LEMMA LevelMapMade ==
  ASSUME NEW S, S \subseteq Orders, NEW f, f \in [S -> 1 .. MaxVolume]
  PROVE  f \in LevelMaps
BY Zenon DEF LevelMaps

LEMMA LevelMapType ==
  ASSUME NEW f, f \in LevelMaps
  PROVE  /\ DOMAIN f \subseteq Orders
         /\ \A o \in DOMAIN f : f[o] \in 1 .. MaxVolume
         /\ f \in [DOMAIN f -> 1 .. MaxVolume]
<1>1. PICK S \in SUBSET Orders : f \in [S -> 1 .. MaxVolume]
  BY Zenon DEF LevelMaps
<1> QED
  BY <1>1

LEMMA SideMapMade ==
  ASSUME NEW S, S \subseteq Nat, NEW f, f \in [S -> LevelMaps]
  PROVE  f \in SideMaps
BY Zenon DEF SideMaps

LEMMA SideMapType ==
  ASSUME NEW f, f \in SideMaps
  PROVE  /\ DOMAIN f \subseteq Nat
         /\ \A p \in DOMAIN f : f[p] \in LevelMaps
         /\ f \in [DOMAIN f -> LevelMaps]
<1>1. PICK S \in SUBSET Nat : f \in [S -> LevelMaps]
  BY Zenon DEF SideMaps
<1> QED
  BY <1>1

LEMMA ViewType ==
  ASSUME NEW v \in Views
  PROVE  DOMAIN v = Sides /\ \A side \in Sides : IsSide(v[side])
<1>1. DOMAIN v = Sides /\ \A side \in Sides : v[side] \in SideMaps
  BY DEF Views
<1>2. ASSUME NEW side \in Sides PROVE IsSide(v[side])
  <2>1. DOMAIN v[side] \subseteq Nat /\ \A p \in DOMAIN v[side] : v[side][p] \in LevelMaps
    BY <1>1, SideMapType
  <2> QED
    BY <2>1, LevelMapType DEF IsSide
<1> QED
  BY <1>1, <1>2

LEMMA EmptyViewType == EmptyView \in Views
<1>1. NoLevels \in [{} -> LevelMaps]
  BY DEF NoLevels
<1>2. NoLevels \in SideMaps
  BY <1>1, SideMapMade
<1> QED
  BY <1>2 DEF EmptyView, Views

LEMMA DivNat ==
  ASSUME NEW a \in Nat, NEW b \in Nat \ {0}
  PROVE  a \div b \in Nat
OBVIOUS

LEMMA LevelOfType == ASSUME NEW o \in Orders PROVE LevelOf(o) \in Nat
<1>1. Price[o] \in Nat /\ Tick \in Nat \ {0}
  BY AggregateAssumption DEF AggregateAssumption
<1> DEFINE k == (2 * Price[o] + Tick) \div (2 * Tick)
<1>2. k \in Nat
  BY <1>1, DivNat
<1> HIDE DEF k
<1>3. k * Tick \in Nat
  BY <1>1, <1>2
<1>4. (k * Tick) \div Tick \in Nat
  BY <1>1, <1>3, DivNat
<1> QED
  BY <1>4 DEF LevelOf, Rounded, k

LEMMA SideOfType == \A o : SideOf(o) \in Sides
BY DEF SideOf, Sides

\* What the server answers is a view of the book: of its orders, with their
\* volumes.
LEMMA TopLevelsType ==
  ASSUME NEW S, S \subseteq Orders, volume \in [Orders -> 1 .. MaxVolume]
  PROVE  TopLevels(S, volume) \in SideMaps
<1> DEFINE P == {LevelOf(o) : o \in Taken(S)}
           F(p) == [o \in {q \in Taken(S) : LevelOf(q) = p} |-> volume[o]]
<1>1. Taken(S) \subseteq Orders
  BY DEF Taken
<1>2. P \subseteq Nat
  BY <1>1, LevelOfType
<1>3. ASSUME NEW p PROVE F(p) \in LevelMaps
  <2>1. {q \in Taken(S) : LevelOf(q) = p} \subseteq Orders
    BY <1>1
  <2>2. F(p) \in [{q \in Taken(S) : LevelOf(q) = p} -> 1 .. MaxVolume]
    BY <2>1
  <2> QED
    BY <2>1, <2>2, LevelMapMade
<1> HIDE DEF P, F
<1>4. [p \in P |-> F(p)] \in [P -> LevelMaps]
  BY <1>3
<1>5. [p \in P |-> F(p)] \in SideMaps
  BY <1>2, <1>4, SideMapMade
<1> QED
  BY <1>5 DEF TopLevels, P, F

LEMMA LevelByPriceType ==
  ASSUME NEW S, S \subseteq Orders, NEW price, volume \in [Orders -> 1 .. MaxVolume]
  PROVE  LevelByPrice(S, volume, price) \in LevelMaps
<1> DEFINE HasPrice(o) == price * Tick = IF o \in Asks THEN RoundedUp(Price[o], WrittenUnit(price))
                                         ELSE Rounded(Price[o], WrittenUnit(price))
           Q == {p \in S : HasPrice(p)}
<1>1. Q \subseteq Orders
  OBVIOUS
<1>2. LevelByPrice(S, volume, price) = [o \in Q |-> volume[o]]
  BY DEF LevelByPrice
<1> HIDE DEF Q
<1>3. [o \in Q |-> volume[o]] \in [Q -> 1 .. MaxVolume]
  BY <1>1
<1> QED
  BY <1>1, <1>2, <1>3, LevelMapMade

LEMMA MergedType ==
  ASSUME NEW new \in Views, view \in Views
  PROVE  Merged(new) \in Views
<1>1. ASSUME NEW side \in Sides PROVE MergedLevels(new[side], view[side]) \in SideMaps
  <2> DEFINE a == new[side]
             b == view[side]
  <2>1. a \in SideMaps /\ b \in SideMaps
    BY DEF Views
  <2> HIDE DEF a, b
  <2>2. /\ DOMAIN a \subseteq Nat /\ \A p \in DOMAIN a : a[p] \in LevelMaps
        /\ DOMAIN b \subseteq Nat /\ \A p \in DOMAIN b : b[p] \in LevelMaps
    BY <2>1, SideMapType
  <2>3. MergedLevels(a, b) \in [DOMAIN a \cup DOMAIN b -> LevelMaps]
    BY <2>2 DEF MergedLevels
  <2>4. MergedLevels(a, b) \in SideMaps
    BY <2>2, <2>3, SideMapMade
  <2> QED
    BY <2>4 DEF a, b
<1> QED
  BY <1>1 DEF Merged, Views

LEMMA WithOrderType ==
  ASSUME NEW level \in LevelMaps, NEW o \in Orders, NEW n \in 1 .. MaxVolume
  PROVE  WithOrder(level, o, n) \in LevelMaps
<1>1. DOMAIN level \cup {o} \subseteq Orders
  BY LevelMapType
<1>2. WithOrder(level, o, n) \in [DOMAIN level \cup {o} -> 1 .. MaxVolume]
  BY LevelMapType DEF WithOrder
<1> QED
  BY <1>1, <1>2, LevelMapMade

LEMMA WithVolumeType ==
  ASSUME NEW levels \in SideMaps, NEW o \in Orders, NEW n \in 1 .. MaxVolume
  PROVE  WithVolume(levels, o, n) \in SideMaps
<1> DEFINE F(p) == [q \in DOMAIN levels[p] |-> IF q = o THEN n ELSE levels[p][q]]
<1>1. DOMAIN levels \subseteq Nat /\ \A p \in DOMAIN levels : levels[p] \in LevelMaps
  BY SideMapType
<1>2. ASSUME NEW p \in DOMAIN levels PROVE F(p) \in LevelMaps
  <2>1. F(p) \in [DOMAIN levels[p] -> 1 .. MaxVolume] /\ DOMAIN levels[p] \subseteq Orders
    BY <1>1, LevelMapType
  <2> QED
    BY <2>1, LevelMapMade
<1> HIDE DEF F
<1>3. [p \in DOMAIN levels |-> F(p)] \in [DOMAIN levels -> LevelMaps]
  BY <1>2
<1> QED
  BY <1>1, <1>3, SideMapMade DEF WithVolume, F

LEMMA RemovedFromType ==
  ASSUME NEW levels \in SideMaps, NEW o \in Orders
  PROVE  RemovedFrom(levels, o) \in SideMaps
<1> DEFINE F(p) == [q \in DOMAIN levels[p] \ {o} |-> levels[p][q]]
           P == {p \in DOMAIN levels : DOMAIN levels[p] # {o}}
<1>1. DOMAIN levels \subseteq Nat /\ \A p \in DOMAIN levels : levels[p] \in LevelMaps
  BY SideMapType
<1>2. ASSUME NEW p \in DOMAIN levels PROVE F(p) \in LevelMaps
  <2>1. /\ F(p) \in [DOMAIN levels[p] \ {o} -> 1 .. MaxVolume]
        /\ DOMAIN levels[p] \ {o} \subseteq Orders
    BY <1>1, LevelMapType
  <2> QED
    BY <2>1, LevelMapMade
<1>3. P \subseteq Nat /\ P \subseteq DOMAIN levels
  BY <1>1
<1> HIDE DEF F, P
<1>4. [p \in P |-> F(p)] \in [P -> LevelMaps]
  BY <1>2, <1>3
<1>5. [p \in P |-> F(p)] \in SideMaps
  BY <1>3, <1>4, SideMapMade
<1> QED
  BY <1>5 DEF RemovedFrom, F, P

LEMMA AppendFacts ==
  ASSUME NEW S, NEW s \in Seq(S), NEW e \in S
  PROVE  /\ Append(s, e) \in Seq(S)
         /\ Len(s) \in Nat /\ DOMAIN s = 1 .. Len(s)
         /\ DOMAIN Append(s, e) = 1 .. Len(s) + 1
         /\ \A i \in DOMAIN s : Append(s, e)[i] = s[i]
         /\ Append(s, e)[Len(s) + 1] = e
OBVIOUS

LEMMA TailFacts ==
  ASSUME NEW S, NEW s \in Seq(S), s # <<>>
  PROVE  /\ Head(s) = s[1] /\ 1 \in DOMAIN s /\ Head(s) \in S
         /\ Len(s) \in Nat \ {0} /\ DOMAIN s = 1 .. Len(s)
         /\ Tail(s) \in Seq(S)
         /\ DOMAIN Tail(s) = 1 .. Len(s) - 1
         /\ \A i \in DOMAIN Tail(s) : Tail(s)[i] = s[i + 1] /\ i + 1 \in DOMAIN s
OBVIOUS

LEMMA EventType ==
  ASSUME FeedTypeOK, NEW type \in EventTypes, Receives(type)
  PROVE  /\ toClient # <<>>
         /\ Event \in [type : EventTypes, order : Orders, volume : 1 .. MaxVolume]
         /\ Event.type = type
         /\ Tail(toClient) \in Seq(Messages)
<1>1. toClient # <<>> /\ Event \in Messages /\ Tail(toClient) \in Seq(Messages)
  BY TailFacts DEF FeedTypeOK, Receives, Event
<1> QED
  BY <1>1 DEF Messages, Receives, Event, EventTypes, AnswerTypes

LEMMA AnswerType ==
  ASSUME FeedTypeOK, Receives("top") \/ Receives("level")
  PROVE  /\ toClient # <<>>
         /\ Event \in [type : AnswerTypes, round : Nat, view : Views]
         /\ Tail(toClient) \in Seq(Messages)
<1>1. toClient # <<>> /\ Event \in Messages /\ Tail(toClient) \in Seq(Messages)
  BY TailFacts DEF FeedTypeOK, Receives, Event
<1> QED
  BY <1>1 DEF Messages, Receives, Event, EventTypes, AnswerTypes

LEMMA DownstreamType ==
  ASSUME FeedTypeOK, NEW type \in EventTypes, NEW o \in Orders, NEW n \in 1 .. MaxVolume,
         Downstream(type, o, n)
  PROVE  toClient' \in Seq(Messages)
<1> DEFINE m == [type |-> type, order |-> o, volume |-> n]
<1>1. m \in Messages
  BY DEF Messages
<1>2. toClient' = Append(toClient, m) \/ toClient' = toClient
  BY DEF Downstream
<1> HIDE DEF m
<1>3. Append(toClient, m) \in Seq(Messages)
  BY <1>1, AppendFacts DEF FeedTypeOK
<1> QED
  BY <1>2, <1>3 DEF FeedTypeOK

LEMMA RequestType ==
  ASSUME FeedTypeOK
  PROVE  /\ \A m \in Markets : Subscription(m) \in Requests
         /\ selected # NoMarket => TopRequest \in Requests
         /\ \A o \in Orders : selected # NoMarket => LevelRequest(o) \in Requests
BY LevelOfType, SideOfType DEF FeedTypeOK, Requests, Subscription, TopRequest, LevelRequest

\* Each bound only runs down.
LEMMA BudgetType ==
  ASSUME FeedTypeOK,
         \/ budget.moves > 0 /\ budget' = [budget EXCEPT !.moves = budget.moves - 1]
         \/ budget.selects > 0 /\ budget' = [budget EXCEPT !.selects = budget.selects - 1]
         \/ budget.drops > 0 /\ budget' = [budget EXCEPT !.drops = budget.drops - 1]
  PROVE  budget' \in [moves : 0 .. MaxMoves, selects : 0 .. MaxSelects, drops : 0 .. MaxDrops]
<1>1. budget \in [moves : 0 .. MaxMoves, selects : 0 .. MaxSelects, drops : 0 .. MaxDrops]
  BY DEF FeedTypeOK
<1>2. MaxMoves \in Nat /\ MaxSelects \in Nat /\ MaxDrops \in Nat
  BY FeedAssumption DEF FeedAssumption
<1>3. /\ budget.moves > 0 => budget.moves - 1 \in 0 .. MaxMoves
      /\ budget.selects > 0 => budget.selects - 1 \in 0 .. MaxSelects
      /\ budget.drops > 0 => budget.drops - 1 \in 0 .. MaxDrops
  BY <1>1, <1>2
<1> QED
  BY <1>1, <1>3

LEMMA BookType ==
  ASSUME book \subseteq Orders
  PROVE  \A m : Book(m) \subseteq Orders
BY DEF Book

LEMMA BooksWithoutType ==
  ASSUME book \subseteq Orders, NEW o
  PROVE  \A rest \in BooksWithout(o) : rest \subseteq Orders
BY DEF BooksWithout

LEMMA TypeInit == Init => FeedTypeOK
<1> SUFFICES ASSUME Init PROVE FeedTypeOK
  OBVIOUS
<1>1. MaxVolume \in 1 .. MaxVolume
  BY FeedAssumption DEF FeedAssumption
<1>2. budget \in [moves : 0 .. MaxMoves, selects : 0 .. MaxSelects, drops : 0 .. MaxDrops]
  BY FeedAssumption DEF FeedAssumption, Init
<1>3. <<>> \in Seq(Requests) /\ <<>> \in Seq(Messages)
  OBVIOUS
<1> QED
  BY <1>1, <1>2, <1>3, EmptyViewType DEF Init, FeedTypeOK

LEMMA TypeNext == FeedTypeOK /\ [Next]_vars => FeedTypeOK'
<1> SUFFICES ASSUME FeedTypeOK, [Next]_vars PROVE FeedTypeOK'
  OBVIOUS
<1> USE DEF FeedTypeOK, serverVars, clientVars
<1>1. ASSUME NEW o \in Orders, AddOrder(o) PROVE FeedTypeOK'
  BY <1>1 DEF AddOrder
<1>2. ASSUME NEW o \in Orders, AcceptOrder(o) \/ PeerOrder(o) \/ DelistOrder(o)
      PROVE  FeedTypeOK'
  <2>1. PICK type \in EventTypes : Downstream(type, o, volume[o])
    BY <1>2 DEF AcceptOrder, PeerOrder, DelistOrder, EventTypes
  <2>2. toClient' \in Seq(Messages)
    BY <2>1, DownstreamType
  <2>3. book' \subseteq Orders
    BY <1>2, BooksWithoutType DEF AcceptOrder, PeerOrder, DelistOrder
  <2> QED
    BY <1>2, <2>2, <2>3 DEF AcceptOrder, PeerOrder, DelistOrder
<1>3. ASSUME NEW o \in Orders, UpdateBalance(o) PROVE FeedTypeOK'
  <2>1. PICK n \in 1 .. MaxVolume :
          /\ volume' = [volume EXCEPT ![o] = IF o \in book THEN n ELSE @]
          /\ Downstream("balance", o, n)
    BY <1>3 DEF UpdateBalance
  <2>2. toClient' \in Seq(Messages)
    BY <2>1, DownstreamType DEF EventTypes
  <2>3. budget' \in [moves : 0 .. MaxMoves, selects : 0 .. MaxSelects, drops : 0 .. MaxDrops]
    BY <1>3, BudgetType DEF UpdateBalance
  <2> QED
    BY <1>3, <2>1, <2>2, <2>3 DEF UpdateBalance
<1>4. CASE OnSubscribe
  <2>1. toServer # <<>> /\ Head(toServer).type = "subscribe"
    BY <1>4 DEF OnSubscribe, HasRequest
  <2>2. Head(toServer) \in Requests /\ toServer' \in Seq(Requests)
    BY <1>4, <2>1, TailFacts DEF OnSubscribe
  <2>3. room' \in Markets
    BY <1>4, <2>2 DEF OnSubscribe, Requests
  <2> QED
    BY <1>4, <2>2, <2>3 DEF OnSubscribe
<1>5. CASE AnswerTopOrders
  <2>1. toServer # <<>> /\ Head(toServer).type = "top"
    BY <1>5 DEF AnswerTopOrders, HasRequest
  <2>2. Head(toServer) \in Requests /\ toServer' \in Seq(Requests)
    BY <1>5, <2>1, TailFacts DEF AnswerTopOrders
  <2> DEFINE req == Head(toServer)
             answer == [type |-> "top", round |-> req.round, view |-> TopOrders(req.market)]
  <2>3. req.round \in Nat
    BY <2>1, <2>2 DEF Requests
  <2>4. TopOrders(req.market) \in Views
    <3>1. \A side \in Sides : TopLevels(OfSide(Book(req.market), side), volume) \in SideMaps
      BY TopLevelsType, BookType DEF OfSide
    <3> QED
      BY <3>1 DEF TopOrders, Views
  <2>5. answer \in Messages
    BY <2>3, <2>4 DEF Messages, AnswerTypes
  <2>6. toClient' = Append(toClient, answer)
    BY <1>5 DEF AnswerTopOrders
  <2>7. toClient' \in Seq(Messages)
    BY <2>5, <2>6, AppendFacts
  <2> QED
    BY <1>5, <2>2, <2>7 DEF AnswerTopOrders
<1>6. CASE AnswerLevel
  <2>1. toServer # <<>> /\ Head(toServer).type = "level"
    BY <1>6 DEF AnswerLevel, HasRequest
  <2>2. Head(toServer) \in Requests /\ toServer' \in Seq(Requests)
    BY <1>6, <2>1, TailFacts DEF AnswerLevel
  <2> DEFINE req == Head(toServer)
             level == LevelByPrice(OfSide(Book(req.market), req.side), volume, req.price)
             shows == [EmptyView EXCEPT ![req.side] = [p \in {req.price} |-> level]]
             answer == [type |-> "level", round |-> req.round, view |-> shows]
  <2>3. req.round \in Nat /\ req.side \in Sides /\ req.price \in Nat
    BY <2>1, <2>2 DEF Requests
  <2>4. level \in LevelMaps
    BY LevelByPriceType, BookType DEF OfSide
  <2>5. shows \in Views
    <3> HIDE DEF level
    <3>1. [p \in {req.price} |-> level] \in [{req.price} -> LevelMaps]
      BY <2>4
    <3>2. [p \in {req.price} |-> level] \in SideMaps
      BY <2>3, <3>1, SideMapMade
    <3> QED
      BY <2>3, <3>2, EmptyViewType DEF Views
  <2>6. answer \in Messages
    <3> HIDE DEF shows
    <3> QED
      BY <2>3, <2>5 DEF Messages, AnswerTypes
  <2>7. toClient' = Append(toClient, answer)
    BY <1>6 DEF AnswerLevel
  <2>8. toClient' \in Seq(Messages)
    BY <2>6, <2>7, AppendFacts
  <2> QED
    BY <1>6, <2>2, <2>8 DEF AnswerLevel
<1>7. CASE Disconnect
  <2>1. budget' \in [moves : 0 .. MaxMoves, selects : 0 .. MaxSelects, drops : 0 .. MaxDrops]
    BY <1>7, BudgetType DEF Disconnect
  <2> QED
    <3>1. <<>> \in Seq(Requests) /\ <<>> \in Seq(Messages)
      OBVIOUS
    <3> QED
      BY <1>7, <2>1, <3>1 DEF Disconnect
<1>8. CASE Reconnect
  <2>1. toServer' \in Seq(Requests)
    BY <1>8, RequestType, AppendFacts DEF Reconnect
  <2> QED
    BY <1>8, <2>1 DEF Reconnect
<1>9. ASSUME NEW m \in Markets, SelectMarket(m) PROVE FeedTypeOK'
  <2>1. toServer' \in Seq(Requests)
    BY <1>9, RequestType, AppendFacts DEF SelectMarket
  <2>2. budget' \in [moves : 0 .. MaxMoves, selects : 0 .. MaxSelects, drops : 0 .. MaxDrops]
    BY <1>9, BudgetType DEF SelectMarket
  <2> QED
    <3>1. round' \in Nat
      BY <1>9 DEF SelectMarket
    <3> QED
      BY <1>9, <2>1, <2>2, <3>1, EmptyViewType DEF SelectMarket
<1>10. CASE RequestSnapshot
  <2>1. toServer' \in Seq(Requests)
    BY <1>10, RequestType, AppendFacts DEF RequestSnapshot
  <2> QED
    BY <1>10, <2>1 DEF RequestSnapshot
<1>11. CASE NewOrderArrival
  <2>1. /\ Event \in [type : EventTypes, order : Orders, volume : 1 .. MaxVolume]
        /\ Tail(toClient) \in Seq(Messages)
    BY <1>11, EventType DEF NewOrderArrival, EventTypes
  <2> DEFINE o == Event.order
             side == SideOf(o)
             lev == LevelOf(o)
  <2>2. o \in Orders /\ Event.volume \in 1 .. MaxVolume /\ side \in Sides
    BY <2>1, SideOfType
  <2>3. /\ \/ view' = view
           \/ /\ lev \in DOMAIN view[side]
              /\ view' = [view EXCEPT ![side][lev] = WithOrder(view[side][lev], o, Event.volume)]
        /\ \/ toServer' = toServer
           \/ Concerned /\ toServer' = Append(toServer, LevelRequest(o))
        /\ toClient' = Tail(toClient)
        /\ alive' \in {alive, FALSE}
        /\ UNCHANGED <<serverVars, connected, room, selected, round, mixed, budget>>
    BY <1>11 DEF NewOrderArrival
  <2>4. view' \in Views
    <3> SUFFICES ASSUME lev \in DOMAIN view[side],
                        view' = [view EXCEPT ![side][lev] = WithOrder(view[side][lev], o, Event.volume)]
                 PROVE  view' \in Views
      BY <2>3
    <3>1. view[side] \in SideMaps
      BY <2>2 DEF Views
    <3>2. view[side][lev] \in LevelMaps /\ DOMAIN view[side] \subseteq Nat
          /\ view[side] \in [DOMAIN view[side] -> LevelMaps]
      BY <3>1, SideMapType
    <3>3. WithOrder(view[side][lev], o, Event.volume) \in LevelMaps
      BY <2>2, <3>2, WithOrderType
    <3> DEFINE changed == [view[side] EXCEPT ![lev] = WithOrder(view[side][lev], o, Event.volume)]
    <3>4. changed \in [DOMAIN view[side] -> LevelMaps]
      BY <3>2, <3>3
    <3>5. changed \in SideMaps
      BY <3>2, <3>4, SideMapMade
    <3>6. view' = [view EXCEPT ![side] = changed]
      OBVIOUS
    <3> HIDE DEF changed
    <3> QED
      BY <2>2, <3>5, <3>6 DEF Views
  <2>5. toServer' \in Seq(Requests)
    <3>1. Concerned => selected # NoMarket
      BY <2>2, FeedAssumption DEF Concerned, FeedAssumption
    <3>2. Concerned => LevelRequest(o) \in Requests
      BY <2>2, <3>1, RequestType
    <3>3. Concerned => Append(toServer, LevelRequest(o)) \in Seq(Requests)
      BY <3>2, AppendFacts
    <3> QED
      BY <2>3, <3>3
  <2> QED
    BY <2>1, <2>3, <2>4, <2>5
<1>12. CASE UpdateObOrder
  <2>1. /\ Event \in [type : EventTypes, order : Orders, volume : 1 .. MaxVolume]
        /\ Tail(toClient) \in Seq(Messages)
    BY <1>12, EventType DEF UpdateObOrder, EventTypes
  <2> DEFINE o == Event.order
  <2>2. o \in Orders /\ Event.volume \in 1 .. MaxVolume /\ SideOf(o) \in Sides
    BY <2>1, SideOfType
  <2>3. WithVolume(view[SideOf(o)], o, Event.volume) \in SideMaps
    BY <2>2, WithVolumeType DEF Views
  <2>4. view' \in Views
    BY <1>12, <2>2, <2>3 DEF UpdateObOrder, Views
  <2> QED
    BY <1>12, <2>1, <2>4 DEF UpdateObOrder
<1>13. CASE DelistObOrder
  <2>1. /\ Event \in [type : EventTypes, order : Orders, volume : 1 .. MaxVolume]
        /\ Tail(toClient) \in Seq(Messages)
    BY <1>13, EventType DEF DelistObOrder, EventTypes
  <2> DEFINE o == Event.order
  <2>2. o \in Orders /\ SideOf(o) \in Sides
    BY <2>1, SideOfType
  <2>3. RemovedFrom(view[SideOf(o)], o) \in SideMaps
    BY <2>2, RemovedFromType DEF Views
  <2>4. view' \in Views
    BY <1>13, <2>2, <2>3 DEF DelistObOrder, Views
  <2> QED
    BY <1>13, <2>1, <2>4 DEF DelistObOrder
<1>14. CASE MergeAnswer
  <2>1. Event.view \in Views /\ Tail(toClient) \in Seq(Messages)
    BY <1>14, AnswerType DEF MergeAnswer
  <2>2. view' \in Views
    BY <1>14, <2>1, MergedType DEF MergeAnswer
  <2>3. mixed' \in BOOLEAN
    BY <1>14 DEF MergeAnswer
  <2> QED
    BY <1>14, <2>1, <2>2, <2>3 DEF MergeAnswer
<1>15. CASE UNCHANGED vars
  BY <1>15 DEF vars
<1> QED
  BY <1>1, <1>2, <1>3, <1>4, <1>5, <1>6, <1>7, <1>8, <1>9, <1>10, <1>11, <1>12, <1>13, <1>14,
     <1>15 DEF Next

-----------------------------------------------------------------------------
(***************************************************************************)
(* The room.  A request that the client adds, or that the server handles,  *)
(* leaves the last subscription the last one.                              *)
(***************************************************************************)
LEMMA RoomAsked ==
  ASSUME FeedTypeOK, RoomFollowsSelection, NEW req \in Requests, req.type # "subscribe",
         toServer' = Append(toServer, req), UNCHANGED <<connected, room, selected>>
  PROVE  RoomFollowsSelection'
<1>1. /\ DOMAIN toServer = 1 .. Len(toServer) /\ Len(toServer) \in Nat
      /\ DOMAIN toServer' = 1 .. Len(toServer) + 1
      /\ \A i \in DOMAIN toServer : toServer'[i] = toServer[i]
      /\ toServer'[Len(toServer) + 1] = req
  BY AppendFacts DEF FeedTypeOK
<1>2. Subscriptions' = Subscriptions
  BY <1>1 DEF Subscriptions
<1>3. \A i : Last(i) => Last(i)'
  BY <1>2 DEF Last
<1> QED
  BY <1>1, <1>2, <1>3 DEF RoomFollowsSelection

LEMMA RoomHandled ==
  ASSUME FeedTypeOK, RoomFollowsSelection, toServer # <<>>,
         Head(toServer).type # "subscribe",
         toServer' = Tail(toServer), UNCHANGED <<connected, room, selected>>
  PROVE  RoomFollowsSelection'
<1>1. /\ DOMAIN toServer = 1 .. Len(toServer) /\ Len(toServer) \in Nat \ {0}
      /\ DOMAIN toServer' = 1 .. Len(toServer) - 1
      /\ \A i \in DOMAIN toServer' : toServer'[i] = toServer[i + 1]
      /\ toServer[1].type # "subscribe"
  BY TailFacts DEF FeedTypeOK
<1>2. \A i \in DOMAIN toServer' : i \in Subscriptions' <=> i + 1 \in Subscriptions
  BY <1>1 DEF Subscriptions
<1>3. \A i \in Subscriptions : i - 1 \in DOMAIN toServer' /\ i - 1 \in Subscriptions'
  BY <1>1 DEF Subscriptions
<1>4. Subscriptions' \subseteq DOMAIN toServer' /\ Subscriptions \subseteq DOMAIN toServer
  BY DEF Subscriptions
<1>5. ASSUME NEW i, Last(i) PROVE Last(i - 1)'
  <2>1. i \in Subscriptions /\ \A j \in Subscriptions : j <= i
    BY <1>5 DEF Last
  <2>2. i - 1 \in Subscriptions'
    BY <1>3, <2>1
  <2>3. \A j \in Subscriptions' : j <= i - 1
    BY <1>1, <1>2, <1>4, <2>1
  <2> QED
    BY <2>2, <2>3 DEF Last
<1>6. Subscriptions = {} => Subscriptions' = {}
  BY <1>2, <1>4
<1>7. ASSUME NEW i \in DOMAIN toServer, Last(i)
      PROVE  i - 1 \in DOMAIN toServer' /\ toServer'[i - 1] = toServer[i]
  <2>1. i \in Subscriptions
    BY <1>7 DEF Last
  <2> QED
    BY <1>1, <1>3, <2>1
<1>8. CASE ~(connected /\ selected # NoMarket)
  BY <1>8 DEF RoomFollowsSelection
<1>9. CASE Subscriptions = {} /\ room = selected
  BY <1>6, <1>9 DEF RoomFollowsSelection
<1>10. ASSUME NEW i \in DOMAIN toServer, Last(i), toServer[i].market = selected
       PROVE  RoomFollowsSelection'
  BY <1>5, <1>7, <1>10 DEF RoomFollowsSelection
<1> QED
  BY <1>8, <1>9, <1>10 DEF RoomFollowsSelection

LEMMA RoomJoined ==
  ASSUME FeedTypeOK, RoomFollowsSelection, OnSubscribe
  PROVE  RoomFollowsSelection'
<1>0. /\ toServer # <<>> /\ Head(toServer).type = "subscribe" /\ connected
      /\ room' = Head(toServer).market /\ toServer' = Tail(toServer)
      /\ UNCHANGED <<connected, selected>>
  BY DEF OnSubscribe, HasRequest, clientVars
<1>1. /\ DOMAIN toServer = 1 .. Len(toServer) /\ Len(toServer) \in Nat \ {0}
      /\ DOMAIN toServer' = 1 .. Len(toServer) - 1
      /\ \A i \in DOMAIN toServer' : toServer'[i] = toServer[i + 1]
      /\ toServer[1].type = "subscribe" /\ room' = toServer[1].market
  BY <1>0, TailFacts DEF FeedTypeOK
<1>2. \A i \in DOMAIN toServer' : i \in Subscriptions' <=> i + 1 \in Subscriptions
  BY <1>1 DEF Subscriptions
<1>4. Subscriptions' \subseteq DOMAIN toServer' /\ Subscriptions \subseteq DOMAIN toServer
  BY DEF Subscriptions
<1>5. 1 \in Subscriptions
  BY <1>1 DEF Subscriptions
<1> SUFFICES ASSUME selected # NoMarket PROVE RoomFollowsSelection'
  BY <1>0 DEF RoomFollowsSelection
<1>6. PICK i \in DOMAIN toServer : Last(i) /\ toServer[i].market = selected
  BY <1>0, <1>5 DEF RoomFollowsSelection
<1>7. i \in Subscriptions /\ \A j \in Subscriptions : j <= i
  BY <1>6 DEF Last
<1>8. CASE i = 1
  <2>1. Subscriptions' = {}
    <3> SUFFICES ASSUME NEW j \in Subscriptions' PROVE FALSE
      OBVIOUS
    <3>1. j \in 1 .. Len(toServer) - 1 /\ j + 1 \in Subscriptions
      BY <1>1, <1>2, <1>4
    <3> QED
      BY <1>1, <1>7, <1>8, <3>1
  <2> QED
    BY <1>0, <1>1, <1>6, <1>8, <2>1 DEF RoomFollowsSelection
<1>9. CASE i # 1
  <2>1. i - 1 \in DOMAIN toServer' /\ i = (i - 1) + 1
    BY <1>1, <1>6, <1>9
  <2>2. toServer'[i - 1] = toServer[i] /\ i - 1 \in Subscriptions'
    BY <1>1, <1>2, <1>7, <2>1
  <2>3. \A j \in Subscriptions' : j <= i - 1
    BY <1>1, <1>2, <1>4, <1>6, <1>7
  <2>4. Last(i - 1)'
    BY <2>2, <2>3 DEF Last
  <2> QED
    BY <1>0, <1>6, <2>1, <2>2, <2>4 DEF RoomFollowsSelection
<1> QED
  BY <1>8, <1>9

LEMMA RoomSubscribed ==
  ASSUME FeedTypeOK, NEW m \in Markets, selected' = m,
         toServer' = Append(toServer, Subscription(m))
  PROVE  RoomFollowsSelection'
<1>0. Subscription(m) \in Requests /\ Subscription(m).type = "subscribe"
      /\ Subscription(m).market = m
  BY RequestType DEF Subscription
<1>1. /\ Len(toServer) \in Nat
      /\ DOMAIN toServer' = 1 .. Len(toServer) + 1
      /\ toServer'[Len(toServer) + 1] = Subscription(m)
  BY <1>0, AppendFacts DEF FeedTypeOK
<1>2. PICK i \in Nat : i = Len(toServer) + 1
  BY <1>1
<1>3. i \in Subscriptions' /\ \A j \in Subscriptions' : j <= i
  BY <1>0, <1>1, <1>2 DEF Subscriptions
<1>4. Last(i)'
  BY <1>3 DEF Last
<1> QED
  BY <1>0, <1>1, <1>2, <1>4 DEF RoomFollowsSelection

LEMMA RoomKept ==
  ASSUME RoomFollowsSelection, UNCHANGED <<connected, room, selected, toServer>>
  PROVE  RoomFollowsSelection'
BY DEF RoomFollowsSelection, Subscriptions, Last

LEMMA RoomNext == FeedTypeOK /\ RoomFollowsSelection /\ [Next]_vars => RoomFollowsSelection'
<1> SUFFICES ASSUME FeedTypeOK, RoomFollowsSelection, [Next]_vars
             PROVE  RoomFollowsSelection'
  OBVIOUS
<1> USE DEF serverVars, clientVars
<1>1. ASSUME NEW o \in Orders,
             AddOrder(o) \/ AcceptOrder(o) \/ PeerOrder(o) \/ UpdateBalance(o) \/ DelistOrder(o)
      PROVE  RoomFollowsSelection'
  BY <1>1, RoomKept DEF AddOrder, AcceptOrder, PeerOrder, UpdateBalance, DelistOrder
<1>2. CASE OnSubscribe
  BY <1>2, RoomJoined
<1>3. CASE AnswerTopOrders \/ AnswerLevel
  <2>1. toServer # <<>> /\ Head(toServer).type # "subscribe" /\ toServer' = Tail(toServer)
        /\ UNCHANGED <<connected, room, selected>>
    BY <1>3 DEF AnswerTopOrders, AnswerLevel, HasRequest
  <2> QED
    BY <2>1, RoomHandled
<1>4. CASE Disconnect
  BY <1>4 DEF Disconnect, RoomFollowsSelection
<1>5. CASE Reconnect
  <2>1. CASE selected = NoMarket
    BY <1>5, <2>1 DEF Reconnect, RoomFollowsSelection
  <2>2. CASE selected # NoMarket
    <3>1. selected \in Markets /\ selected' = selected
          /\ toServer' = Append(toServer, Subscription(selected))
      BY <1>5, <2>2 DEF Reconnect, FeedTypeOK
    <3> QED
      BY <3>1, RoomSubscribed
  <2> QED
    BY <2>1, <2>2
<1>6. ASSUME NEW m \in Markets, SelectMarket(m) PROVE RoomFollowsSelection'
  BY <1>6, RoomSubscribed DEF SelectMarket
<1>7. CASE RequestSnapshot
  <2>1. TopRequest \in Requests /\ TopRequest.type # "subscribe"
    BY <1>7, RequestType DEF RequestSnapshot, TopRequest
  <2> QED
    BY <1>7, <2>1, RoomAsked DEF RequestSnapshot
<1>8. CASE NewOrderArrival
  <2>1. Event.order \in Orders
    BY <1>8, EventType DEF NewOrderArrival, EventTypes
  <2>2. Concerned => selected # NoMarket
    BY <2>1, FeedAssumption DEF Concerned, FeedAssumption
  <2>3. \/ toServer' = toServer
        \/ Concerned /\ toServer' = Append(toServer, LevelRequest(Event.order))
    BY <1>8 DEF NewOrderArrival
  <2>4. UNCHANGED <<connected, room, selected>>
    BY <1>8 DEF NewOrderArrival
  <2>5. Concerned => LevelRequest(Event.order) \in Requests
                     /\ LevelRequest(Event.order).type # "subscribe"
    BY <2>1, <2>2, RequestType DEF LevelRequest
  <2> QED
    BY <2>3, <2>4, <2>5, RoomKept, RoomAsked
<1>9. CASE UpdateObOrder \/ DelistObOrder \/ MergeAnswer
  BY <1>9, RoomKept DEF UpdateObOrder, DelistObOrder, MergeAnswer
<1>10. CASE UNCHANGED vars
  BY <1>10, RoomKept DEF vars
<1> QED
  BY <1>1, <1>2, <1>3, <1>4, <1>5, <1>6, <1>7, <1>8, <1>9, <1>10 DEF Next

-----------------------------------------------------------------------------
(***************************************************************************)
(* What is shown.                                                          *)
(***************************************************************************)
Volumes == 1 .. MaxVolume

IsAnswer(m) == m.type \in AnswerTypes
IsEventOf(m, o) == m.type \in EventTypes /\ m.order = o

\* A view shows o with volume n in one of its levels.
Shows(v, o, n) ==
    \E price \in DOMAIN v[SideOf(o)] :
        o \in DOMAIN v[SideOf(o)][price] /\ v[SideOf(o)][price][o] = n

\* So it is in the books, or an event after message i will say otherwise.
Current(o, n) == status[o] \in {"added", "accepted"} /\ volume[o] = n
Later(o, i) == \E j \in DOMAIN toClient : j > i /\ IsEventOf(toClient[j], o)
Fresh(o, n, i) == Current(o, n) \/ Later(o, i)

\* The orders in the book are those of which no delisting was handled.
BookKnown == \A o \in Orders : o \in book <=> status[o] \in {"added", "accepted"}

CurrentAnswer(i) == IsAnswer(toClient[i]) /\ toClient[i].round = round
Showing == \E side \in Sides : DOMAIN view[side] # {}
Unbroken == budget.drops = MaxDrops

OnlyFirst(v, o) == \A n \in Volumes : Shows(v, o, n) => n = MaxVolume

\* Until an order is accepted nobody knows of another volume than its first.
Unaccepted ==
    \A o \in Orders : status[o] \in {"new", "added"} =>
        /\ volume[o] = MaxVolume
        /\ OnlyFirst(view, o)
        /\ \A i \in DOMAIN toClient :
             /\ ~IsEventOf(toClient[i], o)
             /\ IsAnswer(toClient[i]) => OnlyFirst(toClient[i].view, o)

\* The client gets to know that it was accepted before anything else about it.
AcceptedFirst ==
    \A i \in DOMAIN toClient : toClient[i].type = "accepted" =>
        /\ toClient[i].volume = MaxVolume
        /\ OnlyFirst(view, toClient[i].order)
        /\ \A j \in 1 .. i - 1 :
             /\ ~IsEventOf(toClient[j], toClient[i].order)
             /\ IsAnswer(toClient[j]) => OnlyFirst(toClient[j].view, toClient[i].order)

\* A request follows the subscription of its selection.
RequestsInOrder ==
    \A k \in DOMAIN toServer : toServer[k].type # "subscribe" =>
        /\ toServer[k].round <= round
        /\ Unbroken /\ toServer[k].round = round =>
             /\ toServer[k].market = selected
             /\ \A j \in Subscriptions : j < k

AnswersNotNewer ==
    \A i \in DOMAIN toClient : IsAnswer(toClient[i]) => toClient[i].round <= round

\* When there is something to show, the client is in the room.
Engaged == Showing \/ \E i \in DOMAIN toClient : CurrentAnswer(i)
InRoom ==
    /\ Unbroken => connected
    /\ Unbroken /\ ~mixed /\ Engaged => room = selected /\ Subscriptions = {}

ViewFresh ==
    Unbroken /\ ~mixed =>
        \A o \in Orders, n \in Volumes :
            MarketOf[o] = selected /\ Shows(view, o, n) => Fresh(o, n, 0)

AnswersFresh ==
    Unbroken /\ ~mixed =>
        \A i \in DOMAIN toClient : CurrentAnswer(i) =>
            \A o \in Orders, n \in Volumes :
                MarketOf[o] = selected /\ Shows(toClient[i].view, o, n) => Fresh(o, n, i)

\* An event may be of an earlier selection of the market: then nothing is shown
\* that it could change.
EventsFresh ==
    Unbroken /\ ~mixed =>
        \A i \in DOMAIN toClient :
            /\ toClient[i].type \in {"accepted", "balance"}
            /\ MarketOf[toClient[i].order] = selected
            /\ Showing \/ \E j \in 1 .. i - 1 : CurrentAnswer(j)
            => Fresh(toClient[i].order, toClient[i].volume, i)

\* Then a price names one order of a side of a market.
DistinctPrices ==
    \A p, q \in Orders :
        MarketOf[p] = MarketOf[q] /\ SideOf(p) = SideOf(q) /\ Price[p] = Price[q] => p = q

Begun == Unaccepted /\ AcceptedFirst
Ordered == RequestsInOrder /\ AnswersNotNewer /\ InRoom
News == ViewFresh /\ AnswersFresh /\ EventsFresh
FeedInv == FeedTypeOK /\ RoomFollowsSelection /\ BookKnown /\ Begun /\ Ordered /\ News

-----------------------------------------------------------------------------
(***************************************************************************)
(* What each change of the view leaves of it.                              *)
(***************************************************************************)
LEMMA ShowsEmpty == \A o, n : ~ Shows(EmptyView, o, n)
BY SideOfType DEF Shows, EmptyView, NoLevels

LEMMA ShowsMerged ==
  ASSUME NEW new \in Views, view \in Views, NEW o, NEW n, Shows(Merged(new), o, n)
  PROVE  Shows(new, o, n) \/ Shows(view, o, n)
<1> DEFINE side == SideOf(o)
           a == new[side]
           b == view[side]
<1>1. side \in Sides
  BY SideOfType
<1>2. Merged(new)[side] = MergedLevels(a, b)
  BY <1>1 DEF Merged
<1>3. PICK p \in DOMAIN MergedLevels(a, b) :
        o \in DOMAIN MergedLevels(a, b)[p] /\ MergedLevels(a, b)[p][o] = n
  BY <1>2 DEF Shows
<1>4. CASE p \in DOMAIN a
  BY <1>3, <1>4 DEF MergedLevels, Shows
<1>5. CASE p \notin DOMAIN a
  BY <1>3, <1>5 DEF MergedLevels, Shows
<1> QED
  BY <1>4, <1>5

LEMMA ShowsTop ==
  ASSUME book \subseteq Orders, BookKnown, NEW m, NEW o, NEW n, Shows(TopOrders(m), o, n)
  PROVE  o \in Orders /\ MarketOf[o] = m /\ Current(o, n)
<1> DEFINE S == OfSide(Book(m), SideOf(o))
<1>1. TopOrders(m)[SideOf(o)] = TopLevels(S, volume)
  BY SideOfType DEF TopOrders
<1>2. PICK p \in DOMAIN TopLevels(S, volume) :
        o \in DOMAIN TopLevels(S, volume)[p] /\ TopLevels(S, volume)[p][o] = n
  BY <1>1 DEF Shows
<1>3. TopLevels(S, volume)[p] = [q \in {r \in Taken(S) : LevelOf(r) = p} |-> volume[q]]
  BY <1>2 DEF TopLevels
<1>4. o \in Taken(S) /\ volume[o] = n
  BY <1>2, <1>3
<1>5. o \in Book(m)
  BY <1>4 DEF Taken, OfSide
<1> QED
  BY <1>4, <1>5 DEF Book, BookKnown, Current

LEMMA ShowsLevel ==
  ASSUME book \subseteq Orders, BookKnown,
         NEW m, NEW side \in Sides, NEW price, NEW v, NEW o, NEW n, Shows(v, o, n),
         v[side] = [p \in {price} |-> LevelByPrice(OfSide(Book(m), side), volume, price)],
         \A other \in Sides \ {side} : DOMAIN v[other] = {}
  PROVE  o \in Orders /\ MarketOf[o] = m /\ Current(o, n)
<1> DEFINE S == OfSide(Book(m), side)
           level == LevelByPrice(S, volume, price)
<1>1. \A p \in DOMAIN level : p \in S /\ level[p] = volume[p]
  BY DEF LevelByPrice
<1> HIDE DEF level
<1>2. o \in DOMAIN level /\ level[o] = n
  BY SideOfType DEF Shows, level
<1> QED
  BY <1>1, <1>2 DEF OfSide, Book, BookKnown, Current

\* The levels of the sides that an event does not concern stay.
LEMMA ShowsOtherSide ==
  ASSUME view \in Views, NEW e, NEW o, NEW n, NEW f,
         Shows([view EXCEPT ![SideOf(e)] = f], o, n), SideOf(o) # SideOf(e)
  PROVE  Shows(view, o, n)
BY SideOfType DEF Views, Shows

LEMMA ShowsSide ==
  ASSUME view \in Views, NEW e, NEW o, NEW n, NEW f,
         Shows([view EXCEPT ![SideOf(e)] = f], o, n), SideOf(o) = SideOf(e)
  PROVE  \E p \in DOMAIN f : o \in DOMAIN f[p] /\ f[p][o] = n
BY SideOfType DEF Views, Shows

LEMMA ShowsVolume ==
  ASSUME view \in Views, NEW e, NEW k, NEW o, NEW n,
         Shows([view EXCEPT ![SideOf(e)] = WithVolume(view[SideOf(e)], e, k)], o, n)
  PROVE  IF o = e THEN n = k ELSE Shows(view, o, n)
<1>1. CASE SideOf(o) # SideOf(e)
  BY <1>1, ShowsOtherSide
<1>2. CASE SideOf(o) = SideOf(e)
  <2> DEFINE levels == view[SideOf(e)]
  <2> DEFINE new == WithVolume(levels, e, k)
             shown == [view EXCEPT ![SideOf(e)] = new]
  <2>0. shown[SideOf(o)] = new
    BY <1>2, SideOfType DEF Views
  <2> HIDE DEF new
  <2>1. PICK p \in DOMAIN new : o \in DOMAIN new[p] /\ new[p][o] = n
    <3>1. Shows(shown, o, n)
      BY DEF new
    <3> HIDE DEF shown
    <3> QED
      BY <2>0, <3>1 DEF Shows
  <2>2. p \in DOMAIN levels /\ o \in DOMAIN levels[p] /\ n = IF o = e THEN k ELSE levels[p][o]
    BY <2>1 DEF WithVolume, new
  <2> QED
    BY <1>2, <2>2 DEF Shows
<1> QED
  BY <1>1, <1>2

LEMMA ShowsRemoved ==
  ASSUME view \in Views, NEW e, NEW o, NEW n,
         Shows([view EXCEPT ![SideOf(e)] = RemovedFrom(view[SideOf(e)], e)], o, n)
  PROVE  o # e /\ Shows(view, o, n)
<1>1. CASE SideOf(o) # SideOf(e)
  BY <1>1, ShowsOtherSide
<1>2. CASE SideOf(o) = SideOf(e)
  <2> DEFINE levels == view[SideOf(e)]
  <2> DEFINE new == RemovedFrom(levels, e)
             shown == [view EXCEPT ![SideOf(e)] = new]
  <2>0. shown[SideOf(o)] = new
    BY <1>2, SideOfType DEF Views
  <2> HIDE DEF new
  <2>1. PICK p \in DOMAIN new : o \in DOMAIN new[p] /\ new[p][o] = n
    <3>1. Shows(shown, o, n)
      BY DEF new
    <3> HIDE DEF shown
    <3> QED
      BY <2>0, <3>1 DEF Shows
  <2>2. p \in DOMAIN levels /\ o \in DOMAIN levels[p] \ {e} /\ n = levels[p][o]
    BY <2>1 DEF RemovedFrom, new
  <2> QED
    BY <1>2, <2>2 DEF Shows
<1> QED
  BY <1>1, <1>2

LEMMA ShowsOrder ==
  ASSUME view \in Views, NEW e, NEW lev, NEW k, NEW o, NEW n, lev \in DOMAIN view[SideOf(e)],
         Shows([view EXCEPT ![SideOf(e)][lev] = WithOrder(view[SideOf(e)][lev], e, k)], o, n)
  PROVE  Shows(view, o, n) \/ (o = e /\ n = k)
<1> DEFINE level == view[SideOf(e)][lev]
           levels == [view[SideOf(e)] EXCEPT ![lev] = WithOrder(level, e, k)]
<1>1. [view EXCEPT ![SideOf(e)][lev] = WithOrder(level, e, k)]
        = [view EXCEPT ![SideOf(e)] = levels]
  OBVIOUS
<1>2. CASE SideOf(o) # SideOf(e)
  <2> HIDE DEF levels
  <2> QED
    BY <1>1, <1>2, ShowsOtherSide
<1>3. CASE SideOf(o) = SideOf(e)
  <2>1. PICK p \in DOMAIN levels : o \in DOMAIN levels[p] /\ levels[p][o] = n
    <3>1. Shows([view EXCEPT ![SideOf(e)] = levels], o, n)
      BY <1>1
    <3> HIDE DEF levels
    <3> QED
      BY <1>3, <3>1, ShowsSide
  <2>2. p \in DOMAIN view[SideOf(e)]
    BY <2>1
  <2>3. CASE p # lev
    BY <1>3, <2>1, <2>2, <2>3 DEF Shows
  <2>4. CASE p = lev
    <3>1. levels[p] = WithOrder(level, e, k)
      BY <2>2, <2>4
    <3>2. o \in DOMAIN WithOrder(level, e, k) /\ WithOrder(level, e, k)[o] = n
      BY <2>1, <3>1
    <3> HIDE DEF level, levels
    <3>3. (o = e /\ n = k) \/ (o # e /\ o \in DOMAIN level /\ level[o] = n)
      BY <3>2 DEF WithOrder
    <3> USE DEF level
    <3> QED
      BY <1>3, <2>2, <2>4, <3>3 DEF Shows
  <2> QED
    BY <2>3, <2>4
<1> QED
  BY <1>2, <1>3

-----------------------------------------------------------------------------
(***************************************************************************)
(* How news ages.                                                          *)
(***************************************************************************)

\* The client has handled the first message.
LEMMA FreshHandled ==
  ASSUME FeedTypeOK, toClient # <<>>, toClient' = Tail(toClient),
         UNCHANGED <<status, volume>>, NEW o, NEW n, NEW i \in Nat, Fresh(o, n, i + 1)
  PROVE  Fresh(o, n, i)'
<1>1. /\ DOMAIN toClient = 1 .. Len(toClient) /\ Len(toClient) \in Nat
      /\ DOMAIN toClient' = 1 .. Len(toClient) - 1
      /\ \A j \in DOMAIN toClient' : toClient'[j] = toClient[j + 1]
  BY TailFacts DEF FeedTypeOK
<1>2. CASE Current(o, n)
  BY <1>2 DEF Fresh, Current
<1>3. CASE Later(o, i + 1)
  <2>1. PICK j \in DOMAIN toClient : j > i + 1 /\ IsEventOf(toClient[j], o)
    BY <1>3 DEF Later
  <2>2. PICK k \in Nat : k = j - 1
    BY <1>1, <2>1
  <2>3. k \in DOMAIN toClient' /\ k > i /\ toClient'[k] = toClient[j]
    BY <1>1, <2>1, <2>2
  <2>4. IsEventOf(toClient'[k], o)
    BY <2>1, <2>3
  <2>5. Later(o, i)'
    BY <2>3, <2>4 DEF Later, IsEventOf
  <2> QED
    BY <2>5 DEF Fresh
<1> QED
  BY <1>2, <1>3 DEF Fresh

\* What was news before the first message and is not in it, is in a later one.
LEMMA FreshAfterFirst ==
  ASSUME FeedTypeOK, toClient # <<>>, NEW o, NEW n, Fresh(o, n, 0),
         ~ IsEventOf(Head(toClient), o)
  PROVE  Fresh(o, n, 1)
<1>1. DOMAIN toClient = 1 .. Len(toClient) /\ Len(toClient) \in Nat /\ Head(toClient) = toClient[1]
  BY TailFacts DEF FeedTypeOK
<1>2. CASE Later(o, 0)
  <2>1. PICK j \in DOMAIN toClient : j > 0 /\ IsEventOf(toClient[j], o)
    BY <1>2 DEF Later
  <2>2. j > 1
    BY <1>1, <2>1
  <2> QED
    BY <2>1, <2>2 DEF Later, Fresh
<1> QED
  BY <1>2 DEF Fresh

\* A message is sent to the client, or nothing that it must know happens.
LEMMA FreshSent ==
  ASSUME FeedTypeOK, NEW o, NEW n, NEW i \in Nat,
         \/ toClient' = toClient
         \/ \E m \in Messages : toClient' = Append(toClient, m),
         i <= Len(toClient), Fresh(o, n, i),
         Current(o, n) =>
           \/ Current(o, n)'
           \/ \E m \in Messages : toClient' = Append(toClient, m) /\ IsEventOf(m, o)
  PROVE  Fresh(o, n, i)'
<1>1. ASSUME Later(o, i) PROVE Later(o, i)'
  <2>1. PICK j \in DOMAIN toClient : j > i /\ IsEventOf(toClient[j], o)
    BY <1>1 DEF Later
  <2>2. j \in DOMAIN toClient' /\ toClient'[j] = toClient[j]
    BY AppendFacts, <2>1 DEF FeedTypeOK
  <2> QED
    BY <2>1, <2>2 DEF Later, IsEventOf
<1>2. ASSUME NEW m \in Messages, toClient' = Append(toClient, m), IsEventOf(m, o)
      PROVE  Later(o, i)'
  <2>1. /\ Len(toClient) \in Nat
        /\ DOMAIN toClient' = 1 .. Len(toClient) + 1
        /\ toClient'[Len(toClient) + 1] = m
    BY <1>2, AppendFacts DEF FeedTypeOK
  <2>2. PICK k \in Nat : k = Len(toClient) + 1
    BY <2>1
  <2>3. k \in DOMAIN toClient' /\ k > i /\ IsEventOf(toClient'[k], o)
    BY <1>2, <2>1, <2>2
  <2> QED
    BY <2>3 DEF Later, IsEventOf
<1> QED
  BY <1>1, <1>2 DEF Fresh

-----------------------------------------------------------------------------
(***************************************************************************)
(* The client handles an event: what it then shows is what it showed, but  *)
(* for the order of the event.                                             *)
(***************************************************************************)
LEMMA EventHandled ==
  ASSUME FeedTypeOK, Begun, AnswersNotNewer, InRoom, News,
         toClient # <<>>, toClient' = Tail(toClient),
         UNCHANGED <<status, volume, connected, room, selected, round, mixed, budget>>,
         Subscriptions' = Subscriptions,
         NEW e \in Orders, NEW k \in Volumes, NEW type \in EventTypes,
         Head(toClient) = [type |-> type, order |-> e, volume |-> k],
         \A o, n : Shows(view', o, n) =>
           \/ Shows(view, o, n)
           \/ o = e /\ n = k /\ type # "delist",
         MarketOf[e] = selected /\ type # "accepted" =>
           \A n : Shows(view', e, n) => n = k /\ type = "balance",
         Showing' => Showing
  PROVE  Begun' /\ AnswersNotNewer' /\ InRoom' /\ News'
<1>1. /\ DOMAIN toClient = 1 .. Len(toClient) /\ Len(toClient) \in Nat \ {0}
      /\ DOMAIN toClient' = 1 .. Len(toClient) - 1
      /\ \A j \in DOMAIN toClient' : toClient'[j] = toClient[j + 1] /\ j + 1 \in DOMAIN toClient
      /\ toClient[1] = Head(toClient) /\ 1 \in DOMAIN toClient
  BY TailFacts DEF FeedTypeOK
<1>2. \A o : IsEventOf(toClient[1], o) <=> o = e
  BY <1>1 DEF IsEventOf
<1>3. ~ IsAnswer(toClient[1])
  BY <1>1 DEF IsAnswer, EventTypes, AnswerTypes
<1>4. ASSUME NEW o, o # e, OnlyFirst(view, o) PROVE OnlyFirst(view', o)
  BY <1>4 DEF OnlyFirst
<1>5. Unaccepted'
  <2> SUFFICES ASSUME NEW o \in Orders, status[o] \in {"new", "added"}
               PROVE  /\ volume[o] = MaxVolume
                      /\ OnlyFirst(view', o)
                      /\ \A i \in DOMAIN toClient' :
                           /\ ~IsEventOf(toClient'[i], o)
                           /\ IsAnswer(toClient'[i]) => OnlyFirst(toClient'[i].view, o)
    BY DEF Unaccepted, IsEventOf, IsAnswer, OnlyFirst, Shows
  <2>1. /\ volume[o] = MaxVolume /\ OnlyFirst(view, o)
        /\ \A i \in DOMAIN toClient :
             /\ ~IsEventOf(toClient[i], o)
             /\ IsAnswer(toClient[i]) => OnlyFirst(toClient[i].view, o)
    BY DEF Begun, Unaccepted
  <2>2. o # e
    BY <1>1, <1>2, <2>1
  <2>3. OnlyFirst(view', o)
    BY <1>4, <2>1, <2>2
  <2> QED
    BY <1>1, <2>1, <2>3
<1>6. AcceptedFirst'
  <2> SUFFICES ASSUME NEW i \in DOMAIN toClient', toClient'[i].type = "accepted"
               PROVE  /\ toClient'[i].volume = MaxVolume
                      /\ OnlyFirst(view', toClient'[i].order)
                      /\ \A j \in 1 .. i - 1 :
                           /\ ~IsEventOf(toClient'[j], toClient'[i].order)
                           /\ IsAnswer(toClient'[j]) =>
                                OnlyFirst(toClient'[j].view, toClient'[i].order)
    BY DEF AcceptedFirst, IsEventOf, IsAnswer, OnlyFirst, Shows
  <2>1. PICK o : o = toClient'[i].order
    OBVIOUS
  <2>2. i \in Nat /\ i + 1 \in DOMAIN toClient /\ toClient'[i] = toClient[i + 1]
    BY <1>1
  <2>3. /\ toClient[i + 1].volume = MaxVolume
        /\ OnlyFirst(view, o)
        /\ \A j \in 1 .. i :
             /\ ~IsEventOf(toClient[j], o)
             /\ IsAnswer(toClient[j]) => OnlyFirst(toClient[j].view, o)
    <3>1. 1 .. (i + 1) - 1 = 1 .. i
      BY <2>2
    <3> QED
      BY <2>1, <2>2, <3>1 DEF Begun, AcceptedFirst
  <2>4. o # e
    <3>1. 1 \in 1 .. i
      BY <1>1
    <3> QED
      BY <1>2, <2>3, <3>1
  <2>5. \A j \in 1 .. i - 1 : j + 1 \in 1 .. i /\ j \in DOMAIN toClient'
    BY <1>1
  <2>6. \A j \in 1 .. i - 1 : toClient'[j] = toClient[j + 1]
    BY <1>1, <2>5
  <2> QED
    BY <1>4, <2>1, <2>2, <2>3, <2>4, <2>5, <2>6
<1>7. AnswersNotNewer'
  BY <1>1 DEF AnswersNotNewer, IsAnswer
<1>8. \A i \in DOMAIN toClient' : CurrentAnswer(i)' <=> CurrentAnswer(i + 1)
  BY <1>1 DEF CurrentAnswer, IsAnswer
<1>9. Engaged' => Engaged
  BY <1>1, <1>8 DEF Engaged
<1>10. InRoom'
  BY <1>9 DEF InRoom, Unbroken
<1> SUFFICES ASSUME Unbroken, ~mixed PROVE News'
  BY <1>5, <1>6, <1>7, <1>10 DEF Begun, News, ViewFresh, AnswersFresh, EventsFresh, Unbroken
<1>11. ViewFresh'
  <2> SUFFICES ASSUME NEW o \in Orders, NEW n \in Volumes, MarketOf[o] = selected,
                      Shows(view', o, n)
               PROVE  Fresh(o, n, 0)'
    BY DEF ViewFresh, Unbroken, Shows
  <2>1. CASE o # e
    <3>1. Shows(view, o, n)
      BY <2>1
    <3>2. Fresh(o, n, 0)
      BY <3>1 DEF News, ViewFresh
    <3>3. Fresh(o, n, 1)
      BY <1>1, <1>2, <2>1, <3>2, FreshAfterFirst
    <3> QED
      BY <3>3, FreshHandled
  <2>2. CASE o = e
    <3>1. Showing
      <4>1. Showing'
        BY SideOfType DEF Showing, Shows
      <4> QED
        BY <4>1
    <3>2. n = k /\ type # "delist"
      <4>1. CASE type # "accepted"
        BY <2>2, <4>1
      <4>2. CASE type = "accepted" /\ Shows(view, o, n)
        BY <1>1, <2>2, <4>2 DEF Begun, AcceptedFirst, OnlyFirst
      <4> QED
        BY <4>1, <4>2
    <3>3. Fresh(e, k, 1)
      BY <1>1, <2>2, <3>1, <3>2 DEF News, EventsFresh, EventTypes
    <3> QED
      BY <2>2, <3>2, <3>3, FreshHandled
  <2> QED
    BY <2>1, <2>2
<1>12. AnswersFresh'
  <2> SUFFICES ASSUME NEW i \in DOMAIN toClient', CurrentAnswer(i)',
                      NEW o \in Orders, NEW n \in Volumes, MarketOf[o] = selected,
                      Shows(toClient'[i].view, o, n)
               PROVE  Fresh(o, n, i)'
    BY DEF AnswersFresh, Unbroken, Shows
  <2>1. /\ i \in Nat /\ i + 1 \in DOMAIN toClient /\ CurrentAnswer(i + 1)
        /\ toClient'[i] = toClient[i + 1]
    BY <1>1, <1>8
  <2>2. Fresh(o, n, i + 1)
    BY <2>1 DEF News, AnswersFresh
  <2> QED
    BY <2>1, <2>2, FreshHandled
<1>13. EventsFresh'
  <2> SUFFICES ASSUME NEW i \in DOMAIN toClient',
                      toClient'[i].type \in {"accepted", "balance"},
                      MarketOf[toClient'[i].order] = selected,
                      Showing' \/ \E j \in 1 .. i - 1 : CurrentAnswer(j)'
               PROVE  Fresh(toClient[i].order, toClient[i].volume, i)'
    BY DEF EventsFresh, Unbroken
  <2>1. /\ i \in Nat /\ i + 1 \in DOMAIN toClient /\ toClient'[i] = toClient[i + 1]
    BY <1>1
  <2>2. Showing \/ \E j \in 1 .. (i + 1) - 1 : CurrentAnswer(j)
    <3> SUFFICES ASSUME NEW j \in 1 .. i - 1, CurrentAnswer(j)'
                 PROVE  \E h \in 1 .. (i + 1) - 1 : CurrentAnswer(h)
      OBVIOUS
    <3>1. j \in DOMAIN toClient' /\ j + 1 \in 1 .. (i + 1) - 1
      BY <1>1
    <3> QED
      BY <1>8, <3>1
  <2>3. PICK o, n : o = toClient'[i].order /\ n = toClient'[i].volume
    OBVIOUS
  <2>4. Fresh(o, n, i + 1)
    BY <2>1, <2>2, <2>3 DEF News, EventsFresh
  <2>5. Fresh(o, n, i)'
    BY <2>1, <2>4, FreshHandled
  <2> QED
    BY <2>3, <2>5 DEF Fresh, Current, Later
<1> QED
  BY <1>5, <1>6, <1>7, <1>10, <1>11, <1>12, <1>13 DEF Begun, News

\* The client merges an answer.
LEMMA AnswerHandled ==
  ASSUME FeedTypeOK, Begun, AnswersNotNewer, InRoom, News, MergeAnswer
  PROVE  Begun' /\ AnswersNotNewer' /\ InRoom' /\ News'
<1>0. /\ toClient # <<>> /\ toClient' = Tail(toClient)
      /\ Event \in [type : AnswerTypes, round : Nat, view : Views]
      /\ view' = Merged(Event.view) /\ mixed' = (mixed \/ Event.round # round)
      /\ UNCHANGED <<status, volume, connected, room, toServer, selected, round, budget>>
  BY AnswerType DEF MergeAnswer, serverVars
<1>1. /\ DOMAIN toClient = 1 .. Len(toClient) /\ Len(toClient) \in Nat \ {0}
      /\ DOMAIN toClient' = 1 .. Len(toClient) - 1
      /\ \A j \in DOMAIN toClient' : toClient'[j] = toClient[j + 1] /\ j + 1 \in DOMAIN toClient
      /\ toClient[1] = Event /\ 1 \in DOMAIN toClient
  BY <1>0, TailFacts DEF FeedTypeOK, Event
<1>2. IsAnswer(toClient[1]) /\ \A o : ~ IsEventOf(toClient[1], o)
  BY <1>0, <1>1 DEF IsEventOf, IsAnswer, EventTypes, AnswerTypes
<1>3. \A o, n : Shows(view', o, n) => Shows(toClient[1].view, o, n) \/ Shows(view, o, n)
  BY <1>0, <1>1, ShowsMerged DEF FeedTypeOK
<1>4. ASSUME NEW o, OnlyFirst(view, o), OnlyFirst(toClient[1].view, o)
      PROVE  OnlyFirst(view', o)
  BY <1>3, <1>4 DEF OnlyFirst
<1>5. Unaccepted'
  <2> SUFFICES ASSUME NEW o \in Orders, status[o] \in {"new", "added"}
               PROVE  /\ volume[o] = MaxVolume
                      /\ OnlyFirst(view', o)
                      /\ \A i \in DOMAIN toClient' :
                           /\ ~IsEventOf(toClient'[i], o)
                           /\ IsAnswer(toClient'[i]) => OnlyFirst(toClient'[i].view, o)
    BY <1>0 DEF Unaccepted, IsEventOf, IsAnswer, OnlyFirst, Shows
  <2>1. /\ volume[o] = MaxVolume /\ OnlyFirst(view, o)
        /\ \A i \in DOMAIN toClient :
             /\ ~IsEventOf(toClient[i], o)
             /\ IsAnswer(toClient[i]) => OnlyFirst(toClient[i].view, o)
    BY DEF Begun, Unaccepted
  <2> QED
    BY <1>1, <1>2, <1>4, <2>1
<1>6. AcceptedFirst'
  <2> SUFFICES ASSUME NEW i \in DOMAIN toClient', toClient'[i].type = "accepted"
               PROVE  /\ toClient'[i].volume = MaxVolume
                      /\ OnlyFirst(view', toClient'[i].order)
                      /\ \A j \in 1 .. i - 1 :
                           /\ ~IsEventOf(toClient'[j], toClient'[i].order)
                           /\ IsAnswer(toClient'[j]) =>
                                OnlyFirst(toClient'[j].view, toClient'[i].order)
    BY DEF AcceptedFirst, IsEventOf, IsAnswer, OnlyFirst, Shows
  <2>1. PICK o : o = toClient'[i].order
    OBVIOUS
  <2>2. i \in Nat /\ i + 1 \in DOMAIN toClient /\ toClient'[i] = toClient[i + 1]
    BY <1>1
  <2>3. /\ toClient[i + 1].volume = MaxVolume
        /\ OnlyFirst(view, o)
        /\ \A j \in 1 .. i :
             /\ ~IsEventOf(toClient[j], o)
             /\ IsAnswer(toClient[j]) => OnlyFirst(toClient[j].view, o)
    <3>1. 1 .. (i + 1) - 1 = 1 .. i
      BY <2>2
    <3> QED
      BY <2>1, <2>2, <3>1 DEF Begun, AcceptedFirst
  <2>4. OnlyFirst(toClient[1].view, o)
    <3>1. 1 \in 1 .. i
      BY <1>1
    <3> QED
      BY <1>2, <2>3, <3>1
  <2>5. \A j \in 1 .. i - 1 : j + 1 \in 1 .. i /\ j \in DOMAIN toClient'
    BY <1>1
  <2>6. \A j \in 1 .. i - 1 : toClient'[j] = toClient[j + 1]
    BY <1>1, <2>5
  <2> QED
    BY <1>4, <2>1, <2>2, <2>3, <2>4, <2>5, <2>6
<1>7. AnswersNotNewer'
  BY <1>0, <1>1 DEF AnswersNotNewer, IsAnswer
<1>8. \A i \in DOMAIN toClient' : CurrentAnswer(i)' <=> CurrentAnswer(i + 1)
  BY <1>0, <1>1 DEF CurrentAnswer, IsAnswer
<1>9. ~mixed' => ~mixed /\ CurrentAnswer(1)
  BY <1>0, <1>1, <1>2 DEF CurrentAnswer
<1>10. InRoom'
  <2>1. ~mixed' => ~mixed /\ Engaged
    BY <1>1, <1>9 DEF Engaged
  <2>2. Subscriptions' = Subscriptions
    BY <1>0 DEF Subscriptions
  <2> QED
    BY <1>0, <2>1, <2>2 DEF InRoom, Unbroken
<1> SUFFICES ASSUME Unbroken, ~mixed' PROVE News'
  BY <1>0, <1>5, <1>6, <1>7, <1>10 DEF Begun, News, ViewFresh, AnswersFresh, EventsFresh, Unbroken
<1>11. ViewFresh'
  <2> SUFFICES ASSUME NEW o \in Orders, NEW n \in Volumes, MarketOf[o] = selected,
                      Shows(view', o, n)
               PROVE  Fresh(o, n, 0)'
    BY <1>0 DEF ViewFresh, Unbroken, Shows
  <2>1. Fresh(o, n, 1)
    <3>1. CASE Shows(toClient[1].view, o, n)
      BY <1>1, <1>9, <3>1 DEF News, AnswersFresh
    <3>2. CASE Shows(view, o, n)
      <4>1. Fresh(o, n, 0)
        BY <1>9, <3>2 DEF News, ViewFresh
      <4> QED
        BY <1>0, <1>1, <1>2, <4>1, FreshAfterFirst DEF Event
    <3> QED
      BY <1>3, <3>1, <3>2
  <2> QED
    BY <1>0, <2>1, FreshHandled
<1>12. AnswersFresh'
  <2> SUFFICES ASSUME NEW i \in DOMAIN toClient', CurrentAnswer(i)',
                      NEW o \in Orders, NEW n \in Volumes, MarketOf[o] = selected,
                      Shows(toClient'[i].view, o, n)
               PROVE  Fresh(o, n, i)'
    BY <1>0 DEF AnswersFresh, Unbroken, Shows
  <2>1. /\ i \in Nat /\ i + 1 \in DOMAIN toClient /\ CurrentAnswer(i + 1)
        /\ toClient'[i] = toClient[i + 1]
    BY <1>1, <1>8
  <2>2. Fresh(o, n, i + 1)
    BY <1>9, <2>1 DEF News, AnswersFresh
  <2> QED
    BY <1>0, <2>1, <2>2, FreshHandled
<1>13. EventsFresh'
  <2> SUFFICES ASSUME NEW i \in DOMAIN toClient',
                      toClient'[i].type \in {"accepted", "balance"},
                      MarketOf[toClient'[i].order] = selected
               PROVE  Fresh(toClient[i].order, toClient[i].volume, i)'
    BY <1>0 DEF EventsFresh, Unbroken
  <2>1. /\ i \in Nat /\ i + 1 \in DOMAIN toClient /\ toClient'[i] = toClient[i + 1]
        /\ 1 \in 1 .. (i + 1) - 1
    BY <1>1
  <2>3. PICK o, n : o = toClient'[i].order /\ n = toClient'[i].volume
    OBVIOUS
  <2>4. Fresh(o, n, i + 1)
    BY <1>9, <2>1, <2>3 DEF News, EventsFresh
  <2>5. Fresh(o, n, i)'
    BY <1>0, <2>1, <2>4, FreshHandled
  <2> QED
    BY <2>3, <2>5 DEF Fresh, Current, Later
<1> QED
  BY <1>5, <1>6, <1>7, <1>10, <1>11, <1>12, <1>13 DEF Begun, News

-----------------------------------------------------------------------------
(***************************************************************************)
(* The server.                                                             *)
(***************************************************************************)

\* Something happens to order e, and the client is told if it is in the room.
LEMMA EventSent ==
  ASSUME FeedTypeOK, Begun, Ordered, News,
         UNCHANGED <<connected, room, toServer, selected, round, view, mixed>>,
         Unbroken' = Unbroken,
         NEW e \in Orders, NEW k \in Volumes, NEW type \in EventTypes,
         IF connected /\ room = MarketOf[e]
           THEN toClient' = Append(toClient, [type |-> type, order |-> e, volume |-> k])
           ELSE UNCHANGED toClient,
         \A o \in Orders : o # e => status'[o] = status[o] /\ volume'[o] = volume[o],
         status'[e] \in {"accepted", "unfunded"},
         type # "delist" => Current(e, k)',
         type = "accepted" => k = MaxVolume /\ status[e] \in {"new", "added"}
                              /\ \A n : Current(e, n) => Current(e, n)'
  PROVE  Begun' /\ Ordered' /\ News'
<1> DEFINE m == [type |-> type, order |-> e, volume |-> k]
           told == connected /\ room = MarketOf[e]
           last == Len(toClient) + 1
<1>1. m \in Messages /\ m.type = type /\ m.order = e /\ m.volume = k /\ IsEventOf(m, e)
      /\ ~ IsAnswer(m) /\ \A o : o # e => ~ IsEventOf(m, o)
  BY DEF Messages, IsEventOf, IsAnswer, EventTypes, AnswerTypes, Volumes
<1>2. DOMAIN toClient = 1 .. Len(toClient) /\ Len(toClient) \in Nat
  BY AppendFacts, <1>1 DEF FeedTypeOK
<1>3. ASSUME told
      PROVE  /\ toClient' = Append(toClient, m)
             /\ DOMAIN toClient' = 1 .. last
             /\ \A i \in DOMAIN toClient : i \in DOMAIN toClient' /\ toClient'[i] = toClient[i]
             /\ toClient'[last] = m
  <2>1. toClient' = Append(toClient, m)
    BY <1>3
  <2>2. m \in Messages /\ toClient \in Seq(Messages)
    BY <1>1 DEF FeedTypeOK
  <2> HIDE DEF m
  <2>3. /\ DOMAIN Append(toClient, m) = 1 .. Len(toClient) + 1
        /\ \A i \in DOMAIN toClient : Append(toClient, m)[i] = toClient[i]
        /\ Append(toClient, m)[Len(toClient) + 1] = m
    BY <2>2, AppendFacts
  <2>4. \A i \in 1 .. Len(toClient) : i \in 1 .. Len(toClient) + 1
    BY <1>2
  <2> QED
    BY <1>2, <2>1, <2>3, <2>4, Zenon
<1>4. ASSUME ~told PROVE toClient' = toClient
  BY <1>4
<1> HIDE DEF m, told
<1>5. Unaccepted'
  <2> SUFFICES ASSUME NEW o \in Orders, status'[o] \in {"new", "added"}
               PROVE  /\ volume'[o] = MaxVolume
                      /\ OnlyFirst(view, o)
                      /\ \A i \in DOMAIN toClient' :
                           /\ ~IsEventOf(toClient'[i], o)
                           /\ IsAnswer(toClient'[i]) => OnlyFirst(toClient'[i].view, o)
    BY DEF Unaccepted, IsEventOf, IsAnswer, OnlyFirst, Shows
  <2>1. o # e
    OBVIOUS
  <2>2. /\ volume[o] = MaxVolume /\ OnlyFirst(view, o)
        /\ \A i \in DOMAIN toClient :
             /\ ~IsEventOf(toClient[i], o)
             /\ IsAnswer(toClient[i]) => OnlyFirst(toClient[i].view, o)
    BY <2>1 DEF Begun, Unaccepted
  <2>3. CASE told
    BY <1>1, <1>2, <1>3, <2>1, <2>2, <2>3
  <2> QED
    BY <1>4, <2>1, <2>2, <2>3
<1>6. AcceptedFirst'
  <2> SUFFICES ASSUME NEW i \in DOMAIN toClient', toClient'[i].type = "accepted"
               PROVE  /\ toClient'[i].volume = MaxVolume
                      /\ OnlyFirst(view, toClient'[i].order)
                      /\ \A j \in 1 .. i - 1 :
                           /\ ~IsEventOf(toClient'[j], toClient'[i].order)
                           /\ IsAnswer(toClient'[j]) =>
                                OnlyFirst(toClient'[j].view, toClient'[i].order)
    BY DEF AcceptedFirst, IsEventOf, IsAnswer, OnlyFirst, Shows
  <2>1. \A j \in 1 .. i - 1 : j \in DOMAIN toClient /\ toClient'[j] = toClient[j]
    BY <1>2, <1>3, <1>4
  <2>2. CASE i \in DOMAIN toClient
    <3>1. toClient'[i] = toClient[i]
      BY <1>3, <1>4, <2>2
    <3> QED
      BY <2>1, <2>2, <3>1 DEF Begun, AcceptedFirst
  <2>3. CASE i \notin DOMAIN toClient
    <3>1. toClient'[i] = m
      BY <1>2, <1>3, <1>4, <2>3
    <3>2. type = "accepted"
      BY <1>1, <3>1
    <3>3. /\ OnlyFirst(view, e)
          /\ \A j \in DOMAIN toClient :
               /\ ~IsEventOf(toClient[j], e)
               /\ IsAnswer(toClient[j]) => OnlyFirst(toClient[j].view, e)
      BY <3>2 DEF Begun, Unaccepted
    <3> QED
      BY <1>1, <2>1, <3>1, <3>2, <3>3
  <2> QED
    BY <2>2, <2>3
<1>7. RequestsInOrder'
  BY DEF Ordered, RequestsInOrder, Subscriptions
<1>8. AnswersNotNewer'
  <2> SUFFICES ASSUME NEW i \in DOMAIN toClient', IsAnswer(toClient'[i])
               PROVE  toClient'[i].round <= round
    BY DEF AnswersNotNewer, IsAnswer
  <2> QED
    BY <1>1, <1>2, <1>3, <1>4 DEF Ordered, AnswersNotNewer
<1>9. ASSUME NEW i \in DOMAIN toClient', CurrentAnswer(i)'
      PROVE  i \in DOMAIN toClient /\ toClient'[i] = toClient[i] /\ CurrentAnswer(i)
  <2>1. IsAnswer(toClient'[i])
    BY <1>9 DEF CurrentAnswer, IsAnswer
  <2>2. i \in DOMAIN toClient /\ toClient'[i] = toClient[i]
    BY <1>1, <1>2, <1>3, <1>4, <2>1
  <2> QED
    BY <1>9, <2>2 DEF CurrentAnswer, IsAnswer
<1>10. Engaged' => Engaged
  BY <1>9 DEF Engaged, Showing
<1>11. InRoom'
  BY <1>10 DEF Ordered, InRoom, Subscriptions
<1> SUFFICES ASSUME Unbroken, ~mixed PROVE News'
  BY <1>5, <1>6, <1>7, <1>8, <1>11
  DEF Begun, Ordered, News, ViewFresh, AnswersFresh, EventsFresh
<1>12. ASSUME NEW o \in Orders, MarketOf[o] = selected, NEW n, NEW i \in Nat,
              i <= Len(toClient), Fresh(o, n, i), Engaged
       PROVE  Fresh(o, n, i)'
  <2>1. \/ toClient' = toClient
        \/ \E msg \in Messages : toClient' = Append(toClient, msg)
    BY <1>1, <1>3, <1>4
  <2>2. connected /\ room = selected
    BY <1>12 DEF Ordered, InRoom
  <2>3. CASE o # e
    <3>1. Current(o, n) => Current(o, n)'
      BY <2>3 DEF Current
    <3> QED
      BY <1>12, <2>1, <3>1, FreshSent
  <2>4. CASE o = e
    <3>1. told
      BY <1>12, <2>2, <2>4 DEF told
    <3>2. \E msg \in Messages : toClient' = Append(toClient, msg) /\ IsEventOf(msg, o)
      BY <1>1, <1>3, <2>4, <3>1
    <3> QED
      BY <1>12, <2>1, <3>2, FreshSent
  <2> QED
    BY <2>3, <2>4
<1>13. ViewFresh'
  <2> SUFFICES ASSUME NEW o \in Orders, NEW n \in Volumes, MarketOf[o] = selected,
                      Shows(view, o, n)
               PROVE  Fresh(o, n, 0)'
    BY DEF ViewFresh, Shows
  <2>1. Fresh(o, n, 0)
    BY DEF News, ViewFresh
  <2>2. Engaged
    BY SideOfType DEF Engaged, Showing, Shows
  <2> QED
    BY <1>2, <1>12, <2>1, <2>2
<1>14. AnswersFresh'
  <2> SUFFICES ASSUME NEW i \in DOMAIN toClient', CurrentAnswer(i)',
                      NEW o \in Orders, NEW n \in Volumes, MarketOf[o] = selected,
                      Shows(toClient'[i].view, o, n)
               PROVE  Fresh(o, n, i)'
    BY DEF AnswersFresh, Shows
  <2>1. i \in DOMAIN toClient /\ toClient'[i] = toClient[i] /\ CurrentAnswer(i)
    BY <1>9
  <2>2. Fresh(o, n, i) /\ Engaged /\ i \in Nat /\ i <= Len(toClient)
    BY <1>2, <2>1 DEF News, AnswersFresh, Engaged
  <2> QED
    BY <1>12, <2>2
<1>15. EventsFresh'
  <2> SUFFICES ASSUME NEW i \in DOMAIN toClient',
                      toClient'[i].type \in {"accepted", "balance"},
                      MarketOf[toClient'[i].order] = selected,
                      Showing \/ \E j \in 1 .. i - 1 : CurrentAnswer(j)'
               PROVE  Fresh(toClient[i].order, toClient[i].volume, i)'
    BY DEF EventsFresh, Showing
  <2>0. \A j \in 1 .. i - 1 : j \in DOMAIN toClient'
    BY <1>2, <1>3, <1>4
  <2>1. Showing \/ \E j \in 1 .. i - 1 : j \in DOMAIN toClient /\ CurrentAnswer(j)
    BY <1>9, <2>0
  <2>2. Engaged
    BY <2>1 DEF Engaged
  <2>3. PICK o, n : o = toClient'[i].order /\ n = toClient'[i].volume
    OBVIOUS
  <2>4. Fresh(o, n, i)'
    <3>1. CASE i \in DOMAIN toClient
      <4>1. toClient'[i] = toClient[i] /\ i \in Nat /\ i <= Len(toClient)
        BY <1>2, <1>3, <1>4, <3>1
      <4>2. Fresh(o, n, i)
        BY <2>1, <2>3, <3>1, <4>1 DEF News, EventsFresh
      <4>3. o \in Orders
        <5>1. toClient[i] \in Messages /\ toClient[i].type \in EventTypes
          BY <3>1, <4>1 DEF FeedTypeOK, EventTypes
        <5> QED
          BY <2>3, <4>1, <5>1 DEF Messages, EventTypes, AnswerTypes
      <4> QED
        BY <1>12, <2>2, <2>3, <4>1, <4>2, <4>3
    <3>2. CASE i \notin DOMAIN toClient
      <4>1. toClient'[i] = m
        BY <1>2, <1>3, <1>4, <3>2
      <4>2. o = e /\ n = k /\ type # "delist"
        BY <1>1, <2>3, <4>1
      <4> QED
        BY <4>2 DEF Fresh
    <3> QED
      BY <3>1, <3>2
  <2> QED
    BY <2>3, <2>4 DEF Fresh, Current, Later
<1> QED
  BY <1>5, <1>6, <1>7, <1>8, <1>11, <1>13, <1>14, <1>15 DEF Begun, Ordered, News

\* A request is answered, with what is in the book.
LEMMA AnswerSent ==
  ASSUME FeedTypeOK, RoomFollowsSelection, Begun, Ordered, News,
         UNCHANGED <<status, volume, connected, room, selected, round, view, mixed, budget>>,
         toServer # <<>>, toServer' = Tail(toServer), Head(toServer).type # "subscribe",
         NEW a \in Messages, a.type \in AnswerTypes, a.round = Head(toServer).round,
         toClient' = Append(toClient, a),
         \A o, n : Shows(a.view, o, n) =>
           o \in Orders /\ MarketOf[o] = Head(toServer).market /\ Current(o, n)
  PROVE  Begun' /\ Ordered' /\ News'
<1> DEFINE last == Len(toClient) + 1
<1>1. IsAnswer(a) /\ a.type # "accepted" /\ a.type # "balance" /\ \A o : ~ IsEventOf(a, o)
  BY DEF IsAnswer, IsEventOf, EventTypes, AnswerTypes
<1>2. /\ DOMAIN toClient = 1 .. Len(toClient) /\ Len(toClient) \in Nat
      /\ DOMAIN toClient' = 1 .. last
      /\ \A i \in DOMAIN toClient : i \in DOMAIN toClient' /\ toClient'[i] = toClient[i]
      /\ toClient'[last] = a
  BY AppendFacts DEF FeedTypeOK
<1>3. /\ DOMAIN toServer = 1 .. Len(toServer) /\ Len(toServer) \in Nat \ {0}
      /\ DOMAIN toServer' = 1 .. Len(toServer) - 1
      /\ \A k \in DOMAIN toServer' : toServer'[k] = toServer[k + 1] /\ k + 1 \in DOMAIN toServer
      /\ Head(toServer) = toServer[1] /\ 1 \in DOMAIN toServer /\ toServer[1] \in Requests
  BY TailFacts DEF FeedTypeOK
<1> HIDE DEF last
<1>4. /\ Subscriptions \subseteq DOMAIN toServer
      /\ \A j \in Subscriptions' : j \in DOMAIN toServer' /\ j + 1 \in Subscriptions
  BY <1>3 DEF Subscriptions
<1>5. Unaccepted'
  <2> SUFFICES ASSUME NEW o \in Orders, status[o] \in {"new", "added"}
               PROVE  /\ volume[o] = MaxVolume
                      /\ OnlyFirst(view, o)
                      /\ \A i \in DOMAIN toClient' :
                           /\ ~IsEventOf(toClient'[i], o)
                           /\ IsAnswer(toClient'[i]) => OnlyFirst(toClient'[i].view, o)
    BY DEF Unaccepted, IsEventOf, IsAnswer, OnlyFirst, Shows
  <2>1. /\ volume[o] = MaxVolume /\ OnlyFirst(view, o)
        /\ \A i \in DOMAIN toClient :
             /\ ~IsEventOf(toClient[i], o)
             /\ IsAnswer(toClient[i]) => OnlyFirst(toClient[i].view, o)
    BY DEF Begun, Unaccepted
  <2>2. OnlyFirst(a.view, o)
    BY <2>1 DEF OnlyFirst, Current
  <2>3. \A i \in DOMAIN toClient' : i \in DOMAIN toClient \/ i = last
    BY <1>2 DEF last
  <2> QED
    BY <1>1, <1>2, <2>1, <2>2, <2>3
<1>6. AcceptedFirst'
  <2> SUFFICES ASSUME NEW i \in DOMAIN toClient', toClient'[i].type = "accepted"
               PROVE  /\ toClient'[i].volume = MaxVolume
                      /\ OnlyFirst(view', toClient'[i].order)
                      /\ \A j \in 1 .. i - 1 :
                           /\ ~IsEventOf(toClient'[j], toClient'[i].order)
                           /\ IsAnswer(toClient'[j]) =>
                                OnlyFirst(toClient'[j].view, toClient'[i].order)
    BY DEF AcceptedFirst, IsEventOf, IsAnswer, OnlyFirst, Shows
  <2>1. \A j \in 1 .. i - 1 : j \in DOMAIN toClient /\ toClient'[j] = toClient[j]
    BY <1>2 DEF last
  <2>2. i \in DOMAIN toClient /\ toClient'[i] = toClient[i]
    BY <1>1, <1>2 DEF last
  <2>3. view' = view
    OBVIOUS
  <2> QED
    BY <2>1, <2>2, <2>3 DEF Begun, AcceptedFirst
<1>7. RequestsInOrder'
  <2> SUFFICES ASSUME NEW k \in DOMAIN toServer', toServer'[k].type # "subscribe"
               PROVE  /\ toServer'[k].round <= round
                      /\ Unbroken /\ toServer'[k].round = round =>
                           /\ toServer'[k].market = selected
                           /\ \A j \in Subscriptions' : j < k
    BY DEF RequestsInOrder, Unbroken
  <2>1. k + 1 \in DOMAIN toServer /\ toServer'[k] = toServer[k + 1]
    BY <1>3
  <2>2. /\ toServer[k + 1].round <= round
        /\ Unbroken /\ toServer[k + 1].round = round =>
             /\ toServer[k + 1].market = selected
             /\ \A j \in Subscriptions : j < k + 1
    BY <2>1 DEF Ordered, RequestsInOrder
  <2>3. (\A j \in Subscriptions : j < k + 1) => \A j \in Subscriptions' : j < k
    BY <1>3, <1>4
  <2> QED
    BY <2>1, <2>2, <2>3
<1>8. a.round <= round
  BY <1>3 DEF Ordered, RequestsInOrder
<1>9. Unbroken /\ a.round = round =>
        toServer[1].market = selected /\ room = selected /\ Subscriptions = {}
  <2> SUFFICES ASSUME Unbroken, a.round = round
               PROVE  toServer[1].market = selected /\ room = selected /\ Subscriptions = {}
    OBVIOUS
  <2>1. toServer[1].market = selected /\ \A j \in Subscriptions : j < 1
    BY <1>3 DEF Ordered, RequestsInOrder
  <2>2. Subscriptions = {}
    BY <1>3, <1>4, <2>1
  <2>3. selected # NoMarket
    <3>1. toServer[1].market \in Markets
      BY <1>3 DEF Requests
    <3> QED
      BY <2>1, <3>1, FeedAssumption DEF FeedAssumption
  <2>4. connected
    BY DEF Ordered, InRoom
  <2> QED
    BY <2>1, <2>2, <2>3, <2>4 DEF RoomFollowsSelection, Last
<1>10. AnswersNotNewer'
  <2> SUFFICES ASSUME NEW i \in DOMAIN toClient', IsAnswer(toClient'[i])
               PROVE  toClient'[i].round <= round
    BY DEF AnswersNotNewer, IsAnswer
  <2>1. i \in DOMAIN toClient \/ i = last
    BY <1>2 DEF last
  <2> QED
    BY <1>2, <1>8, <2>1 DEF Ordered, AnswersNotNewer
<1>11. ASSUME NEW i \in DOMAIN toClient', CurrentAnswer(i)'
       PROVE  \/ i \in DOMAIN toClient /\ toClient'[i] = toClient[i] /\ CurrentAnswer(i)
              \/ i = last /\ toClient'[i] = a /\ a.round = round
  <2>1. IsAnswer(toClient'[i]) /\ toClient'[i].round = round
    BY <1>11 DEF CurrentAnswer, IsAnswer
  <2>2. CASE i \in DOMAIN toClient
    BY <1>2, <2>1, <2>2 DEF CurrentAnswer
  <2>3. CASE i \notin DOMAIN toClient
    <3>1. i = last
      BY <1>2, <2>3 DEF last
    <3> QED
      BY <1>2, <2>1, <3>1
  <2> QED
    BY <2>2, <2>3
<1>12. InRoom'
  <2> SUFFICES ASSUME Unbroken, ~mixed, Engaged' PROVE room = selected /\ Subscriptions' = {}
    BY DEF Ordered, InRoom, Unbroken
  <2>1. Engaged \/ a.round = round
    BY <1>11 DEF Engaged, Showing
  <2>2. room = selected /\ Subscriptions = {}
    BY <1>9, <2>1 DEF Ordered, InRoom
  <2> QED
    BY <1>4, <2>2
<1> SUFFICES ASSUME Unbroken, ~mixed PROVE News'
  BY <1>5, <1>6, <1>7, <1>10, <1>12
  DEF Begun, Ordered, News, ViewFresh, AnswersFresh, EventsFresh, Unbroken
<1>13. ASSUME NEW o, NEW n, NEW i \in Nat, i <= Len(toClient), Fresh(o, n, i)
       PROVE  Fresh(o, n, i)'
  <2>1. Current(o, n) => Current(o, n)'
    BY DEF Current
  <2> QED
    BY <1>13, <2>1, FreshSent
<1>14. ViewFresh'
  <2> SUFFICES ASSUME NEW o \in Orders, NEW n \in Volumes, MarketOf[o] = selected,
                      Shows(view, o, n)
               PROVE  Fresh(o, n, 0)'
    BY DEF ViewFresh, Shows
  <2>1. Fresh(o, n, 0)
    BY DEF News, ViewFresh
  <2> QED
    BY <1>2, <1>13, <2>1
<1>15. AnswersFresh'
  <2> SUFFICES ASSUME NEW i \in DOMAIN toClient', CurrentAnswer(i)',
                      NEW o \in Orders, NEW n \in Volumes, MarketOf[o] = selected,
                      Shows(toClient'[i].view, o, n)
               PROVE  Fresh(o, n, i)'
    BY DEF AnswersFresh, Shows
  <2>1. CASE i \in DOMAIN toClient /\ toClient'[i] = toClient[i] /\ CurrentAnswer(i)
    <3>1. Fresh(o, n, i) /\ i \in Nat /\ i <= Len(toClient)
      BY <1>2, <2>1 DEF News, AnswersFresh
    <3> QED
      BY <1>13, <3>1
  <2>2. CASE toClient'[i] = a
    <3>1. Current(o, n)
      BY <2>2
    <3> QED
      BY <3>1 DEF Fresh, Current
  <2> QED
    BY <1>11, <2>1, <2>2
<1>16. EventsFresh'
  <2> SUFFICES ASSUME NEW i \in DOMAIN toClient',
                      toClient'[i].type \in {"accepted", "balance"},
                      MarketOf[toClient'[i].order] = selected,
                      Showing \/ \E j \in 1 .. i - 1 : CurrentAnswer(j)'
               PROVE  Fresh(toClient[i].order, toClient[i].volume, i)'
    BY DEF EventsFresh, Showing
  <2>1. i \in DOMAIN toClient /\ toClient'[i] = toClient[i] /\ i \in Nat /\ i <= Len(toClient)
    BY <1>1, <1>2 DEF last
  <2>2. Showing \/ \E j \in 1 .. i - 1 : CurrentAnswer(j)
    <3>1. \A j \in 1 .. i - 1 : j \in DOMAIN toClient' /\ j # last
      BY <1>2, <2>1 DEF last
    <3> QED
      BY <1>11, <3>1
  <2>3. PICK o, n : o = toClient'[i].order /\ n = toClient'[i].volume
    OBVIOUS
  <2>4. Fresh(o, n, i)
    BY <2>1, <2>2, <2>3 DEF News, EventsFresh
  <2>5. Fresh(o, n, i)'
    BY <1>13, <2>1, <2>4
  <2> QED
    BY <2>3, <2>5 DEF Fresh, Current, Later
<1> QED
  BY <1>5, <1>6, <1>7, <1>10, <1>12, <1>14, <1>15, <1>16 DEF Begun, Ordered, News

-----------------------------------------------------------------------------
(***************************************************************************)
(* Steps that change none of the messages to the client.                   *)
(***************************************************************************)

\* What is known of orders depends on the messages to the client and the books.
LEMMA BegunKept ==
  ASSUME Begun, UNCHANGED <<status, volume, toClient>>,
         view' = view \/ view' = EmptyView
  PROVE  Begun'
<1>1. \A o : OnlyFirst(view, o) => OnlyFirst(view', o)
  BY ShowsEmpty DEF OnlyFirst
<1>2. Unaccepted'
  <2> SUFFICES ASSUME NEW o \in Orders, status[o] \in {"new", "added"}
               PROVE  /\ volume[o] = MaxVolume
                      /\ OnlyFirst(view', o)
                      /\ \A i \in DOMAIN toClient :
                           /\ ~IsEventOf(toClient[i], o)
                           /\ IsAnswer(toClient[i]) => OnlyFirst(toClient[i].view, o)
    BY DEF Unaccepted, IsEventOf, IsAnswer, OnlyFirst, Shows
  <2> QED
    BY <1>1 DEF Begun, Unaccepted
<1>3. AcceptedFirst'
  <2> SUFFICES ASSUME NEW i \in DOMAIN toClient, toClient[i].type = "accepted"
               PROVE  /\ toClient[i].volume = MaxVolume
                      /\ OnlyFirst(view', toClient[i].order)
                      /\ \A j \in 1 .. i - 1 :
                           /\ ~IsEventOf(toClient[j], toClient[i].order)
                           /\ IsAnswer(toClient[j]) => OnlyFirst(toClient[j].view, toClient[i].order)
    BY DEF AcceptedFirst, IsEventOf, IsAnswer, OnlyFirst, Shows
  <2> QED
    BY <1>1 DEF Begun, AcceptedFirst
<1> QED
  BY <1>2, <1>3 DEF Begun

LEMMA NewsKept ==
  ASSUME News, UNCHANGED <<status, volume, toClient, selected, round, view, mixed>>,
         Unbroken' = Unbroken
  PROVE  News'
BY DEF News, ViewFresh, AnswersFresh, EventsFresh, Fresh, Current, Later, CurrentAnswer,
   Showing, Shows, IsEventOf, IsAnswer

\* The client asks for levels of the market that it has selected.
LEMMA RequestAsked ==
  ASSUME FeedTypeOK, Ordered, NEW req \in Requests, req.type # "subscribe",
         req.market = selected, req.round = round,
         toServer' = Append(toServer, req),
         UNCHANGED <<selected, round, budget>>
  PROVE  RequestsInOrder' /\ Subscriptions' = Subscriptions
<1>1. /\ DOMAIN toServer = 1 .. Len(toServer) /\ Len(toServer) \in Nat
      /\ DOMAIN toServer' = 1 .. Len(toServer) + 1
      /\ \A i \in DOMAIN toServer : toServer'[i] = toServer[i]
      /\ toServer'[Len(toServer) + 1] = req
  BY AppendFacts DEF FeedTypeOK
<1>2. Subscriptions' = Subscriptions /\ Subscriptions \subseteq DOMAIN toServer
  BY <1>1 DEF Subscriptions
<1>3. RequestsInOrder'
  <2> SUFFICES ASSUME NEW k \in DOMAIN toServer', toServer'[k].type # "subscribe"
               PROVE  /\ toServer'[k].round <= round
                      /\ Unbroken /\ toServer'[k].round = round =>
                           /\ toServer'[k].market = selected
                           /\ \A j \in Subscriptions : j < k
    BY <1>2 DEF RequestsInOrder, Unbroken
  <2>1. CASE k \in DOMAIN toServer
    BY <1>1, <2>1 DEF Ordered, RequestsInOrder
  <2>2. CASE k = Len(toServer) + 1
    <3>1. round \in Nat /\ \A j \in Subscriptions : j < k
      BY <1>1, <1>2, <2>2 DEF FeedTypeOK
    <3> QED
      BY <1>1, <2>2, <3>1
  <2> QED
    BY <1>1, <2>1, <2>2
<1> QED
  BY <1>2, <1>3

\* A subscription is sent again when the socket is back, which was broken then.
LEMMA SubscribedAgain ==
  ASSUME FeedTypeOK, Ordered, Reconnect
  PROVE  Ordered'
<1>1. /\ ~ connected /\ connected' = TRUE
      /\ UNCHANGED <<room, toClient, selected, round, view, mixed, budget>>
  BY DEF Reconnect, clientVars
<1>2. ~ Unbroken /\ ~ Unbroken'
  BY <1>1 DEF Ordered, InRoom, Unbroken
<1>3. \A k \in DOMAIN toServer' : toServer'[k].type # "subscribe" =>
        k \in DOMAIN toServer /\ toServer'[k] = toServer[k]
  <2>1. CASE selected = NoMarket
    BY <2>1 DEF Reconnect
  <2>2. CASE selected # NoMarket
    <3>1. Subscription(selected) \in Requests /\ Subscription(selected).type = "subscribe"
      BY <2>2, RequestType DEF FeedTypeOK, Subscription
    <3>2. toServer' = Append(toServer, Subscription(selected))
      BY <2>2 DEF Reconnect
    <3>3. /\ DOMAIN toServer = 1 .. Len(toServer) /\ Len(toServer) \in Nat
          /\ DOMAIN toServer' = 1 .. Len(toServer) + 1
          /\ \A i \in DOMAIN toServer : toServer'[i] = toServer[i]
          /\ toServer'[Len(toServer) + 1] = Subscription(selected)
      BY <3>1, <3>2, AppendFacts DEF FeedTypeOK
    <3> QED
      BY <3>1, <3>3
  <2> QED
    BY <2>1, <2>2
<1>4. RequestsInOrder'
  BY <1>1, <1>2, <1>3 DEF Ordered, RequestsInOrder
<1>5. AnswersNotNewer' /\ InRoom'
  BY <1>1, <1>2 DEF Ordered, AnswersNotNewer, IsAnswer, InRoom
<1> QED
  BY <1>4, <1>5 DEF Ordered

\* A new selection: nothing is shown yet, and what is in flight is older.
LEMMA SelectionMade ==
  ASSUME FeedTypeOK, Begun, Ordered, NEW m \in Markets, SelectMarket(m)
  PROVE  Begun' /\ Ordered' /\ News'
<1>1. /\ selected' = m /\ round' = round + 1 /\ view' = EmptyView /\ mixed' = FALSE
      /\ toServer' = Append(toServer, Subscription(m))
      /\ UNCHANGED <<status, volume, connected, room, toClient>>
      /\ Unbroken' = Unbroken /\ round \in Nat
  BY DEF SelectMarket, serverVars, Unbroken, FeedTypeOK
<1>2. Begun'
  BY <1>1, BegunKept
<1>3. ~ Showing'
  BY <1>1 DEF Showing, EmptyView, NoLevels
<1>4. AnswersNotNewer' /\ \A i \in DOMAIN toClient : ~ CurrentAnswer(i)'
  <2>1. \A i \in DOMAIN toClient : IsAnswer(toClient[i]) =>
          toClient[i].round \in Nat /\ toClient[i].round <= round
    <3> SUFFICES ASSUME NEW i \in DOMAIN toClient, IsAnswer(toClient[i])
                 PROVE  toClient[i].round \in Nat
      BY DEF Ordered, AnswersNotNewer
    <3>1. toClient[i] \in Messages
      BY DEF FeedTypeOK
    <3> QED
      BY <3>1 DEF Messages, IsAnswer, EventTypes, AnswerTypes
  <2>2. \A i \in DOMAIN toClient : IsAnswer(toClient[i]) =>
          toClient[i].round <= round' /\ toClient[i].round # round'
    BY <1>1, <2>1
  <2> QED
    BY <1>1, <2>2 DEF AnswersNotNewer, CurrentAnswer, IsAnswer
<1>5. RequestsInOrder'
  <2>1. Subscription(m) \in Requests /\ Subscription(m).type = "subscribe"
    BY RequestType DEF Subscription
  <2>2. /\ DOMAIN toServer = 1 .. Len(toServer) /\ Len(toServer) \in Nat
        /\ DOMAIN toServer' = 1 .. Len(toServer) + 1
        /\ \A i \in DOMAIN toServer : toServer'[i] = toServer[i] /\ toServer[i] \in Requests
        /\ toServer'[Len(toServer) + 1] = Subscription(m)
    BY <1>1, <2>1, AppendFacts DEF FeedTypeOK
  <2> SUFFICES ASSUME NEW k \in DOMAIN toServer', toServer'[k].type # "subscribe"
               PROVE  toServer'[k].round <= round' /\ toServer'[k].round # round'
    BY DEF RequestsInOrder
  <2>3. k \in DOMAIN toServer /\ toServer'[k] = toServer[k]
    BY <2>1, <2>2
  <2>4. toServer[k].round \in Nat /\ toServer[k].round <= round
    BY <2>2, <2>3 DEF Ordered, RequestsInOrder, Requests
  <2> QED
    BY <1>1, <2>3, <2>4
<1>6. ~ Engaged'
  BY <1>1, <1>3, <1>4 DEF Engaged
<1>7. InRoom'
  BY <1>1, <1>6 DEF Ordered, InRoom
<1>8. ViewFresh'
  <2>1. \A o, n : ~ Shows(view', o, n)
    BY <1>1, ShowsEmpty
  <2> QED
    BY <2>1 DEF ViewFresh, Shows
<1>9. AnswersFresh'
  BY <1>1, <1>4 DEF AnswersFresh
<1>10. EventsFresh'
  <2> SUFFICES ASSUME NEW i \in DOMAIN toClient', NEW j \in 1 .. i - 1, CurrentAnswer(j)'
               PROVE  FALSE
    BY <1>3 DEF EventsFresh
  <2>1. DOMAIN toClient = 1 .. Len(toClient) /\ Len(toClient) \in Nat
    BY DEF FeedTypeOK
  <2>2. j \in DOMAIN toClient
    BY <1>1, <2>1
  <2> QED
    BY <1>4, <2>2
<1> QED
  BY <1>2, <1>4, <1>5, <1>7, <1>8, <1>9, <1>10 DEF Ordered, News

\* The socket breaks.
LEMMA SocketBroken ==
  ASSUME FeedTypeOK, Begun, Ordered, Disconnect
  PROVE  Begun' /\ Ordered' /\ News'
<1>1. /\ toServer' = <<>> /\ toClient' = <<>>
      /\ UNCHANGED <<status, volume, selected, round, view, mixed>>
      /\ budget' = [budget EXCEPT !.drops = budget.drops - 1] /\ budget.drops > 0
  BY DEF Disconnect, serverVars, clientVars
<1>2. ~ Unbroken'
  <2>1. budget.drops \in 0 .. MaxDrops /\ budget'.drops = budget.drops - 1
        /\ MaxDrops \in Nat
    BY <1>1, FeedAssumption DEF FeedTypeOK, FeedAssumption
  <2> QED
    BY <2>1 DEF Unbroken
<1>3. DOMAIN toServer' = {} /\ DOMAIN toClient' = {}
  BY <1>1
<1>4. Begun'
  BY <1>1, <1>3 DEF Begun, Unaccepted, AcceptedFirst, OnlyFirst, Shows
<1>5. Ordered'
  BY <1>2, <1>3 DEF Ordered, RequestsInOrder, AnswersNotNewer, InRoom
<1>6. News'
  BY <1>2 DEF News, ViewFresh, AnswersFresh, EventsFresh
<1> QED
  BY <1>4, <1>5, <1>6

\* The server handles a subscription: nothing is shown yet.
LEMMA SubscriptionHandled ==
  ASSUME FeedTypeOK, Begun, Ordered, News, OnSubscribe
  PROVE  Begun' /\ Ordered' /\ News'
<1>1. /\ toServer # <<>> /\ Head(toServer).type = "subscribe" /\ toServer' = Tail(toServer)
      /\ UNCHANGED <<status, volume, connected, toClient, selected, round, view, mixed, budget>>
      /\ Unbroken' = Unbroken
  BY DEF OnSubscribe, HasRequest, serverVars, clientVars, Unbroken
<1>2. /\ DOMAIN toServer = 1 .. Len(toServer) /\ Len(toServer) \in Nat \ {0}
      /\ DOMAIN toServer' = 1 .. Len(toServer) - 1
      /\ \A k \in DOMAIN toServer' : toServer'[k] = toServer[k + 1] /\ k + 1 \in DOMAIN toServer
      /\ Head(toServer) = toServer[1] /\ 1 \in DOMAIN toServer
  BY <1>1, TailFacts DEF FeedTypeOK
<1>3. 1 \in Subscriptions
  BY <1>1, <1>2 DEF Subscriptions
<1>4. Begun' /\ News'
  BY <1>1, BegunKept, NewsKept
<1>5. RequestsInOrder'
  <2> SUFFICES ASSUME NEW k \in DOMAIN toServer', toServer'[k].type # "subscribe"
               PROVE  /\ toServer'[k].round <= round
                      /\ Unbroken /\ toServer'[k].round = round =>
                           /\ toServer'[k].market = selected
                           /\ \A j \in Subscriptions' : j < k
    BY <1>1 DEF RequestsInOrder
  <2>1. k + 1 \in DOMAIN toServer /\ toServer'[k] = toServer[k + 1]
    BY <1>2
  <2>2. /\ toServer[k + 1].round <= round
        /\ Unbroken /\ toServer[k + 1].round = round =>
             /\ toServer[k + 1].market = selected
             /\ \A j \in Subscriptions : j < k + 1
    BY <2>1 DEF Ordered, RequestsInOrder
  <2>3. \A j \in Subscriptions' : j \in DOMAIN toServer' /\ j + 1 \in Subscriptions
    BY <1>2 DEF Subscriptions
  <2>4. (\A j \in Subscriptions : j < k + 1) => \A j \in Subscriptions' : j < k
    BY <1>2, <2>3
  <2> QED
    BY <2>1, <2>2, <2>4
<1>6. AnswersNotNewer' /\ (Engaged' => Engaged)
  BY <1>1 DEF Ordered, AnswersNotNewer, IsAnswer, Engaged, Showing, CurrentAnswer
<1>7. InRoom'
  <2>1. Unbroken /\ ~mixed => ~ Engaged
    BY <1>3 DEF Ordered, InRoom
  <2> QED
    BY <1>1, <1>6, <2>1 DEF Ordered, InRoom
<1> QED
  BY <1>4, <1>5, <1>6, <1>7 DEF Ordered

LEMMA OrderAdded ==
  ASSUME FeedTypeOK, Begun, Ordered, News, NEW o \in Orders, AddOrder(o)
  PROVE  Begun' /\ Ordered' /\ News'
<1>1. /\ status[o] = "new" /\ status' = [status EXCEPT ![o] = "added"]
      /\ UNCHANGED <<volume, connected, room, toServer, toClient, selected, round, view, mixed,
                     budget>>
  BY DEF AddOrder, clientVars
<1>2. \A q, n : Current(q, n) => Current(q, n)'
  BY <1>1 DEF Current, FeedTypeOK
<1>3. Unaccepted'
  <2> SUFFICES ASSUME NEW q \in Orders, status'[q] \in {"new", "added"}
               PROVE  /\ volume[q] = MaxVolume
                      /\ OnlyFirst(view, q)
                      /\ \A i \in DOMAIN toClient :
                           /\ ~IsEventOf(toClient[i], q)
                           /\ IsAnswer(toClient[i]) => OnlyFirst(toClient[i].view, q)
    BY <1>1 DEF Unaccepted, IsEventOf, IsAnswer, OnlyFirst, Shows
  <2>1. status[q] \in {"new", "added"}
    BY <1>1 DEF FeedTypeOK
  <2> QED
    BY <2>1 DEF Begun, Unaccepted
<1>4. AcceptedFirst'
  BY <1>1 DEF Begun, AcceptedFirst, IsEventOf, IsAnswer, OnlyFirst, Shows
<1>5. Ordered'
  BY <1>1 DEF Ordered, RequestsInOrder, AnswersNotNewer, InRoom, Subscriptions, Unbroken,
     Engaged, Showing, CurrentAnswer, IsAnswer
<1>6. \A q, n, i : Fresh(q, n, i) => Fresh(q, n, i)'
  BY <1>1, <1>2 DEF Fresh, Later, IsEventOf
<1>7. ViewFresh'
  BY <1>1, <1>6 DEF News, ViewFresh, Unbroken, Shows
<1>8. AnswersFresh'
  BY <1>1, <1>6 DEF News, AnswersFresh, Unbroken, Shows, CurrentAnswer, IsAnswer
<1>9. EventsFresh'
  <2> SUFFICES ASSUME Unbroken, ~mixed, NEW i \in DOMAIN toClient,
                      toClient[i].type \in {"accepted", "balance"},
                      MarketOf[toClient[i].order] = selected,
                      Showing \/ \E j \in 1 .. i - 1 : CurrentAnswer(j)
               PROVE  Fresh(toClient[i].order, toClient[i].volume, i)'
    BY <1>1 DEF EventsFresh, Unbroken, Showing, CurrentAnswer, IsAnswer
  <2>1. PICK q, n : q = toClient[i].order /\ n = toClient[i].volume
    OBVIOUS
  <2>2. Fresh(q, n, i)'
    BY <1>6, <2>1 DEF News, EventsFresh
  <2> QED
    BY <1>1, <2>1, <2>2 DEF Fresh, Current, Later
<1> QED
  BY <1>3, <1>4, <1>5, <1>7, <1>8, <1>9 DEF Begun, News

\* The epics handle an event: they show nothing of another market, and at
\* most ask for a level of their own.
LEMMA ArrivalHandled ==
  ASSUME FeedTypeOK, Begun, Ordered, News, NewOrderArrival
  PROVE  Begun' /\ Ordered' /\ News'
<1>1. /\ toClient # <<>>
      /\ Event \in [type : EventTypes, order : Orders, volume : 1 .. MaxVolume]
      /\ Event.type = "accepted"
  BY EventType DEF NewOrderArrival, EventTypes
<1>2. PICK e \in Orders, k \in Volumes :
        e = Event.order /\ k = Event.volume
        /\ Head(toClient) = [type |-> "accepted", order |-> e, volume |-> k]
  BY <1>1 DEF Volumes, Event
<1>3. /\ \/ view' = view
         \/ /\ LevelOf(e) \in DOMAIN view[SideOf(e)]
            /\ view' = [view EXCEPT ![SideOf(e)][LevelOf(e)] =
                          WithOrder(view[SideOf(e)][LevelOf(e)], e, k)]
      /\ \/ toServer' = toServer
         \/ MarketOf[e] = selected /\ toServer' = Append(toServer, LevelRequest(e))
      /\ toClient' = Tail(toClient)
      /\ UNCHANGED <<status, volume, connected, room, selected, round, mixed, budget>>
  BY <1>2 DEF NewOrderArrival, Concerned, serverVars
<1>4. RequestsInOrder' /\ Subscriptions' = Subscriptions
  <2>1. CASE toServer' = toServer
    BY <1>3, <2>1 DEF Ordered, RequestsInOrder, Subscriptions, Unbroken
  <2>2. CASE MarketOf[e] = selected /\ toServer' = Append(toServer, LevelRequest(e))
    <3>1. LevelRequest(e) \in Requests
      BY <2>2, RequestType, FeedAssumption DEF FeedAssumption
    <3>2. /\ LevelRequest(e).type # "subscribe" /\ LevelRequest(e).market = selected
          /\ LevelRequest(e).round = round
      BY DEF LevelRequest
    <3> QED
      BY <1>3, <2>2, <3>1, <3>2, RequestAsked
  <2> QED
    BY <1>3, <2>1, <2>2
<1>5. view \in Views /\ SideOf(e) \in Sides
  BY SideOfType DEF FeedTypeOK
<1>6. \A o, n : Shows(view', o, n) => Shows(view, o, n) \/ (o = e /\ n = k)
  <2>1. CASE view' = view
    BY <2>1
  <2>2. CASE view' # view
    <3> DEFINE lev == LevelOf(e)
               shown == [view EXCEPT ![SideOf(e)][lev] = WithOrder(view[SideOf(e)][lev], e, k)]
    <3>1. lev \in DOMAIN view[SideOf(e)] /\ view' = shown
      BY <1>3, <2>2
    <3>2. \A o, n : Shows(shown, o, n) => Shows(view, o, n) \/ (o = e /\ n = k)
      <4> HIDE DEF lev
      <4> QED
        BY <1>5, <3>1, ShowsOrder
    <3> HIDE DEF shown
    <3> QED
      BY <3>1, <3>2
  <2> QED
    BY <2>1, <2>2
<1>7. Showing' => Showing
  <2>1. \A side \in Sides : DOMAIN view'[side] = DOMAIN view[side]
    BY <1>3, <1>5 DEF Views
  <2> QED
    BY <2>1 DEF Showing
<1>8. Begun' /\ AnswersNotNewer' /\ InRoom' /\ News'
  BY <1>1, <1>2, <1>3, <1>4, <1>6, <1>7, EventHandled DEF Ordered, EventTypes
<1> QED
  BY <1>4, <1>8 DEF Ordered

LEMMA UpdateHandled ==
  ASSUME FeedTypeOK, Begun, Ordered, News, UpdateObOrder
  PROVE  Begun' /\ Ordered' /\ News'
<1>1. /\ toClient # <<>>
      /\ Event \in [type : EventTypes, order : Orders, volume : 1 .. MaxVolume]
      /\ Event.type = "balance"
  BY EventType DEF UpdateObOrder, EventTypes
<1>2. PICK e \in Orders, k \in Volumes :
        e = Event.order /\ k = Event.volume
        /\ Head(toClient) = [type |-> "balance", order |-> e, volume |-> k]
  BY <1>1 DEF Volumes, Event
<1>3. /\ view' = IF MarketOf[e] # selected THEN view
                 ELSE [view EXCEPT ![SideOf(e)] = WithVolume(view[SideOf(e)], e, k)]
      /\ toClient' = Tail(toClient)
      /\ UNCHANGED <<status, volume, connected, room, toServer, selected, round, mixed, budget>>
  BY <1>2 DEF UpdateObOrder, Concerned, serverVars
<1>4. RequestsInOrder' /\ Subscriptions' = Subscriptions
  BY <1>3 DEF Ordered, RequestsInOrder, Subscriptions, Unbroken
<1>5. view \in Views /\ SideOf(e) \in Sides
  BY SideOfType DEF FeedTypeOK
<1>6. \A o, n : Shows(view', o, n) => Shows(view, o, n) \/ (o = e /\ n = k)
  BY <1>3, <1>5, ShowsVolume
<1>7. MarketOf[e] = selected => \A n : Shows(view', e, n) => n = k
  BY <1>3, <1>5, ShowsVolume
<1>8. Showing' => Showing
  <2>1. \A side \in Sides : DOMAIN view'[side] = DOMAIN view[side]
    BY <1>3, <1>5 DEF Views, WithVolume
  <2> QED
    BY <2>1 DEF Showing
<1>9. Begun' /\ AnswersNotNewer' /\ InRoom' /\ News'
  BY <1>1, <1>2, <1>3, <1>4, <1>6, <1>7, <1>8, EventHandled DEF Ordered, EventTypes
<1> QED
  BY <1>4, <1>9 DEF Ordered

LEMMA DelistHandled ==
  ASSUME FeedTypeOK, Begun, Ordered, News, DelistObOrder
  PROVE  Begun' /\ Ordered' /\ News'
<1>1. /\ toClient # <<>>
      /\ Event \in [type : EventTypes, order : Orders, volume : 1 .. MaxVolume]
      /\ Event.type = "delist"
  BY EventType DEF DelistObOrder, EventTypes
<1>2. PICK e \in Orders, k \in Volumes :
        e = Event.order /\ k = Event.volume
        /\ Head(toClient) = [type |-> "delist", order |-> e, volume |-> k]
  BY <1>1 DEF Volumes, Event
<1>3. /\ view' = IF MarketOf[e] # selected THEN view
                 ELSE [view EXCEPT ![SideOf(e)] = RemovedFrom(view[SideOf(e)], e)]
      /\ toClient' = Tail(toClient)
      /\ UNCHANGED <<status, volume, connected, room, toServer, selected, round, mixed, budget>>
  BY <1>2 DEF DelistObOrder, Concerned, serverVars
<1>4. RequestsInOrder' /\ Subscriptions' = Subscriptions
  BY <1>3 DEF Ordered, RequestsInOrder, Subscriptions, Unbroken
<1>5. view \in Views /\ SideOf(e) \in Sides
  BY SideOfType DEF FeedTypeOK
<1>6. \A o, n : Shows(view', o, n) => Shows(view, o, n)
  BY <1>3, <1>5, ShowsRemoved
<1>7. MarketOf[e] = selected => \A n : ~ Shows(view', e, n)
  BY <1>3, <1>5, ShowsRemoved
<1>8. Showing' => Showing
  <2>1. \A side \in Sides : DOMAIN view'[side] \subseteq DOMAIN view[side]
    BY <1>3, <1>5 DEF Views, RemovedFrom
  <2> QED
    BY <2>1 DEF Showing
<1>9. Begun' /\ AnswersNotNewer' /\ InRoom' /\ News'
  BY <1>1, <1>2, <1>3, <1>4, <1>6, <1>7, <1>8, EventHandled DEF Ordered, EventTypes
<1> QED
  BY <1>4, <1>9 DEF Ordered

\* With distinct prices an order is removed by its own delisting only.
LEMMA BookKnownNext ==
  ASSUME DistinctPrices, FeedTypeOK, BookKnown, [Next]_vars
  PROVE  BookKnown'
<1> USE DEF FeedTypeOK, BookKnown
<1>1. ASSUME NEW o \in Orders, AddOrder(o) \/ AcceptOrder(o) \/ PeerOrder(o)
      PROVE  BookKnown'
  BY <1>1 DEF AddOrder, AcceptOrder, PeerOrder
<1>2. ASSUME NEW o \in Orders, DelistOrder(o) PROVE BookKnown'
  <2>1. \A p \in Removable(o) : p = o
    BY DEF Removable, OfSide, Book, DistinctPrices
  <2>2. book' = book \ {o} /\ status' = [status EXCEPT ![o] = "unfunded"]
    BY <1>2, <2>1 DEF DelistOrder, BooksWithout
  <2> QED
    BY <2>2
<1>3. ASSUME UNCHANGED <<status, book>> PROVE BookKnown'
  BY <1>3
<1>4. ASSUME NEW o \in Orders, UpdateBalance(o) PROVE BookKnown'
  BY <1>3, <1>4 DEF UpdateBalance
<1>5. CASE OnSubscribe \/ AnswerTopOrders \/ AnswerLevel \/ Disconnect \/ Reconnect
  BY <1>3, <1>5 DEF OnSubscribe, AnswerTopOrders, AnswerLevel, Disconnect, Reconnect, serverVars
<1>6. CASE RequestSnapshot \/ \E m \in Markets : SelectMarket(m)
  BY <1>3, <1>6 DEF RequestSnapshot, SelectMarket, serverVars
<1>7. CASE NewOrderArrival \/ UpdateObOrder \/ DelistObOrder \/ MergeAnswer
  BY <1>3, <1>7 DEF NewOrderArrival, UpdateObOrder, DelistObOrder, MergeAnswer, serverVars
<1>8. CASE UNCHANGED vars
  BY <1>3, <1>8 DEF vars
<1> QED
  BY <1>1, <1>2, <1>4, <1>5, <1>6, <1>7, <1>8 DEF Next

\* An event of order e goes to the room of its market.
LEMMA BookChanged ==
  ASSUME FeedTypeOK, BookKnown, Begun, Ordered, News, NEW e \in Orders,
         AcceptOrder(e) \/ PeerOrder(e) \/ UpdateBalance(e) \/ DelistOrder(e)
  PROVE  Begun' /\ Ordered' /\ News'
<1>1. /\ UNCHANGED <<connected, room, toServer, selected, round, view, mixed>>
      /\ Unbroken' = Unbroken
      /\ \A o \in Orders : o # e => status'[o] = status[o] /\ volume'[o] = volume[o]
  BY DEF AcceptOrder, PeerOrder, UpdateBalance, DelistOrder, clientVars, Unbroken, FeedTypeOK
<1>2. CASE AcceptOrder(e) \/ PeerOrder(e)
  <2>1. /\ status[e] \in {"new", "added"} /\ status'[e] = "accepted" /\ volume' = volume
        /\ Downstream("accepted", e, volume[e])
    BY <1>2 DEF AcceptOrder, PeerOrder, FeedTypeOK
  <2>2. volume[e] = MaxVolume /\ volume[e] \in Volumes
    BY <2>1 DEF Begun, Unaccepted, FeedTypeOK, Volumes
  <2>3. Current(e, volume[e])' /\ \A n : Current(e, n) => Current(e, n)'
    BY <2>1 DEF Current
  <2>4. IF connected /\ room = MarketOf[e]
          THEN toClient' = Append(toClient,
                             [type |-> "accepted", order |-> e, volume |-> volume[e]])
          ELSE UNCHANGED toClient
    BY <2>1 DEF Downstream
  <2>5. PICK k \in Volumes : k = volume[e] /\ volume'[e] = k
    BY <2>1, <2>2
  <2>6. Current(e, k)'
    BY <2>1, <2>5 DEF Current
  <2> QED
    BY <1>1, <2>1, <2>2, <2>3, <2>4, <2>5, <2>6, EventSent DEF EventTypes
<1>3. CASE UpdateBalance(e)
  <2>0. status[e] = "accepted" /\ e \in book /\ status' = status
    BY <1>3 DEF UpdateBalance, Checked, BookKnown
  <2>1. PICK k \in 1 .. MaxVolume : volume' = [volume EXCEPT ![e] = k]
                                  /\ Downstream("balance", e, k)
    BY <1>3, <2>0 DEF UpdateBalance
  <2>2. status[e] = "accepted" /\ status' = status
    BY <2>0
  <2>3. k \in Volumes /\ Current(e, k)'
    BY <2>1, <2>2 DEF Volumes, Current, FeedTypeOK
  <2>4. IF connected /\ room = MarketOf[e]
          THEN toClient' = Append(toClient, [type |-> "balance", order |-> e, volume |-> k])
          ELSE UNCHANGED toClient
    BY <2>1 DEF Downstream
  <2> QED
    BY <1>1, <2>2, <2>3, <2>4, EventSent DEF EventTypes
<1>4. CASE DelistOrder(e)
  <2>1. status'[e] = "unfunded" /\ Downstream("delist", e, volume[e])
    BY <1>4 DEF DelistOrder, FeedTypeOK
  <2>2. PICK k \in Volumes : k = volume[e]
    BY DEF Volumes, FeedTypeOK
  <2>3. IF connected /\ room = MarketOf[e]
          THEN toClient' = Append(toClient, [type |-> "delist", order |-> e, volume |-> k])
          ELSE UNCHANGED toClient
    BY <2>1, <2>2 DEF Downstream
  <2> QED
    BY <1>1, <2>1, <2>2, <2>3, EventSent DEF EventTypes
<1> QED
  BY <1>2, <1>3, <1>4

LEMMA TopAnswered ==
  ASSUME FeedTypeOK, RoomFollowsSelection, BookKnown, Begun, Ordered, News, AnswerTopOrders
  PROVE  Begun' /\ Ordered' /\ News'
<1>1. /\ toServer # <<>> /\ Head(toServer).type = "top"
      /\ Head(toServer) \in Requests
  BY TailFacts DEF AnswerTopOrders, HasRequest, FeedTypeOK
<1> DEFINE req == Head(toServer)
           answer == [type |-> "top", round |-> req.round, view |-> TopOrders(req.market)]
<1>2. req.round \in Nat
  BY <1>1 DEF Requests
<1>3. TopOrders(req.market) \in Views
  <2>1. \A side \in Sides : TopLevels(OfSide(Book(req.market), side), volume) \in SideMaps
    BY TopLevelsType, BookType DEF OfSide, FeedTypeOK
  <2> QED
    BY <2>1 DEF TopOrders, Views
<1>4. answer \in Messages /\ answer.type \in AnswerTypes /\ answer.round = req.round
  BY <1>2, <1>3 DEF Messages, AnswerTypes
<1>5. \A o, n : Shows(answer.view, o, n) =>
        o \in Orders /\ MarketOf[o] = Head(toServer).market /\ Current(o, n)
  BY ShowsTop DEF FeedTypeOK
<1>6. /\ toClient' = Append(toClient, answer) /\ toServer' = Tail(toServer)
      /\ UNCHANGED <<status, volume, connected, room, selected, round, view, mixed, budget>>
  BY DEF AnswerTopOrders, serverVars, clientVars
<1> HIDE DEF answer
<1> QED
  BY <1>1, <1>4, <1>5, <1>6, AnswerSent

LEMMA LevelAnswered ==
  ASSUME FeedTypeOK, RoomFollowsSelection, BookKnown, Begun, Ordered, News, AnswerLevel
  PROVE  Begun' /\ Ordered' /\ News'
<1>1. /\ toServer # <<>> /\ Head(toServer).type = "level"
      /\ Head(toServer) \in Requests
  BY TailFacts DEF AnswerLevel, HasRequest, FeedTypeOK
<1> DEFINE req == Head(toServer)
           level == LevelByPrice(OfSide(Book(req.market), req.side), volume, req.price)
           shows == [EmptyView EXCEPT ![req.side] = [p \in {req.price} |-> level]]
           answer == [type |-> "level", round |-> req.round, view |-> shows]
<1>2. req.round \in Nat /\ req.side \in Sides /\ req.price \in Nat
  BY <1>1 DEF Requests
<1>3. shows \in Views
  <2>1. level \in LevelMaps
    BY LevelByPriceType, BookType DEF OfSide, FeedTypeOK
  <2> HIDE DEF level
  <2>2. [p \in {req.price} |-> level] \in [{req.price} -> LevelMaps]
    BY <2>1
  <2>3. [p \in {req.price} |-> level] \in SideMaps
    BY <1>2, <2>2, SideMapMade
  <2> QED
    BY <1>2, <2>3, EmptyViewType DEF Views
<1>4. \A o, n : Shows(shows, o, n) =>
        o \in Orders /\ MarketOf[o] = req.market /\ Current(o, n)
  <2>1. /\ shows[req.side] = [p \in {req.price} |-> level]
        /\ \A other \in Sides \ {req.side} : DOMAIN shows[other] = {}
    BY <1>2 DEF EmptyView, NoLevels
  <2>2. book \subseteq Orders
    BY DEF FeedTypeOK
  <2> HIDE DEF shows
  <2> QED
    BY <1>2, <2>1, <2>2, ShowsLevel
<1>5. /\ toClient' = Append(toClient, answer) /\ toServer' = Tail(toServer)
      /\ UNCHANGED <<status, volume, connected, room, selected, round, view, mixed, budget>>
  BY DEF AnswerLevel, serverVars, clientVars
<1> HIDE DEF shows
<1>6. answer \in Messages /\ answer.type \in AnswerTypes /\ answer.round = req.round
  BY <1>2, <1>3 DEF Messages, AnswerTypes
<1>7. \A o, n : Shows(answer.view, o, n) =>
        o \in Orders /\ MarketOf[o] = Head(toServer).market /\ Current(o, n)
  BY <1>4
<1> HIDE DEF answer
<1> QED
  BY <1>1, <1>5, <1>6, <1>7, AnswerSent

-----------------------------------------------------------------------------
LEMMA FeedInvInit == Init => FeedInv
<1> SUFFICES ASSUME Init PROVE FeedInv
  OBVIOUS
<1>1. /\ toServer = <<>> /\ toClient = <<>> /\ view = EmptyView
      /\ connected = TRUE /\ selected = NoMarket
      /\ \A o \in Orders : volume[o] = MaxVolume
  BY DEF Init
<1>2. DOMAIN toServer = {} /\ DOMAIN toClient = {}
  BY <1>1
<1>3. \A o, n : ~ Shows(view, o, n)
  BY <1>1, ShowsEmpty
<1>4. ~ Engaged
  BY <1>1, <1>2 DEF Engaged, Showing, EmptyView, NoLevels
<1>5. RoomFollowsSelection
  BY <1>1 DEF RoomFollowsSelection
<1>6. Begun
  BY <1>1, <1>2, <1>3 DEF Begun, Unaccepted, AcceptedFirst, OnlyFirst
<1>7. Ordered
  BY <1>1, <1>2, <1>4 DEF Ordered, RequestsInOrder, AnswersNotNewer, InRoom
<1>8. News
  BY <1>2, <1>3 DEF News, ViewFresh, AnswersFresh, EventsFresh
<1>9. BookKnown
  BY DEF Init, BookKnown
<1> QED
  BY <1>5, <1>6, <1>7, <1>8, <1>9, TypeInit DEF FeedInv

LEMMA FeedInvNext ==
  ASSUME DistinctPrices, FeedInv, [Next]_vars
  PROVE  FeedInv'
<1>1. FeedTypeOK /\ RoomFollowsSelection /\ BookKnown /\ Begun /\ Ordered /\ News
  BY DEF FeedInv
<1>2. FeedTypeOK' /\ RoomFollowsSelection' /\ BookKnown'
  BY <1>1, TypeNext, RoomNext, BookKnownNext
<1> SUFFICES Begun' /\ Ordered' /\ News'
  BY <1>2 DEF FeedInv
<1>3. ASSUME NEW o \in Orders, AddOrder(o) PROVE Begun' /\ Ordered' /\ News'
  BY <1>1, <1>3, OrderAdded
<1>4. ASSUME NEW o \in Orders,
             AcceptOrder(o) \/ PeerOrder(o) \/ UpdateBalance(o) \/ DelistOrder(o)
      PROVE  Begun' /\ Ordered' /\ News'
  BY <1>1, <1>4, BookChanged
<1>5. CASE OnSubscribe
  BY <1>1, <1>5, SubscriptionHandled
<1>6. CASE AnswerTopOrders \/ AnswerLevel
  BY <1>1, <1>6, TopAnswered, LevelAnswered
<1>7. CASE Disconnect
  BY <1>1, <1>7, SocketBroken
<1>8. CASE Reconnect
  <2>1. /\ UNCHANGED <<status, volume, toClient, selected, round, view, mixed, budget>>
    BY <1>8 DEF Reconnect, serverVars, clientVars
  <2>2. Unbroken' = Unbroken
    BY <2>1 DEF Unbroken
  <2>3. Begun'
    BY <1>1, <2>1, BegunKept
  <2>4. News'
    BY <1>1, <2>1, <2>2, NewsKept
  <2> QED
    BY <1>1, <1>8, <2>3, <2>4, SubscribedAgain
<1>9. ASSUME NEW m \in Markets, SelectMarket(m) PROVE Begun' /\ Ordered' /\ News'
  BY <1>1, <1>9, SelectionMade
<1>10. CASE RequestSnapshot
  <2>1. /\ selected # NoMarket /\ toServer' = Append(toServer, TopRequest)
        /\ UNCHANGED <<status, volume, connected, room, toClient, selected, round, view, mixed,
                       budget>>
    BY <1>10 DEF RequestSnapshot, serverVars, clientVars
  <2>2. /\ TopRequest \in Requests /\ TopRequest.type # "subscribe"
        /\ TopRequest.market = selected /\ TopRequest.round = round
    BY <1>1, <2>1, RequestType DEF TopRequest
  <2>3. RequestsInOrder' /\ Subscriptions' = Subscriptions
    BY <1>1, <2>1, <2>2, RequestAsked
  <2>4. AnswersNotNewer' /\ InRoom'
    BY <1>1, <2>1, <2>3 DEF Ordered, AnswersNotNewer, InRoom, Engaged, Showing, CurrentAnswer,
       IsAnswer, Unbroken
  <2>5. Unbroken' = Unbroken
    BY <2>1 DEF Unbroken
  <2>6. Begun'
    BY <1>1, <2>1, BegunKept
  <2>7. News'
    BY <1>1, <2>1, <2>5, NewsKept
  <2> QED
    BY <2>3, <2>4, <2>6, <2>7 DEF Ordered
<1>11. CASE NewOrderArrival
  BY <1>1, <1>11, ArrivalHandled
<1>12. CASE UpdateObOrder \/ DelistObOrder
  BY <1>1, <1>12, UpdateHandled, DelistHandled
<1>13. CASE MergeAnswer
  <2>1. Begun' /\ AnswersNotNewer' /\ InRoom' /\ News'
    BY <1>1, <1>13, AnswerHandled DEF Ordered
  <2>2. RequestsInOrder'
    BY <1>1, <1>13 DEF MergeAnswer, Ordered, RequestsInOrder, Subscriptions, Unbroken
  <2> QED
    BY <2>1, <2>2 DEF Ordered
<1>14. CASE UNCHANGED vars
  <2>1. /\ UNCHANGED <<status, volume, connected, room, toServer, toClient, selected, round,
                       view, mixed, budget>>
        /\ Unbroken' = Unbroken
    BY <1>14 DEF vars, Unbroken
  <2>2. Begun' /\ News'
    BY <1>1, <2>1, BegunKept, NewsKept
  <2>3. Ordered'
    BY <1>1, <2>1 DEF Ordered, RequestsInOrder, AnswersNotNewer, InRoom, Subscriptions, Engaged,
       Showing, CurrentAnswer, IsAnswer
  <2> QED
    BY <2>2, <2>3
<1> QED
  BY <1>3, <1>4, <1>5, <1>6, <1>7, <1>8, <1>9, <1>10, <1>11, <1>12, <1>13, <1>14 DEF Next

-----------------------------------------------------------------------------
\* What is shown of an order: its volumes in the levels of its side.
LEMMA ShownVolumes ==
  ASSUME FeedTypeOK, NEW o
  PROVE  /\ \A n \in Shown(o) : n \in Volumes /\ Shows(view, o, n)
         /\ Shown(o) # {} => \E n : n \in Shown(o)
<1>1. SideOf(o) \in Sides /\ IsSide(view[SideOf(o)])
  BY SideOfType, ViewType DEF FeedTypeOK
<1> QED
  BY <1>1 DEF Shown, Shows, IsSide, Volumes

\* Every variable of the client and of the server keeps its type; what is
\* shown are orders with a positive volume in levels of some price.
THEOREM FeedTypeCorrect == Spec => []TypeOK
<1>1. FeedTypeOK => TypeOK
  BY ViewType DEF FeedTypeOK, TypeOK
<1> QED
  BY <1>1, TypeInit, TypeNext, PTL DEF Spec

\* However selections and broken connections interleave, the client is in the
\* room of the market it has selected, or the last subscription on its way is
\* for that market (onSubscribe of the gateway, subscribe and on('reconnect')
\* of the client library).
THEOREM RoomIsSelected == Spec => []RoomFollowsSelection
<1>1. Init => FeedTypeOK /\ RoomFollowsSelection
  BY FeedInvInit DEF FeedInv
<1>2. FeedTypeOK /\ RoomFollowsSelection /\ [Next]_vars => FeedTypeOK' /\ RoomFollowsSelection'
  BY TypeNext, RoomNext
<1> QED
  BY <1>1, <1>2, PTL DEF Spec

\* Unless a connection was broken or an answer to an earlier selection was
\* merged, an order is shown with the volume that the server lists it with,
\* or news of it is on the way: the reducer merges snapshots, levels that were
\* asked for and events of the room in the order the gateway sent them, so the
\* last word about an order is the server's.  It holds if no two orders of a side
\* of a market have one price: OrderbookService.delistOrder then removes the
\* order of which OrderDelistHandler tells the clients.
THEOREM ShownIsRight ==
  ASSUME DistinctPrices
  PROVE  Spec => []ShownIsListed
<1>1. FeedInv => ShownIsListed
  <2> SUFFICES ASSUME FeedInv, budget.drops = MaxDrops, ~mixed, NEW o \in Orders,
                      MarketOf[o] = selected, Shown(o) # {}, ~ NewsOf(o)
               PROVE  o \in Book(selected) /\ Shown(o) = {volume[o]}
    BY DEF ShownIsListed
  <2>1. FeedTypeOK /\ ViewFresh /\ Unbroken
    BY DEF FeedInv, News, Unbroken
  <2>2. ~ Later(o, 0)
    BY DEF NewsOf, Later, IsEventOf, EventTypes
  <2>3. \A n \in Shown(o) : Current(o, n)
    BY <2>1, <2>2, ShownVolumes DEF ViewFresh, Fresh
  <2>4. \E n : n \in Shown(o)
    OBVIOUS
  <2> QED
    BY <2>1, <2>3, <2>4 DEF FeedInv, BookKnown, Current, Book
<1>2. FeedInv /\ [Next]_vars => FeedInv'
  BY FeedInvNext
<1> QED
  BY <1>1, <1>2, FeedInvInit, PTL DEF Spec
=============================================================================
