----------------------------- MODULE MarketFeed -----------------------------
(***************************************************************************)
(* What a web client shows of the market it has selected: a server node    *)
(* with its books and its WebSocket gateway, the socket, and the client's  *)
(* order book state (the epics and the reducer of redux).                  *)
(*                                                                         *)
(* The client joins the room of the market, and the gateway sends it the   *)
(* events of that room.  Every two minutes it also asks for the best       *)
(* Limit levels of each side, and it asks for the level of a new order     *)
(* that improves on the best price.  Answers and events share the socket,  *)
(* so they arrive in the order the server issued them.                     *)
(***************************************************************************)
EXTENDS OrderAggregates, Sequences

CONSTANTS
    Markets,
    MarketOf,      \* MarketOf[o]: the market of order o
    NoMarket,
    MaxVolume,     \* bounds: the volume of an order,
    MaxMoves,      \* changes of volumes,
    MaxSelects,    \* selections of a market,
    MaxDrops,      \* broken connections,
    MaxInFlight    \* messages in flight when a snapshot is asked for

ASSUME FeedAssumption ==
    /\ MarketOf \in [Orders -> Markets]
    /\ NoMarket \notin Markets
    /\ MaxVolume \in Nat \ {0}
    /\ {MaxMoves, MaxSelects, MaxDrops, MaxInFlight} \subseteq Nat

VARIABLES
    status,     \* status[o]: how far the news of order o are: not submitted, added
                \* to the book, accepted, or found unfunded
    book,       \* the orders in the sorted arrays of the server
    volume,     \* volume[o]: remaining amount of o on the server
    connected,  \* the socket is connected
    room,       \* the market room that the socket is in
    toServer,   \* messages to the server; kept by the client if not connected
    toClient,   \* messages to the client
    alive,      \* no epic has failed
    selected,   \* state.global.selectedMarket
    round,      \* the number of the selection (auxiliary)
    view,       \* state.orderbook: view[side] as in OrderAggregates
    mixed,      \* an answer of an earlier selection was merged (auxiliary)
    budget      \* what is left of the bounds

serverVars == <<status, book, volume>>
clientVars == <<alive, selected, round, view, mixed>>
vars == <<status, book, volume, connected, room, toServer, toClient, alive, selected,
          round, view, mixed, budget>>

NoLevels == [price \in {} |-> <<>>]
EmptyView == [side \in Sides |-> NoLevels]

IsSide(levels) ==
    /\ DOMAIN levels \subseteq Nat
    /\ \A price \in DOMAIN levels :
         /\ DOMAIN levels[price] \subseteq Orders
         /\ \A o \in DOMAIN levels[price] : levels[price][o] \in 1 .. MaxVolume

TypeOK ==
    /\ status \in [Orders -> {"new", "added", "accepted", "unfunded"}]
    /\ book \subseteq Orders
    /\ volume \in [Orders -> 1 .. MaxVolume]
    /\ connected \in BOOLEAN
    /\ room \in Markets \cup {NoMarket}
    /\ alive \in BOOLEAN
    /\ selected \in Markets \cup {NoMarket}
    /\ round \in Nat
    /\ DOMAIN view = Sides
    /\ \A side \in Sides : IsSide(view[side])
    /\ mixed \in BOOLEAN

Init ==
    /\ status = [o \in Orders |-> "new"]
    /\ book = {}
    /\ volume = [o \in Orders |-> MaxVolume]
    /\ connected = TRUE
    /\ room = NoMarket
    /\ toServer = <<>>
    /\ toClient = <<>>
    /\ alive = TRUE
    /\ selected = NoMarket
    /\ round = 0
    /\ view = EmptyView
    /\ mixed = FALSE
    /\ budget = [moves |-> MaxMoves, selects |-> MaxSelects, drops |-> MaxDrops]

Book(m) == {o \in book : MarketOf[o] = m}

-----------------------------------------------------------------------------
(***************************************************************************)
(* The server: changes of the books, each with its DOWNSTREAM_EVENT, and   *)
(* the gateway.                                                            *)
(***************************************************************************)

\* WsGateway.afterInit: server.to(marketId).emit(..).
Downstream(type, o, v) ==
    IF connected /\ room = MarketOf[o]
      THEN toClient' = Append(toClient, [type |-> type, order |-> o, volume |-> v])
      ELSE UNCHANGED toClient

\* ObNewOrderHandler.handle up to insertOrder: the order is in the book.
AddOrder(o) ==
    /\ status[o] = "new"
    /\ status' = [status EXCEPT ![o] = "added"]
    /\ book' = book \cup {o}
    /\ UNCHANGED <<volume, connected, room, toServer, toClient, clientVars, budget>>

\* insertOrder returned: NEW_ORDER_ACCEPTED, and WsNewOrderHandler.
AcceptOrder(o) ==
    /\ status[o] = "added"
    /\ status' = [status EXCEPT ![o] = "accepted"]
    /\ Downstream("accepted", o, volume[o])
    /\ UNCHANGED <<book, volume, connected, room, toServer, clientVars, budget>>

\* NEW_ORDER_ACCEPTED of a peer: both handlers run without a pause.
PeerOrder(o) ==
    /\ status[o] = "new"
    /\ status' = [status EXCEPT ![o] = "accepted"]
    /\ book' = book \cup {o}
    /\ Downstream("accepted", o, volume[o])
    /\ UNCHANGED <<volume, connected, room, toServer, clientVars, budget>>

\* There may be a check of o that has yet to publish what it found: o is in the
\* book, where the task loop finds it, or was when the check began.
Checked(o) ==
    \/ status[o] = "accepted"
    \/ status[o] = "unfunded" /\ o \in book

\* A broken check: a volume of 0 does not delist the order.
UpdateBalanceToZero(o) ==
    /\ budget.moves > 0
    /\ Checked(o)
    /\ \E v \in 0 .. MaxVolume \ {volume[o]} :
         /\ volume' = [volume EXCEPT ![o] = IF o \in book THEN v ELSE @]
         /\ Downstream("balance", o, v)
    /\ budget' = [budget EXCEPT !.moves = @ - 1]
    /\ UNCHANGED <<status, book, connected, room, toServer, clientVars>>

\* ORDER_BALANCE_UPDATE: OrderUpdateHandler changes the order if it finds it,
\* WsUpdateOrderHandler tells the clients.
UpdateBalance(o) ==
    /\ budget.moves > 0
    /\ Checked(o)
    /\ \E v \in 1 .. MaxVolume \ {volume[o]} :
         /\ volume' = [volume EXCEPT ![o] = IF o \in book THEN v ELSE @]
         /\ Downstream("balance", o, v)
    /\ budget' = [budget EXCEPT !.moves = @ - 1]
    /\ UNCHANGED <<status, book, connected, room, toServer, clientVars>>

\* SortedArray.remove finds what it removes by a binary search with the price
\* comparator: any order of the same side and price.
Removable(o) ==
    {p \in OfSide(Book(MarketOf[o]), SideOf(o)) : Price[p] = Price[o]}

\* OrderbookService.delistOrder: nothing is removed if the hash is not found.
BooksWithout(o) ==
    IF o \in book THEN {book \ {p} : p \in Removable(o)} ELSE {book}

\* A broken OrderDelistHandler: it does not tell the clients.
DelistSilently(o) ==
    /\ Checked(o)
    /\ status' = [status EXCEPT ![o] = "unfunded"]
    /\ book' \in BooksWithout(o)
    /\ UNCHANGED <<volume, connected, room, toServer, toClient, clientVars, budget>>

\* ORDER_DELIST: OrderDelistHandler changes the book and tells the clients, of
\* the order it was asked to remove.
DelistOrder(o) ==
    /\ Checked(o)
    /\ status' = [status EXCEPT ![o] = "unfunded"]
    /\ book' \in BooksWithout(o)
    /\ Downstream("delist", o, volume[o])
    /\ UNCHANGED <<volume, connected, room, toServer, clientVars, budget>>

HasRequest(type) == connected /\ toServer # <<>> /\ Head(toServer).type = type

\* WsGateway.onSubscribe: leave every other room, then join.
OnSubscribe ==
    /\ HasRequest("subscribe")
    /\ room' = Head(toServer).market
    /\ toServer' = Tail(toServer)
    /\ UNCHANGED <<serverVars, connected, toClient, clientVars, budget>>

TopOrders(m) ==
    [side \in Sides |-> TopLevels(OfSide(Book(m), side), volume)]

\* WsTopOrderHandler.handle.
AnswerTopOrders ==
    /\ HasRequest("top")
    /\ LET req == Head(toServer)
       IN  toClient' = Append(toClient, [type |-> "top", round |-> req.round,
                                         view |-> TopOrders(req.market)])
    /\ toServer' = Tail(toServer)
    /\ UNCHANGED <<serverVars, connected, room, clientVars, budget>>

\* WsOrderAgQueryHandler.handle.
AnswerLevel ==
    /\ HasRequest("level")
    /\ LET req == Head(toServer)
           level == LevelByPrice(OfSide(Book(req.market), req.side), volume, req.price)
       IN  toClient' = Append(toClient,
             [type |-> "level", round |-> req.round,
              view |-> [EmptyView EXCEPT ![req.side] = [p \in {req.price} |-> level]]])
    /\ toServer' = Tail(toServer)
    /\ UNCHANGED <<serverVars, connected, room, clientVars, budget>>

-----------------------------------------------------------------------------
(***************************************************************************)
(* The socket.  socket.io keeps what the client emits while it is not      *)
(* connected, and sends it after the next connect.                         *)
(***************************************************************************)

\* The client's room goes with the old socket id, and so do the answers.
Disconnect ==
    /\ budget.drops > 0
    /\ connected
    /\ connected' = FALSE
    /\ room' = NoMarket
    /\ toServer' = <<>>
    /\ toClient' = <<>>
    /\ budget' = [budget EXCEPT !.drops = @ - 1]
    /\ UNCHANGED <<serverVars, clientVars>>

\* A broken client: it does not subscribe again.
ReconnectOnly ==
    /\ ~connected
    /\ connected' = TRUE
    /\ UNCHANGED <<serverVars, room, toServer, toClient, clientVars, budget>>

Subscription(m) == [type |-> "subscribe", market |-> m]

\* on('reconnect'): emit('subscribe', lastSub).  The gateway fails on a
\* subscription without a market.
Reconnect ==
    /\ ~connected
    /\ connected' = TRUE
    /\ toServer' = IF selected = NoMarket THEN toServer
                   ELSE Append(toServer, Subscription(selected))
    /\ UNCHANGED <<serverVars, room, toClient, clientVars, budget>>

-----------------------------------------------------------------------------
(***************************************************************************)
(* The web client.                                                         *)
(***************************************************************************)

\* MARKET_SELECTED: clearOrderbookEpic and requestOrderbookSnapshotEpic.
SelectMarket(m) ==
    /\ alive
    /\ budget.selects > 0
    /\ selected' = m
    /\ round' = round + 1
    /\ view' = EmptyView
    /\ mixed' = FALSE
    /\ toServer' = Append(toServer, Subscription(m))
    /\ budget' = [budget EXCEPT !.selects = @ - 1]
    /\ UNCHANGED <<serverVars, connected, room, toClient, alive>>

\* topOrders of the client library.
TopRequest == [type |-> "top", market |-> selected, round |-> round]

\* timer(0, 2 minutes), then fetchOrderbookSnapshotEpic.
RequestSnapshot ==
    /\ alive
    /\ selected # NoMarket
    /\ Len(toServer) + Len(toClient) < MaxInFlight
    /\ toServer' = Append(toServer, TopRequest)
    /\ UNCHANGED <<serverVars, connected, room, toClient, clientVars, budget>>

Receives(type) == alive /\ toClient # <<>> /\ Head(toClient).type = type

Event == Head(toClient)

\* The epics drop the events of other markets.
Concerned == MarketOf[Event.order] = selected

\* newOrderArrivalEpic compares with the best level of the side.
WorseThanBest(o, levels) ==
    \E price \in DOMAIN levels :
        IF o \in Asks THEN Price[o] > Tick * price ELSE Price[o] < Tick * price

\* ORDER_MERGE: the order in its level, with the amounts of the event.
WithOrder(level, o, v) ==
    [p \in DOMAIN level \cup {o} |-> IF p = o THEN v ELSE level[p]]

\* fetchOrderAgEpic and queryOrderAggregate of the client library.
LevelRequest(o) ==
    [type |-> "level", market |-> selected, round |-> round,
     side |-> SideOf(o), price |-> LevelOf(o)]

\* newOrderArrivalEpic.  Without any level on the side, the price of an
\* undefined order is read: the epics end with the TypeError.
NewOrderArrival ==
    LET o == Event.order
        levels == view[SideOf(o)]
    IN  /\ Receives("accepted")
        /\ toClient' = Tail(toClient)
        /\ IF ~Concerned
             THEN UNCHANGED <<alive, view, toServer>>
           ELSE IF LevelOf(o) \in DOMAIN levels
             THEN /\ view' = [view EXCEPT ![SideOf(o)][LevelOf(o)] =
                                WithOrder(@, o, Event.volume)]
                  /\ UNCHANGED <<alive, toServer>>
           ELSE IF DOMAIN levels = {}
             THEN alive' = FALSE /\ UNCHANGED <<view, toServer>>
           ELSE IF WorseThanBest(o, levels)
             THEN UNCHANGED <<alive, view, toServer>>
           ELSE /\ toServer' = Append(toServer, LevelRequest(o))
                /\ UNCHANGED <<alive, view>>
        /\ UNCHANGED <<serverVars, connected, room, selected, round, mixed, budget>>

\* VOLUME_UPDATE: in each level that has the order.
WithVolume(levels, o, v) ==
    [price \in DOMAIN levels |->
       [p \in DOMAIN levels[price] |-> IF p = o THEN v ELSE levels[price][p]]]

\* updateObOrderEpic.
UpdateObOrder ==
    LET o == Event.order
    IN  /\ Receives("balance")
        /\ toClient' = Tail(toClient)
        /\ view' = IF ~Concerned THEN view
                   ELSE [view EXCEPT ![SideOf(o)] = WithVolume(@, o, Event.volume)]
        /\ UNCHANGED <<serverVars, connected, room, toServer, alive, selected, round,
                       mixed, budget>>

\* ORDER_REMOVE: a level whose last order it was goes too.
RemovedFrom(levels, o) ==
    [price \in {p \in DOMAIN levels : DOMAIN levels[p] # {o}} |->
       [p \in DOMAIN levels[price] \ {o} |-> levels[price][p]]]

\* delistObOrderEpic.
DelistObOrder ==
    LET o == Event.order
    IN  /\ Receives("delist")
        /\ toClient' = Tail(toClient)
        /\ view' = IF ~Concerned THEN view
                   ELSE [view EXCEPT ![SideOf(o)] = RemovedFrom(@, o)]
        /\ UNCHANGED <<serverVars, connected, room, toServer, alive, selected, round,
                       mixed, budget>>

\* A broken reducer: of two levels of a price, the old one is kept.
MergedOld(new) == [side \in Sides |-> MergedLevels(view[side], new[side])]

\* ORDERS_MERGED of both sides, or ORDER_AG_MERGE of one.
Merged(new) == [side \in Sides |-> MergedLevels(new[side], view[side])]

\* The answer of topOrders or queryOrderAggregate: it is merged whatever
\* market is selected by now.
MergeAnswer ==
    /\ Receives("top") \/ Receives("level")
    /\ toClient' = Tail(toClient)
    /\ view' = Merged(Event.view)
    /\ mixed' = (mixed \/ Event.round # round)
    /\ UNCHANGED <<serverVars, connected, room, toServer, alive, selected, round, budget>>

-----------------------------------------------------------------------------
Next ==
    \/ \E o \in Orders : AddOrder(o) \/ AcceptOrder(o) \/ PeerOrder(o)
                         \/ UpdateBalance(o) \/ DelistOrder(o)
    \/ OnSubscribe \/ AnswerTopOrders \/ AnswerLevel
    \/ Disconnect \/ Reconnect
    \/ \E m \in Markets : SelectMarket(m)
    \/ RequestSnapshot \/ NewOrderArrival \/ UpdateObOrder \/ DelistObOrder
    \/ MergeAnswer

Spec == Init /\ [][Next]_vars

\* The server answers, messages arrive, the socket reconnects and the timer
\* fires.  Makers, takers, miners and the user owe nothing.
Fairness ==
    /\ WF_vars(OnSubscribe \/ AnswerTopOrders \/ AnswerLevel)
    /\ WF_vars(Reconnect)
    /\ WF_vars(RequestSnapshot)
    /\ WF_vars(NewOrderArrival \/ UpdateObOrder \/ DelistObOrder \/ MergeAnswer)

FairSpec == Spec /\ Fairness

-----------------------------------------------------------------------------
Subscriptions == {i \in DOMAIN toServer : toServer[i].type = "subscribe"}

Last(i) == i \in Subscriptions /\ \A j \in Subscriptions : j <= i

\* "client can only subscribe one market, exit others when subscribe a new
\* one" (ws.gateway.ts:20): however selections and broken connections
\* interleave, the client is in the room of the market it has selected, or
\* will be once the server has handled the last subscription on its way.
RoomFollowsSelection ==
    connected /\ selected # NoMarket =>
        \/ Subscriptions = {} /\ room = selected
        \/ \E i \in DOMAIN toServer : Last(i) /\ toServer[i].market = selected

Shown(o) ==
    {view[SideOf(o)][price][o] :
        price \in {p \in DOMAIN view[SideOf(o)] : o \in DOMAIN view[SideOf(o)][p]}}

\* The order, or an answer that may show it, is in a message on its way.
NewsOf(o) ==
    \E i \in DOMAIN toClient :
        \/ toClient[i].type \in {"top", "level"}
        \/ toClient[i].type \in {"accepted", "balance", "delist"} /\ toClient[i].order = o

\* While no connection was broken, and no answer to a request of an earlier
\* selection was merged, the client shows an order of the selected market
\* only if it is in the server's book, and with its volume there, or news of
\* it is on the way: snapshots and events do not overtake each other.  This is
\* so if no two orders of a side of a market have one price: the delisting of
\* one may otherwise remove the other, of which nobody is told.
ShownIsListed ==
    budget.drops = MaxDrops /\ ~mixed /\ alive =>
        \A o \in Orders :
            MarketOf[o] = selected /\ Shown(o) # {} =>
                \/ o \in Book(selected) /\ Shown(o) = {volume[o]}
                \/ NewsOf(o)

\* The levels of the server's answer are all in the view.
ShowsTopOrders ==
    \A side \in Sides :
        LET top == TopOrders(selected)[side]
        IN  /\ DOMAIN top \subseteq DOMAIN view[side]
            /\ \A price \in DOMAIN top : \A o \in DOMAIN top[price] :
                 /\ o \in DOMAIN view[side][price]
                 /\ view[side][price][o] = top[price][o]

\* Once the server's books and the user rest, the client shows the best
\* levels of the market, whatever was lost or came late: a new order worse
\* than the best level, a level asked for by a price rounded otherwise, an
\* answer for another market.
EventuallyShowsTopOrders ==
    <>[](alive /\ selected # NoMarket => ShowsTopOrders)

\* "price round down for bids, round up for asks"
\* (orderbook.service.ts:304 and 328): no level promises a better price than
\* its orders have.
RoundedAgainstTaker ==
    \A m \in Markets : \A side \in Sides :
        LET top == TopOrders(m)[side]
        IN  \A price \in DOMAIN top : \A o \in DOMAIN top[price] :
              IF side = "ask" THEN Price[o] <= Tick * price ELSE Tick * price <= Price[o]
=============================================================================
