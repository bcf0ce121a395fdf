----------------------------- MODULE PageStart -----------------------------
(***************************************************************************)
(* How a page of the web application comes to show a market: it asks the   *)
(* service for the list of markets over the WebSocket, follows the URL,    *)
(* and asks for the configuration of the market it selects.  The state of  *)
(* an earlier visit is loaded from IndexedDB meanwhile.                    *)
(*                                                                         *)
(* A dispatched action runs through reducers and epics without             *)
(* interruption: it is one action here, with all that the epics dispatch.  *)
(* The model begins when the page is mounted: APP_INIT is dispatched, and  *)
(* the plugin's access is known (checkPluginAccessEpic).                   *)
(***************************************************************************)
EXTENDS MarketList

CONSTANTS
    Urls,           \* names of markets in the trade locations that are visited
    EarlierVisit,   \* list and market of an earlier visit, or None
    MaxVisits,      \* bound: locations that are visited
    MaxLosses       \* bound: broken connections

ASSUME PageAssumption ==
    /\ Urls \subseteq Names \cup {"trade"}
    /\ EarlierVisit = None \/ EarlierVisit \in
         [markets : NameLists, selected : {MarketSeq[i] : i \in DOMAIN MarketSeq}]
    /\ {MaxVisits, MaxLosses} \subseteq Nat

VARIABLES
    url,        \* name of a market in the last trade location, or "trade", "other"
    listAsked,  \* progress of the request for the list, and its answer
    markets,    \* global.markets, None as long as it is empty
    selected,   \* global.selectedMarket
    configs,    \* markets with an entry in orderbook.configs
    asked,      \* asked[m]: requests for the configuration of m in flight
    answered,   \* answered[m]: answers in flight
    cleared,    \* history: a selection found its configuration, and CLEAR took it
    inited,     \* global.exchangeInited
    storage,    \* the load of the stored state: pending, in time or late
    budget      \* what is left of the bounds

pageVars == <<url, listAsked, markets, selected, configs, asked, answered, cleared, inited,
              storage, budget>>
vars == <<listVars, pageVars>>

Markets == {MarketSeq[i] : i \in DOMAIN MarketSeq}

TypeOK ==
    /\ ListTypeOK
    /\ url \in Names \cup {"trade", "other"}
    /\ listAsked \in [st : {"sent", "loading", "told", "done", "lost"},
                     list : NameLists \cup {None}]
    /\ markets \in NameLists \cup {None}
    /\ selected \in Markets \cup {None}
    /\ configs \subseteq Markets
    /\ asked \in [Markets -> Nat] /\ answered \in [Markets -> Nat]
    /\ cleared \in BOOLEAN
    /\ inited \in BOOLEAN
    /\ storage \in {"pending", "early", "late"}
    /\ budget \in [visits : 0 .. MaxVisits, losses : 0 .. MaxLosses]

\* OrderbookWsClient.markets, after APP_INIT.
RequestMarkets == [st |-> "sent", list |-> None]

Init ==
    /\ ListInit
    /\ url \in Urls \cup {"other"}
    /\ listAsked = RequestMarkets
    /\ markets = None
    /\ selected = None
    /\ configs = {}
    /\ asked = [m \in Markets |-> 0]
    /\ answered = asked
    /\ cleared = FALSE
    /\ inited = FALSE
    /\ storage = "pending"
    /\ budget = [visits |-> MaxVisits, losses |-> MaxLosses]

-----------------------------------------------------------------------------
(***************************************************************************)
(* The service: WsMarketQueryHandler.  A request whose load fails is never *)
(* answered.                                                               *)
(***************************************************************************)
ServeCached ==
    /\ listAsked.st = "sent"
    /\ cache # None
    /\ listAsked' = [st |-> "told", list |-> cache]
    /\ UNCHANGED <<listVars, url, markets, selected, configs, asked, answered,
                   cleared, inited, storage, budget>>

ServeLoading(l) ==
    /\ listAsked.st = "sent"
    /\ cache = None
    /\ StartLoad(l, "page")
    /\ listAsked' = [listAsked EXCEPT !.st = "loading"]
    /\ UNCHANGED <<registryVars, cache, timer, faults, url, markets, selected,
                   configs, asked, answered, cleared, inited, storage, budget>>

\* A broken load: it fills the cache and leaves its caller waiting.
FinishUnanswered(l) ==
    /\ FinishLoad(l)
    /\ UNCHANGED pageVars

Finish(l) ==
    /\ FinishLoad(l)
    /\ listAsked' = IF load[l].by = "page" /\ listAsked.st = "loading"
                      THEN [st |-> "told", list |-> cache']
                      ELSE listAsked
    /\ UNCHANGED <<url, markets, selected, configs, asked, answered, cleared, inited,
                   storage, budget>>

Fail(l) ==
    /\ FailLoad(l)
    /\ listAsked' = IF load[l].by = "page" /\ listAsked.st = "loading"
                      THEN [listAsked EXCEPT !.st = "lost"]
                      ELSE listAsked
    /\ UNCHANGED <<url, markets, selected, configs, asked, answered, cleared, inited,
                   storage, budget>>

-----------------------------------------------------------------------------
(***************************************************************************)
(* The page.                                                               *)
(***************************************************************************)

\* MARKET_SELECTED, in the reducer, and then CLEAR, by clearOrderbookEpic.
MarketSelected(m) == selected' = m /\ configs' = {}

\* detectInitializationEpic: the plugin's access is known already.
DetectInitialization == inited' = TRUE

\* loadMarketConfigEpic asks for a configuration.
RequestConfig(m) == asked' = [asked EXCEPT ![m] = @ + 1]

\* A broken selection: the market that is selected already is not asked for.
SelectUnlessSelected(m) ==
    /\ MarketSelected(m)
    /\ IF m \in configs \cup {selected} THEN UNCHANGED asked ELSE RequestConfig(m)
    /\ cleared' = (m \in configs)
    /\ DetectInitialization

\* requestMarketConfigEpic sees the configurations from before CLEAR.
Select(m) ==
    /\ MarketSelected(m)
    /\ IF m \in configs THEN UNCHANGED asked ELSE RequestConfig(m)
    /\ cleared' = (m \in configs)
    /\ DetectInitialization

\* markets.find(market => market.marketName === name)
Named(list, name) == {i \in DOMAIN list : list[i] = name}
First(S) == CHOOSE i \in S : \A j \in S : i <= j

\* A broken epic: it selects the first market without changing the URL.
FollowKeepingUrl(list, name) ==
    /\ url' = name
    /\ IF Named(list, name) # {}
         THEN Select(MarketSeq[First(Named(list, name))])
         ELSE Select(MarketSeq[1])

\* tradeUrlChangeEpic: the market of that name; without one it pushes the name
\* of the first market of the list, and then selects that one.
Follow(list, name) ==
    IF Named(list, name) # {}
      THEN /\ Select(MarketSeq[First(Named(list, name))])
           /\ url' = name
      ELSE /\ Select(MarketSeq[1])
           /\ url' = list[1]

\* The answer arrives: OB_MARKETS_INIT.  Without a trade location the selection
\* waits for one.
MarketsInit ==
    /\ listAsked.st = "told"
    /\ listAsked' = [listAsked EXCEPT !.st = "done"]
    /\ markets' = listAsked.list
    /\ IF url = "other"
         THEN UNCHANGED <<url, selected, configs, asked, cleared, inited>>
         ELSE Follow(listAsked.list, url)
    /\ UNCHANGED <<listVars, answered, storage, budget>>

\* LOCATION_CHANGE to #/trade/name: typed, or by the back button.
\* It is followed once OB_MARKETS_INIT was seen.
Visit(name) ==
    /\ budget.visits > 0
    /\ budget' = [budget EXCEPT !.visits = @ - 1]
    /\ IF listAsked.st = "done"
         THEN Follow(markets, name)
         ELSE url' = name /\ UNCHANGED <<selected, configs, asked, cleared, inited>>
    /\ UNCHANGED <<listVars, listAsked, markets, answered, storage>>

\* The menu of the page lists its markets; the one that is selected does nothing.
ChooseMarket(i) ==
    /\ inited /\ markets # None
    /\ MarketSeq[i] # selected
    /\ Visit(markets[i])

\* WsMarketConfigHandler.
ServeConfig(m) ==
    /\ asked[m] > 0
    /\ asked' = [asked EXCEPT ![m] = @ - 1]
    /\ answered' = [answered EXCEPT ![m] = @ + 1]
    /\ UNCHANGED <<listVars, url, listAsked, markets, selected, configs, cleared, inited,
                   storage, budget>>

\* The page has the answer: CONFIG_LOADED.
ConfigLoaded(m) ==
    /\ answered[m] > 0
    /\ answered' = [answered EXCEPT ![m] = @ - 1]
    /\ configs' = configs \cup {m}
    /\ UNCHANGED <<listVars, url, listAsked, markets, selected, asked, cleared, inited,
                   storage, budget>>

\* The connection breaks while requests or answers are on their way: they are
\* lost, and the client asks again for none of them.
LoseConnection ==
    /\ budget.losses > 0
    /\ listAsked.st \notin {"done", "lost"} \/ \E m \in Markets : asked[m] + answered[m] > 0
    /\ budget' = [budget EXCEPT !.losses = @ - 1]
    /\ listAsked' = IF listAsked.st = "done" THEN listAsked
                                             ELSE [listAsked EXCEPT !.st = "lost"]
    /\ asked' = [m \in Markets |-> 0]
    /\ answered' = asked'
    /\ UNCHANGED <<listVars, url, markets, selected, configs, cleared, inited, storage>>

\* The state of the earlier visit is read from IndexedDB: it is merged into the
\* store whatever the page has received by then.
LoadStored ==
    /\ storage = "pending"
    /\ storage' = IF listAsked.st = "done" THEN "late" ELSE "early"
    /\ IF EarlierVisit = None
         THEN UNCHANGED <<markets, selected>>
         ELSE /\ markets' = EarlierVisit.markets
              /\ selected' = EarlierVisit.selected
    /\ UNCHANGED <<listVars, url, listAsked, configs, asked, answered, cleared, inited,
                   budget>>

-----------------------------------------------------------------------------
Serving(l) ==
    \/ Finish(l)
    \/ ReadMarket(l) /\ UNCHANGED pageVars

Next ==
    \/ \E e \in Edits :
         Editing(e) /\ UNCHANGED <<cache, timer, load, faults, pageVars>>
    \/ \E l \in Loads : (Expire(l) \/ OtherQuery(l)) /\ UNCHANGED pageVars
    \/ \E l \in Loads : Serving(l) \/ Fail(l) \/ ServeLoading(l)
    \/ \E name \in Urls : Visit(name)
    \/ \E i \in DOMAIN MarketSeq : ChooseMarket(i)
    \/ \E m \in Markets : ServeConfig(m) \/ ConfigLoaded(m)
    \/ ServeCached \/ MarketsInit \/ LoseConnection \/ LoadStored

Spec == Init /\ [][Next]_vars

\* Loads go on, the timer fires, and messages arrive; IndexedDB answers.
Fairness ==
    /\ \A l \in Loads : WF_vars(Serving(l))
    /\ WF_vars(\E l \in Loads : Expire(l) /\ UNCHANGED pageVars)
    /\ WF_vars(ServeCached \/ \E l \in Loads : ServeLoading(l))
    /\ WF_vars(MarketsInit)
    /\ WF_vars(LoadStored)
    /\ \A m \in Markets : WF_vars(ServeConfig(m)) /\ WF_vars(ConfigLoaded(m))

FairSpec == Spec /\ Fairness

-----------------------------------------------------------------------------
\* The market that is shown is the one that the URL names, in the list of the
\* page: no other market of the list gets selected by an old name or an early
\* location (unless the stored state was loaded after the list).
SelectedByUrl ==
    listAsked.st = "done" /\ storage # "late" /\ url # "other" =>
        /\ url \in Names
        /\ selected # None
        /\ \E i \in DOMAIN markets : MarketSeq[i] = selected /\ markets[i] = url

\* The configuration of the selected market, which the order form needs, is
\* there or on its way, unless a broken connection took it, or the selection
\* found it loaded already: then CLEAR takes it and nothing asks for it again.
ConfigOnItsWay ==
    listAsked.st = "done" /\ storage # "late" /\ url # "other" =>
        \/ selected \in configs
        \/ asked[selected] + answered[selected] > 0
        \/ budget.losses < MaxLosses
        \/ cleared

\* A page with a trade location comes to show a market, unless the connection
\* breaks or a load of the list fails, which leaves the request unanswered.
EventuallyStarted ==
    <>(inited \/ url = "other" \/ budget.losses < MaxLosses \/ faults < MaxFaults)
=============================================================================
