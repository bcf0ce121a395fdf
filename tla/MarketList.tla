----------------------------- MODULE MarketList -----------------------------
(***************************************************************************)
(* The list of markets that the order book service serves.  getMarkets     *)
(* reads the token of each market and its symbol in the registry, one      *)
(* after the other; its result is kept by @localCache in a LocalCache,     *)
(* whose timer loads it again.  What is read of one token is taken to be    *)
(* read at once; of a token, only the symbol is in the model (TokenHelper   *)
(* keeps its decimals for the life of the process).                        *)
(*                                                                         *)
(* All markets have the same quote token; a market is named after its base *)
(* token.  The service has read its configuration (whenReady).             *)
(***************************************************************************)
EXTENDS TokenRegistry

CONSTANTS
    MarketSeq,      \* the markets of the configuration: base tokens, in order
    Loads,          \* bounds the calls of getMarkets that are in flight at once
    MaxFaults       \* bound: calls to the chain that fail

ASSUME ListAssumption ==
    /\ MarketSeq \in Seq(Tokens) \ {<<>>}
    /\ \A i, j \in DOMAIN MarketSeq : MarketSeq[i] = MarketSeq[j] => i = j
    /\ MaxFaults \in Nat
    /\ None \notin [DOMAIN MarketSeq -> Symbols \cup Tokens]

VARIABLES
    cache,      \* the list in the LocalCache of getMarkets
    timer,      \* the expiry timer of that entry is armed
    load,       \* load[l]: a call of getMarkets in flight
    faults      \* what is left of MaxFaults

listVars == <<registryVars, cache, timer, load, faults>>

\* A token without a symbol in the registry is named by its address.
Names == Symbols \cup Tokens
NameLists == [DOMAIN MarketSeq -> Names]

NoLoad == [by |-> "nobody", read |-> <<>>]
Callers == {"page", "other", "timer"}

ListTypeOK ==
    /\ RegistryTypeOK
    /\ cache = None \/ cache \in NameLists
    /\ timer \in BOOLEAN
    /\ load \in [Loads -> {NoLoad} \cup [by : Callers, read : Seq(Names)]]
    /\ faults \in 0 .. MaxFaults

ListInit ==
    /\ RegistryInit
    /\ cache = None
    /\ timer = FALSE
    /\ load = [l \in Loads |-> NoLoad]
    /\ faults = MaxFaults

\* A broken name: no address stands in for a symbol.
NameOfRegistered(t) == registry[t]

NameOf(t) == IF registry[t] = None THEN t ELSE registry[t]

-----------------------------------------------------------------------------
\* A call that the cache does not answer.  Which name it gets is of no matter.
StartLoad(l, by) ==
    /\ \E k \in Loads : load[k] = NoLoad
    /\ l = CHOOSE k \in Loads : load[k] = NoLoad
    /\ load' = [load EXCEPT ![l].by = by]

Running(l) == load[l] # NoLoad
NextToken(l) == MarketSeq[Len(load[l].read) + 1]
LastToken(l) == Len(load[l].read) + 1 = Len(MarketSeq)

\* The entry of the next market: getTokenMetaData.
ReadMarket(l) ==
    /\ Running(l) /\ ~LastToken(l)
    /\ load' = [load EXCEPT ![l].read = Append(@, NameOf(NextToken(l)))]
    /\ UNCHANGED <<registryVars, cache, timer, faults>>

\* A broken put: it does not arm the timer when there is a value already.
PutOnce(list) ==
    /\ cache' = list
    /\ timer' = (timer \/ cache = None)

\* LocalCache.put: the timer starts anew.
Put(list) ==
    /\ cache' = list
    /\ timer' = TRUE

\* The last entry: @localCache puts the list of a caller, or LocalCache that
\* of its loader; the caller gets the list.
FinishLoad(l) ==
    /\ Running(l) /\ LastToken(l)
    /\ Put(Append(load[l].read, NameOf(NextToken(l))))
    /\ load' = [load EXCEPT ![l] = NoLoad]
    /\ UNCHANGED <<registryVars, faults>>

\* getTokenMetaData fails: a caller never gets an answer, and after a failure
\* of the loader the entry is deleted.
FailLoad(l) ==
    /\ Running(l)
    /\ faults > 0
    /\ faults' = faults - 1
    /\ cache' = IF load[l].by = "timer" THEN None ELSE cache
    /\ load' = [load EXCEPT ![l] = NoLoad]
    /\ UNCHANGED <<registryVars, timer>>

\* A broken timer: it deletes the entry before the loader runs.
ExpireDeleting(l) ==
    /\ timer
    /\ timer' = FALSE
    /\ cache' = None
    /\ StartLoad(l, "timer")
    /\ UNCHANGED <<registryVars, faults>>

\* 12 hours have passed: the loader runs, and the old list is served meanwhile.
Expire(l) ==
    /\ timer
    /\ timer' = FALSE
    /\ StartLoad(l, "timer")
    /\ UNCHANGED <<registryVars, cache, faults>>

\* A query over REST or of another page.  It changes nothing if it is cached.
OtherQuery(l) ==
    /\ cache = None
    /\ StartLoad(l, "other")
    /\ UNCHANGED <<registryVars, cache, timer, faults>>

-----------------------------------------------------------------------------
\* "support loader so if a cache expires, will still return cached value until
\* loader update the cache" (LocalCache.ts:5): as long as no call fails, the
\* list is served from the moment it was first put there.
ServedWhileRefreshing ==
    [][cache # None /\ cache' = None => faults' < faults]_listVars

\* When the registry changes no more, the list that is served gets to show its
\* symbols, whatever loads of older ones are still in flight.
EventuallyFresh ==
    <>[](cache # None => cache = [i \in DOMAIN MarketSeq |-> NameOf(MarketSeq[i])])
=============================================================================
