------------------------------ MODULE FillSync ------------------------------
(***************************************************************************)
(* The trade history of the web client.  For the selected market, a scan   *)
(* asks the Ethereum node for the fills of the exchange contract, batch by *)
(* batch, backwards from the newest block to where the last finished scan  *)
(* began, or BackTrack blocks back the first time.  15 s after a scan has  *)
(* finished the next round starts.  The fills are merged into the redux    *)
(* store, which is saved in the browser at some actions and loaded again   *)
(* with the page.                                                          *)
(*                                                                         *)
(* An action is one reaction of the epics (redux-observable) to an event   *)
(* from outside; the actions it dispatches and the reducers run with it.   *)
(***************************************************************************)
EXTENDS Integers, FiniteSets

CONSTANTS
    Markets,
    Fills,       \* Fills[m]: the blocks of the chain that hold fills of m
    BackTrack,   \* siteConfig.backTrackBlocks
    Batch,       \* siteConfig.syncBatchBlocks
    FirstHead,   \* the newest block when the client is first used
    NoMarket,
    MaxHead,     \* bounds: the newest block,
    MaxSelects,  \* selections of a market,
    MaxReloads,  \* loads of the page,
    MaxFaults    \* and failing calls of getLogs

\* Blocks 0 and 1 hold no fill: the contract has to be deployed first.
ASSUME FillAssumption ==
    /\ NoMarket \notin Markets
    /\ Fills \in [Markets -> SUBSET (Nat \ {0, 1})]
    /\ BackTrack \in Nat
    /\ Batch \in Nat
    /\ FirstHead \in Nat \ {0}
    /\ {MaxHead, MaxSelects, MaxReloads, MaxFaults} \subseteq Nat

VARIABLES
    head,         \* the newest block of the chain
    alive,        \* no epic has failed since the page was loaded
    dexReady,     \* dexPromise is resolved
    selected,     \* the market selected since the page was loaded
    blockNumber,  \* state.ethereum.blockNumber, 0 while it is undefined
    waiting,      \* requests that wait for the first block number
    scans,        \* getLogs in flight, one per scan
    timers,       \* rounds that are to begin after delay(15000)
    history,      \* history[m]: state.exchange.events[m]
    saved,        \* the history in the browser's storage
    budget        \* what is left of the bounds

sessionVars == <<alive, dexReady, selected, blockNumber>>
vars == <<head, alive, dexReady, selected, blockNumber, waiting, scans, timers,
          history, saved, budget>>

\* shown: the blocks whose fills are in fillEvents.  last: lastBlock, 0 while
\* the market has no entry, and 1 when a scan merged fills but none finished.
Histories == [Markets -> [shown : SUBSET Nat, last : Nat]]

Requests == [market : Markets, last : Nat]
Scans == [market : Markets, start : Nat, end : Int, current : Int]
Timers == [market : Markets, start : Nat, block : Nat]
Budgets == [selects : Nat, reloads : Nat, faults : Nat]

TypeOK ==
    /\ head \in Nat
    /\ alive \in BOOLEAN
    /\ dexReady \in BOOLEAN
    /\ selected \in Markets \cup {NoMarket}
    /\ blockNumber \in Nat
    /\ waiting \subseteq Requests
    /\ scans \subseteq Scans
    /\ timers \subseteq Timers
    /\ history \in Histories
    /\ saved \in Histories
    /\ budget \in Budgets

Init ==
    /\ head = FirstHead
    /\ alive = TRUE
    /\ dexReady = FALSE
    /\ selected = NoMarket
    /\ blockNumber = 0
    /\ waiting = {}
    /\ scans = {}
    /\ timers = {}
    /\ history = [m \in Markets |-> [shown |-> {}, last |-> 0]]
    /\ saved = history
    /\ budget = [selects |-> MaxSelects, reloads |-> MaxReloads, faults |-> MaxFaults]

FillsIn(m, from, to) == {b \in Fills[m] : from <= b /\ b <= to}

\* What storageMiddleware writes after some actions; the write may not be
\* done when the page goes.
SaveAfter(new) == saved' = new \/ saved' = saved

\* syncEventsEpic takes up a task only of the market selected by then.
TakenUp(tasks, market) == {s \in tasks : s.market = market}

-----------------------------------------------------------------------------
\* A broken request: currentBlock is left out.
SyncTaskNoCurrent(m, last, block) ==
    [market |-> m, start |-> block,
     end |-> IF last > 0 THEN last + 1 ELSE block - BackTrack]

\* The task of requestSyncEventsEpic: from block back to what is known.
SyncTask(m, last, block) ==
    [market |-> m, start |-> block, current |-> block,
     end |-> IF last > 0 THEN last + 1 ELSE block - BackTrack]

\* A broken request: a market that has an entry is taken to be in progress.
RequestOnce(m, dex) ==
    IF ~dex \/ history[m].last > 0
      THEN UNCHANGED <<waiting, scans>>
      ELSE IF blockNumber = 0
        THEN /\ waiting' = waiting \cup {[market |-> m, last |-> history[m].last]}
             /\ UNCHANGED scans
        ELSE /\ scans' = scans \cup {SyncTask(m, history[m].last, blockNumber)}
             /\ UNCHANGED waiting

\* requestSyncEventsEpic for the selected market m: combineLatest holds the
\* latest selection until dexPromise is resolved, and without a block number
\* the request waits for one, with the state it has seen.
Request(m, dex) ==
    IF ~dex
      THEN UNCHANGED <<waiting, scans>>
      ELSE IF blockNumber = 0
        THEN /\ waiting' = waiting \cup {[market |-> m, last |-> history[m].last]}
             /\ UNCHANGED scans
        ELSE /\ scans' = scans \cup {SyncTask(m, history[m].last, blockNumber)}
             /\ UNCHANGED waiting

\* MARKET_SELECTED.
SelectMarket(m) ==
    /\ alive
    /\ budget.selects > 0
    /\ selected' = m
    /\ Request(m, dexReady)
    /\ SaveAfter(history)
    /\ budget' = [budget EXCEPT !.selects = @ - 1]
    /\ UNCHANGED <<head, alive, dexReady, blockNumber, timers, history>>

DexReady ==
    /\ alive
    /\ ~dexReady
    /\ dexReady' = TRUE
    /\ IF selected \in Markets
         THEN Request(selected, TRUE)
         ELSE UNCHANGED <<waiting, scans>>
    /\ UNCHANGED <<head, alive, selected, blockNumber, timers, history, saved, budget>>

\* BLOCKNUMBER_UPDATE.  blocknumberEpic listens once a market was selected;
\* the provider first reports the newest block, and then each one after it.
NewBlock ==
    /\ alive
    /\ dexReady
    /\ selected # NoMarket
    /\ blockNumber < head
    /\ blockNumber' = IF blockNumber = 0 THEN head ELSE blockNumber + 1
    /\ scans' = scans \cup
         TakenUp({SyncTask(w.market, w.last, blockNumber') : w \in waiting}, selected)
    /\ waiting' = {}
    /\ UNCHANGED <<head, alive, dexReady, selected, timers, history, saved, budget>>

-----------------------------------------------------------------------------
FromBlock(s) ==
    IF s.current - Batch > s.end THEN s.current - Batch ELSE s.end

\* Not the last batch of the scan.
Unfinished(s) == FromBlock(s) > s.end

Found(s) == FillsIn(s.market, FromBlock(s), s.current)

\* A broken EVENT_MERGE: the entry of a market is created with the block that
\* the scan began at.
MergedAtStart(s) ==
    IF Found(s) = {}
      THEN history
      ELSE [history EXCEPT
              ![s.market].shown = @ \cup Found(s),
              ![s.market].last = IF @ = 0 THEN s.start ELSE @]

\* The reducer of EVENT_MERGE: fills are only added, and the entry of a
\* market is created with lastBlock 1.
Merged(s) ==
    IF Found(s) = {}
      THEN history
      ELSE [history EXCEPT
              ![s.market].shown = @ \cup Found(s),
              ![s.market].last = IF @ = 0 THEN 1 ELSE @]

\* getLogs answers in the middle of a scan.  The next batch ends below this
\* one; it is not asked for if another market is selected by now.
LogsOfBatch(s) ==
    /\ alive
    /\ Unfinished(s)
    /\ history' = Merged(s)
    /\ scans' = (scans \ {s}) \cup
         TakenUp({[s EXCEPT !.current = FromBlock(s) - 1]}, selected)
    /\ UNCHANGED <<head, sessionVars, waiting, timers, saved, budget>>

\* startNewRoundSyncEpic: its state is that of the moment the scan finished.
Rearmed(s) ==
    timers' = timers \cup
        TakenUp({[market |-> s.market, start |-> s.start, block |-> blockNumber]},
                selected)

\* getLogs answers the last batch: EVENT_SYNC_FINISH.
LogsOfLastBatch(s) ==
    /\ alive
    /\ ~Unfinished(s)
    /\ history' = [Merged(s) EXCEPT ![s.market].last = s.start]
    /\ scans' = scans \ {s}
    /\ Rearmed(s)
    /\ SaveAfter(history')
    /\ UNCHANGED <<head, sessionVars, waiting, budget>>

\* No epic catches the error of getLogs: it ends them all.
LogsFail(s) ==
    /\ alive
    /\ budget.faults > 0
    /\ alive' = FALSE
    /\ waiting' = {}
    /\ scans' = {}
    /\ timers' = {}
    /\ budget' = [budget EXCEPT !.faults = @ - 1]
    /\ UNCHANGED <<head, dexReady, selected, blockNumber, history, saved>>

\* A broken round: it ends at the block number of its own start.
RoundTaskShort(t) ==
    [market |-> t.market, start |-> t.block, current |-> t.block, end |-> t.block]

\* The task of startNewRoundSyncEpic.
RoundTask(t) ==
    [market |-> t.market, start |-> t.block, current |-> t.block,
     end |-> IF t.start + 1 < t.block THEN t.start + 1 ELSE t.block]

\* The delay is over.
NextRound(t) ==
    /\ alive
    /\ timers' = timers \ {t}
    /\ scans' = scans \cup TakenUp({RoundTask(t)}, selected)
    /\ UNCHANGED <<head, sessionVars, waiting, history, saved, budget>>

-----------------------------------------------------------------------------
\* The page is loaded anew, with the history that was saved.  The selection
\* is saved too, but nothing reads it before the next MARKET_SELECTED.
Reload ==
    /\ budget.reloads > 0
    /\ alive' = TRUE
    /\ dexReady' = FALSE
    /\ selected' = NoMarket
    /\ blockNumber' = 0
    /\ waiting' = {}
    /\ scans' = {}
    /\ timers' = {}
    /\ history' = saved
    /\ budget' = [budget EXCEPT !.reloads = @ - 1]
    /\ UNCHANGED <<head, saved>>

\* An action of another part of the page is one that saves the store, such as
\* USER_ORDER_INSERT, possibly in the middle of a scan.
SaveStore ==
    /\ alive
    /\ saved # history
    /\ saved' = history
    /\ UNCHANGED <<head, sessionVars, waiting, scans, timers, history, budget>>

Mine ==
    /\ head < MaxHead
    /\ head' = head + 1
    /\ UNCHANGED <<sessionVars, waiting, scans, timers, history, saved, budget>>

Next ==
    \/ \E m \in Markets : SelectMarket(m)
    \/ DexReady \/ NewBlock
    \/ \E s \in scans : LogsOfBatch(s) \/ LogsOfLastBatch(s) \/ LogsFail(s)
    \/ \E t \in timers : NextRound(t)
    \/ Reload \/ SaveStore \/ Mine

Spec == Init /\ [][Next]_vars

\* The node answers, blocks are reported and timers fire; nothing obliges the
\* user to select a market, or a miner to mine.
Fairness ==
    /\ WF_vars(DexReady)
    /\ WF_vars(NewBlock)
    /\ WF_vars(\E s \in scans : LogsOfBatch(s) \/ LogsOfLastBatch(s))
    /\ WF_vars(\E t \in timers : NextRound(t))

FairSpec == Spec /\ Fairness

-----------------------------------------------------------------------------
\* A history is complete for the last BackTrack blocks before its lastBlock.
Complete(h) ==
    \A m \in Markets : h[m].last > 0 =>
        FillsIn(m, h[m].last - BackTrack, h[m].last) \subseteq h[m].shown

\* lastBlock never claims too much: the fills of the last BackTrack blocks
\* before it are all in the store, and in the browser's storage, however
\* scans overlap, are abandoned at a switch of the market, fail or are cut
\* off by a reload.
RecentFillsShown == Complete(history) /\ Complete(saved)

\* While the epics run, the synchronisation of the selected market goes on:
\* a request waits for a block, a scan is under way or a round is due.
SyncGoesOn ==
    alive /\ dexReady /\ selected # NoMarket =>
        \E x \in waiting \cup scans \cup timers : x.market = selected

\* If no call fails, the trades of the market the user stays with are shown,
\* up to the newest block.
EventuallySynced ==
    <>[](alive /\ selected # NoMarket =>
           /\ history[selected].last = head
           /\ FillsIn(selected, head - BackTrack, head) \subseteq history[selected].shown)
=============================================================================
