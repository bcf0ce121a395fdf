--------------------------- MODULE FillSync_proofs ---------------------------
(***************************************************************************)
(* Theorems about FillSync, for all markets, chains, batch sizes, depths   *)
(* and bounds.                                                             *)
(***************************************************************************)
EXTENDS FillSync, TLAPS

USE DEF TakenUp

\* The request of requestSyncEventsEpic adds one task or one waiting request.
LEMMA RequestType ==
  ASSUME TypeOK, NEW m \in Markets, NEW dex \in BOOLEAN, Request(m, dex)
  PROVE  waiting' \subseteq Requests /\ scans' \subseteq Scans
<1>1. history[m].last \in Nat
  BY DEF TypeOK, Histories
<1>2. SyncTask(m, history[m].last, blockNumber) \in Scans
  BY <1>1, FillAssumption DEF SyncTask, Scans, TypeOK, FillAssumption
<1>3. [market |-> m, last |-> history[m].last] \in Requests
  BY <1>1 DEF Requests
<1> QED
  BY <1>2, <1>3 DEF Request, TypeOK

\* EVENT_MERGE keeps the history well typed, and only adds fills.
LEMMA MergedType ==
  ASSUME TypeOK, NEW s \in scans
  PROVE  /\ Merged(s) \in Histories
         /\ \A m \in Markets : history[m].shown \subseteq Merged(s)[m].shown
         /\ Found(s) \subseteq Merged(s)[s.market].shown
         /\ \A m \in Markets : Merged(s)[m].last = history[m].last
                               \/ (history[m].last = 0 /\ Merged(s)[m].last = 1)
<1>1. s \in Scans /\ s.market \in Markets /\ history \in Histories
  BY DEF TypeOK, Scans
<1>2. Found(s) \subseteq Nat
  BY <1>1, FillAssumption DEF Found, FillsIn, FillAssumption
<1>3. Merged(s) \in Histories
  BY <1>1, <1>2 DEF Merged, Histories
<1>4. history[s.market] \in [shown : SUBSET Nat, last : Nat]
  BY <1>1 DEF Histories
<1>5. CASE Found(s) = {}
  <2>1. Merged(s) = history
    BY <1>5 DEF Merged
  <2> QED
    BY <1>3, <1>5, <2>1
<1>6. CASE Found(s) # {}
  <2>1. \A m \in Markets : m # s.market => Merged(s)[m] = history[m]
    BY <1>1, <1>6 DEF Merged, Histories
  <2>2. Merged(s)[s.market] =
          [shown |-> history[s.market].shown \cup Found(s),
           last |-> IF history[s.market].last = 0 THEN 1 ELSE history[s.market].last]
    BY <1>1, <1>4, <1>6 DEF Merged, Histories
  <2>3. /\ Merged(s)[s.market].shown = history[s.market].shown \cup Found(s)
        /\ Merged(s)[s.market].last = IF history[s.market].last = 0
                                       THEN 1 ELSE history[s.market].last
    BY <2>2
  <2>4. \A m \in Markets : history[m].shown \subseteq Merged(s)[m].shown
    BY <2>1, <2>3
  <2>5. \A m \in Markets : Merged(s)[m].last = history[m].last
                               \/ (history[m].last = 0 /\ Merged(s)[m].last = 1)
    BY <2>1, <2>3
  <2> QED
    BY <1>3, <2>3, <2>4, <2>5
<1> QED
  BY <1>5, <1>6

\* What is left of a bound stays a natural number.
LEMMA SyncBudgetType ==
  ASSUME budget \in Budgets
  PROVE  /\ budget.selects > 0 => [budget EXCEPT !.selects = @ - 1] \in Budgets
         /\ budget.reloads > 0 => [budget EXCEPT !.reloads = @ - 1] \in Budgets
         /\ budget.faults > 0 => [budget EXCEPT !.faults = @ - 1] \in Budgets
  BY DEF Budgets

\* A batch begins at an integer.
LEMMA FromBlockType ==
  ASSUME NEW s \in Scans
  PROVE  FromBlock(s) \in Int
  BY FillAssumption DEF FromBlock, Scans, FillAssumption

\* The initial state is well typed.
LEMMA TypeInit == Init => TypeOK
<1> SUFFICES ASSUME Init PROVE TypeOK
  OBVIOUS
<1>1. MaxSelects \in Nat /\ MaxReloads \in Nat /\ MaxFaults \in Nat
  BY FillAssumption DEF FillAssumption
<1>2. budget \in Budgets
  BY <1>1 DEF Init, Budgets
<1>3. history \in Histories /\ saved \in Histories
  BY DEF Init, Histories
<1> QED
  BY <1>2, <1>3, FillAssumption DEF Init, TypeOK, FillAssumption

\* TypeOK is inductive by itself.
LEMMA TypeNext == TypeOK /\ [Next]_vars => TypeOK'
<1> SUFFICES ASSUME TypeOK, [Next]_vars PROVE TypeOK'
  OBVIOUS
<1>1. ASSUME NEW m \in Markets, SelectMarket(m) PROVE TypeOK'
  <2>1. dexReady \in BOOLEAN /\ Request(m, dexReady)
    BY <1>1 DEF SelectMarket, TypeOK
  <2>2. waiting' \subseteq Requests /\ scans' \subseteq Scans
    BY <2>1, RequestType
  <2>3. budget' \in Budgets
    BY <1>1, SyncBudgetType DEF SelectMarket, TypeOK
  <2> QED
    BY <1>1, <2>2, <2>3 DEF SelectMarket, SaveAfter, TypeOK
<1>2. CASE DexReady
  <2>1. CASE selected \in Markets
    <3>1. waiting' \subseteq Requests /\ scans' \subseteq Scans
      BY <1>2, <2>1, RequestType DEF DexReady
    <3> QED
      BY <1>2, <3>1 DEF DexReady, TypeOK
  <2> QED
    BY <1>2, <2>1 DEF DexReady, TypeOK
<1>3. CASE NewBlock
  <2>1. blockNumber' \in Nat
    BY <1>3 DEF NewBlock, TypeOK
  <2>2. \A w \in waiting : SyncTask(w.market, w.last, blockNumber') \in Scans
    BY <2>1, FillAssumption DEF SyncTask, Scans, Requests, TypeOK, FillAssumption
  <2>3. scans' \subseteq Scans
    BY <1>3, <2>2 DEF NewBlock, TypeOK
  <2> QED
    BY <1>3, <2>1, <2>3 DEF NewBlock, TypeOK
<1>4. ASSUME NEW s \in scans, LogsOfBatch(s) PROVE TypeOK'
  <2>1. s \in Scans /\ FromBlock(s) - 1 \in Int
    BY FromBlockType DEF TypeOK
  <2>2. [s EXCEPT !.current = FromBlock(s) - 1] \in Scans
    BY <2>1 DEF Scans
  <2>3. scans' \subseteq Scans
    BY <1>4, <2>2 DEF LogsOfBatch, TypeOK
  <2> QED
    BY <1>4, <2>3, MergedType DEF LogsOfBatch, TypeOK, sessionVars
<1>5. ASSUME NEW s \in scans, LogsOfLastBatch(s) PROVE TypeOK'
  <2>1. s \in Scans /\ s.market \in Markets /\ s.start \in Nat
    BY DEF TypeOK, Scans
  <2>2. history' \in Histories
    BY <1>5, <2>1, MergedType DEF LogsOfLastBatch, Histories
  <2>3. timers' \subseteq Timers
    BY <1>5, <2>1 DEF LogsOfLastBatch, Rearmed, Timers, TypeOK
  <2> QED
    BY <1>5, <2>2, <2>3 DEF LogsOfLastBatch, SaveAfter, TypeOK, sessionVars
<1>6. ASSUME NEW s \in scans, LogsFail(s) PROVE TypeOK'
  BY <1>6, SyncBudgetType DEF LogsFail, TypeOK
<1>7. ASSUME NEW t \in timers, NextRound(t) PROVE TypeOK'
  <2>1. RoundTask(t) \in Scans
    BY DEF RoundTask, TypeOK, Timers, Scans
  <2> QED
    BY <1>7, <2>1 DEF NextRound, TypeOK, sessionVars
<1>8. CASE Reload
  BY <1>8, SyncBudgetType DEF Reload, TypeOK
<1>9. CASE SaveStore
  BY <1>9 DEF SaveStore, TypeOK, sessionVars
<1>10. CASE Mine
  BY <1>10 DEF Mine, TypeOK, sessionVars
<1>11. CASE UNCHANGED vars
  BY <1>11 DEF vars, TypeOK
<1> QED
  BY <1>1, <1>2, <1>3, <1>4, <1>5, <1>6, <1>7, <1>8, <1>9, <1>10, <1>11 DEF Next

\* TypeOK: every variable stays in its type, at every bound.
THEOREM SyncTypeCorrect == Spec => []TypeOK
  BY TypeInit, TypeNext, PTL DEF Spec

-----------------------------------------------------------------------------
(***************************************************************************)
(* The synchronisation of the selected market goes on.                     *)
(***************************************************************************)

\* A request of a market waits, or is a scan.
LEMMA Requested ==
  ASSUME NEW m, Request(m, TRUE)
  PROVE  \E x \in waiting' \cup scans' : x.market = m
<1>1. CASE blockNumber = 0
  <2> DEFINE x == [market |-> m, last |-> history[m].last]
  <2>1. x \in waiting' /\ x.market = m
    BY <1>1 DEF Request
  <2> QED
    BY <2>1
<1>2. CASE blockNumber # 0
  <2> DEFINE x == SyncTask(m, history[m].last, blockNumber)
  <2>1. x \in scans'
    BY <1>2 DEF Request
  <2>2. x.market = m
    BY DEF SyncTask
  <2> QED
    BY <2>1, <2>2
<1> QED
  BY <1>1, <1>2

\* Each step that ends a request, a scan or a delay of the selected market
\* begins the next one.
LEMMA GoesOnNext == TypeOK /\ SyncGoesOn /\ [Next]_vars => SyncGoesOn'
<1> SUFFICES ASSUME TypeOK, SyncGoesOn, [Next]_vars,
                    alive', dexReady', selected' # NoMarket
             PROVE  \E x \in waiting' \cup scans' \cup timers' : x.market = selected'
  BY DEF SyncGoesOn
<1>1. ASSUME NEW m \in Markets, SelectMarket(m)
      PROVE  \E x \in waiting' \cup scans' : x.market = m
  <2>1. Request(m, TRUE)
    BY <1>1 DEF SelectMarket, TypeOK
  <2> QED
    BY <2>1, Requested
<1>2. CASE DexReady
  <2>1. selected \in Markets /\ Request(selected, TRUE) /\ selected' = selected
    BY <1>2 DEF DexReady, TypeOK
  <2>2. \E x \in waiting' \cup scans' : x.market = selected
    BY <2>1, Requested
  <2> QED
    BY <2>1, <2>2
<1>3. CASE NewBlock
  <2>1. PICK x \in waiting \cup scans \cup timers : x.market = selected
    BY <1>3 DEF NewBlock, SyncGoesOn
  <2>2. CASE x \in waiting
    <3>1. SyncTask(x.market, x.last, blockNumber') \in scans'
      BY <1>3, <2>1, <2>2 DEF NewBlock, SyncTask
    <3> QED
      BY <1>3, <2>1, <3>1 DEF NewBlock, SyncTask
  <2> QED
    BY <1>3, <2>1, <2>2 DEF NewBlock
<1>4. ASSUME NEW s \in scans, LogsOfBatch(s)
      PROVE  \E x \in waiting' \cup scans' \cup timers' : x.market = selected'
  <2>1. PICK x \in waiting \cup scans \cup timers : x.market = selected
    BY <1>4 DEF LogsOfBatch, SyncGoesOn, sessionVars
  <2>2. CASE x = s
    <3>1. s \in Scans
      BY DEF TypeOK
    <3>2. [s EXCEPT !.current = FromBlock(s) - 1].market = s.market
      BY <3>1 DEF Scans
    <3>3. [s EXCEPT !.current = FromBlock(s) - 1] \in scans'
      BY <1>4, <2>1, <2>2, <3>2 DEF LogsOfBatch
    <3> QED
      BY <1>4, <2>1, <2>2, <3>2, <3>3 DEF LogsOfBatch, sessionVars
  <2> QED
    BY <1>4, <2>1, <2>2 DEF LogsOfBatch, sessionVars
<1>5. ASSUME NEW s \in scans, LogsOfLastBatch(s)
      PROVE  \E x \in waiting' \cup scans' \cup timers' : x.market = selected'
  <2>1. PICK x \in waiting \cup scans \cup timers : x.market = selected
    BY <1>5 DEF LogsOfLastBatch, SyncGoesOn, sessionVars
  <2>2. CASE x = s
    <3> DEFINE t == [market |-> s.market, start |-> s.start, block |-> blockNumber]
    <3>1. t.market = s.market
      OBVIOUS
    <3>2. t \in timers'
      BY <1>5, <2>1, <2>2 DEF LogsOfLastBatch, Rearmed
    <3> QED
      BY <1>5, <2>1, <2>2, <3>1, <3>2 DEF LogsOfLastBatch, sessionVars
  <2> QED
    BY <1>5, <2>1, <2>2 DEF LogsOfLastBatch, Rearmed, sessionVars
<1>6. ASSUME NEW t \in timers, NextRound(t)
      PROVE  \E x \in waiting' \cup scans' \cup timers' : x.market = selected'
  <2>1. PICK x \in waiting \cup scans \cup timers : x.market = selected
    BY <1>6 DEF NextRound, SyncGoesOn, sessionVars
  <2>2. CASE x = t
    <3>1. RoundTask(t).market = t.market
      BY DEF RoundTask
    <3>2. RoundTask(t) \in scans'
      BY <1>6, <2>1, <2>2, <3>1 DEF NextRound
    <3> QED
      BY <1>6, <2>1, <2>2, <3>1, <3>2 DEF NextRound, sessionVars
  <2> QED
    BY <1>6, <2>1, <2>2 DEF NextRound, sessionVars
<1>7. CASE SaveStore \/ Mine \/ UNCHANGED vars
  BY <1>7 DEF SaveStore, Mine, vars, sessionVars, SyncGoesOn
<1>8. ~Reload /\ \A s \in scans : ~LogsFail(s)
  BY DEF Reload, LogsFail
<1>9. ASSUME NEW m \in Markets, SelectMarket(m) PROVE selected' = m
  BY <1>9 DEF SelectMarket
<1> QED
  BY <1>1, <1>2, <1>3, <1>4, <1>5, <1>6, <1>7, <1>8, <1>9 DEF Next

\* While no epic has failed, the selected market is being synchronised, at
\* whatever moments the user switches markets.
THEOREM SyncNeverStops == Spec => []SyncGoesOn
<1>1. Init => SyncGoesOn
  BY DEF Init, SyncGoesOn
<1> QED
  BY <1>1, GoesOnNext, SyncTypeCorrect, PTL DEF Spec

-----------------------------------------------------------------------------
(***************************************************************************)
(* lastBlock never claims too much.  A scan has, at any time, the fills    *)
(* above its cursor, and those below its end up to BackTrack from its      *)
(* start; so all of them when it finishes.  A round carries that on.       *)
(***************************************************************************)
Shown(m, from, to) == FillsIn(m, from, to) \subseteq history[m].shown

ScansKnow ==
    \A s \in scans :
        /\ s.start <= blockNumber
        /\ Shown(s.market, s.start - BackTrack, s.end - 1)
        /\ Shown(s.market, s.current + 1, s.start)

TimersKnow ==
    \A t \in timers :
        /\ t.start <= t.block
        /\ t.block <= blockNumber
        /\ Shown(t.market, t.start - BackTrack, t.start)

WaitingKnow ==
    \A w \in waiting : blockNumber = 0 /\ w.last = history[w.market].last

\* No scan without a block number, and no lastBlock that is yet to come.
BlocksInOrder ==
    /\ blockNumber = 0 => scans = {} /\ timers = {}
    /\ blockNumber <= head
    /\ head > 0
    /\ \A m \in Markets :
         /\ history[m].last <= head
         /\ saved[m].last <= head
         /\ blockNumber > 0 => history[m].last <= blockNumber

SyncInv ==
    /\ TypeOK
    /\ Complete(history)
    /\ Complete(saved)
    /\ ScansKnow
    /\ TimersKnow
    /\ WaitingKnow
    /\ BlocksInOrder

\* What is shown stays shown while the reducers run.
LEMMA ShownStays ==
  ASSUME NEW m \in Markets, NEW from \in Int, NEW to \in Int, Shown(m, from, to),
         history[m].shown \subseteq history'[m].shown
  PROVE  Shown(m, from, to)'
  BY DEF Shown

\* A task of requestSyncEventsEpic starts from what is known: BackTrack before
\* its start there is nothing below its end that is not shown.
LEMMA TaskKnows ==
  ASSUME SyncInv, NEW m \in Markets, NEW block \in Nat \ {0},
         history[m].last <= block,
         NEW s, s = SyncTask(m, history[m].last, block)
  PROVE  /\ s.market = m /\ s.start = block /\ s.end \in Int /\ s.current = block
         /\ Shown(m, s.start - BackTrack, s.end - 1)
         /\ Shown(m, s.current + 1, s.start)
<1> DEFINE last == history[m].last
<1>1. /\ s.market = m /\ s.start = block /\ s.current = block
      /\ s.end = IF last > 0 THEN last + 1 ELSE block - BackTrack
  BY DEF SyncTask
<1>2. last \in Nat /\ BackTrack \in Nat /\ Fills[m] \subseteq Nat
  BY FillAssumption DEF SyncInv, TypeOK, Histories, FillAssumption
<1>3. Shown(m, s.current + 1, s.start)
  BY <1>1, <1>2 DEF Shown, FillsIn
<1>4. CASE last > 0
  <2>1. Shown(m, last - BackTrack, last)
    BY <1>4 DEF SyncInv, Complete, Shown
  <2>2. Shown(m, block - BackTrack, last)
    BY <2>1, <1>2 DEF Shown, FillsIn
  <2>3. s.end - 1 = last
    BY <1>1, <1>2, <1>4
  <2> QED
    BY <1>1, <1>2, <1>3, <2>2, <2>3
<1>5. CASE ~(last > 0)
  <2>1. Shown(m, block - BackTrack, block - BackTrack - 1)
    BY <1>2 DEF Shown, FillsIn
  <2> QED
    BY <1>1, <1>2, <1>3, <1>5, <2>1
<1> QED
  BY <1>4, <1>5

\* At first nothing is known, and nothing claimed.
LEMMA SyncInvInit == Init => SyncInv
<1> SUFFICES ASSUME Init PROVE SyncInv
  OBVIOUS
<1>1. TypeOK
  BY TypeInit
<1>2. \A m \in Markets : history[m].last = 0 /\ saved[m].last = 0
  BY DEF Init
<1>3. FirstHead \in Nat \ {0}
  BY FillAssumption DEF FillAssumption
<1> QED
  BY <1>1, <1>2, <1>3 DEF Init, SyncInv, Complete, ScansKnow, TimersKnow, WaitingKnow,
     BlocksInOrder

\* Steps that leave the history alone, and at most save it.
LEMMA Unmerged ==
  ASSUME SyncInv, UNCHANGED history, SaveAfter(history)
  PROVE  /\ Complete(history)'
         /\ Complete(saved)'
         /\ \A m \in Markets : saved'[m].last \in {history[m].last, saved[m].last}
  BY DEF SyncInv, Complete, SaveAfter

\* The request of SelectMarket and DexReady keeps what scans and waiting
\* requests know.
LEMMA RequestKnows ==
  ASSUME SyncInv, NEW m \in Markets, NEW dex, Request(m, dex),
         UNCHANGED <<history, blockNumber>>
  PROVE  /\ ScansKnow'
         /\ WaitingKnow'
         /\ blockNumber = 0 => scans' = scans
<1>1. CASE ~dex
  BY <1>1 DEF Request, SyncInv, ScansKnow, WaitingKnow, Shown
<1>2. CASE dex /\ blockNumber = 0
  <2>1. /\ waiting' = waiting \cup {[market |-> m, last |-> history[m].last]}
        /\ scans' = scans
    BY <1>2 DEF Request
  <2> QED
    BY <1>2, <2>1 DEF SyncInv, ScansKnow, WaitingKnow, Shown
<1>3. CASE dex /\ blockNumber # 0
  <2> DEFINE new == SyncTask(m, history[m].last, blockNumber)
  <2>1. scans' = scans \cup {new} /\ waiting' = waiting
    BY <1>3 DEF Request
  <2>2. blockNumber \in Nat \ {0} /\ history[m].last <= blockNumber
    BY <1>3 DEF SyncInv, TypeOK, BlocksInOrder
  <2>3. /\ new.start = blockNumber
        /\ Shown(new.market, new.start - BackTrack, new.end - 1)
        /\ Shown(new.market, new.current + 1, new.start)
    BY <2>2, TaskKnows
  <2> HIDE DEF new
  <2>4. new.start <= blockNumber
    BY <2>2, <2>3
  <2> QED
    BY <1>3, <2>1, <2>3, <2>4 DEF SyncInv, ScansKnow, WaitingKnow, Shown
<1> QED
  BY <1>1, <1>2, <1>3

\* A merged batch: nothing that was known is forgotten, and a new entry with
\* lastBlock 1 claims nothing.
LEMMA MergedKnows ==
  ASSUME SyncInv, NEW s \in scans, NEW h, h = Merged(s)
  PROVE  /\ Complete(h)
         /\ \A m \in Markets : h[m].last <= head /\ h[m].last <= blockNumber
         /\ blockNumber > 0 /\ waiting = {}
<1>1. /\ h \in Histories
      /\ \A m \in Markets : history[m].shown \subseteq h[m].shown
      /\ \A m \in Markets : h[m].last = history[m].last
                             \/ (history[m].last = 0 /\ h[m].last = 1)
  BY MergedType DEF SyncInv
<1>2. blockNumber \in Nat /\ blockNumber > 0 /\ waiting = {}
  BY DEF SyncInv, TypeOK, BlocksInOrder, WaitingKnow
<1>3. \A m \in Markets : FillsIn(m, 1 - BackTrack, 1) = {}
  BY FillAssumption DEF FillAssumption, FillsIn
<1>4. Complete(h)
  BY <1>1, <1>3 DEF SyncInv, Complete
<1>5. head \in Nat /\ history \in Histories
  BY DEF SyncInv, TypeOK
<1>6. ASSUME NEW m \in Markets PROVE h[m].last <= head /\ h[m].last <= blockNumber
  BY <1>1, <1>2, <1>5 DEF SyncInv, BlocksInOrder
<1> QED
  BY <1>2, <1>4, <1>6

\* Each step keeps every part of SyncInv.
LEMMA SyncInvNext == SyncInv /\ [Next]_vars => SyncInv'
<1> SUFFICES ASSUME SyncInv, [Next]_vars PROVE SyncInv'
  OBVIOUS
<1>0. TypeOK /\ TypeOK'
  BY TypeNext DEF SyncInv
<1> USE <1>0
<1>1. ASSUME NEW m \in Markets, SelectMarket(m) PROVE SyncInv'
  <2>1. /\ Request(m, dexReady)
        /\ SaveAfter(history)
        /\ UNCHANGED <<head, blockNumber, timers, history>>
    BY <1>1 DEF SelectMarket
  <2>2. ScansKnow' /\ WaitingKnow' /\ (blockNumber = 0 => scans' = scans)
    BY <2>1, RequestKnows
  <2>3. /\ Complete(history)' /\ Complete(saved)'
        /\ \A n \in Markets : saved'[n].last \in {history[n].last, saved[n].last}
    BY <2>1, Unmerged
  <2>4. TimersKnow'
    BY <2>1 DEF SyncInv, TimersKnow, Shown
  <2>5. BlocksInOrder'
    BY <2>1, <2>2, <2>3 DEF SyncInv, BlocksInOrder
  <2> QED
    BY <2>2, <2>3, <2>4, <2>5 DEF SyncInv
<1>2. CASE DexReady
  <2>1. UNCHANGED <<head, blockNumber, timers, history, saved>>
    BY <1>2 DEF DexReady
  <2>2. ScansKnow' /\ WaitingKnow' /\ (blockNumber = 0 => scans' = scans)
    <3>1. CASE selected \in Markets
      BY <1>2, <2>1, <3>1, RequestKnows DEF DexReady
    <3>2. CASE selected \notin Markets
      BY <1>2, <2>1, <3>2 DEF DexReady, SyncInv, ScansKnow, WaitingKnow, Shown
    <3> QED
      BY <3>1, <3>2
  <2>3. Complete(history)' /\ Complete(saved)'
    BY <2>1 DEF SyncInv, Complete
  <2>4. TimersKnow'
    BY <2>1 DEF SyncInv, TimersKnow, Shown
  <2>5. BlocksInOrder'
    BY <2>1, <2>2 DEF SyncInv, BlocksInOrder
  <2> QED
    BY <2>2, <2>3, <2>4, <2>5 DEF SyncInv
<1>3. CASE NewBlock
  <2>1. /\ UNCHANGED <<head, timers, history, saved>>
        /\ waiting' = {}
    BY <1>3 DEF NewBlock
  <2>2. /\ blockNumber' \in Nat \ {0} /\ blockNumber' <= head
        /\ blockNumber <= blockNumber'
        /\ blockNumber = 0 => blockNumber' = head
    BY <1>3 DEF NewBlock, SyncInv, BlocksInOrder, TypeOK
  <2>3. \A m \in Markets : history[m].last <= blockNumber'
    BY <2>2 DEF SyncInv, BlocksInOrder, TypeOK, Histories
  <2>4. ASSUME NEW s \in scans', s \notin scans
        PROVE  /\ s.start <= blockNumber'
               /\ Shown(s.market, s.start - BackTrack, s.end - 1)
               /\ Shown(s.market, s.current + 1, s.start)
    <3>1. PICK w \in waiting : s = SyncTask(w.market, w.last, blockNumber')
      BY <1>3, <2>4 DEF NewBlock
    <3>2. w.market \in Markets /\ w.last = history[w.market].last
      BY <3>1 DEF SyncInv, WaitingKnow, TypeOK, Requests
    <3>3. /\ s.market = w.market /\ s.start = blockNumber'
          /\ Shown(w.market, s.start - BackTrack, s.end - 1)
          /\ Shown(w.market, s.current + 1, s.start)
      BY <2>2, <2>3, <3>1, <3>2, TaskKnows
    <3> QED
      BY <2>2, <3>3
  <2>5. ScansKnow'
    <3>1. ASSUME NEW s \in scans PROVE s.start <= blockNumber'
      BY <2>2 DEF SyncInv, ScansKnow, TypeOK, Scans
    <3> QED
      BY <2>1, <2>4, <3>1 DEF SyncInv, ScansKnow, Shown
  <2>6. TimersKnow'
    <3>1. ASSUME NEW t \in timers PROVE t.block <= blockNumber'
      BY <2>2 DEF SyncInv, TimersKnow, TypeOK, Timers
    <3> QED
      BY <2>1, <3>1 DEF SyncInv, TimersKnow, Shown
  <2>7. Complete(history)' /\ Complete(saved)' /\ WaitingKnow' /\ BlocksInOrder'
    BY <2>1, <2>2, <2>3 DEF SyncInv, Complete, WaitingKnow, BlocksInOrder
  <2> QED
    BY <2>5, <2>6, <2>7 DEF SyncInv
<1>4. ASSUME NEW s \in scans, LogsOfBatch(s) PROVE SyncInv'
  <2>1. /\ history' = Merged(s)
        /\ UNCHANGED <<head, blockNumber, waiting, timers, saved>>
    BY <1>4 DEF LogsOfBatch, sessionVars
  <2>2. /\ Complete(history')
        /\ \A m \in Markets : history'[m].last <= head /\ history'[m].last <= blockNumber
        /\ blockNumber > 0 /\ waiting = {}
    BY <2>1, MergedKnows
  <2>3. /\ \A m \in Markets : history[m].shown \subseteq history'[m].shown
        /\ Found(s) \subseteq history'[s.market].shown
    BY <2>1, MergedType
  <2>4. s \in Scans /\ FromBlock(s) \in Int
    BY FromBlockType DEF TypeOK
  <2>5. ASSUME NEW x \in scans
        PROVE  /\ x.start <= blockNumber
               /\ Shown(x.market, x.start - BackTrack, x.end - 1)'
               /\ Shown(x.market, x.current + 1, x.start)'
    <3>1. x.market \in Markets /\ x.start \in Int /\ x.end \in Int /\ x.current \in Int
      BY DEF TypeOK, Scans
    <3> QED
      BY <2>3, <3>1, FillAssumption DEF SyncInv, ScansKnow, Shown
  <2>6. ASSUME NEW x \in scans', x \notin scans
        PROVE  /\ x.start <= blockNumber
               /\ Shown(x.market, x.start - BackTrack, x.end - 1)'
               /\ Shown(x.market, x.current + 1, x.start)'
    <3>1. x = [s EXCEPT !.current = FromBlock(s) - 1]
      BY <1>4, <2>6 DEF LogsOfBatch
    <3>2. /\ x.market = s.market /\ x.start = s.start /\ x.end = s.end
          /\ x.current + 1 = FromBlock(s)
      BY <2>4, <3>1 DEF Scans
    <3>3. Shown(s.market, FromBlock(s), s.start)'
      <4>1. /\ FillsIn(s.market, FromBlock(s), s.current) \subseteq history'[s.market].shown
            /\ FillsIn(s.market, s.current + 1, s.start) \subseteq history'[s.market].shown
        BY <2>3, <2>5 DEF Found, Shown
      <4>2. Fills[s.market] \subseteq Nat /\ s.current \in Int
        BY <2>4, FillAssumption DEF Scans, FillAssumption
      <4> QED
        BY <2>4, <4>1, <4>2 DEF Shown, FillsIn
    <3> QED
      BY <2>5, <3>2, <3>3
  <2>7. ScansKnow'
    BY <2>1, <2>5, <2>6 DEF ScansKnow
  <2>8. TimersKnow'
    <3>1. ASSUME NEW t \in timers PROVE t.market \in Markets
      BY DEF TypeOK, Timers
    <3> QED
      BY <2>1, <2>3, <3>1 DEF SyncInv, TimersKnow, Shown
  <2>9. Complete(saved)' /\ WaitingKnow' /\ BlocksInOrder'
    BY <2>1, <2>2 DEF SyncInv, Complete, WaitingKnow, BlocksInOrder
  <2> QED
    BY <2>2, <2>7, <2>8, <2>9 DEF SyncInv
<1>5. ASSUME NEW s \in scans, LogsOfLastBatch(s) PROVE SyncInv'
  <2> DEFINE h == Merged(s)
  <2>1. /\ history' = [h EXCEPT ![s.market].last = s.start]
        /\ UNCHANGED <<head, blockNumber, waiting>>
        /\ scans' = scans \ {s}
        /\ saved' = history' \/ saved' = saved
        /\ ~(FromBlock(s) > s.end)
    BY <1>5 DEF LogsOfLastBatch, sessionVars, SaveAfter, Unfinished
  <2>2. /\ Complete(h)
        /\ \A m \in Markets : h[m].last <= head /\ h[m].last <= blockNumber
        /\ blockNumber > 0 /\ waiting = {}
    BY MergedKnows
  <2>3. /\ h \in Histories
        /\ \A m \in Markets : history[m].shown \subseteq h[m].shown
        /\ Found(s) \subseteq h[s.market].shown
    BY MergedType
  <2>4. /\ s \in Scans /\ s.market \in Markets /\ s.start \in Nat
        /\ s.current \in Int /\ s.end \in Int /\ FromBlock(s) \in Int
    BY FromBlockType DEF TypeOK, Scans
  <2> HIDE DEF h
  <2>5. /\ history'[s.market].shown = h[s.market].shown
        /\ history'[s.market].last = s.start
        /\ \A m \in Markets : m # s.market => history'[m] = h[m]
    BY <2>1, <2>3, <2>4 DEF Histories
  <2>6. \A m \in Markets : history[m].shown \subseteq history'[m].shown
    BY <2>3, <2>5
  <2>7. Shown(s.market, s.start - BackTrack, s.start)'
    <3>1. /\ FillsIn(s.market, s.start - BackTrack, s.end - 1) \subseteq history'[s.market].shown
          /\ FillsIn(s.market, s.current + 1, s.start) \subseteq history'[s.market].shown
      BY <2>4, <2>6 DEF SyncInv, ScansKnow, Shown
    <3>2. FillsIn(s.market, FromBlock(s), s.current) \subseteq history'[s.market].shown
      BY <2>3, <2>5 DEF Found
    <3>3. Fills[s.market] \subseteq Nat /\ BackTrack \in Nat
      BY <2>4, FillAssumption DEF FillAssumption
    <3> QED
      BY <2>1, <2>4, <3>1, <3>2, <3>3 DEF Shown, FillsIn
  <2>8. Complete(history')
    BY <2>2, <2>5, <2>7 DEF Complete, Shown
  <2>9. s.start <= blockNumber /\ blockNumber <= head /\ blockNumber \in Nat /\ head \in Nat
    BY DEF SyncInv, ScansKnow, BlocksInOrder, TypeOK
  <2>10. BlocksInOrder'
    <3>1. \A m \in Markets : history'[m].last <= head /\ history'[m].last <= blockNumber
      BY <2>2, <2>4, <2>5, <2>9
    <3> QED
      BY <2>1, <2>2, <3>1 DEF SyncInv, BlocksInOrder
  <2>11. ScansKnow'
    <3>1. ASSUME NEW x \in scans PROVE x.market \in Markets
      BY DEF TypeOK, Scans
    <3> QED
      BY <2>1, <2>6, <3>1 DEF SyncInv, ScansKnow, Shown
  <2>12. TimersKnow'
    <3>1. ASSUME NEW t \in timers PROVE t.market \in Markets
      BY DEF TypeOK, Timers
    <3>2. ASSUME NEW t \in timers', t \notin timers
          PROVE  t.market = s.market /\ t.start = s.start /\ t.block = blockNumber
      BY <1>5, <3>2 DEF LogsOfLastBatch, Rearmed
    <3>3. ASSUME NEW t \in timers', t \notin timers
          PROVE  /\ t.start <= t.block /\ t.block <= blockNumber
                 /\ Shown(t.market, t.start - BackTrack, t.start)'
      BY <2>7, <2>9, <3>2, <3>3
    <3> QED
      BY <2>1, <2>6, <3>1, <3>3 DEF SyncInv, TimersKnow, Shown
  <2>13. Complete(saved)' /\ WaitingKnow'
    BY <2>1, <2>2, <2>8 DEF SyncInv, Complete, WaitingKnow
  <2> QED
    BY <2>8, <2>10, <2>11, <2>12, <2>13 DEF SyncInv
<1>6. ASSUME NEW s \in scans, LogsFail(s) PROVE SyncInv'
  BY <1>6 DEF LogsFail, SyncInv, Complete, ScansKnow, TimersKnow, WaitingKnow, BlocksInOrder
<1>7. ASSUME NEW t \in timers, NextRound(t) PROVE SyncInv'
  <2> DEFINE new == RoundTask(t)
  <2>1. /\ UNCHANGED <<head, blockNumber, waiting, history, saved>>
        /\ timers' = timers \ {t}
        /\ scans' \subseteq scans \cup {new}
    BY <1>7 DEF NextRound, sessionVars
  <2>2. /\ t.market \in Markets /\ t.start \in Nat /\ t.block \in Nat
        /\ t.start <= t.block /\ t.block <= blockNumber
        /\ Shown(t.market, t.start - BackTrack, t.start)
    BY DEF SyncInv, TimersKnow, TypeOK, Timers
  <2>3. /\ new.market = t.market /\ new.start = t.block /\ new.current = t.block
        /\ new.end = IF t.start + 1 < t.block THEN t.start + 1 ELSE t.block
    BY DEF RoundTask
  <2>4. Fills[t.market] \subseteq Nat /\ BackTrack \in Nat
    BY <2>2, FillAssumption DEF FillAssumption
  <2>5. /\ Shown(t.market, t.block - BackTrack, new.end - 1)
        /\ Shown(t.market, t.block + 1, t.block)
    BY <2>2, <2>3, <2>4 DEF Shown, FillsIn
  <2> HIDE DEF new
  <2>6. ScansKnow'
    BY <2>1, <2>2, <2>3, <2>5 DEF SyncInv, ScansKnow, Shown
  <2>7. TimersKnow' /\ WaitingKnow' /\ Complete(history)' /\ Complete(saved)'
    BY <2>1 DEF SyncInv, TimersKnow, WaitingKnow, Complete, Shown
  <2>8. BlocksInOrder'
    BY <2>1 DEF SyncInv, BlocksInOrder
  <2> QED
    BY <2>6, <2>7, <2>8 DEF SyncInv
<1>8. CASE Reload
  <2>1. /\ blockNumber' = 0 /\ waiting' = {} /\ scans' = {} /\ timers' = {}
        /\ history' = saved
        /\ UNCHANGED <<head, saved>>
    BY <1>8 DEF Reload
  <2>2. Complete(history)' /\ Complete(saved)'
    BY <2>1 DEF SyncInv, Complete
  <2>3. ScansKnow' /\ TimersKnow' /\ WaitingKnow'
    BY <2>1 DEF ScansKnow, TimersKnow, WaitingKnow
  <2>4. BlocksInOrder'
    BY <2>1 DEF SyncInv, BlocksInOrder, TypeOK
  <2> QED
    BY <2>2, <2>3, <2>4 DEF SyncInv
<1>9. CASE SaveStore
  <2>1. /\ SaveAfter(history)
        /\ UNCHANGED <<head, blockNumber, waiting, scans, timers, history>>
    BY <1>9 DEF SaveStore, SaveAfter, sessionVars
  <2>2. /\ Complete(history)' /\ Complete(saved)'
        /\ \A n \in Markets : saved'[n].last \in {history[n].last, saved[n].last}
    BY <2>1, Unmerged
  <2> QED
    BY <2>1, <2>2 DEF SyncInv, ScansKnow, TimersKnow, WaitingKnow, BlocksInOrder, Shown
<1>10. CASE Mine
  <2>1. /\ head' = head + 1 /\ head \in Nat
        /\ UNCHANGED <<blockNumber, waiting, scans, timers, history, saved>>
    BY <1>10 DEF Mine, sessionVars, TypeOK
  <2>2. \A m \in Markets : history[m].last \in Nat /\ saved[m].last \in Nat
    BY DEF TypeOK, Histories
  <2>3. BlocksInOrder'
    BY <2>1, <2>2 DEF SyncInv, BlocksInOrder, TypeOK
  <2> QED
    BY <2>1, <2>3 DEF SyncInv, ScansKnow, TimersKnow, WaitingKnow, Complete, Shown
<1>11. CASE UNCHANGED vars
  BY <1>11 DEF vars, SyncInv, ScansKnow, TimersKnow, WaitingKnow, BlocksInOrder,
     Complete, Shown
<1> QED
  BY <1>1, <1>2, <1>3, <1>4, <1>5, <1>6, <1>7, <1>8, <1>9, <1>10, <1>11 DEF Next

\* The fills of the last BackTrack blocks before lastBlock are in the store
\* and in the browser's storage, for every chain, batch size and number of
\* overlapping scans.
THEOREM RecentFillsAreShown == Spec => []RecentFillsShown
<1>1. SyncInv => RecentFillsShown
  BY DEF SyncInv, RecentFillsShown
<1> QED
  BY <1>1, SyncInvInit, SyncInvNext, PTL DEF Spec
=============================================================================
