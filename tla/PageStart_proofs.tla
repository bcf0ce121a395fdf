-------------------------- MODULE PageStart_proofs --------------------------
(***************************************************************************)
(* The page of PageStart shows the market of its URL, and gets its         *)
(* configuration, whatever order the list, the location and the answers    *)
(* come in, for any markets, edits, loads and bounds.                      *)
(***************************************************************************)
EXTENDS PageStart, TokenRegistry_proofs, WellFoundedInduction

\* A load stops at the last market.
LoadsInList == \A l \in Loads : Running(l) => Len(load[l].read) < Len(MarketSeq)

\* An answer is a list, and the list of the page is one of those.
ToldList ==
    /\ listAsked.st = "told" => listAsked.list \in NameLists
    /\ listAsked.st = "done" => markets \in NameLists

PageInv ==
    /\ TypeOK /\ RegistryInv
    /\ LoadsInList /\ ToldList
    /\ SelectedByUrl /\ ConfigOnItsWay

-----------------------------------------------------------------------------
LEMMA MarketFacts ==
  /\ DOMAIN MarketSeq = 1 .. Len(MarketSeq)
  /\ Len(MarketSeq) \in Nat \ {0}
  /\ \A i \in DOMAIN MarketSeq : MarketSeq[i] \in Tokens /\ MarketSeq[i] \in Markets
  /\ Markets \subseteq Tokens
  /\ None \notin Markets
<1>1. MarketSeq \in Seq(Tokens) /\ MarketSeq # <<>> /\ None \notin Tokens
  BY ListAssumption, RegistryAssumption DEF ListAssumption, RegistryAssumption
<1> QED
  BY <1>1 DEF Markets

LEMMA NameType ==
  ASSUME TypeOK, NEW t \in Tokens
  PROVE  NameOf(t) \in Names
BY DEF TypeOK, ListTypeOK, RegistryTypeOK, NameOf, Names

\* The list of a load that has read its last market.
LEMMA LoadedList ==
  ASSUME TypeOK, LoadsInList, NEW l \in Loads, Running(l), LastToken(l)
  PROVE  Append(load[l].read, NameOf(NextToken(l))) \in NameLists
<1>1. load[l].read \in Seq(Names)
  BY DEF TypeOK, ListTypeOK, Running
<1>2. /\ Len(load[l].read) + 1 = Len(MarketSeq)
      /\ Len(MarketSeq) \in DOMAIN MarketSeq
  <2>1. Len(load[l].read) + 1 = Len(MarketSeq)
    BY DEF LastToken
  <2>2. Len(MarketSeq) \in 1 .. Len(MarketSeq)
    BY MarketFacts
  <2> QED
    BY <2>1, <2>2, MarketFacts
<1>3. NextToken(l) \in Tokens
  BY <1>2, MarketFacts DEF NextToken
<1> DEFINE read == load[l].read
           name == NameOf(NextToken(l))
<1>4. name \in Names
  BY <1>3, NameType
<1> HIDE DEF read, name
<1>5. Append(read, name) \in Seq(Names) /\ Len(Append(read, name)) = Len(MarketSeq)
  BY <1>1, <1>2, <1>4 DEF read
<1>6. \A s \in Seq(Names) : s \in [1 .. Len(s) -> Names]
  OBVIOUS
<1>7. Append(read, name) \in [1 .. Len(MarketSeq) -> Names]
  BY <1>5, <1>6, Zenon
<1> QED
  BY <1>7, MarketFacts DEF NameLists, read, name

LEMMA FirstIn ==
  ASSUME NEW S, S \subseteq Nat, S # {}
  PROVE  First(S) \in S
<1> DEFINE R == {ss \in Nat \X Nat : ss[1] < ss[2]}
<1>1. IsWellFoundedOn(R, Nat)
  BY NatLessThanWellFounded, Zenon DEF OpToRel
<1> HIDE DEF R
<1>2. PICK i \in S : \A j \in S : ~ (<<j, i>> \in R)
  BY <1>1, WFMin, Zenon
<1>3. \A j \in S : i <= j
  <2> SUFFICES ASSUME NEW j \in S, j < i PROVE FALSE
    OBVIOUS
  <2>1. <<j, i>> \in Nat \X Nat /\ <<j, i>>[1] = j /\ <<j, i>>[2] = i
    OBVIOUS
  <2>2. <<j, i>> \in R
    BY <2>1 DEF R
  <2> QED
    BY <1>2, <2>2
<1> QED
  BY <1>3, Zenon DEF First

-----------------------------------------------------------------------------
(***************************************************************************)
(* The parts of a step.                                                    *)
(***************************************************************************)
LEMMA SelectStep ==
  ASSUME TypeOK, NEW m \in Markets, Select(m)
  PROVE  /\ selected' = m /\ configs' = {} /\ inited' = TRUE
         /\ asked' \in [Markets -> Nat] /\ cleared' \in BOOLEAN
         /\ (cleared' \/ asked'[m] > 0)
<1>1. asked \in [Markets -> Nat]
  BY DEF TypeOK
<1>2. selected' = m /\ configs' = {} /\ inited' = TRUE /\ cleared' = (m \in configs)
  BY DEF Select, MarketSelected, DetectInitialization
<1>3. CASE m \in configs
  BY <1>1, <1>2, <1>3 DEF Select
<1>4. CASE m \notin configs
  <2>1. asked' = [asked EXCEPT ![m] = asked[m] + 1]
    BY <1>4 DEF Select, RequestConfig
  <2> QED
    BY <1>1, <1>2, <2>1
<1> QED
  BY <1>3, <1>4

LEMMA FollowStep ==
  ASSUME TypeOK, NEW list \in NameLists, NEW name, Follow(list, name)
  PROVE  /\ selected' \in Markets /\ configs' = {} /\ inited' = TRUE
         /\ asked' \in [Markets -> Nat] /\ cleared' \in BOOLEAN
         /\ (cleared' \/ asked'[selected'] > 0)
         /\ url' \in Names
         /\ \E i \in DOMAIN list : MarketSeq[i] = selected' /\ list[i] = url'
<1>1. DOMAIN list = DOMAIN MarketSeq /\ \A i \in DOMAIN list : list[i] \in Names
  BY DEF NameLists
<1>2. CASE Named(list, name) # {}
  <2>4. Named(list, name) \subseteq Nat
    BY <1>1, MarketFacts DEF Named
  <2>1. First(Named(list, name)) \in Named(list, name)
    BY <1>2, <2>4, FirstIn
  <2>2. PICK i \in DOMAIN list : list[i] = name /\ i = First(Named(list, name))
    BY <2>1 DEF Named
  <2>3. Select(MarketSeq[i]) /\ url' = name
    BY <1>2, <2>2 DEF Follow
  <2>5. i \in DOMAIN MarketSeq /\ MarketSeq[i] \in Markets
    BY <1>1, <2>2, MarketFacts
  <2>6. /\ selected' = MarketSeq[i] /\ configs' = {} /\ inited' = TRUE
        /\ asked' \in [Markets -> Nat] /\ cleared' \in BOOLEAN
        /\ (cleared' \/ asked'[MarketSeq[i]] > 0)
    BY <2>3, <2>5, SelectStep
  <2> QED
    BY <1>1, <2>2, <2>3, <2>5, <2>6
<1>3. CASE Named(list, name) = {}
  <2>1. Select(MarketSeq[1]) /\ url' = list[1]
    BY <1>3 DEF Follow
  <2>2. 1 \in DOMAIN MarketSeq /\ MarketSeq[1] \in Markets
    BY MarketFacts
  <2>3. /\ selected' = MarketSeq[1] /\ configs' = {} /\ inited' = TRUE
        /\ asked' \in [Markets -> Nat] /\ cleared' \in BOOLEAN
        /\ (cleared' \/ asked'[MarketSeq[1]] > 0)
    BY <2>1, <2>2, SelectStep
  <2> QED
    BY <1>1, <2>1, <2>2, <2>3
<1> QED
  BY <1>2, <1>3

\* What the page shows after it has followed a location.
LEMMA FollowedShows ==
  ASSUME TypeOK, NEW list \in NameLists, NEW name, Follow(list, name),
         markets' = list, answered' = answered
  PROVE  SelectedByUrl' /\ ConfigOnItsWay'
<1>1. /\ selected' \in Markets /\ url' \in Names
      /\ asked' \in [Markets -> Nat] /\ (cleared' \/ asked'[selected'] > 0)
      /\ \E i \in DOMAIN list : MarketSeq[i] = selected' /\ list[i] = url'
  BY FollowStep
<1>2. answered'[selected'] \in Nat
  <2>1. answered \in [Markets -> Nat]
    BY DEF TypeOK
  <2> QED
    BY <1>1, <2>1
<1>3. SelectedByUrl'
  BY <1>1, MarketFacts DEF SelectedByUrl
<1>4. asked'[selected'] \in Nat
  <2>1. asked' \in [Markets -> Nat] /\ selected' \in Markets
    BY FollowStep
  <2> QED
    BY <2>1
<1>5. ConfigOnItsWay'
  BY <1>1, <1>2, <1>4 DEF ConfigOnItsWay
<1> QED
  BY <1>3, <1>5

LEMMA StartLoadType ==
  ASSUME TypeOK, LoadsInList, NEW l \in Loads, NEW by \in Callers, StartLoad(l, by)
  PROVE  /\ load' \in [Loads -> {NoLoad} \cup [by : Callers, read : Seq(Names)]]
         /\ LoadsInList'
<1>1. load[l] = NoLoad
  BY Zenon DEF StartLoad
<1>2. load' = [load EXCEPT ![l] = [by |-> by, read |-> <<>>]]
  <2>1. load' = [load EXCEPT ![l] = [load[l] EXCEPT !.by = by]]
    BY DEF StartLoad
  <2>2. [load[l] EXCEPT !.by = by] = [by |-> by, read |-> <<>>]
    BY <1>1 DEF NoLoad
  <2> QED
    BY <2>1, <2>2
<1>3. [by |-> by, read |-> <<>>] \in [by : Callers, read : Seq(Names)]
  OBVIOUS
<1>4. load' \in [Loads -> {NoLoad} \cup [by : Callers, read : Seq(Names)]]
  BY <1>2, <1>3 DEF TypeOK, ListTypeOK
<1>5. Len(<<>>) < Len(MarketSeq)
  BY MarketFacts
<1> QED
  BY <1>2, <1>4, <1>5 DEF LoadsInList, Running, TypeOK, ListTypeOK

\* A load that has ended leaves its place.
LEMMA EndLoadType ==
  ASSUME TypeOK, LoadsInList, NEW l \in Loads, load' = [load EXCEPT ![l] = NoLoad]
  PROVE  /\ load' \in [Loads -> {NoLoad} \cup [by : Callers, read : Seq(Names)]]
         /\ LoadsInList'
BY DEF TypeOK, ListTypeOK, LoadsInList, Running

LEMMA RegistrySame ==
  ASSUME RegistryInv, UNCHANGED registryVars PROVE RegistryInv'
BY DEF RegistryInv, registryVars, RegistryTypeOK, ListedOnce, ListedKnown, KnownListed,
   SentForeseen, Foreseen, AssertionsHold, Known, SymbolFree, Position, RevertedWasOvertaken

LEMMA ShownSame ==
  ASSUME PageInv, UNCHANGED pageVars PROVE ToldList' /\ SelectedByUrl' /\ ConfigOnItsWay'
BY DEF PageInv, pageVars, ToldList, SelectedByUrl, ConfigOnItsWay

-----------------------------------------------------------------------------
LEMMA PageInvInit == Init => PageInv
<1> SUFFICES ASSUME Init PROVE PageInv
  OBVIOUS
<1>1. RegistryInv
  BY RegistryInvInit DEF Init, ListInit
<1>2. TypeOK
  <2>1. ListTypeOK
    <3>1. MaxFaults \in 0 .. MaxFaults
      BY ListAssumption DEF ListAssumption
    <3>2. load \in [Loads -> {NoLoad} \cup [by : Callers, read : Seq(Names)]]
      BY DEF Init, ListInit
    <3> QED
      BY <1>1, <3>1, <3>2 DEF Init, ListInit, ListTypeOK, RegistryInv
  <2>2. url \in Names \cup {"trade", "other"}
    BY PageAssumption DEF PageAssumption, Init
  <2>3. budget \in [visits : 0 .. MaxVisits, losses : 0 .. MaxLosses]
    BY PageAssumption DEF PageAssumption, Init
  <2> QED
    BY <2>1, <2>2, <2>3 DEF Init, TypeOK, RequestMarkets
<1>3. LoadsInList
  BY DEF Init, ListInit, LoadsInList, Running
<1>4. ToldList /\ SelectedByUrl /\ ConfigOnItsWay
  BY DEF Init, RequestMarkets, ToldList, SelectedByUrl, ConfigOnItsWay
<1> QED
  BY <1>1, <1>2, <1>3, <1>4 DEF PageInv
-----------------------------------------------------------------------------
\* What a step of the list leaves to show.
LEMMA ListSteps ==
  ASSUME PageInv, UNCHANGED pageVars, RegistryInv', ListTypeOK', LoadsInList'
  PROVE  PageInv'
<1>1. TypeOK'
  BY DEF PageInv, TypeOK, pageVars
<1> QED
  BY <1>1, ShownSame DEF PageInv

\* A request for the list that changes its state without ending.
LEMMA AskedSteps ==
  ASSUME PageInv, RegistryInv', ListTypeOK', LoadsInList',
         UNCHANGED <<url, markets, selected, configs, asked, answered, cleared, inited,
                     storage, budget>>,
         listAsked' \in [st : {"sent", "loading", "told", "done", "lost"},
                         list : NameLists \cup {None}],
         listAsked'.st = "told" => listAsked'.list \in NameLists,
         listAsked'.st = "done" => listAsked.st = "done"
  PROVE  PageInv'
<1>1. TypeOK'
  BY DEF PageInv, TypeOK
<1>2. ToldList' /\ SelectedByUrl' /\ ConfigOnItsWay'
  BY DEF PageInv, ToldList, SelectedByUrl, ConfigOnItsWay
<1> QED
  BY <1>1, <1>2 DEF PageInv

LEMMA VisitStep ==
  ASSUME PageInv, NEW name \in Names \cup {"trade", "other"}, Visit(name)
  PROVE  PageInv'
<1> USE DEF PageInv
<1>1. RegistryInv' /\ ListTypeOK' /\ LoadsInList'
  <2>1. RegistryInv'
    BY RegistrySame DEF Visit, listVars
  <2> QED
    BY <2>1 DEF Visit, listVars, TypeOK, ListTypeOK, LoadsInList, Running, RegistryInv
<1>2. budget' \in [visits : 0 .. MaxVisits, losses : 0 .. MaxLosses]
  <2>1. budget \in [visits : 0 .. MaxVisits, losses : 0 .. MaxLosses] /\ budget.visits > 0
    BY DEF TypeOK, Visit
  <2>2. MaxVisits \in Nat
    BY PageAssumption DEF PageAssumption
  <2>3. budget' = [budget EXCEPT !.visits = budget.visits - 1]
    BY DEF Visit
  <2>4. budget.visits - 1 \in 0 .. MaxVisits
    BY <2>1, <2>2
  <2> QED
    BY <2>1, <2>3, <2>4
<1>3. CASE listAsked.st = "done"
  <2>1. Follow(markets, name) /\ markets \in NameLists
    BY <1>3 DEF Visit, ToldList
  <2>2. markets' = markets /\ answered' = answered /\ listAsked' = listAsked
    BY DEF Visit
  <2>3. SelectedByUrl' /\ ConfigOnItsWay'
    BY <2>1, <2>2, FollowedShows
  <2>4. /\ selected' \in Markets /\ configs' = {} /\ inited' = TRUE
        /\ asked' \in [Markets -> Nat] /\ cleared' \in BOOLEAN /\ url' \in Names
    BY <2>1, FollowStep
  <2>5. TypeOK'
    BY <1>1, <1>2, <2>4 DEF TypeOK, Visit
  <2>6. ToldList'
    BY <2>2 DEF ToldList
  <2> QED
    BY <1>1, <2>3, <2>5, <2>6
<1>4. CASE listAsked.st # "done"
  <2>1. url' = name /\ UNCHANGED <<selected, configs, asked, cleared, inited, listAsked,
                                   markets, answered, storage>>
    BY <1>4 DEF Visit
  <2>2. TypeOK'
    BY <1>1, <1>2, <2>1 DEF TypeOK
  <2>3. ToldList' /\ SelectedByUrl' /\ ConfigOnItsWay'
    BY <1>4, <2>1 DEF ToldList, SelectedByUrl, ConfigOnItsWay
  <2> QED
    BY <1>1, <2>2, <2>3
<1> QED
  BY <1>3, <1>4

LEMMA PageInvNext == PageInv /\ [Next]_vars => PageInv'
<1> SUFFICES ASSUME PageInv, [Next]_vars PROVE PageInv'
  OBVIOUS
<1> USE DEF PageInv
<1>1. ASSUME NEW e \in Edits, Editing(e), UNCHANGED <<cache, timer, load, faults, pageVars>>
      PROVE  PageInv'
  <2>1. RegistryInv'
    BY <1>1, SendEditInv, MineEditInv DEF Editing
  <2>2. ListTypeOK' /\ LoadsInList'
    BY <1>1, <2>1 DEF TypeOK, ListTypeOK, LoadsInList, Running, RegistryInv
  <2> QED
    BY <1>1, <2>1, <2>2, ListSteps
<1>2. ASSUME NEW l \in Loads, Expire(l) \/ OtherQuery(l), UNCHANGED pageVars
      PROVE  PageInv'
  <2>1. RegistryInv'
    BY <1>2, RegistrySame DEF Expire, OtherQuery
  <2>2. PICK by \in Callers : StartLoad(l, by)
    BY <1>2 DEF Expire, OtherQuery, Callers
  <2>3. /\ load' \in [Loads -> {NoLoad} \cup [by : Callers, read : Seq(Names)]]
        /\ LoadsInList'
    BY <2>2, StartLoadType
  <2>4. ListTypeOK'
    BY <1>2, <2>1, <2>3 DEF Expire, OtherQuery, TypeOK, ListTypeOK, RegistryInv
  <2> QED
    BY <1>2, <2>1, <2>3, <2>4, ListSteps
<1>3. ASSUME NEW l \in Loads, ReadMarket(l), UNCHANGED pageVars
      PROVE  PageInv'
  <2>1. RegistryInv'
    BY <1>3, RegistrySame DEF ReadMarket
  <2>2. load[l].read \in Seq(Names) /\ load[l] \in [by : Callers, read : Seq(Names)]
    BY <1>3 DEF ReadMarket, Running, TypeOK, ListTypeOK
  <2>3. Len(load[l].read) < Len(MarketSeq) /\ Len(load[l].read) + 1 # Len(MarketSeq)
    BY <1>3 DEF ReadMarket, LoadsInList, LastToken
  <2>4. Len(load[l].read) + 1 \in DOMAIN MarketSeq /\ Len(load[l].read) + 1 < Len(MarketSeq)
    <3>1. Len(load[l].read) \in Nat
      BY <2>2
    <3>2. Len(MarketSeq) \in Nat
      BY MarketFacts
    <3> DEFINE n == Len(load[l].read)
               k == Len(MarketSeq)
    <3> HIDE DEF n, k
    <3>3. n + 1 \in 1 .. k /\ n + 1 < k
      BY <2>3, <3>1, <3>2 DEF n, k
    <3> QED
      BY <3>3, MarketFacts DEF n, k
  <2>5. NameOf(NextToken(l)) \in Names
    BY <2>4, MarketFacts, NameType DEF NextToken
  <2> DEFINE name == NameOf(NextToken(l))
  <2> HIDE DEF name
  <2>6. Append(load[l].read, name) \in Seq(Names)
        /\ Len(Append(load[l].read, name)) = Len(load[l].read) + 1
    BY <2>2, <2>5 DEF name
  <2>7. load' = [load EXCEPT ![l] = [load[l] EXCEPT !.read = Append(load[l].read, name)]]
    BY <1>3 DEF ReadMarket, name
  <2>8. [load[l] EXCEPT !.read = Append(load[l].read, name)]
          \in [by : Callers, read : Seq(Names)]
    BY <2>2, <2>6
  <2>9. load' \in [Loads -> {NoLoad} \cup [by : Callers, read : Seq(Names)]]
    BY <2>7, <2>8 DEF TypeOK, ListTypeOK
  <2>10. LoadsInList'
    <3>1. load'[l].read = Append(load[l].read, name)
      BY <2>2, <2>7 DEF TypeOK, ListTypeOK
    <3>2. Len(load'[l].read) < Len(MarketSeq)
      BY <2>4, <2>6, <3>1
    <3>3. \A k \in Loads : k # l => load'[k] = load[k]
      BY <2>7 DEF TypeOK, ListTypeOK
    <3> QED
      BY <3>2, <3>3 DEF LoadsInList, Running
  <2>11. ListTypeOK'
    BY <1>3, <2>1, <2>9 DEF ReadMarket, TypeOK, ListTypeOK, RegistryInv
  <2> QED
    BY <1>3, <2>1, <2>10, <2>11, ListSteps
<1>4. ASSUME NEW l \in Loads, Finish(l)
      PROVE  PageInv'
  <2>1. /\ Running(l) /\ LastToken(l) /\ load' = [load EXCEPT ![l] = NoLoad]
        /\ UNCHANGED <<registryVars, faults>>
        /\ cache' = Append(load[l].read, NameOf(NextToken(l))) /\ timer' = TRUE
    BY <1>4 DEF Finish, FinishLoad, Put
  <2>2. RegistryInv'
    BY <2>1, RegistrySame
  <2>3. cache' \in NameLists
    BY <2>1, LoadedList
  <2>4. /\ load' \in [Loads -> {NoLoad} \cup [by : Callers, read : Seq(Names)]]
        /\ LoadsInList'
    BY <2>1, EndLoadType
  <2>5. ListTypeOK'
    BY <2>1, <2>2, <2>3, <2>4 DEF TypeOK, ListTypeOK, RegistryInv
  <2>6. listAsked' \in {[st |-> "told", list |-> cache'], listAsked}
    BY <1>4 DEF Finish
  <2>7. /\ listAsked' \in [st : {"sent", "loading", "told", "done", "lost"},
                            list : NameLists \cup {None}]
        /\ listAsked'.st = "told" => listAsked'.list \in NameLists
        /\ listAsked'.st = "done" => listAsked.st = "done"
    BY <2>3, <2>6 DEF TypeOK, ToldList
  <2> QED
    BY <1>4, <2>2, <2>4, <2>5, <2>7, AskedSteps DEF Finish
<1>5. ASSUME NEW l \in Loads, Fail(l)
      PROVE  PageInv'
  <2>1. /\ load' = [load EXCEPT ![l] = NoLoad]
        /\ UNCHANGED <<registryVars, timer>>
        /\ cache' \in {None, cache} /\ faults > 0 /\ faults' = faults - 1
    BY <1>5 DEF Fail, FailLoad
  <2>2. RegistryInv'
    BY <2>1, RegistrySame
  <2>3. /\ load' \in [Loads -> {NoLoad} \cup [by : Callers, read : Seq(Names)]]
        /\ LoadsInList'
    BY <2>1, EndLoadType
  <2>4. faults' \in 0 .. MaxFaults
    BY <2>1, ListAssumption DEF ListAssumption, TypeOK, ListTypeOK
  <2>5. ListTypeOK'
    BY <2>1, <2>2, <2>3, <2>4 DEF TypeOK, ListTypeOK, RegistryInv
  <2>6. listAsked' \in {[listAsked EXCEPT !.st = "lost"], listAsked}
    BY <1>5 DEF Fail
  <2>7. /\ listAsked' \in [st : {"sent", "loading", "told", "done", "lost"},
                            list : NameLists \cup {None}]
        /\ listAsked'.st = "told" => listAsked'.list \in NameLists
        /\ listAsked'.st = "done" => listAsked.st = "done"
    BY <2>6 DEF TypeOK, ToldList
  <2> QED
    BY <1>5, <2>2, <2>3, <2>5, <2>7, AskedSteps DEF Fail
<1>6. ASSUME NEW l \in Loads, ServeLoading(l)
      PROVE  PageInv'
  <2>1. RegistryInv'
    BY <1>6, RegistrySame DEF ServeLoading
  <2>2. /\ load' \in [Loads -> {NoLoad} \cup [by : Callers, read : Seq(Names)]]
        /\ LoadsInList'
    BY <1>6, StartLoadType DEF ServeLoading, Callers
  <2>3. ListTypeOK'
    BY <1>6, <2>1, <2>2 DEF ServeLoading, TypeOK, ListTypeOK, RegistryInv
  <2>4. /\ listAsked' \in [st : {"sent", "loading", "told", "done", "lost"},
                            list : NameLists \cup {None}]
        /\ listAsked'.st = "loading"
    BY <1>6 DEF ServeLoading, TypeOK
  <2> QED
    BY <1>6, <2>1, <2>2, <2>3, <2>4, AskedSteps DEF ServeLoading
<1>7. ASSUME NEW name \in Urls, Visit(name)
      PROVE  PageInv'
  <2>1. name \in Names \cup {"trade", "other"}
    BY PageAssumption DEF PageAssumption
  <2> QED
    BY <1>7, <2>1, VisitStep
<1>8. ASSUME NEW i \in DOMAIN MarketSeq, ChooseMarket(i)
      PROVE  PageInv'
  <2>1. markets \in NameLists /\ Visit(markets[i])
    BY <1>8 DEF ChooseMarket, TypeOK
  <2>2. markets[i] \in Names
    BY <2>1 DEF NameLists
  <2> QED
    BY <2>1, <2>2, VisitStep
<1>9. UNCHANGED listVars => RegistryInv' /\ ListTypeOK' /\ LoadsInList'
  <2> SUFFICES ASSUME UNCHANGED listVars PROVE RegistryInv' /\ ListTypeOK' /\ LoadsInList'
    OBVIOUS
  <2>1. RegistryInv'
    BY RegistrySame DEF listVars
  <2> QED
    BY <2>1 DEF listVars, TypeOK, ListTypeOK, LoadsInList, Running, RegistryInv
<1>10. ASSUME NEW m \in Markets, ServeConfig(m)
       PROVE  PageInv'
  <2>1. /\ asked' = [asked EXCEPT ![m] = asked[m] - 1] /\ asked[m] > 0
        /\ answered' = [answered EXCEPT ![m] = answered[m] + 1]
        /\ UNCHANGED <<listVars, url, listAsked, markets, selected, configs, cleared,
                       inited, storage, budget>>
    BY <1>10 DEF ServeConfig
  <2>2. asked \in [Markets -> Nat] /\ answered \in [Markets -> Nat]
    BY DEF TypeOK
  <2>3. asked' \in [Markets -> Nat] /\ answered' \in [Markets -> Nat]
    BY <2>1, <2>2
  <2>4. TypeOK'
    BY <1>9, <2>1, <2>3 DEF TypeOK
  <2>5. ToldList' /\ SelectedByUrl'
    BY <2>1 DEF ToldList, SelectedByUrl
  <2>6. \A n \in Markets : asked[n] + answered[n] > 0 => asked'[n] + answered'[n] > 0
    BY <2>1, <2>2
  <2>7. ConfigOnItsWay'
    BY <2>1, <2>6 DEF ConfigOnItsWay, SelectedByUrl, TypeOK
  <2> QED
    BY <1>9, <2>1, <2>4, <2>5, <2>7
<1>11. ASSUME NEW m \in Markets, ConfigLoaded(m)
       PROVE  PageInv'
  <2>1. /\ answered' = [answered EXCEPT ![m] = answered[m] - 1] /\ answered[m] > 0
        /\ configs' = configs \cup {m}
        /\ UNCHANGED <<listVars, url, listAsked, markets, selected, asked, cleared, inited,
                       storage, budget>>
    BY <1>11 DEF ConfigLoaded
  <2>2. asked \in [Markets -> Nat] /\ answered \in [Markets -> Nat]
    BY DEF TypeOK
  <2>3. answered' \in [Markets -> Nat] /\ configs' \subseteq Markets
    BY <2>1, <2>2 DEF TypeOK
  <2>4. TypeOK'
    BY <1>9, <2>1, <2>3 DEF TypeOK
  <2>5. ToldList' /\ SelectedByUrl'
    BY <2>1 DEF ToldList, SelectedByUrl
  <2>6. \A n \in Markets : asked[n] + answered[n] > 0 =>
          n \in configs' \/ asked'[n] + answered'[n] > 0
    BY <2>1, <2>2
  <2>7. ConfigOnItsWay'
    BY <2>1, <2>6 DEF ConfigOnItsWay, SelectedByUrl, TypeOK
  <2> QED
    BY <1>9, <2>1, <2>4, <2>5, <2>7
<1>12. CASE ServeCached
  <2>1. /\ listAsked' = [st |-> "told", list |-> cache] /\ cache \in NameLists
        /\ UNCHANGED listVars
    BY <1>12 DEF ServeCached, TypeOK, ListTypeOK
  <2>2. /\ listAsked' \in [st : {"sent", "loading", "told", "done", "lost"},
                            list : NameLists \cup {None}]
        /\ listAsked'.st = "told" /\ listAsked'.list \in NameLists
    BY <2>1
  <2> QED
    BY <1>9, <1>12, <2>1, <2>2, AskedSteps DEF ServeCached
<1>13. CASE MarketsInit
  <2> DEFINE list == listAsked.list
  <2>1. /\ list \in NameLists /\ markets' = list
        /\ listAsked' = [listAsked EXCEPT !.st = "done"]
        /\ UNCHANGED <<listVars, answered, storage, budget>>
    BY <1>13 DEF MarketsInit, ToldList
  <2>2. /\ listAsked' \in [st : {"sent", "loading", "told", "done", "lost"},
                            list : NameLists \cup {None}]
        /\ listAsked'.st = "done"
    BY <2>1 DEF TypeOK
  <2>3. ToldList'
    BY <2>1, <2>2 DEF ToldList
  <2>4. CASE url = "other"
    <3>1. UNCHANGED <<url, selected, configs, asked, cleared, inited>>
      BY <1>13, <2>4 DEF MarketsInit
    <3>2. TypeOK'
      BY <1>9, <2>1, <2>2, <3>1 DEF TypeOK
    <3>3. SelectedByUrl' /\ ConfigOnItsWay'
      BY <2>4, <3>1 DEF SelectedByUrl, ConfigOnItsWay
    <3> QED
      BY <1>9, <2>1, <2>3, <3>2, <3>3
  <2>5. CASE url # "other"
    <3>1. Follow(list, url)
      BY <1>13, <2>5 DEF MarketsInit
    <3>2. SelectedByUrl' /\ ConfigOnItsWay'
      BY <2>1, <3>1, FollowedShows
    <3>3. /\ selected' \in Markets /\ configs' = {} /\ inited' = TRUE
          /\ asked' \in [Markets -> Nat] /\ cleared' \in BOOLEAN /\ url' \in Names
      BY <2>1, <3>1, FollowStep
    <3>4. TypeOK'
      BY <1>9, <2>1, <2>2, <3>3 DEF TypeOK
    <3> QED
      BY <1>9, <2>1, <2>3, <3>2, <3>4
  <2> QED
    BY <2>4, <2>5
<1>14. CASE LoseConnection
  <2>1. /\ budget' = [budget EXCEPT !.losses = budget.losses - 1] /\ budget.losses > 0
        /\ asked' = [m \in Markets |-> 0] /\ answered' = [m \in Markets |-> 0]
        /\ listAsked' = IF listAsked.st = "done" THEN listAsked
                                                 ELSE [listAsked EXCEPT !.st = "lost"]
        /\ UNCHANGED <<listVars, url, markets, selected, configs, cleared, inited, storage>>
    BY <1>14 DEF LoseConnection
  <2>2. /\ budget' \in [visits : 0 .. MaxVisits, losses : 0 .. MaxLosses]
        /\ budget'.losses < MaxLosses
    <3>1. budget \in [visits : 0 .. MaxVisits, losses : 0 .. MaxLosses]
      BY DEF TypeOK
    <3>2. MaxLosses \in Nat
      BY PageAssumption DEF PageAssumption
    <3>3. budget.losses - 1 \in 0 .. MaxLosses /\ budget.losses - 1 < MaxLosses
      BY <2>1, <3>1, <3>2
    <3> QED
      BY <2>1, <3>1, <3>3
  <2>3. /\ listAsked' \in [st : {"sent", "loading", "told", "done", "lost"},
                            list : NameLists \cup {None}]
        /\ \/ listAsked'.st # "told" /\ (listAsked'.st = "done" => listAsked.st = "done")
           \/ listAsked' = listAsked
    BY <2>1 DEF TypeOK
  <2>4. TypeOK'
    <3>1. asked' \in [Markets -> Nat] /\ answered' \in [Markets -> Nat]
      BY <2>1
    <3> QED
      BY <1>9, <2>1, <2>2, <2>3, <3>1 DEF TypeOK
  <2>5. ToldList' /\ SelectedByUrl'
    BY <2>1, <2>3 DEF ToldList, SelectedByUrl
  <2>6. ConfigOnItsWay'
    BY <2>2 DEF ConfigOnItsWay
  <2> QED
    BY <1>9, <2>1, <2>4, <2>5, <2>6
<1>15. CASE LoadStored
  <2>1. /\ storage' = IF listAsked.st = "done" THEN "late" ELSE "early"
        /\ UNCHANGED <<listVars, url, listAsked, configs, asked, answered, cleared, inited,
                       budget>>
    BY <1>15 DEF LoadStored
  <2>2. \/ UNCHANGED <<markets, selected>>
        \/ markets' \in NameLists /\ selected' \in Markets
    <3>1. CASE EarlierVisit = None
      BY <1>15, <3>1 DEF LoadStored
    <3>2. CASE EarlierVisit # None
      <4>1. EarlierVisit \in [markets : NameLists, selected : Markets]
        BY <3>2, PageAssumption DEF PageAssumption, Markets
      <4> QED
        BY <1>15, <3>2, <4>1 DEF LoadStored
    <3> QED
      BY <3>1, <3>2
  <2>3. TypeOK'
    BY <1>9, <2>1, <2>2 DEF TypeOK
  <2>4. ToldList'
    BY <2>1, <2>2 DEF ToldList
  <2>5. SelectedByUrl' /\ ConfigOnItsWay'
    BY <2>1 DEF SelectedByUrl, ConfigOnItsWay
  <2> QED
    BY <1>9, <2>1, <2>3, <2>4, <2>5
<1>16. CASE UNCHANGED vars
  <2>1. UNCHANGED listVars /\ UNCHANGED pageVars
    BY <1>16 DEF vars
  <2> QED
    BY <1>9, <2>1, ListSteps
<1> QED
  BY <1>1, <1>2, <1>3, <1>4, <1>5, <1>6, <1>7, <1>8, <1>10, <1>11, <1>12, <1>13, <1>14,
     <1>15, <1>16 DEF Next, Serving

LEMMA PageInvHolds == Spec => []PageInv
BY PageInvInit, PageInvNext, PTL DEF Spec

-----------------------------------------------------------------------------
\* Every variable of the page, of the list and of the registry keeps its type:
\* a list that is served or shown has one name for each market, and a market
\* that is selected is one of the configuration.
THEOREM PageTypeCorrect == Spec => []TypeOK
<1>1. PageInv => TypeOK
  BY DEF PageInv
<1> QED
  BY <1>1, PageInvHolds, PTL

\* The assertions of the contract API foresee what the contract requires: an
\* edit that passed them is reverted only if another one overtook it, or for a
\* condition that no assertion tests.
THEOREM RevertsForeseen == Spec => []RevertedWasOvertaken
<1>1. PageInv => RevertedWasOvertaken
  BY DEF PageInv, RegistryInv
<1> QED
  BY <1>1, PageInvHolds, PTL

\* The page shows the market that its URL names, whatever comes first: the
\* location, the list, or the state of an earlier visit.
THEOREM ShowsMarketOfUrl == Spec => []SelectedByUrl
<1>1. PageInv => SelectedByUrl
  BY DEF PageInv
<1> QED
  BY <1>1, PageInvHolds, PTL

\* The configuration of the market that is shown is there or on its way, but
\* for a broken connection and for CLEAR after a selection that found it there.
THEOREM ConfigurationComes == Spec => []ConfigOnItsWay
<1>1. PageInv => ConfigOnItsWay
  BY DEF PageInv
<1> QED
  BY <1>1, PageInvHolds, PTL

\* Only a call of the loader that fails takes the list of markets from the
\* cache: while it is loaded again the old one is served.
THEOREM ListServedWhileRefreshing == Spec => ServedWhileRefreshing
<1>1. PageInv /\ [Next]_vars => [cache # None /\ cache' = None => faults' < faults]_listVars
  <2> SUFFICES ASSUME PageInv, [Next]_vars, cache # None, cache' = None
               PROVE  faults' < faults
    BY Zenon
  <2>1. \A l \in Loads : Fail(l) => faults' < faults
    <3>1. faults \in Nat
      BY ListAssumption DEF PageInv, TypeOK, ListTypeOK, ListAssumption
    <3> QED
      BY <3>1 DEF Fail, FailLoad
  <2>2. \A l \in Loads : ~ Finish(l)
    <3> SUFFICES ASSUME NEW l \in Loads, Finish(l) PROVE FALSE
      OBVIOUS
    <3>1. cache' \in NameLists
      BY LoadedList DEF PageInv, Finish, FinishLoad, Put
    <3>2. None \notin NameLists
      BY ListAssumption DEF ListAssumption, NameLists, Names
    <3> QED
      BY <3>1, <3>2
  <2>3. cache' # cache
    OBVIOUS
  <2>4. PICK l \in Loads : Finish(l) \/ Fail(l)
    BY <2>3 DEF Next, Serving, ReadMarket, Expire, OtherQuery, ServeLoading, Visit,
       ChooseMarket, ServeConfig, ConfigLoaded, ServeCached, MarketsInit, LoseConnection,
       LoadStored, vars, listVars
  <2> QED
    BY <2>1, <2>2, <2>4
<1> QED
  BY <1>1, PageInvHolds, PTL DEF Spec, ServedWhileRefreshing
=============================================================================
