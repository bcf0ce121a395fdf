--------------------------- MODULE WalletSession ----------------------------
(***************************************************************************)
(* The web application's view of the user's wallet: the account and the    *)
(* network of the browser plugin, and whether it is enabled for the page,  *)
(* all of which the application polls every second; and the                *)
(* balances and allowances of the account, which it reads when the account *)
(* changes and at every block.  A market is selected already.              *)
(*                                                                         *)
(* What a tick of a poll reads, it is taken to read at once: nothing else  *)
(* writes what the poll compares it with, and switchMap drops the answer   *)
(* of an earlier tick.  An error that no epic catches ends all of them,    *)
(* until the page is loaded again (`dead').                                *)
(***************************************************************************)
EXTENDS Exchange

CONSTANTS
    PluginAccounts, \* accounts of the plugin
    Networks,       \* networks the plugin can be connected to
    AppNetwork,     \* the one of the application
    Reads,          \* bounds the reads of balances that are in flight
    None

ASSUME SessionAssumption ==
    /\ PluginAccounts \subseteq Accounts
    /\ AppNetwork \in Networks
    /\ None \notin Accounts \cup Networks \cup Nat

VARIABLES
    plugin,     \* the plugin: account, None while it is locked or not enabled for
                \* the page, network, and whether it asks to be enabled
    app,        \* state.ethereum and state.wallet: the same as the page knows it
    shown,      \* walletBalance and tokenAllowances
    read,       \* read[q]: a read in flight: its account, the balances shown when
                \* it began, and what the account then had
    dead        \* the epics have ended

walletVars == <<plugin, app, shown, read, dead>>

ShownBalances == [Tokens -> Nat \cup {None}]

\* What reads of the balances and allowances of an account find; known: the tokens
\* whose allowance was read.
Holdings(a) ==
    [bal |-> ledger.bal[a], allowed |-> ledger.allowed[a], known |-> {"base", "quote"}]
Nothing == [bal |-> [t \in Tokens |-> None], allowed |-> {}, known |-> {}]
NoRead == [acct |-> None, old |-> Nothing.bal, then |-> Nothing]

SessionTypeOK ==
    /\ ExchangeTypeOK
    /\ plugin \in [acct : PluginAccounts \cup {None}, net : Networks,
                   enabled : BOOLEAN, asks : BOOLEAN]
    /\ plugin.acct # None => plugin.enabled
    /\ app \in [access : {"LOCKED", "FULL"}, addr : PluginAccounts \cup {None},
                wrong : BOOLEAN, enabled : BOOLEAN]
    /\ app.access = "LOCKED" => app.addr = None
    /\ shown.bal \in ShownBalances
    /\ shown.allowed \subseteq shown.known
    /\ shown.known \subseteq {"base", "quote"}
    /\ \A q \in Reads :
         /\ read[q].acct \in PluginAccounts \cup {None}
         /\ read[q].old \in ShownBalances
         /\ read[q].then.bal \in ShownBalances
    /\ dead \in BOOLEAN

\* The page knows the plugin's access already.  enableMetamaskEpic has asked for
\* it if the plugin was not enabled.
SessionInit ==
    /\ ExchangeInit
    /\ \E a \in PluginAccounts \cup {None} :
         /\ plugin = [acct |-> a, net |-> AppNetwork, enabled |-> a # None,
                      asks |-> a = None]
         /\ app = [access |-> IF a = None THEN "LOCKED" ELSE "FULL", addr |-> a,
                   wrong |-> FALSE, enabled |-> a # None]
         /\ shown = IF a = None THEN Nothing ELSE Holdings(a)
    /\ read = [q \in Reads |-> NoRead]
    /\ dead = FALSE

-----------------------------------------------------------------------------
\* The user selects another account in the plugin, locks or unlocks it.
SwitchAccount(a) ==
    /\ Event
    /\ plugin.enabled
    /\ a # plugin.acct
    /\ plugin' = [plugin EXCEPT !.acct = a]
    /\ UNCHANGED <<ledger, app, shown, read, dead>>

\* The user allows what the page has asked for when it was loaded.
Enable(a) ==
    /\ Event
    /\ plugin.asks
    /\ plugin' = [plugin EXCEPT !.enabled = TRUE, !.asks = FALSE, !.acct = a]
    /\ UNCHANGED <<ledger, app, shown, read, dead>>

\* The user takes it back.  The page does not ask again.
Disable ==
    /\ Event
    /\ plugin.enabled
    /\ plugin' = [plugin EXCEPT !.enabled = FALSE, !.acct = None]
    /\ UNCHANGED <<ledger, app, shown, read, dead>>

SwitchNetwork(n) ==
    /\ Event
    /\ n # plugin.net
    /\ plugin' = [plugin EXCEPT !.net = n]
    /\ UNCHANGED <<ledger, app, shown, read, dead>>

\* NETWORK_DETECTED.
NetworkDetected(wrong) == app' = [app EXCEPT !.wrong = wrong]

\* checkNetwork, when there is something new.
CheckNetwork ==
    /\ ~dead
    /\ app.wrong # (plugin.net # AppNetwork)
    /\ NetworkDetected(plugin.net # AppNetwork)
    /\ UNCHANGED <<ledger, events, plugin, shown, read, dead>>

\* INJECTED_PROVIDER_ENABLED_UPDATE.
ProviderEnabled(enabled) == app' = [app EXCEPT !.enabled = enabled]

\* checkMetamaskEnabledEpic, when there is something new.
CheckEnabled ==
    /\ ~dead
    /\ app.enabled # plugin.enabled
    /\ ProviderEnabled(plugin.enabled)
    /\ UNCHANGED <<ledger, events, plugin, shown, read, dead>>

\* An error that no epic catches: the provider does not answer checkNetwork, a
\* volume that updateUserOrderEpic asks for cannot be read, or an order is
\* submitted while the plugin is locked and names no maker.
EpicsEnd ==
    /\ ~dead
    /\ Event
    /\ dead' = TRUE
    /\ UNCHANGED <<ledger, plugin, app, shown, read>>

\* updateBalanceEpic and updateAllowanceEpic: they start and end alike, and
\* are one read here.
StartRead(addr) ==
    LET free == {q \in Reads : read[q] = NoRead}
    IN  /\ free # {}
        /\ read' = [read EXCEPT ![CHOOSE q \in free : TRUE] =
                                   [acct |-> addr, old |-> shown.bal,
                                    then |-> Holdings(addr)]]

\* PLUGIN_ACCESS_UPDATE and WALLET_ADDR_UPDATE.
Accessed(acct) ==
    app' = [app EXCEPT !.access = IF acct = None THEN "LOCKED" ELSE "FULL", !.addr = acct]

\* A broken checkMetamaskStatus: it asks for the account only once.
CheckStatusOnce ==
    /\ ~dead
    /\ plugin.acct # None /\ app.access = "LOCKED"
    /\ Accessed(plugin.acct)
    /\ StartRead(plugin.acct)
    /\ UNCHANGED <<ledger, events, plugin, shown, dead>>

\* checkMetamaskStatus: the plugin is locked, unlocked, or has another account.
CheckStatus ==
    /\ ~dead
    /\ Accessed(plugin.acct)
    /\ \/ /\ plugin.acct = None /\ app.access # "LOCKED"
          /\ UNCHANGED read
       \/ /\ plugin.acct # None
          /\ app.access # "FULL" \/ app.addr # plugin.acct
          /\ StartRead(plugin.acct)
    /\ UNCHANGED <<ledger, events, plugin, shown, dead>>

\* BLOCKNUMBER_UPDATE.  The bound on reads must not keep checkMetamaskStatus
\* from starting one: two blocks have no reads at the same time.
NewBlock ==
    /\ ~dead
    /\ app.addr # None
    /\ \A q \in Reads : read[q] = NoRead
    /\ StartRead(app.addr)
    /\ UNCHANGED <<ledger, events, plugin, app, shown, dead>>

\* What a read is answered: the calls for the tokens follow one another, and
\* the chain may have changed before any of them.
Answers(q) ==
    LET now == Holdings(read[q].acct)
        calls == <<"base", "quote", "eth">>
    IN  {[bal |-> [t \in Tokens |-> IF \E j \in 1 .. i : calls[j] = t
                                      THEN read[q].then.bal[t] ELSE now.bal[t]],
          allowed |-> allowed] :
            i \in 0 .. 3, allowed \in {read[q].then.allowed, now.allowed}}

\* A broken merge: a balance that is shown already is kept.
MergedIfNew(old, answer, bad) ==
    [t \in Tokens |-> IF t \in bad \/ shown.bal[t] # None
                        THEN shown.bal[t] ELSE answer[t]]

\* Balances that could not be read, or that are what they were when the read
\* began, are not merged.
Merged(old, answer, bad) ==
    [t \in Tokens |-> IF t \in bad \/ answer[t] = old[t]
                        THEN shown.bal[t] ELSE answer[t]]

\* bad: tokens whose balance could not be read; kept: those whose allowance
\* could not.
EndRead(q, bad, kept) ==
    /\ ~dead
    /\ read[q] # NoRead
    /\ \E answer \in Answers(q) :
         shown' = [bal |-> Merged(read[q].old, answer.bal, bad),
                   allowed |-> (answer.allowed \ kept) \cup (shown.allowed \cap kept),
                   known |-> ({"base", "quote"} \ kept) \cup shown.known]
    /\ read' = [read EXCEPT ![q] = NoRead]
    /\ UNCHANGED <<ledger, plugin, app, dead>>

FinishRead(q) == EndRead(q, {}, {}) /\ UNCHANGED events

\* The call for one of the balances, or one of the allowances, is rejected.
ReadFails(q, t) == (EndRead(q, {t}, {}) \/ EndRead(q, {}, {t})) /\ Event

-----------------------------------------------------------------------------
\* The application comes to know the plugin's account, whether it is enabled and
\* whether its network is the right one, in whatever order the user changes them.
EventuallyFollowsPlugin ==
    <>[](\/ dead
         \/ /\ app.addr = plugin.acct
            /\ app.access = IF plugin.acct = None THEN "LOCKED" ELSE "FULL"
            /\ app.enabled = plugin.enabled
            /\ app.wrong = (plugin.net # AppNetwork))

\* The balances and allowances that are shown come to be those of the account
\* that is shown: reads for an earlier account, reads that overlap, and reads
\* that fail are made good.
EventuallyShowsBalances ==
    <>[](\/ dead
         \/ app.addr = None
         \/ shown = Holdings(app.addr))
=============================================================================
