--------------------------- MODULE OrderLifecycle ---------------------------
(***************************************************************************)
(* What the order book service promises about the life of an order, with   *)
(* no queues, checks or phases: the database records it once, OPEN and     *)
(* later UNFUNDED; the nodes show it to clients; and a node stops to show  *)
(* it only when the record is closed, or when the node itself stops.       *)
(* OrderbookCluster implements this specification.                         *)
(***************************************************************************)
CONSTANTS Orders, Nodes

VARIABLES
    record,     \* record[o]: state of the record of o in the database
    shown,      \* shown[n]: orders that the clients of n are shown
    unsaved,    \* unsaved[n]: orders n took for new, and is still to record
    failed      \* orders an insert of which failed

vars == <<record, shown, unsaved, failed>>

RecordStates == {"none", "OPEN", "UNFUNDED"}

TypeOK ==
    /\ record \in [Orders -> RecordStates]
    /\ shown \in [Nodes -> SUBSET Orders]
    /\ unsaved \in [Nodes -> SUBSET Orders]
    /\ failed \subseteq Orders

Init ==
    /\ record = [o \in Orders |-> "none"]
    /\ shown = [n \in Nodes |-> {}]
    /\ unsaved = [n \in Nodes |-> {}]
    /\ failed = {}

\* n finds that the database does not hold o.
Admit(n, o) ==
    /\ record[o] = "none"
    /\ unsaved' = [unsaved EXCEPT ![n] = @ \cup {o}]
    /\ UNCHANGED <<record, shown, failed>>

\* n lists an order that is recorded, or that it is about to record.
Show(n, o) ==
    /\ record[o] # "none" \/ o \in unsaved[n]
    /\ shown' = [shown EXCEPT ![n] = @ \cup {o}]
    /\ UNCHANGED <<record, unsaved, failed>>

\* One of the submissions of o that n took for new is done.
Done(n, o) ==
    /\ o \in unsaved[n]
    /\ unsaved' \in {unsaved, [unsaved EXCEPT ![n] = @ \ {o}]}

\* A record that is there already is left alone.
Save(n, o) ==
    /\ Done(n, o)
    /\ record' = IF record[o] = "none" THEN [record EXCEPT ![o] = "OPEN"] ELSE record
    /\ UNCHANGED <<shown, failed>>

SaveFails(n, o) ==
    /\ Done(n, o)
    /\ failed' = failed \cup {o}
    /\ UNCHANGED <<record, shown>>

\* A check finds that too little of o can be traded.
Close(o) ==
    /\ record[o] = "OPEN"
    /\ record' = [record EXCEPT ![o] = "UNFUNDED"]
    /\ UNCHANGED <<shown, unsaved, failed>>

Hide(n, o) ==
    /\ record[o] = "UNFUNDED" \/ o \in failed
    /\ shown' = [shown EXCEPT ![n] = @ \ {o}]
    /\ UNCHANGED <<record, unsaved, failed>>

\* n crashes, or fails to load the market.
Stop(n) ==
    /\ shown' = [shown EXCEPT ![n] = {}]
    /\ unsaved' \in {unsaved, [unsaved EXCEPT ![n] = {}]}
    /\ UNCHANGED <<record, failed>>

\* n starts, and loads orders that are open.
Load(n) ==
    /\ \E open \in SUBSET {o \in Orders : record[o] = "OPEN"} :
         shown' = [shown EXCEPT ![n] = @ \cup open]
    /\ UNCHANGED <<record, unsaved, failed>>

Next ==
    \/ \E n \in Nodes, o \in Orders :
         Admit(n, o) \/ Show(n, o) \/ Save(n, o) \/ SaveFails(n, o) \/ Hide(n, o)
    \/ \E n \in Nodes : Stop(n) \/ Load(n)
    \/ \E o \in Orders : Close(o)

Spec == Init /\ [][Next]_vars
=============================================================================
