----------------------------- MODULE MCOneOrder -----------------------------
(***************************************************************************)
(* OrderbookCluster as an all-in-one deployment with a single order, for   *)
(* the liveness properties.  The order is submitted twice.                 *)
(***************************************************************************)
EXTENDS OrderbookCluster

CONSTANTS n1, o1, r1, r2, t1, t2

MCAmount == [o \in Orders |-> 2]
MCOrderOf == [r \in Requests |-> o1]
MCEntryNode == [r \in Requests |-> n1]
MCLevel == [o \in Orders |-> o]
MCSubscriptions == [n \in Nodes |-> {}]
MCRunners == [n \in Nodes |-> {n}]
=============================================================================
