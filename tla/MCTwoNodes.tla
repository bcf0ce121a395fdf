----------------------------- MODULE MCTwoNodes -----------------------------
(***************************************************************************)
(* OrderbookCluster as two nodes that are each other's peers: n1 serves    *)
(* clients, n2 is the task node and runs the checks itself.  The order o1  *)
(* reaches both nodes, as an order of another cluster does over IPFS.      *)
(***************************************************************************)
EXTENDS OrderbookCluster, TLC

CONSTANTS n1, n2, o1, r1, r2, t1, t2

MCAmount == [o \in Orders |-> 2]
MCOrderOf == [r \in Requests |-> o1]
MCEntryNode == [r \in Requests |-> IF r = r2 THEN n2 ELSE n1]
MCLevel == [o \in Orders |-> o]
MCSubscriptions == (n1 :> {n2}) @@ (n2 :> {n1})
MCRunners == (n1 :> {}) @@ (n2 :> {n2})
MCWorkerRunners == (n1 :> {}) @@ (n2 :> {n1})
=============================================================================
