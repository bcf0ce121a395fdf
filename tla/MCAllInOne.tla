----------------------------- MODULE MCAllInOne -----------------------------
(***************************************************************************)
(* OrderbookCluster as an all-in-one deployment: one node that takes       *)
(* submissions, runs the task loop and handles the tasks.  Submissions r1  *)
(* and r2 carry the same order o1, an ask; r3 carries o2, a bid whose      *)
(* maker volume rounds down to 0 when half of it is left.                  *)
(***************************************************************************)
EXTENDS OrderbookCluster, TLC

CONSTANTS n1, o1, o2, r1, r2, r3, t1, t2

MCMakerAmount == (o1 :> 2) @@ (o2 :> 1)
MCTakerAmount == [o \in Orders |-> 2]
MCOrderOf == [r \in Requests |-> IF r = r3 THEN o2 ELSE o1]
MCEntryNode == [r \in Requests |-> n1]
MCLevel == [o \in Orders |-> o]
MCEqualAmount == [o \in Orders |-> 2]
MCSameLevel == [o \in Orders |-> 1]
MCSubscriptions == [n \in Nodes |-> {}]
MCRunners == [n \in Nodes |-> {n}]
MCSymmetry == Permutations({r1, r2}) \cup Permutations(Tasks)
=============================================================================
