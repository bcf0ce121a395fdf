----------------------------- MODULE OrderStore -----------------------------
(***************************************************************************)
(* The `orders` collection that every node of a cluster shares, and the    *)
(* operations of OrderService on it.  Each operation is one atomic         *)
(* statement of the database; its callers are in OrderbookCluster.         *)
(* A store maps each order to its record.                                  *)
(***************************************************************************)
EXTENDS OrderVolume

NoRecord == [state |-> "none", volume |-> 0]

Records == [state : {"OPEN", "UNFUNDED"}, volume : Nat]

Stores == [Orders -> Records \cup {NoRecord}]

EmptyStore == [o \in Orders |-> NoRecord]

\* orderExists: collection.count({orderHash}) > 0, whatever the state.
OrderExists(store, o) == store[o].state # "none"

\* A broken insertOrder: $set instead of $setOnInsert.
InsertOrderSet(store, o, v) ==
    [store EXCEPT ![o] = [state |-> "OPEN", volume |-> v]]

\* insertOrder: updateOne(.., {$setOnInsert: record}, {upsert: true}).
InsertOrder(store, o, v) ==
    IF OrderExists(store, o)
      THEN store
      ELSE [store EXCEPT ![o] = [state |-> "OPEN", volume |-> v]]

\* A broken updateVolume: the partial record, with no state, is written whole.
UpdateVolumeWhole(store, o, v) ==
    IF OrderExists(store, o)
      THEN [store EXCEPT ![o] = [state |-> "undefined", volume |-> v]]
      ELSE store

\* updateVolume without a state: $set of the amounts, and no upsert.
UpdateVolume(store, o, v) ==
    IF OrderExists(store, o)
      THEN [store EXCEPT ![o].volume = v]
      ELSE store

\* updateVolume with state UNFUNDED: the same $set, of amounts and state.
MarkUnfunded(store, o, v) ==
    IF OrderExists(store, o)
      THEN [store EXCEPT ![o] = [state |-> "UNFUNDED", volume |-> v]]
      ELSE store

\* A broken loadOrders: without the condition on the state.
LoadAllOrders(store, side) == {o \in side : OrderExists(store, o)}

\* loadOrders of one side: the records in state OPEN.
LoadOrders(store, side) == {o \in side : store[o].state = "OPEN"}
=============================================================================
