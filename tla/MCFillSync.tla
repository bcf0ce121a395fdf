----------------------------- MODULE MCFillSync -----------------------------
(***************************************************************************)
(* FillSync with two markets.  The chain has five blocks at first; a scan  *)
(* of all BackTrack blocks takes two batches.                              *)
(***************************************************************************)
EXTENDS FillSync, TLC

CONSTANTS m1, m2

MCFills == (m1 :> {2, 3, 5, 6}) @@ (m2 :> {4})
=============================================================================
