----------------------------- MODULE MCEvidence -----------------------------
(***************************************************************************)
(* The ledger and the registry for TLC: two streams in a ledger of two     *)
(* records, so that eviction happens, and lines enough for two restarts.   *)
(***************************************************************************)
EXTENDS EvidenceAuthority

TwoStreams == {<<2, 1, 1>>, <<7, 1, 0>>}
==============================================================================
