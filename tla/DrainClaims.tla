----------------------------- MODULE DrainClaims -----------------------------
(***************************************************************************)
(* A statement that a comment of the repository makes about the engine and *)
(* that the engine does not keep.  It is checked by a run of its own,      *)
(* whose counterexample shows where code and text part.                    *)
(***************************************************************************)
EXTENDS DrainSafety

\* lifecycle.cpp: "the target is back in service under a fresh generation" once
\* restoration has settled into Cancelled.  The fence is reopened before
\* Restoring is entered, so FinishRestoration never owns the removal it would undo.
RestoredIsInService ==
  [][\A d \in DrainIds :
       ~is_restored(drains[d]) /\ is_restored(drains'[d])
         => status'[ResourceOf[drains[d].target]] = "in-service"]_vars
==============================================================================
