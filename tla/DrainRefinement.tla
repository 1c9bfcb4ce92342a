--------------------------- MODULE DrainRefinement ---------------------------
(***************************************************************************)
(* The engine as an implementation of DrainContract: what its operators    *)
(* see of its drains and its fences.                                       *)
(***************************************************************************)
EXTENDS DrainSafety

\* How far a drain is, as its operator sees it: blocking and restarts do not show.
phase(r) ==
  CASE is_waiting(r)           -> "waiting"
    [] holds_fence(r)          -> "holding"
    [] is_restoring(r)         -> "restoring"
    [] r.state = "drained"     -> "drained"
    [] is_restored(r)          -> "restored"
    [] OTHER                   -> "ended"

Book ==
  [d \in DrainIds |-> [target |-> drains[d].target, set |-> drains[d].set,
                       phase |-> phase(drains[d])]]

Contract ==
  INSTANCE DrainContract
    WITH Limit <- Policy.max_concurrent_drains_per_domain,
         Serialize <- Policy.serialize_same_domain_in_set, book <- Book, gate <- fence

\* The engine implements the contract: every step of an operator, of advance() or of a
\* restart is one step of it or none.  A drain gets its target only in the order of its
\* domain and within its limit, and gives it back only through its own restoration.
ImplementsContract == Contract!ContractSpec
==============================================================================
