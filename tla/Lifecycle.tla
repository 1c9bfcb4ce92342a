------------------------------ MODULE Lifecycle ------------------------------
(***************************************************************************)
(* The drain lifecycle (lifecycle.cpp, lifecycle.hpp): the states of one   *)
(* drain, the legality table and DrainRecord::transition.                  *)
(*                                                                         *)
(* A DrainRecord keeps the fields that some decision of the engine reads.  *)
(* Wording, blockers (explanation only), the completion digest and the     *)
(* record's own revision (read by no decision) are left out.  A time of 0  *)
(* means "never", as in the code.                                          *)
(***************************************************************************)
EXTENDS DrainTarget

DrainState ==
  {"requested", "validating", "admission-closed", "evacuating", "quiescing",
   "verifying", "drained", "blocked", "cancelled", "failed", "restoring"}

DrainRecord ==
  [target : Targets, set : Nat, authority : Nat,
   state : DrainState, blocked_from : DrainState \cup {"none"},
   generation : Nat, restore_generation : Nat,
   state_since : Nat, admission_closed_at : Nat, restored_at : Nat,
   evacuation_requests : Nat, last_evacuation_at : Nat,
   completion_evidence : Nat]

is_settled(s) == s \in {"drained", "cancelled", "failed"}

is_fence_holding_state(s) ==
  s \in {"admission-closed", "evacuating", "quiescing", "verifying"}

\* Past admission closure, or blocked from a state past admission closure.
holds_fence(r) ==
  \/ is_fence_holding_state(r.state)
  \/ r.state = "blocked" /\ is_fence_holding_state(r.blocked_from)

\* Has not closed admission yet: what the admission order of a domain counts.
is_waiting(r) ==
  \/ r.state \in {"requested", "validating"}
  \/ r.state = "blocked" /\ r.blocked_from \in {"requested", "validating"}

LegalTargets(from) ==
  CASE from = "requested"        -> {"validating", "blocked", "cancelled", "failed"}
    [] from = "validating"       -> {"admission-closed", "blocked", "cancelled", "failed"}
    [] from = "admission-closed" -> {"evacuating", "quiescing", "blocked", "cancelled", "failed"}
    [] from = "evacuating"       -> {"quiescing", "blocked", "cancelled", "failed"}
    [] from = "quiescing"        -> {"verifying", "evacuating", "blocked", "cancelled", "failed"}
    [] from = "verifying"        -> {"drained", "quiescing", "blocked", "cancelled", "failed"}
    [] from = "blocked"          -> {"requested", "validating", "admission-closed", "evacuating",
                                     "quiescing", "verifying", "cancelled", "failed", "restoring"}
    [] from = "cancelled"        -> {"restoring", "failed"}
    [] from = "failed"           -> {"restoring", "cancelled"}
    [] from = "restoring"        -> {"cancelled", "failed", "blocked"}
    [] OTHER                     -> {"restoring"} \* drained

is_legal_drain_transition(from, to) == from = to \/ to \in LegalTargets(from)

\* A transition to the current state, or an illegal one, leaves the record alone.
transition(r, next, at) ==
  IF next = r.state \/ ~is_legal_drain_transition(r.state, next)
  THEN r
  ELSE [r EXCEPT
          !.state = next,
          !.blocked_from = IF next = "blocked" THEN r.state
                           ELSE IF r.state = "blocked" THEN "none" ELSE @,
          !.state_since = at,
          !.admission_closed_at = IF next = "admission-closed" THEN at ELSE @]

\* A drain freshly requested for target t as a member of set s.
NewDrain(t, s, a, at) ==
  [target |-> t, set |-> s, authority |-> a,
   state |-> "requested", blocked_from |-> "none",
   generation |-> 0, restore_generation |-> 0,
   state_since |-> at, admission_closed_at |-> 0, restored_at |-> 0,
   evacuation_requests |-> 0, last_evacuation_at |-> 0,
   completion_evidence |-> 0]

\* Slip: the attempt is not counted.
AttemptUncounted(r, at) == [r EXCEPT !.last_evacuation_at = at]

note_evacuation_attempt(r, at) ==
  [r EXCEPT !.evacuation_requests = @ + 1, !.last_evacuation_at = at]

mark_restored(r, at) == [r EXCEPT !.restored_at = at]

\* Fully restored: the only condition under which a target may change owner.
is_restored(r) == r.state = "cancelled" /\ r.restored_at # 0
==============================================================================
