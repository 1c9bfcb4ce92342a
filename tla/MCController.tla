---------------------------- MODULE MCController ----------------------------
(***************************************************************************)
(* Instances of the controller and its peers for TLC.                      *)
(***************************************************************************)
EXTENDS Peers, TLC

T == INSTANCE Topology WITH MaxRouteDepth <- 16

LoneNet ==
  [capacity |-> [x \in Resources |-> 1], reserved |-> [x \in Resources |-> 0],
   neighbors |-> [x \in Resources |-> {}], paths |-> <<>>,
   pools |-> {}, groups |-> {}, routes |-> {}]

LoneRemoval(st, S) == T!validate_removal_many(LoneNet, st, S, 1, 1)

LoneTargets == {1}
LoneIdentity == [x \in {1} |-> x]

StreamKeys ==
  {<<7, d, 0>> : d \in 1..Bounds.drains}
  \cup {<<2, d, o>> : d \in 1..Bounds.drains, o \in 1..Bounds.obligations}

\* Retries need no clock.
ServedPolicy ==
  [max_concurrent_drains_per_domain |-> 1, max_targets_per_request |-> 1,
   max_drains_in_set |-> 1, serialize_same_domain_in_set |-> TRUE,
   admission_fence_settle |-> 0, grace |-> 1, evidence_freshness |-> 1,
   evidence_clock_skew |-> 0, evidence_requires_live_incarnation |-> TRUE,
   require_quiescence_evidence |-> TRUE, reobserve_removal_evidence |-> TRUE,
   evacuation_retry_interval |-> 0, max_evacuation_attempts |-> 2,
   max_exception_extensions |-> 1]

NoInputs ==
  [initial_statuses |-> {"in-service"}, statuses |-> {}, lines |-> {}, incarnations |-> {},
   producers |-> {}, dependencies |-> {},
   protections |-> {TRUE}, report_drains |-> {}, report_states |-> {}, evidence_keys |-> {},
   target_sets |-> {}, nonces |-> {0}, extensions |-> {}, validities |-> {0}]

ServedBounds ==
  [time |-> 1, drains |-> 1, obligations |-> 1, revision |-> 3, seq |-> 3,
   generation |-> 2, tokens |-> 3, incarnation |-> 1]

DrainFrame == [type |-> "drain-request", targets |-> {1}, nonce |-> 1]
OnDrain(type) == [type |-> type, drain |-> 1]

\* A drain or its status, then its restoration or the end of the controller.
ServedRequests ==
  <<{DrainFrame, OnDrain("status-request")},
    {OnDrain("restore-request"), [type |-> "shutdown"]}>>

\* A drain, then the same request again or its cancellation.
RepeatedRequests == <<{DrainFrame}, {DrainFrame, OnDrain("cancel-request")}>>

\* Workers are alike.
Alike == Permutations(Threads)

\* Two agents with an obligation each, and a client that drains what both depend on.
TwoAgentBounds == [ServedBounds EXCEPT !.obligations = 2, !.tokens = 3]
DrainOnly == <<{DrainFrame}>>

\* A client that shuts the controller down.
ShutdownOnly == <<{[type |-> "shutdown"]}>>
==============================================================================
