------------------------------- MODULE MCDrain -------------------------------
(***************************************************************************)
(* Instances of the drain engine for TLC: topologies, policies, bounds and *)
(* the inputs callers may pass.  The cfg files pick one of each.           *)
(***************************************************************************)
EXTENDS DrainClaims, DrainRefinement

T == INSTANCE Topology WITH MaxRouteDepth <- 16

\* One resource, no commitments.
LoneNet ==
  [capacity |-> [x \in Resources |-> 1], reserved |-> [x \in Resources |-> 0],
   neighbors |-> [x \in Resources |-> {}], paths |-> <<>>,
   pools |-> {}, groups |-> {}, routes |-> {}]

LoneRemoval(st, S) == T!validate_removal_many(LoneNet, st, S, 1, 1)

\* Resources 1 to 4 are parallel between nodes 5 and 6: two of the four paths must stay,
\* and so must half the capacity of their pool.
FanNet ==
  [LoneNet EXCEPT
     !.neighbors = [x \in Resources |-> IF x \in 1..4 THEN {5, 6} ELSE 1..4],
     !.paths = [i \in 1..4 |-> {5, i, 6}],
     !.pools = {[members |-> 1..4, required |-> 2]},
     !.groups = {[paths |-> 1..4, required_available |-> 2]},
     !.routes = {[origin |-> 5, terminus |-> 6]}]

FanRemoval(st, S) == T!validate_removal_many(FanNet, st, S, 1, 1)

Identity(S) == [x \in S |-> x]
SharedDomain == [t \in Targets |-> 1]

StreamKeys ==
  {<<7, d, 0>> : d \in 1..Bounds.drains}
  \cup {<<2, d, o>> : d \in 1..Bounds.drains, o \in 1..Bounds.obligations}

BasePolicy ==
  [max_concurrent_drains_per_domain |-> 1, max_targets_per_request |-> 2,
   max_drains_in_set |-> 2, serialize_same_domain_in_set |-> TRUE,
   admission_fence_settle |-> 0, grace |-> 1, evidence_freshness |-> 1,
   evidence_clock_skew |-> 0, evidence_requires_live_incarnation |-> TRUE,
   require_quiescence_evidence |-> TRUE, reobserve_removal_evidence |-> TRUE,
   evacuation_retry_interval |-> 1, max_evacuation_attempts |-> 2,
   max_exception_extensions |-> 1]

NoInputs ==
  [initial_statuses |-> {"in-service"}, statuses |-> {}, lines |-> {}, incarnations |-> {},
   producers |-> {}, dependencies |-> {},
   protections |-> {TRUE}, report_drains |-> {}, report_states |-> {}, evidence_keys |-> {},
   target_sets |-> {}, nonces |-> {0}, extensions |-> {}, validities |-> {0}]

\* One target, one obligation, one drain: evidence, clock, retries, exceptions and restarts.
LoneTargets == {1}
LoneIdentity == Identity({1})
LifecyclePolicy ==
  [BasePolicy EXCEPT !.max_evacuation_attempts = 1, !.admission_fence_settle = 1]
LifecycleBounds ==
  [time |-> 3, drains |-> 1, obligations |-> 1, revision |-> 4, seq |-> 1,
   generation |-> 1, tokens |-> 1, incarnation |-> 2]
LifecycleInputs ==
  [NoInputs EXCEPT !.target_sets = {{1}}, !.dependencies = {{1}}, !.report_drains = {1},
                   !.report_states = {"admitted", "released"},
                   !.evidence_keys = {<<2, 1, 1>>}, !.extensions = {1},
                   !.producers = {1, 2}, !.lines = {2}]

\* One target drained, restored and drained again while obligations come and go.
RedrainBounds ==
  [LifecycleBounds EXCEPT !.time = 1, !.drains = 2, !.obligations = 2, !.revision = 2,
                          !.generation = 4, !.seq = 0]
RedrainInputs ==
  [NoInputs EXCEPT !.target_sets = {{1}}, !.dependencies = {{1}}, !.report_drains = {0, 2},
                   !.report_states = {"retired"}, !.statuses = {"failed"},
                   !.incarnations = {2}, !.initial_statuses = {"absent", "in-service"}]

\* Three targets of one domain, no obligations: a set of two or its members alone, and a
\* third drain, each target drained once (one closed generation, so no restoration).
TripleTargets == 1..3
TripleIdentity == Identity(1..3)
CorrelatedPolicy == [BasePolicy EXCEPT !.max_concurrent_drains_per_domain = 2]
CorrelatedBounds ==
  [time |-> 2, drains |-> 3, obligations |-> 0, revision |-> 0, seq |-> 0,
   generation |-> 1, tokens |-> 1, incarnation |-> 2]
CorrelatedInputs ==
  [NoInputs EXCEPT !.target_sets = {{1, 2}, {1}, {2}, {3}}]

\* One target, no clock and no restart: what RestoredIsInService needs.
ClaimBounds ==
  [time |-> 1, drains |-> 2, obligations |-> 1, revision |-> 2, seq |-> 0,
   generation |-> 4, tokens |-> 1, incarnation |-> 1]
ClaimInputs == [NoInputs EXCEPT !.target_sets = {{1}}]
==============================================================================
