----------------------------- MODULE DrainState -----------------------------
(***************************************************************************)
(* The state of DrainEngine (engine.hpp) and everything the engine only    *)
(* reads it with (engine.cpp): who owns a removal, which obligations are   *)
(* outstanding, and the evaluate_* functions, which return the codes of    *)
(* the blockers that keep a drain in its state.  Wording is left out.      *)
(*                                                                         *)
(* Engine, registry, fence, ledger and obligations share one mutex in the  *)
(* code; their variables are declared here or in the modules extended.     *)
(***************************************************************************)
EXTENDS Lifecycle, AdmissionFence, Obligation, EvidenceLedger, AuthorityRegistry,
        FiniteSetsExt

CONSTANTS Resources,          \* topology nodes
          Domains,            \* failure domains
          ResourceOf,         \* the resource a target names
          DomainOf,           \* the failure domain a target names
          ValidRemoval(_, _), \* Topology::validate_removal_many is ok: see Topology
          Policy,             \* DrainPolicy, the fields the lifecycle reads
          Bounds              \* where the model stops counting

PolicyType ==
  [max_concurrent_drains_per_domain : Nat,
   max_targets_per_request : Nat, max_drains_in_set : Nat,
   serialize_same_domain_in_set : BOOLEAN,
   admission_fence_settle : Nat, grace : Nat, evidence_freshness : Nat,
   evidence_clock_skew : Nat, evidence_requires_live_incarnation : BOOLEAN,
   require_quiescence_evidence : BOOLEAN, reobserve_removal_evidence : BOOLEAN,
   evacuation_retry_interval : Nat, max_evacuation_attempts : Nat,
   max_exception_extensions : Nat]

BoundsType ==
  [time : Nat, drains : Nat, obligations : Nat, revision : Nat, seq : Nat,
   generation : Nat, tokens : Nat, incarnation : Nat]

ASSUME EngineAssumption ==
  /\ Policy \in PolicyType
  /\ Bounds \in BoundsType

\* A request names a number of targets, each with its resource and its domain.
ASSUME TargetsAssumption ==
  /\ \A S \in SUBSET Targets : Cardinality(S) \in Nat
  /\ ResourceOf \in [Targets -> Resources]
  /\ DomainOf \in [Targets -> Domains]

\* The streams, among them those of every drain and obligation, and the ledger that
\* keeps their newest records.
ASSUME StreamsAssumption ==
  /\ EvidenceKeys \subseteq Nat \X Nat \X Nat
  /\ \A d \in 1..Bounds.drains :
       /\ <<7, d, 0>> \in EvidenceKeys
       /\ \A o \in 1..Bounds.obligations : <<2, d, o>> \in EvidenceKeys
  /\ MaxRecords \in Nat

VARIABLES now,                 \* the clock every caller passes in
          turn,                \* next drain of the running advance() pass; 1 between passes
          drains, drain_high_water,
          sets,                \* requested sets: [targets, nonce]
          exceptions,          \* grants in the order of their sequence number
          obligations, obligation_high_water,
          status,              \* of each resource, "absent" before it is added
          sent                 \* requests handed to the sink, never taken back

ResourceStatus == {"in-service", "unavailable", "failed"}

\* A removal that keeps every commitment still keeps it once it is done: the
\* resource counted as removed already (validate_removal_many excludes both).
ASSUME RemovalAssumption ==
  \A st \in [Resources -> ResourceStatus \cup {"absent"}], x \in Resources :
    st[x] = "in-service" /\ ValidRemoval(st, {x})
      => ValidRemoval([st EXCEPT ![x] = "unavailable"], {x})

DrainIds == 1..drain_high_water
ObligationIds == 1..obligation_high_water

evidence_fence ==
  [live_incarnation |-> incarnation, live_epoch |-> epoch, now |-> now,
   allowed_skew |-> Policy.evidence_clock_skew]

ReleaseKey(d, o) == <<2, d, o>> \* EvidenceKind::ObligationReleased
RemovalKey(d)    == <<7, d, 0>> \* EvidenceKind::ResourceRemoved

StatusOf(r) == status[ResourceOf[r.target]]

require_authority(a) == a # 0 /\ check(a, now)

\* The resource is out of service and the fence says this drain did it.
removal_owned_by(d, r) ==
  /\ StatusOf(r) = "unavailable"
  /\ is_closed(fence, r.target)
  /\ fence[r.target].drain = d

outstanding_for(t) == {o \in ObligationIds : blocks_completion(obligations[o], t)}

still_moving(t) == {o \in outstanding_for(t) : is_movable(obligations[o])}

\* Whether the engine may observe again a removal it already performed.
removal_is_reobservable(r) ==
  /\ outstanding_for(r.target) = {}
  /\ is_closed(fence, r.target)
  /\ fence[r.target].generation = r.generation
  /\ StatusOf(r) = "unavailable"

RemovalEvidence(d, r, led) ==
  [key |-> RemovalKey(d), seq |-> high_water(led, RemovalKey(d)) + 1,
   generation |-> r.generation, epoch |-> epoch, producer |-> incarnation,
   observed_at |-> now, attested |-> TRUE]

can_record_removal(d, r, led) ==
  can_record(led, RemovalEvidence(d, r, led), evidence_fence,
             Policy.evidence_requires_live_incarnation)

record_removal_evidence(d, r, led) ==
  IF can_record_removal(d, r, led) THEN record(led, RemovalEvidence(d, r, led)) ELSE led

\* exceptions_[d], as the positions of its grants.
grants(d) == {i \in DOMAIN exceptions : exceptions[i].drain = d}

grace_deadline_for(d, o) ==
  obligations[o].admitted_at + Policy.grace
    + MapThenSumSet(LAMBDA i : exceptions[i].extension,
                    {i \in grants(d) : exceptions[i].obligation \in {0, o}})

------------------------------------------------------------------------------
blocker_if(condition, code) == IF condition THEN {code} ELSE {}

\* The engine looks at the token only while the incarnation that issued it lives.
authority_rejected(r) ==
  \/ r.authority = 0
  \/ /\ r.authority \in DOMAIN tokens
     /\ tokens[r.authority].incarnation = incarnation
     /\ ~require_authority(r.authority)

SameDomain(r, s) == DomainOf[r.target] = DomainOf[s.target]

\* Slip: a drain counts only once it has left AdmissionClosed.
CountsFromEvacuation(d, r) ==
  {e \in DrainIds \ {d} : /\ SameDomain(drains[e], r)
                          /\ holds_fence(drains[e])
                          /\ drains[e].state # "admission-closed"}

active_drains_in_domain(d, r) ==
  {e \in DrainIds \ {d} : SameDomain(drains[e], r) /\ holds_fence(drains[e])}

\* Slip: every other waiting drain goes first.
AnyoneWaiting(d, r) ==
  \E e \in DrainIds : e # d /\ SameDomain(drains[e], r) /\ is_waiting(drains[e])

\* Slip: a blocked predecessor is passed over.
RunningPredecessor(d, r) ==
  \E e \in DrainIds : /\ e < d /\ SameDomain(drains[e], r)
                      /\ is_waiting(drains[e]) /\ drains[e].state # "blocked"

\* A drain requested earlier for the same domain has not closed admission yet.
predecessor_waiting(d, r) ==
  \E e \in DrainIds : e < d /\ SameDomain(drains[e], r) /\ is_waiting(drains[e])

\* Slip: a predecessor is waited for only until it closes admission.
PredecessorNotClosed(d, r) ==
  \E e \in DrainIds : /\ e < d
                      /\ drains[e].set = r.set
                      /\ SameDomain(drains[e], r)
                      /\ is_waiting(drains[e])

\* An earlier member of the same set and domain has not settled yet.
predecessor_unsettled(d, r) ==
  \E e \in DrainIds :
    /\ e < d
    /\ drains[e].set = r.set
    /\ SameDomain(drains[e], r)
    /\ ~is_settled(drains[e].state)

evaluate_start(d, r) ==
  blocker_if(authority_rejected(r), "authority-invalid")
  \cup blocker_if(is_closed(fence, r.target) /\ fence[r.target].drain # d,
                  "generation-superseded")
  \cup blocker_if(StatusOf(r) # "in-service", "topology-inconsistent")
  \cup blocker_if(Cardinality(active_drains_in_domain(d, r))
                    >= Policy.max_concurrent_drains_per_domain, "domain-limit-reached")
  \cup blocker_if(\/ predecessor_waiting(d, r)
                  \/ Policy.serialize_same_domain_in_set /\ predecessor_unsettled(d, r),
                  "set-predecessor-pending")
  \cup blocker_if(StatusOf(r) = "in-service" /\ ~ValidRemoval(status, {ResourceOf[r.target]}),
                  "removal-violation")

\* Slip: one attempt too many.
AttemptsOffByOne(d, r) ==
  LET pending == {o \in outstanding_for(r.target) : obligations[o].state # "failed"}
  IN blocker_if(pending # outstanding_for(r.target), "obligation-failed")
     \cup blocker_if(\E o \in pending : now > grace_deadline_for(d, o), "grace-expired")
     \cup blocker_if(/\ still_moving(r.target) # {}
                     /\ r.evacuation_requests > Policy.max_evacuation_attempts,
                     "attempts-exhausted")

evaluate_evacuation(d, r) ==
  LET pending == {o \in outstanding_for(r.target) : obligations[o].state # "failed"}
  IN blocker_if(pending # outstanding_for(r.target), "obligation-failed")
     \cup blocker_if(\E o \in pending : now > grace_deadline_for(d, o), "grace-expired")
     \cup blocker_if(/\ still_moving(r.target) # {}
                     /\ r.evacuation_requests >= Policy.max_evacuation_attempts,
                     "attempts-exhausted")

\* Slip: fresh evidence of any generation will do.
ProvesIfFresh(e, r) == is_fresh(e, evidence_fence, Policy.evidence_freshness)

\* Evidence e proves a fact about this drain's closed admission period.
proves(e, r) ==
  /\ is_fresh(e, evidence_fence, Policy.evidence_freshness)
  /\ e.generation = r.generation
  /\ e.observed_at >= r.admission_closed_at

\* The obligation was released and the evidence it names proves it.
is_retirable(d, r, o, led) ==
  /\ obligations[o].state \in {"quiescing", "released"}
  /\ obligations[o].release_evidence # 0
  /\ \E e \in find(led, ReleaseKey(d, o), obligations[o].release_evidence) : proves(e, r)

\* Slip: the removal is not validated again after admission closed.
TrustsValidation(d, r, led) ==
  blocker_if(\E o \in outstanding_for(r.target) : ~is_retirable(d, r, o, led), "release-unproven")

\* One code stands for every reason release is unproven (missing, stale,
\* another generation, still active, failed): no decision tells them apart.
evaluate_quiescence(d, r, led) ==
  LET outstanding == outstanding_for(r.target)
  IN IF outstanding # {}
     THEN blocker_if(\E o \in outstanding : ~is_retirable(d, r, o, led), "release-unproven")
     ELSE blocker_if(StatusOf(r) # "in-service" /\ ~removal_owned_by(d, r),
                     "topology-inconsistent")
          \cup blocker_if(/\ StatusOf(r) = "in-service"
                          /\ ~ValidRemoval(status, {ResourceOf[r.target]}), "removal-violation")

\* Fresh removal evidence of this drain, generation and closed period.
removal_proofs(d, r, led) ==
  {e \in fresh(led, RemovalKey(d), evidence_fence, Policy.evidence_freshness) : proves(e, r)}

\* Slip: obligations that reappeared since quiescence are not looked at.
VerifiesRemovalOnly(d, r, led) ==
  blocker_if(~removal_owned_by(d, r), "topology-inconsistent")
  \cup blocker_if(/\ Policy.require_quiescence_evidence
                  /\ removal_proofs(d, r, led) = {}, "removal-unproven")

evaluate_verification(d, r, led) ==
  IF outstanding_for(r.target) # {} THEN {"protected-obligation-active"}
  ELSE blocker_if(~removal_owned_by(d, r), "topology-inconsistent")
       \cup blocker_if(/\ Policy.require_quiescence_evidence
                       /\ removal_proofs(d, r, led) = {}, "removal-unproven")

\* Slip: an interrupted restoration is judged like a drain that starts.
RestoringStartsOver(d, r, s, led) ==
  CASE s \in {"requested", "validating", "restoring"} -> evaluate_start(d, r)
    [] s = "evacuating" -> evaluate_evacuation(d, r)
    [] s = "quiescing"  -> evaluate_quiescence(d, r, led)
    [] s = "verifying"  -> evaluate_verification(d, r, led)
    [] OTHER            -> {}

\* Slip: a drain blocked before its admission closed is resumed unjudged.
ResumesUnjudged(d, r, s, led) ==
  CASE s = "evacuating" -> evaluate_evacuation(d, r)
    [] s = "quiescing"  -> evaluate_quiescence(d, r, led)
    [] s = "verifying"  -> evaluate_verification(d, r, led)
    [] OTHER            -> {}

evaluate_state(d, r, s, led) ==
  CASE s \in {"requested", "validating"} -> evaluate_start(d, r)
    [] s = "evacuating"                  -> evaluate_evacuation(d, r)
    [] s = "quiescing"                   -> evaluate_quiescence(d, r, led)
    [] s = "verifying"                   -> evaluate_verification(d, r, led)
    [] OTHER                             -> {}
==============================================================================
