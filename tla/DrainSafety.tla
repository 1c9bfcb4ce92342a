----------------------------- MODULE DrainSafety -----------------------------
(***************************************************************************)
(* What the drain engine promises: the type invariant, the safety          *)
(* invariants and the action properties of DrainEngine.                    *)
(***************************************************************************)
EXTENDS DrainEngine

DrainSetRecord == [targets : SUBSET Targets, nonce : Nat]
ExceptionGrant == [drain : Nat, obligation : Nat, extension : Nat]
Message ==
  [type : {"evacuate"}, drain : Nat, obligation : Nat, generation : Nat,
   expected_revision : Nat, evidence_seq : Nat]
  \cup [type : {"restore"}, drain : Nat, obligation : Nat, generation : Nat]
  \cup [type : {"reopen"}, target : Targets, generation : Nat]

\* Every variable of the engine keeps the shape the code's types give it.
TypeOK ==
  /\ now \in Nat
  /\ drain_high_water \in 0..Bounds.drains
  /\ turn \in DrainIds \cup {1}
  /\ drains \in [DrainIds -> DrainRecord]
  /\ sets \in Seq(DrainSetRecord)
  /\ exceptions \in Seq(ExceptionGrant)
  /\ obligation_high_water \in 0..Bounds.obligations
  /\ obligations \in [ObligationIds -> ObligationRecord]
  /\ status \in [Resources -> ResourceStatus \cup {"absent"}]
  /\ sent \subseteq Message
  /\ FenceTypeOK
  /\ evidence \in Ledger
  /\ AuthorityTypeOK

------------------------------------------------------------------------------
(* Invariants.                                                             *)

\* "One target has exactly one owner at a time": of two drains of one target,
\* one has been fully restored (request_drain_set's ownership check), and a
\* drain once restored stays cancelled: it never claims its target again.
OneOwner ==
  /\ \A d, e \in DrainIds :
       d # e /\ drains[d].target = drains[e].target
         => is_restored(drains[d]) \/ is_restored(drains[e])
  /\ \A d \in DrainIds : drains[d].restored_at # 0 => drains[d].state = "cancelled"

\* A drain past admission closure, or drained, holds the closed fence of its
\* target, at its own generation: nothing between step_drain's close and a
\* restoration of this very drain moves the fence.
FenceHeld ==
  \A d \in DrainIds :
    holds_fence(drains[d]) \/ drains[d].state = "drained"
      => fence[drains[d].target] =
           [closed |-> TRUE, generation |-> drains[d].generation, drain |-> d]

\* Being restored, also when a restart blocked it there.
is_restoring(r) == r.state = "restoring" \/ (r.state = "blocked" /\ r.blocked_from = "restoring")

\* Every closed fence belongs to a known drain of that very target, which was
\* not restored: no fence is left closed with nobody able to reopen it.
ClosedFenceHasOwner ==
  \A t \in Targets :
    fence[t].closed =>
      /\ fence[t].drain \in DrainIds
      /\ drains[fence[t].drain].target = t
      /\ ~is_restored(drains[fence[t].drain])
      /\ ~is_restoring(drains[fence[t].drain])

\* "No new obligation binds after admission is authoritatively closed": an
\* obligation was admitted in the present admission period of each target or
\* in an earlier one, and on a closed target in an earlier one.
NoAdmissionBehindFence ==
  \A o \in ObligationIds : \A t \in obligations[o].dependencies :
    /\ obligations[o].admission_generation <= fence[t].generation
    /\ fence[t].closed => obligations[o].admission_generation < fence[t].generation

\* A failure domain never has more drains past admission closure than policy
\* allows, however validations, restarts and resumes interleave.
DomainLimit ==
  \A x \in Domains :
    Cardinality({d \in DrainIds : DomainOf[drains[d].target] = x /\ holds_fence(drains[d])})
      <= Policy.max_concurrent_drains_per_domain

\* With serialize_same_domain_in_set, two members of one set and one domain
\* never hold their fences at the same time.
SerializedWithinSet ==
  Policy.serialize_same_domain_in_set =>
    \A d, e \in DrainIds :
      /\ d # e
      /\ drains[d].set = drains[e].set
      /\ DomainOf[drains[d].target] = DomainOf[drains[e].target]
      => ~(holds_fence(drains[d]) /\ holds_fence(drains[e]))

\* Evacuation and removal start only after the fence has been closed for the
\* settle time, also when a restart or a resume re-entered AdmissionClosed.
FenceSettledFirst ==
  \A d \in DrainIds :
    {drains[d].state, drains[d].blocked_from} \cap {"evacuating", "quiescing", "verifying"} # {}
      => now >= drains[d].admission_closed_at + Policy.admission_fence_settle

\* Between two exceptions a drain asks for evacuation at most
\* max_evacuation_attempts times, and exceptions themselves are bounded.
RetriesAreBounded ==
  \A d \in DrainIds :
    /\ drains[d].evacuation_requests <= Policy.max_evacuation_attempts
    /\ Cardinality(grants(d)) <= Policy.max_exception_extensions

------------------------------------------------------------------------------
(* Action properties.                                                      *)

\* The generation of a fence never moves back, and every closure and every
\* reopening moves it forward: a generation names one admission period.
GenerationsAdvance ==
  [][\A t \in Targets :
       /\ fence'[t].generation >= fence[t].generation
       /\ fence'[t].closed # fence[t].closed => fence'[t].generation > fence[t].generation]_vars

\* When the engine itself takes a resource out of service, the commitments of
\* the topology still hold, whatever other drains removed since validation.
RemovalKeepsCommitments ==
  [][\A x \in Resources :
       drains' # drains /\ status[x] = "in-service" /\ status'[x] = "unavailable"
         => ValidRemoval(status', {x})]_vars

Completes(d) ==
  /\ d \in DrainIds
  /\ drains[d].state # "drained"
  /\ drains'[d].state = "drained"

\* No protected obligation of drain d is outstanding, its target is out of service
\* behind its own fence, and (if policy asks) a removal observation of the live
\* epoch says so, taken while admission was closed and not aged out since.
IsComplete(d) ==
  LET r == drains'[d]
  IN /\ outstanding_for(r.target) = {}
     /\ removal_owned_by(d, r)
     /\ Policy.require_quiescence_evidence =>
          \E e \in evidence'.records :
            /\ e.key = RemovalKey(d) /\ e.seq = r.completion_evidence
            /\ e.attested /\ e.epoch = epoch
            /\ e.generation = fence[r.target].generation
            /\ e.observed_at \in r.admission_closed_at..(now + Policy.evidence_clock_skew)
            /\ now <= e.observed_at + Policy.evidence_freshness

\* A drain becomes drained only when it is complete (evaluate_verification).
CompletionIsProven == [][\A d \in DrainIds : Completes(d) => IsComplete(d)]_vars

Retires(o) == obligations[o].state # "retired" /\ obligations'[o].state = "retired" /\ advance

\* Release evidence of the live epoch, for a drain of one of o's targets and
\* the generation it closed, observed no earlier than the closure and not aged out.
IsReleased(o) ==
  \E d \in DrainIds : \E e \in evidence.records :
    /\ drains[d].target \in obligations[o].dependencies
    /\ e.key = ReleaseKey(d, o) /\ e.seq = obligations'[o].release_evidence
    /\ e.attested /\ e.epoch = epoch
    /\ e.generation = fence[drains[d].target].generation
    /\ e.observed_at >= drains[d].admission_closed_at
    /\ now <= e.observed_at + Policy.evidence_freshness

\* The engine retires an obligation only when it is released (evaluate_quiescence).
RetirementIsProven == [][\A o \in ObligationIds : Retires(o) => IsReleased(o)]_vars

\* The ledger has neither room for the removal of drain d nor a record to retire for it.
RemovalUnrecordable(d) == ~can_record_removal(d, drains[d], evidence)

\* A blocked drain that stays blocked was not resumed and blocked again in the same pass:
\* the blockers that revalidation sees are those the step would meet.  With one exception:
\* while the ledger can take no record of its removal, a drain blocked in Quiescing is
\* resumed into the removal step and blocked there again, pass after pass.
BlockedIsStable ==
  [][\A d \in DrainIds :
       /\ drains[d].state = "blocked" /\ drains'[d].state = "blocked"
       /\ drains'[d].state_since # drains[d].state_since
       => drains[d].blocked_from = "quiescing" /\ RemovalUnrecordable(d)]_vars

------------------------------------------------------------------------------
(* Liveness.  ControllerServer::poll_once calls advance() on every round;  *)
(* nothing else is assumed to happen.                                      *)

FairSpec == Spec /\ WF_vars(advance)

WaitingIn(x) == {d \in DrainIds : DomainOf[drains[d].target] = x /\ is_waiting(drains[d])}

\* Drains wait in domain x, no drain of x holds a fence, and the first of them
\* has nothing of its own against it: authority, status and commitments agree.
ReadyToAdmit(x) ==
  /\ \A d \in DrainIds : DomainOf[drains[d].target] = x => ~holds_fence(drains[d])
  /\ \E d \in WaitingIn(x) :
       /\ \A e \in WaitingIn(x) : d <= e
       /\ ~authority_rejected(drains[d])
       /\ StatusOf(drains[d]) = "in-service"
       /\ ValidRemoval(status, {ResourceOf[drains[d].target]})

\* The admission order is deadlock free: a domain never stays ready forever
\* with its drains waiting only for each other (evaluate_start).
AdmissionIsDeadlockFree == \A x \in Domains : []<>~ReadyToAdmit(x)

\* Restoration, once begun, settles: a drain that is restoring, also after a
\* restart blocked it there, ends up cancelled.
RestorationSettles ==
  \A d \in 1..Bounds.drains :
    (d \in DrainIds /\ "restoring" \in {drains[d].state, drains[d].blocked_from})
      ~> (d \in DrainIds /\ drains[d].state = "cancelled")
==============================================================================
