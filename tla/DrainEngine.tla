----------------------------- MODULE DrainEngine -----------------------------
(***************************************************************************)
(* DrainEngine (engine.cpp): one action per public operation, and one per  *)
(* branch of step_drain.  Every operation runs under the engine's mutex,   *)
(* so it is one step here; advance() is one critical section that steps    *)
(* every drain in id order, which the model takes one drain at a time      *)
(* with the lock (`turn') held.  An operation the code rejects changes     *)
(* nothing that a later decision reads, and has no action.                 *)
(***************************************************************************)
EXTENDS DrainState

CONSTANT Inputs \* what callers and adjacent runtimes pass in

ASSUME InputsAssumption ==
  /\ Inputs.initial_statuses \subseteq ResourceStatus \cup {"absent"}
  /\ Inputs.statuses \subseteq ResourceStatus
  /\ Inputs.dependencies \subseteq SUBSET Targets
  /\ Inputs.protections \subseteq BOOLEAN
  /\ Inputs.report_states \subseteq ObligationState
  /\ Inputs.evidence_keys \subseteq EvidenceKeys
  /\ Inputs.target_sets \subseteq SUBSET Targets
  /\ Inputs.lines \subseteq Nat
  /\ Inputs.incarnations \subseteq Nat
  /\ Inputs.producers \subseteq Nat
  /\ Inputs.nonces \subseteq Nat
  /\ Inputs.extensions \subseteq Nat
  /\ Inputs.validities \subseteq Nat

callVars       == <<now, turn>>
requestVars    == <<drain_high_water, sets, exceptions>>
obligationVars == <<obligations, obligation_high_water>>
vars == <<callVars, drains, requestVars, obligationVars, status, sent, fence, evidence,
          authorityVars>>

LockFree == turn = 1

Init ==
  /\ now = 1
  /\ turn = 1
  /\ drains = <<>> /\ drain_high_water = 0
  /\ sets = <<>>
  /\ exceptions = <<>>
  /\ obligations = <<>> /\ obligation_high_water = 0
  /\ status \in [Resources -> Inputs.initial_statuses]
  /\ sent = {}
  /\ FenceInit
  /\ evidence = EmptyLedger
  /\ incarnation = 1 /\ epoch = 1 \* Runtime::start has installed the first line
  /\ tokens = <<>>
  /\ scope_generations = [x \in Scopes |-> 0]

Tick ==
  /\ LockFree
  /\ now < Bounds.time
  /\ now' = now + 1
  /\ UNCHANGED <<turn, drains, requestVars, obligationVars, status, sent, fence, evidence,
                 authorityVars>>

------------------------------------------------------------------------------
(* Authority, topology and evidence reported by callers.                   *)

\* install_authority_line: no evidence of an earlier line stays attested.
install_authority_line(i, e) ==
  /\ LockFree
  /\ i <= Bounds.incarnation /\ e <= Bounds.incarnation
  /\ install_line(i, e)
  /\ evidence' = quarantine_all(evidence)
  /\ UNCHANGED <<callVars, drains, requestVars, obligationVars, status, sent, fence>>

\* DrainEngine::install_incarnation: evidence and tokens stay as they are.
InstallIncarnation(i) ==
  /\ LockFree
  /\ i <= Bounds.incarnation
  /\ install_incarnation(i)
  /\ UNCHANGED <<callVars, drains, requestVars, obligationVars, status, sent, fence, evidence>>

issue_authority(s, validity) ==
  /\ LockFree
  /\ Len(tokens) < Bounds.tokens
  /\ issue(s, now, validity)
  /\ UNCHANGED <<callVars, drains, requestVars, obligationVars, status, sent, fence, evidence>>

revoke_authority(i) ==
  /\ LockFree
  /\ revoke(i)
  /\ UNCHANGED <<callVars, drains, requestVars, obligationVars, status, sent, fence, evidence>>

add_resource(x) ==
  /\ LockFree
  /\ status[x] = "absent"
  /\ status' = [status EXCEPT ![x] = "in-service"]
  /\ UNCHANGED <<callVars, drains, requestVars, obligationVars, sent, fence, evidence,
                 authorityVars>>

report_resource_status(x, s) ==
  /\ LockFree
  /\ status[x] # "absent"
  /\ status' = [status EXCEPT ![x] = s]
  /\ UNCHANGED <<callVars, drains, requestVars, obligationVars, sent, fence, evidence,
                 authorityVars>>

\* Epoch ep and producer p are whatever the caller's draft says.
record_evidence(k, seq, g, ep, p, at) ==
  LET draft == [key |-> k, seq |-> seq, generation |-> g, epoch |-> ep, producer |-> p,
                observed_at |-> at, attested |-> FALSE]
  IN /\ LockFree
     /\ can_record(evidence, draft, evidence_fence, Policy.evidence_requires_live_incarnation)
     /\ evidence' = record(evidence, draft)
     /\ UNCHANGED <<callVars, drains, requestVars, obligationVars, status, sent, fence,
                    authorityVars>>

attest_evidence(k, seq) ==
  /\ LockFree
  /\ can_attest(evidence, k, seq, evidence_fence)
  /\ evidence' = attest(evidence, k, seq)
  /\ UNCHANGED <<callVars, drains, requestVars, obligationVars, status, sent, fence,
                 authorityVars>>

------------------------------------------------------------------------------
(* Obligations.                                                            *)

admit_obligation(deps, prot, presented, a) ==
  /\ LockFree
  /\ require_authority(a)
  /\ deps # {}
  /\ \A t \in deps : check_admission(fence, t, presented)
  /\ obligation_high_water < Bounds.obligations
  /\ obligation_high_water' = obligation_high_water + 1
  /\ obligations' = [o \in 1..(obligation_high_water + 1) |->
                       IF o \in ObligationIds THEN obligations[o]
                       ELSE NewObligation(deps, prot, presented, now)]
  /\ UNCHANGED <<callVars, drains, requestVars, status, sent, fence, evidence, authorityVars>>

\* The generation a report on behalf of drain d must carry; 0 names no drain.
report_is_current(d, g) ==
  d # 0 => /\ d \in DrainIds
           /\ \/ g = drains[d].generation
              \/ drains[d].restore_generation # 0 /\ g = drains[d].restore_generation

report_obligation(o, d, g, expected_revision, next, ev) ==
  /\ LockFree
  /\ report_is_current(d, g)
  /\ can_apply_state(obligations[o], expected_revision, next)
  /\ obligations[o].revision < Bounds.revision
  /\ obligations' = [obligations EXCEPT ![o] = apply_state(@, next, ev)]
  /\ UNCHANGED <<callVars, drains, requestVars, obligation_high_water, status, sent, fence,
                 evidence, authorityVars>>

------------------------------------------------------------------------------
(* Operator requests.                                                      *)

\* Slip: a cancelled drain gives up its target before it is restored.
AnyCancelledIsReusable(t) ==
  \A d \in DrainIds : drains[d].target = t => drains[d].state = "cancelled"

\* A target is free when every drain it ever had was fully restored.
is_reusable(t) == \A d \in DrainIds : drains[d].target = t => is_restored(drains[d])

SetIsRemovable(S) ==
  (\A t \in S : status[ResourceOf[t]] # "absent")
    => ValidRemoval(status, {ResourceOf[t] : t \in S})

SetFitsDomains(S) ==
  \A x \in Domains :
    Cardinality({t \in S : DomainOf[t] = x}) <= Policy.max_concurrent_drains_per_domain

\* The members' ids follow the order of the normalized targets.
Assignments(S) ==
  {f \in [(drain_high_water + 1)..(drain_high_water + Cardinality(S)) -> S] :
     \A i, j \in DOMAIN f : i < j => target_order_less(f[i], f[j])}

\* A replayed nonce returns the set it created, or an error: no step.
request_drain_set(S, a, nonce) ==
  /\ LockFree
  /\ S # {}
  /\ require_authority(a)
  /\ Cardinality(S) <= Policy.max_targets_per_request
  /\ Cardinality(S) <= Policy.max_drains_in_set
  /\ drain_high_water + Cardinality(S) <= Bounds.drains
  /\ \A t \in S : fence[t].generation < Bounds.generation
  /\ nonce # 0 => \A i \in DOMAIN sets : sets[i].nonce # nonce
  /\ \A t \in S : is_reusable(t)
  /\ SetIsRemovable(S)
  /\ SetFitsDomains(S)
  /\ sets' = Append(sets, [targets |-> S, nonce |-> nonce])
  /\ drain_high_water' = drain_high_water + Cardinality(S)
  /\ \E f \in Assignments(S) :
       drains' = [d \in 1..(drain_high_water + Cardinality(S)) |->
                    IF d \in DrainIds THEN drains[d]
                    ELSE NewDrain(f[d], Len(sets) + 1, a, now)]
  /\ UNCHANGED <<callVars, exceptions, obligationVars, status, sent, fence, evidence,
                 authorityVars>>

cancel_drain(d, a) ==
  /\ LockFree
  /\ require_authority(a)
  /\ drains[d].state \notin {"drained", "cancelled"}
  /\ drains' = [drains EXCEPT ![d] = transition(@, "cancelled", now)]
  /\ UNCHANGED <<callVars, requestVars, obligationVars, status, sent, fence, evidence,
                 authorityVars>>

\* The fence once restoration has reopened it: a fence this drain never closed
\* is closed and reopened unless its generation already moved past the drain's.
ReopenedFence(d) ==
  LET t == drains[d].target
  IN IF is_closed(fence, t) THEN reopen(fence, t, d)
     ELSE IF fence[t].generation <= drains[d].generation
     THEN reopen(close(fence, t, d), t, d)
     ELSE fence

restore_drain(d, a) ==
  LET t == drains[d].target
      g == ReopenedFence(d)[t].generation
  IN /\ LockFree
     /\ require_authority(a)
     /\ is_settled(drains[d].state)
     /\ ~is_restored(drains[d])
     /\ is_closed(fence, t) => fence[t].drain = d
     /\ g <= Bounds.generation
     /\ fence' = ReopenedFence(d)
     /\ drains' = [drains EXCEPT ![d] =
                     [transition(@, "restoring", now) EXCEPT !.restore_generation = g]]
     /\ sent' = sent \cup {[type |-> "reopen", target |-> t, generation |-> g]}
                     \cup {[type |-> "restore", drain |-> d, obligation |-> o,
                            generation |-> g] : o \in outstanding_for(t)}
     /\ UNCHANGED <<callVars, requestVars, obligationVars, status, evidence, authorityVars>>

\* A resume that still meets blockers leaves the drain blocked: no step.
resume_drain(d, a) ==
  /\ LockFree
  /\ require_authority(a)
  /\ drains[d].state = "blocked"
  /\ evaluate_state(d, drains[d], drains[d].blocked_from, evidence) = {}
  /\ drains' = [drains EXCEPT ![d] = transition(@, @.blocked_from, now)]
  /\ UNCHANGED <<callVars, requestVars, obligationVars, status, sent, fence, evidence,
                 authorityVars>>

\* o = 0 extends the grace of every obligation.  A grant resets the retry budget.
grant_exception(d, o, extension, a) ==
  /\ LockFree
  /\ require_authority(a)
  /\ extension > 0
  /\ ~is_settled(drains[d].state)
  /\ Cardinality(grants(d)) < Policy.max_exception_extensions
  /\ exceptions' = Append(exceptions, [drain |-> d, obligation |-> o, extension |-> extension])
  /\ drains' = [drains EXCEPT ![d].evacuation_requests = 0]
  /\ UNCHANGED <<callVars, drain_high_water, sets, obligationVars, status, sent, fence,
                 evidence, authorityVars>>

------------------------------------------------------------------------------
(* step_drain.  Each branch takes the drain d, its record r and the ledger *)
(* led as they stand when the code's switch is entered: a blocked drain    *)
(* whose blockers cleared has been resumed in the same pass by then.       *)

Put(d, r) == drains' = [drains EXCEPT ![d] = r]

\* The branches that only move the drain itself.
Becomes(d, r, led) ==
  /\ Put(d, r)
  /\ evidence' = led
  /\ UNCHANGED <<obligations, status, sent, fence>>

enter_blocked(d, r, led) == Becomes(d, transition(r, "blocked", now), led)

Begin(d, r, led) ==
  /\ r.state = "requested"
  /\ Becomes(d, transition(r, "validating", now), led)

ValidationBlocked(d, r, led) ==
  /\ r.state = "validating"
  /\ evaluate_start(d, r) # {}
  /\ enter_blocked(d, r, led)

\* Slip: the drain does not remember the generation it closed.
CloseUnrecorded(d, r, led) ==
  /\ r.state = "validating"
  /\ evaluate_start(d, r) = {}
  /\ fence' = close(fence, r.target, d)
  /\ Put(d, transition(r, "admission-closed", now))
  /\ evidence' = led
  /\ UNCHANGED <<obligations, status, sent>>

CloseAdmission(d, r, led) ==
  /\ r.state = "validating"
  /\ evaluate_start(d, r) = {}
  /\ fence' = close(fence, r.target, d)
  /\ Put(d, transition([r EXCEPT !.generation = fence[r.target].generation + 1],
                       "admission-closed", now))
  /\ evidence' = led
  /\ UNCHANGED <<obligations, status, sent>>

\* Slip: the settle time is over one instant early.
SettlesEarly(at) == now + 1 < at + Policy.admission_fence_settle

fence_is_settling(at) == now < at + Policy.admission_fence_settle

AwaitFenceSettle(d, r, led) ==
  /\ r.state = "admission-closed"
  /\ fence_is_settling(r.admission_closed_at)
  /\ Becomes(d, r, led)

LeaveAdmissionClosed(d, r, led) ==
  /\ r.state = "admission-closed"
  /\ ~fence_is_settling(r.admission_closed_at)
  /\ LET next == IF outstanding_for(r.target) = {} THEN "quiescing" ELSE "evacuating"
     IN Becomes(d, transition(r, next, now), led)

AllEvacuated(d, r, led) ==
  /\ r.state = "evacuating"
  /\ still_moving(r.target) = {}
  /\ Becomes(d, transition(r, "quiescing", now), led)

EvacuationBlocked(d, r, led) ==
  /\ r.state = "evacuating"
  /\ still_moving(r.target) # {}
  /\ evaluate_evacuation(d, r) # {}
  /\ enter_blocked(d, r, led)

request_is_due(r) ==
  \/ r.evacuation_requests = 0
  \/ now >= r.last_evacuation_at + Policy.evacuation_retry_interval

AwaitEvacuation(d, r, led) ==
  /\ r.state = "evacuating"
  /\ still_moving(r.target) # {}
  /\ evaluate_evacuation(d, r) = {}
  /\ ~request_is_due(r)
  /\ Becomes(d, r, led)

\* The request reserves the next sequence number of the release stream and
\* carries the revision the obligation has now.
EvacuationRequest(d, r, o, led) ==
  [type |-> "evacuate", drain |-> d, obligation |-> o, generation |-> r.generation,
   expected_revision |-> obligations[o].revision,
   evidence_seq |-> high_water(led, ReleaseKey(d, o)) + 1]

RequestEvacuation(d, r, led) ==
  /\ r.state = "evacuating"
  /\ still_moving(r.target) # {}
  /\ evaluate_evacuation(d, r) = {}
  /\ request_is_due(r)
  /\ sent' = sent \cup {EvacuationRequest(d, r, o, led) : o \in still_moving(r.target)}
  /\ Put(d, note_evacuation_attempt(r, now))
  /\ evidence' = led
  /\ UNCHANGED <<obligations, status, fence>>

\* An obligation came back: it has to be evacuated again.
FallBack(d, r, led) ==
  /\ r.state = "quiescing"
  /\ still_moving(r.target) # {}
  /\ Becomes(d, transition(r, "evacuating", now), led)

QuiescenceBlocked(d, r, led) ==
  /\ r.state = "quiescing"
  /\ still_moving(r.target) = {}
  /\ evaluate_quiescence(d, r, led) # {}
  /\ enter_blocked(d, r, led)

\* No blocker and something outstanding: all of it is retirable.
RetireReleased(d, r, led) ==
  /\ r.state = "quiescing"
  /\ still_moving(r.target) = {}
  /\ outstanding_for(r.target) # {}
  /\ evaluate_quiescence(d, r, led) = {}
  /\ obligations' = [o \in ObligationIds |->
                       IF o \in outstanding_for(r.target)
                       THEN apply_state(obligations[o], "retired", obligations[o].release_evidence)
                       ELSE obligations[o]]
  /\ Put(d, r)
  /\ evidence' = led
  /\ UNCHANGED <<status, sent, fence>>

\* The removal step.  The resource leaves service before its removal is
\* recorded; a full ledger leaves the drain blocked with the resource out.
RemoveResource(d, r, led) ==
  /\ r.state = "quiescing"
  /\ outstanding_for(r.target) = {}
  /\ evaluate_quiescence(d, r, led) = {}
  /\ status' = [status EXCEPT ![ResourceOf[r.target]] = "unavailable"]
  /\ IF can_record_removal(d, r, led)
     THEN Put(d, transition(r, "verifying", now))
     ELSE Put(d, transition(r, "blocked", now))
  /\ evidence' = record_removal_evidence(d, r, led)
  /\ UNCHANGED <<obligations, sent, fence>>

\* A verification that fails observes the removal once more if it may.
VerificationLedger(d, r, led) ==
  IF /\ evaluate_verification(d, r, led) # {}
     /\ Policy.reobserve_removal_evidence
     /\ removal_is_reobservable(r)
  THEN record_removal_evidence(d, r, led)
  ELSE led

VerificationBlocked(d, r, led) ==
  /\ r.state = "verifying"
  /\ evaluate_verification(d, r, VerificationLedger(d, r, led)) # {}
  /\ enter_blocked(d, r, VerificationLedger(d, r, led))

\* record_completion keeps the sequence number of the removal proof.
Complete(d, r, led) ==
  LET led2   == VerificationLedger(d, r, led)
      proofs == removal_proofs(d, r, led2)
      proof  == IF Policy.require_quiescence_evidence /\ proofs # {}
                THEN (CHOOSE e \in proofs : TRUE).seq ELSE 0
  IN /\ r.state = "verifying"
     /\ evaluate_verification(d, r, led2) = {}
     /\ Becomes(d, transition([r EXCEPT !.completion_evidence = proof], "drained", now), led2)

AwaitRestoreSettle(d, r, led) ==
  /\ r.state = "restoring"
  /\ fence_is_settling(r.state_since)
  /\ Becomes(d, r, led)

FinishRestoration(d, r, led) ==
  /\ r.state = "restoring"
  /\ ~fence_is_settling(r.state_since)
  /\ status' = IF removal_owned_by(d, r)
               THEN [status EXCEPT ![ResourceOf[r.target]] = "in-service"] ELSE status
  /\ Put(d, mark_restored(transition(r, "cancelled", now), now))
  /\ evidence' = led
  /\ UNCHANGED <<obligations, sent, fence>>

Switch(d, r, led) ==
  \/ Begin(d, r, led)
  \/ ValidationBlocked(d, r, led)
  \/ CloseAdmission(d, r, led)
  \/ AwaitFenceSettle(d, r, led)
  \/ LeaveAdmissionClosed(d, r, led)
  \/ AllEvacuated(d, r, led)
  \/ EvacuationBlocked(d, r, led)
  \/ AwaitEvacuation(d, r, led)
  \/ RequestEvacuation(d, r, led)
  \/ FallBack(d, r, led)
  \/ QuiescenceBlocked(d, r, led)
  \/ RetireReleased(d, r, led)
  \/ RemoveResource(d, r, led)
  \/ VerificationBlocked(d, r, led)
  \/ Complete(d, r, led)
  \/ AwaitRestoreSettle(d, r, led)
  \/ FinishRestoration(d, r, led)

\* A drain blocked in Verifying observes its removal again before it is judged.
RevalidationLedger(d, r) ==
  IF /\ r.blocked_from = "verifying"
     /\ Policy.reobserve_removal_evidence
     /\ removal_is_reobservable(r)
  THEN record_removal_evidence(d, r, evidence)
  ELSE evidence

StayBlocked(d, r) ==
  /\ r.state = "blocked"
  /\ evaluate_state(d, r, r.blocked_from, RevalidationLedger(d, r)) # {}
  /\ Becomes(d, r, RevalidationLedger(d, r))

\* Blockers cleared: the drain resumes and takes its step in the same pass.
Unblock(d, r) ==
  /\ r.state = "blocked"
  /\ evaluate_state(d, r, r.blocked_from, RevalidationLedger(d, r)) = {}
  /\ Switch(d, transition(r, r.blocked_from, now), RevalidationLedger(d, r))

step_drain(d) ==
  \/ Switch(d, drains[d], evidence)
  \/ StayBlocked(d, drains[d])
  \/ Unblock(d, drains[d])

\* A settled drain is skipped.
SkipSettled(d) ==
  /\ is_settled(drains[d].state)
  /\ UNCHANGED <<drains, evidence, obligations, status, sent, fence>>

\* Slip: the pass runs on past the last drain.
RunsPastTheLast(d) == d + 1

\* The drain after d in the pass; after the last one the pass is over.
drain_after(d) == IF d = drain_high_water THEN 1 ELSE d + 1

\* One drain's share of an advance() pass; the last one releases the lock.
advance ==
  /\ drain_high_water > 0
  /\ step_drain(turn) \/ SkipSettled(turn)
  /\ turn' = drain_after(turn)
  /\ UNCHANGED <<now, requestVars, obligation_high_water, authorityVars>>

------------------------------------------------------------------------------
(* Runtime::stop, then Runtime::start from the snapshot it saved.          *)

is_transient(s) ==
  s \in {"validating", "admission-closed", "evacuating", "quiescing", "verifying", "restoring"}

\* Slip: an interrupted drain starts over.
StartsOver(r) == IF is_transient(r.state) THEN [r EXCEPT !.state = "requested"] ELSE r

\* Nothing a previous incarnation was in the middle of is resumed directly.
recovered(r) == IF is_transient(r.state) THEN transition(r, "blocked", now) ELSE r

Restart ==
  /\ LockFree
  /\ incarnation < Bounds.incarnation
  /\ drains' = [d \in DrainIds |-> recovered(drains[d])]
  /\ evidence' = quarantine_all(evidence)
  /\ install_line(incarnation + 1, epoch + 1)
  /\ UNCHANGED <<callVars, requestVars, obligationVars, status, sent, fence>>

------------------------------------------------------------------------------
Report ==
  \E o \in ObligationIds, d \in Inputs.report_drains, g \in 0..Bounds.generation,
    rev \in 1..Bounds.revision, next \in Inputs.report_states, ev \in 0..Bounds.seq :
    report_obligation(o, d, g, rev, next, ev)

Observe ==
  \E k \in Inputs.evidence_keys, seq \in 1..Bounds.seq :
    \/ attest_evidence(k, seq)
    \/ \E g \in 0..Bounds.generation, ep \in 1..Bounds.incarnation, p \in Inputs.producers,
         at \in 0..(now + Policy.evidence_clock_skew) : record_evidence(k, seq, g, ep, p, at)

Admit ==
  \E a \in DOMAIN tokens, deps \in Inputs.dependencies, prot \in Inputs.protections,
    g \in 0..Bounds.generation : admit_obligation(deps, prot, g, a)

Operate ==
  \E a \in DOMAIN tokens :
    \/ \E S \in Inputs.target_sets, n \in Inputs.nonces : request_drain_set(S, a, n)
    \/ \E d \in DrainIds :
         \/ cancel_drain(d, a)
         \/ restore_drain(d, a)
         \/ resume_drain(d, a)
         \/ \E o \in ObligationIds \cup {0}, x \in Inputs.extensions :
              grant_exception(d, o, x, a)

Govern ==
  \/ \E s \in Scopes, v \in Inputs.validities : issue_authority(s, v)
  \/ \E i \in DOMAIN tokens : revoke_authority(i)
  \/ \E i, e \in Inputs.lines : install_authority_line(i, e)
  \/ \E i \in Inputs.incarnations : InstallIncarnation(i)
  \/ \E x \in Resources : add_resource(x)
  \/ \E x \in Resources, s \in Inputs.statuses : report_resource_status(x, s)

Next ==
  \/ Tick
  \/ Govern
  \/ Observe
  \/ Admit
  \/ Report
  \/ Operate
  \/ advance
  \/ Restart

Spec == Init /\ [][Next]_vars
==============================================================================
