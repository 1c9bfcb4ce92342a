------------------------- MODULE DrainActionProofs --------------------------
(***************************************************************************)
(* What the steps of a drain rest on.  PacedInv adds to the invariants of  *)
(* DrainProofs, per drain, what the timers and the retry budget rest on;   *)
(* LedgerIsLive adds what the evidence behind a step is worth.  From these *)
(* follow what a completion, a retirement, a removal and a revalidation    *)
(* may never do.                                                           *)
(***************************************************************************)
EXTENDS DrainProofs, ComponentLemmas

------------------------------------------------------------------------------
(* Timers and retries.                                                     *)

Late == {"evacuating", "quiescing", "verifying"}

\* The states a drain can be blocked in.
Interruptible == {"requested", "validating", "admission-closed", "restoring"} \cup Late

\* Record r at time at: it knows where it was blocked, it is past the settle time
\* of its fence if it is past AdmissionClosed, also when it is blocked there, and
\* it is within its retries.
Paced(r, at) ==
  /\ r.state # "blocked" => r.blocked_from = "none"
  /\ r.state = "blocked" => r.blocked_from \in Interruptible
  /\ r.state \in Late \/ r.blocked_from \in Late
       => at >= r.admission_closed_at + Policy.admission_fence_settle
  /\ r.evacuation_requests <= Policy.max_evacuation_attempts

PacedInv == \A d \in DrainIds : Paced(drains[d], now)

\* A transition keeps the pace unless it starts evacuation before the settle time.
LEMMA PacedTransition ==
  ASSUME NEW r \in DrainRecord, NEW next \in DrainState, NEW at \in Nat, Paced(r, at),
         next \in Late =>
           \/ r.state \in Late
           \/ r.state = "blocked" /\ next = r.blocked_from
           \/ at >= r.admission_closed_at + Policy.admission_fence_settle
  PROVE  Paced(transition(r, next, at), at)
  <1> DEFINE r2 == transition(r, next, at)
             from == IF next = "blocked" THEN r.state
                     ELSE IF r.state = "blocked" THEN "none" ELSE r.blocked_from
             closed_at == IF next = "admission-closed" THEN at ELSE r.admission_closed_at
  <1>1. CASE r2 = r
    BY <1>1, Zenon
  <1>2. CASE /\ r2 = [r EXCEPT !.state = next, !.blocked_from = from, !.state_since = at,
                               !.admission_closed_at = closed_at]
             /\ next # r.state /\ is_legal_drain_transition(r.state, next)
    <2>1. /\ r2.state = next /\ r2.blocked_from = from /\ r2.admission_closed_at = closed_at
          /\ r2.evacuation_requests = r.evacuation_requests
      BY <1>2, Zenon DEF DrainRecord
    <2> HIDE DEF r2
    <2>2. r2.state # "blocked" => r2.blocked_from = "none"
      BY <2>1, Zenon DEF Paced
    <2>3. r2.state = "blocked" => r2.blocked_from \in Interruptible
      BY <1>2, <2>1, Zenon DEF is_legal_drain_transition, LegalTargets, Interruptible, Late, DrainRecord,
                        DrainState
    <2>4. CASE next = "admission-closed"
      BY <2>1, <2>2, <2>3, <2>4, Zenon DEF Paced, Late, r2
    <2>5. CASE next # "admission-closed"
      BY <2>1, <2>2, <2>3, <2>5, Zenon DEF Paced, Late, r2
    <2> QED BY <2>4, <2>5, Zenon
  <1> QED BY <1>1, <1>2, Zenon DEF transition

\* Every branch of the switch keeps the pace of its drain.
LEMMA PacedSwitch ==
  ASSUME TypeOK, NEW d \in DrainIds, NEW r \in DrainRecord, Paced(r, now),
         NEW led \in Ledger, Switch(d, r, led)
  PROVE  \E r2 : drains' = [drains EXCEPT ![d] = r2] /\ Paced(r2, now)
  <1> USE DEF Put, Becomes, enter_blocked
  <1>0. now \in Nat
    BY Zenon DEF TypeOK
  <1>1. \A next \in DrainState \ Late : Paced(transition(r, next, now), now)
    BY <1>0, PacedTransition, Zenon
  <1>2. \A next \in DrainState : r.state \in Late => Paced(transition(r, next, now), now)
    BY <1>0, PacedTransition, Zenon
  <1>3. {"blocked", "validating", "cancelled"} \subseteq DrainState \ Late /\ Late \subseteq DrainState
    BY Zenon DEF DrainState, Late
  <1>4. CASE \/ Begin(d, r, led) \/ ValidationBlocked(d, r, led) \/ EvacuationBlocked(d, r, led)
             \/ QuiescenceBlocked(d, r, led) \/ VerificationBlocked(d, r, led)
    <2>1. PICK next \in {"blocked", "validating"} : drains' = [drains EXCEPT ![d] = transition(r, next, now)]
      BY <1>4, Zenon
         DEF Begin, ValidationBlocked, EvacuationBlocked, QuiescenceBlocked, VerificationBlocked
    <2> QED BY <1>1, <1>3, <2>1, Zenon
  <1>5. CASE \/ AwaitFenceSettle(d, r, led) \/ AwaitEvacuation(d, r, led)
             \/ AwaitRestoreSettle(d, r, led) \/ RetireReleased(d, r, led)
    BY <1>5, Zenon DEF AwaitFenceSettle, AwaitEvacuation, AwaitRestoreSettle, RetireReleased
  <1>6. CASE CloseAdmission(d, r, led)
    <2> DEFINE g == fence[r.target].generation + 1
               r1 == [r EXCEPT !.generation = g]
    <2>0. r.target \in Targets /\ fence[r.target].generation \in Nat
      BY Zenon DEF TypeOK, FenceTypeOK, FenceEntry, DrainRecord
    <2>1. g \in Nat /\ drains' = [drains EXCEPT ![d] = transition(r1, "admission-closed", now)]
      BY <1>6, <2>0 DEF CloseAdmission
    <2> HIDE DEF g
    <2>2. r1 \in DrainRecord /\ Paced(r1, now)
      BY <2>1, Zenon DEF DrainRecord, Paced
    <2> HIDE DEF r1
    <2>3. Paced(transition(r1, "admission-closed", now), now)
      BY <1>0, <2>2, PacedTransition, Zenon DEF DrainState, Late
    <2> QED BY <2>1, <2>3, Zenon
  <1>7. CASE LeaveAdmissionClosed(d, r, led)
    <2>1. PICK next \in {"quiescing", "evacuating"} :
            drains' = [drains EXCEPT ![d] = transition(r, next, now)]
      BY <1>7, Zenon DEF LeaveAdmissionClosed
    <2>2. now >= r.admission_closed_at + Policy.admission_fence_settle
      BY <1>0, <1>7, EngineAssumption
         DEF LeaveAdmissionClosed, fence_is_settling, DrainRecord, PolicyType
    <2>3. Paced(transition(r, next, now), now)
      BY <1>0, <2>2, PacedTransition, Zenon DEF DrainState
    <2> QED BY <2>1, <2>3, Zenon
  <1>8. CASE AllEvacuated(d, r, led) \/ FallBack(d, r, led) \/ RemoveResource(d, r, led)
    <2>1. PICK next \in {"quiescing", "evacuating", "verifying", "blocked"} :
            drains' = [drains EXCEPT ![d] = transition(r, next, now)]
      BY <1>8, Zenon DEF AllEvacuated, FallBack, RemoveResource
    <2>2. r.state \in Late
      BY <1>8, Zenon DEF AllEvacuated, FallBack, RemoveResource, Late
    <2> QED BY <1>2, <1>3, <2>1, <2>2, Zenon DEF Late
  <1>9. CASE RequestEvacuation(d, r, led)
    <2> DEFINE r2 == note_evacuation_attempt(r, now)
    <2>1. drains' = [drains EXCEPT ![d] = r2]
      BY <1>9, Zenon DEF RequestEvacuation
    <2>2. ~(r.evacuation_requests >= Policy.max_evacuation_attempts)
      BY <1>9, Zenon DEF RequestEvacuation, evaluate_evacuation, blocker_if
    <2>3. r.evacuation_requests + 1 <= Policy.max_evacuation_attempts
      BY <2>2, EngineAssumption DEF DrainRecord, PolicyType
    <2>4. /\ r2.evacuation_requests = r.evacuation_requests + 1 /\ r2.state = r.state
          /\ r2.blocked_from = r.blocked_from /\ r2.admission_closed_at = r.admission_closed_at
      BY Zenon DEF note_evacuation_attempt, DrainRecord
    <2> HIDE DEF r2
    <2> QED BY <2>1, <2>3, <2>4, Zenon DEF Paced
  <1>10. CASE Complete(d, r, led)
    <2>1. PICK proof : /\ drains' = [drains EXCEPT ![d] =
                             transition([r EXCEPT !.completion_evidence = proof], "drained", now)]
                       /\ proof \in Nat
      <3>1. \A e \in removal_proofs(d, r, VerificationLedger(d, r, led)) : e.seq \in Nat
        BY RemovalLedgerTypes
           DEF VerificationLedger, removal_proofs, fresh, latest, find, Ledger, Evidence
      <3> DEFINE proofs == removal_proofs(d, r, VerificationLedger(d, r, led))
                 proof == IF Policy.require_quiescence_evidence /\ proofs # {}
                          THEN (CHOOSE e \in proofs : TRUE).seq ELSE 0
      <3>2. proof \in Nat
        BY <3>1, Zenon
      <3> QED BY <1>10, <3>2, Zenon DEF Complete
    <2> DEFINE r1 == [r EXCEPT !.completion_evidence = proof]
    <2>2. r1 \in DrainRecord /\ Paced(r1, now)
      BY <2>1, Zenon DEF DrainRecord, Paced
    <2> HIDE DEF r1
    <2>3. Paced(transition(r1, "drained", now), now)
      BY <1>0, <2>2, PacedTransition, Zenon DEF DrainState, Late
    <2> QED BY <2>1, <2>3, Zenon DEF r1
  <1>11. CASE FinishRestoration(d, r, led)
    <2> DEFINE r1 == transition(r, "cancelled", now)
               r2 == mark_restored(r1, now)
    <2>1. drains' = [drains EXCEPT ![d] = r2] /\ Paced(r1, now) /\ r1 \in DrainRecord
      BY <1>0, <1>1, <1>3, <1>11, TransitionFacts, Zenon DEF FinishRestoration
    <2> HIDE DEF r1
    <2>2. Paced(r2, now)
      BY <2>1, Zenon DEF mark_restored, Paced, DrainRecord
    <2> QED BY <2>1, <2>2, Zenon
  <1> QED BY <1>4, <1>5, <1>6, <1>7, <1>8, <1>9, <1>10, <1>11, SMTT(30) DEF Switch

\* step_drain keeps the pace of its drain, also when it resumes it first.
LEMMA PacedStepDrain ==
  ASSUME TypeOK, NEW d \in DrainIds, Paced(drains[d], now), step_drain(d)
  PROVE  \E r2 : drains' = [drains EXCEPT ![d] = r2] /\ Paced(r2, now)
  <1> DEFINE r == drains[d]
             r1 == transition(r, r.blocked_from, now)
             led == RevalidationLedger(d, r)
  <1>1. r \in DrainRecord /\ now \in Nat /\ evidence \in Ledger
    BY Zenon DEF TypeOK
  <1>2. led \in Ledger
    BY <1>1, RemovalLedgerTypes, Zenon DEF RevalidationLedger
  <1> HIDE DEF r, led
  <1>3. CASE Switch(d, r, evidence)
    BY <1>1, <1>3, PacedSwitch, Zenon DEF r
  <1>4. CASE StayBlocked(d, r)
    BY <1>4, Zenon DEF StayBlocked, Becomes, Put, r
  <1>5. CASE Unblock(d, r)
    <2>1. r.state = "blocked" /\ Switch(d, r1, led)
      BY <1>5, Zenon DEF Unblock, led
    <2>2. r1 = r \/ r.blocked_from \in DrainState
      BY <1>1, Zenon DEF transition, is_legal_drain_transition, LegalTargets, DrainState, DrainRecord
    <2>3. r1 \in DrainRecord /\ Paced(r1, now)
      BY <1>1, <2>1, <2>2, PacedTransition, TransitionFacts, Zenon DEF r
    <2> HIDE DEF r1
    <2> QED BY <1>2, <2>1, <2>3, PacedSwitch, Zenon
  <1> QED BY <1>3, <1>4, <1>5, Zenon DEF step_drain, r

\* The operator's requests keep the pace of every drain: a new one starts from nothing, a
\* resumed one goes back to where it was blocked, an exception resets the count.
LEMMA PacedOperate ==
  ASSUME TypeOK, OneOwner, PacedInv, AnyOperate
  PROVE  PacedInv'
  <1>1. /\ now' = now /\ now \in Nat
        /\ \A d \in DrainIds : drains[d] \in DrainRecord /\ Paced(drains[d], now)
    BY Zenon DEF TypeOK, PacedInv, AnyOperate, request_drain_set, cancel_drain, restore_drain, resume_drain,
           grant_exception, callVars
  <1>2. ASSUME drain_high_water' = drain_high_water, NEW d \in DrainIds, NEW r2,
               drains' = [drains EXCEPT ![d] = r2], Paced(r2, now)
        PROVE  PacedInv'
    <2>1. \A e \in DrainIds : Paced(drains'[e], now)
      BY <1>1, <1>2, Zenon DEF TypeOK
    <2> QED BY <1>1, <1>2, <2>1, Zenon DEF PacedInv, DrainIds, Paced
  <1>3. ASSUME NEW a \in DOMAIN tokens, NEW S \in SUBSET Targets, NEW n \in Nat,
               request_drain_set(S, a, n)
        PROVE  PacedInv'
    <2> DEFINE New == DrainIds' \ DrainIds
    <2>1. S \in SUBSET Targets /\ n \in Nat /\ a \in Nat
      BY DEF TypeOK, AuthorityTypeOK
    <2>2. \A d \in DrainIds : d \in DrainIds' /\ drains'[d] = drains[d]
      BY <1>3, <2>1, RequestMoves, Zenon
    <2>3. PICK f : drains' = [d \in DrainIds' |-> IF d \in DrainIds THEN drains[d]
                                                 ELSE NewDrain(f[d], Len(sets) + 1, a, now)]
      BY <1>3, Zenon DEF request_drain_set, DrainIds
    <2>4. \A d \in New : \E t, s : drains'[d] = NewDrain(t, s, a, now)
      BY <2>3, Zenon
    <2>5. \A t, s : Paced(NewDrain(t, s, a, now), now)
      BY EngineAssumption DEF NewDrain, Paced, Late, PolicyType
    <2>6. \A d \in DrainIds' : Paced(drains'[d], now)
      BY <1>1, <2>2, <2>4, <2>5, Zenon
    <2> QED BY <1>1, <2>6, Zenon DEF PacedInv, Paced
  <1>4. ASSUME NEW d \in DrainIds, NEW a, cancel_drain(d, a)
        PROVE  PacedInv'
    <2>1. Paced(transition(drains[d], "cancelled", now), now)
      BY <1>1, PacedTransition, Zenon DEF DrainState, Late
    <2> QED BY <1>2, <1>4, <2>1, Zenon DEF cancel_drain, requestVars
  <1>5. ASSUME NEW d \in DrainIds, NEW a, resume_drain(d, a)
        PROVE  PacedInv'
    <2> DEFINE r == drains[d]
               r2 == transition(r, r.blocked_from, now)
    <2>1. r2 = r \/ r.blocked_from \in DrainState
      BY <1>1, Zenon DEF transition, is_legal_drain_transition, LegalTargets, DrainState, DrainRecord
    <2>2. Paced(r2, now)
      BY <1>1, <1>5, <2>1, PacedTransition, Zenon DEF resume_drain
    <2>3. drains' = [drains EXCEPT ![d] = r2] /\ drain_high_water' = drain_high_water
      BY <1>5, Zenon DEF resume_drain, requestVars
    <2> HIDE DEF r2
    <2> QED BY <1>2, <2>2, <2>3, Zenon
  <1>6. ASSUME NEW d \in DrainIds, NEW o, NEW x, NEW a, grant_exception(d, o, x, a)
        PROVE  PacedInv'
    <2> DEFINE r == drains[d]
               r2 == [r EXCEPT !.evacuation_requests = 0]
    <2>1. drains' = [drains EXCEPT ![d] = r2] /\ drain_high_water' = drain_high_water
      BY <1>6, Zenon DEF grant_exception
    <2>2. r \in DrainRecord /\ Paced(r, now)
      BY <1>1, Zenon
    <2> HIDE DEF r
    <2>3. Paced(r2, now)
      BY <2>2, EngineAssumption DEF Paced, DrainRecord, PolicyType
    <2> HIDE DEF r2
    <2> QED BY <1>2, <2>1, <2>3, Zenon
  <1>7. ASSUME NEW d \in DrainIds, NEW a, restore_drain(d, a)
        PROVE  PacedInv'
    <2> DEFINE g == ReopenedFence(d)[drains[d].target].generation
               r1 == transition(drains[d], "restoring", now)
               r2 == [r1 EXCEPT !.restore_generation = g]
    <2>1. drains' = [drains EXCEPT ![d] = r2] /\ drain_high_water' = drain_high_water
      BY <1>7, Zenon DEF restore_drain, requestVars
    <2>2. "restoring" \in DrainState \ Late
      BY Zenon DEF DrainState, Late
    <2>3. Paced(r1, now) /\ r1 \in DrainRecord
      BY <1>1, <2>2, PacedTransition, TransitionFacts, Zenon
    <2> HIDE DEF r1, g
    <2>4. Paced(r2, now)
      BY <2>3, Zenon DEF Paced, DrainRecord
    <2> HIDE DEF r2
    <2> QED BY <1>2, <2>1, <2>4, Zenon
  <1> QED BY <1>3, <1>4, <1>5, <1>6, <1>7, Zenon DEF AnyOperate

\* Time only helps: what was settled stays settled when the clock is read again.
LEMMA PacedLater ==
  ASSUME NEW r \in DrainRecord, NEW at \in Nat, NEW later \in Nat, later >= at, Paced(r, at)
  PROVE  Paced(r, later)
  <1>1. r.admission_closed_at + Policy.admission_fence_settle \in Int
    BY EngineAssumption DEF DrainRecord, PolicyType
  <1> QED BY <1>1 DEF Paced

\* Every step of the engine keeps the pace of every drain.
LEMMA PacedNext ==
  ASSUME TypeOK, TypeOK', OneOwner, PacedInv, [AnyNext]_vars
  PROVE  PacedInv'
  <1>1. /\ now \in Nat /\ now' \in Nat
        /\ \A d \in DrainIds : drains[d] \in DrainRecord /\ Paced(drains[d], now)
    BY Zenon DEF TypeOK, PacedInv
  <1>2. CASE UNCHANGED <<drains, drain_high_water>> /\ now' >= now
    <2>1. \A d \in DrainIds : Paced(drains[d], now')
      BY <1>1, <1>2, PacedLater, Zenon
    <2> QED BY <1>2, <2>1, Zenon DEF PacedInv, DrainIds, Paced
  <1>3. CASE advance
    <2>1. turn \in DrainIds /\ drain_high_water' = drain_high_water /\ now' = now
      BY <1>3, EngineAssumption DEF TypeOK, DrainIds, advance, BoundsType, requestVars
    <2>2. CASE SkipSettled(turn)
      BY <1>1, <1>2, <2>1, <2>2 DEF SkipSettled
    <2>3. CASE step_drain(turn)
      <3>1. PICK r2 : drains' = [drains EXCEPT ![turn] = r2] /\ Paced(r2, now)
        BY <1>1, <2>1, <2>3, PacedStepDrain, Zenon
      <3>2. \A e \in DrainIds : Paced(drains'[e], now)
        BY <1>1, <2>1, <3>1, Zenon DEF TypeOK
      <3> QED BY <2>1, <3>2, Zenon DEF PacedInv, DrainIds, Paced
    <2> QED BY <1>3, <2>2, <2>3, Zenon DEF advance
  <1>4. CASE Restart
    <2>1. /\ now' = now /\ drain_high_water' = drain_high_water
          /\ \A d \in DrainIds : drains'[d] = recovered(drains[d])
      BY <1>4, Zenon DEF Restart, callVars, requestVars
    <2>2. ASSUME NEW r \in DrainRecord, Paced(r, now)
          PROVE  Paced(recovered(r), now)
      BY <1>1, <2>2, PacedTransition, Zenon DEF recovered, DrainState, Late
    <2>3. \A d \in DrainIds : Paced(drains'[d], now)
      BY <1>1, <2>1, <2>2, Zenon
    <2> QED BY <2>1, <2>3, Zenon DEF PacedInv, DrainIds, Paced
  <1>5. Tick \/ AnyGovern \/ AnyObserve \/ AnyAdmit \/ AnyReport \/ UNCHANGED vars
          => UNCHANGED <<drains, drain_high_water>>
    BY OtherSteps, Zenon DEF vars, requestVars
  <1>6. AnyGovern \/ AnyObserve \/ AnyAdmit \/ AnyReport \/ UNCHANGED vars => now' = now
    BY Zenon DEF AnyGovern, AnyObserve, AnyAdmit, AnyReport, issue_authority, revoke_authority,
         revoke_tokens, install_authority_line, InstallIncarnation, add_resource, report_resource_status, record_evidence,
         attest_evidence, admit_obligation, report_obligation, callVars, vars
  <1>7. Tick => now' = now + 1
    BY Zenon DEF Tick
  <1> QED BY <1>1, <1>2, <1>3, <1>4, <1>5, <1>6, <1>7, PacedOperate DEF AnyNext

GrantsInv == \A d \in Nat : Cardinality(grants(d)) <= Policy.max_exception_extensions

\* grant_exception is the only operation that adds a grant, and not beyond the limit.
LEMMA GrantsNext ==
  ASSUME TypeOK, GrantsInv, [AnyNext]_vars
  PROVE  GrantsInv'
  <1>1. CASE UNCHANGED exceptions
    BY <1>1, Zenon DEF GrantsInv, grants
  <1>2. ASSUME NEW d \in DrainIds, NEW o, NEW x, NEW a, grant_exception(d, o, x, a)
        PROVE  GrantsInv'
    <2> DEFINE grant == [drain |-> d, obligation |-> o, extension |-> x]
               n == Len(exceptions)
    <2>1. /\ exceptions' = Append(exceptions, grant) /\ exceptions \in Seq(ExceptionGrant)
          /\ Cardinality(grants(d)) < Policy.max_exception_extensions
      BY <1>2, Zenon DEF grant_exception, TypeOK
    <2>2. n \in Nat /\ DOMAIN exceptions = 1..n
      BY <2>1
    <2>3. /\ DOMAIN exceptions' = 1..(n + 1) /\ exceptions'[n + 1] = grant
          /\ \A i \in 1..n : exceptions'[i] = exceptions[i]
      BY <2>1, <2>2
    <2>4. grant.drain = d
      BY Zenon
    <2> HIDE DEF n, grant
    <2>5. grants(d)' = grants(d) \cup {n + 1} /\ n + 1 \notin grants(d)
      BY <2>2, <2>3, <2>4 DEF grants
    <2>6. \A e \in Nat \ {d} : grants(e)' = grants(e)
      BY <2>2, <2>3, <2>4 DEF grants
    <2>7. Cardinality(grants(d)') <= Policy.max_exception_extensions
      <3>1. IsFiniteSet(grants(d))
        <4>1. IsFiniteSet(1..n) /\ grants(d) \subseteq 1..n
          BY <2>2, FS_Interval DEF grants
        <4> QED BY <4>1, FS_Subset, Zenon
      <3>2. Cardinality(grants(d)) \in Nat /\ Policy.max_exception_extensions \in Nat
        BY <3>1, FS_CardinalityType, EngineAssumption, Zenon DEF PolicyType
      <3>3. Cardinality(grants(d)') = Cardinality(grants(d)) + 1
        BY <2>5, <3>1, FS_AddElement, Zenon
      <3> QED BY <2>1, <3>2, <3>3
    <2> QED BY <2>6, <2>7, Zenon DEF GrantsInv
  <1>3. AnyOperate => \/ UNCHANGED exceptions
                   \/ \E d \in DrainIds : \E a, o, x : grant_exception(d, o, x, a)
    BY Zenon DEF AnyOperate, request_drain_set, cancel_drain, restore_drain, resume_drain, requestVars
  <1>4. Tick \/ AnyGovern \/ AnyObserve \/ AnyAdmit \/ AnyReport \/ advance \/ Restart \/ UNCHANGED vars
          => UNCHANGED exceptions
    BY Zenon DEF Tick, AnyGovern, AnyObserve, AnyAdmit, AnyReport, issue_authority, revoke_authority,
         revoke_tokens, install_authority_line, InstallIncarnation, add_resource, report_resource_status, record_evidence,
         attest_evidence, admit_obligation, report_obligation, advance, Restart, requestVars, vars
  <1> QED BY <1>1, <1>2, <1>3, <1>4, Zenon DEF AnyNext

\* A fresh engine has no drain to pace and no grant.
LEMMA PacedInit == Init => PacedInv /\ GrantsInv
  <1> SUFFICES ASSUME Init
               PROVE  PacedInv /\ GrantsInv
    BY Zenon
  <1>1. DrainIds = {} /\ \A d \in Nat : grants(d) = {}
    BY DEF Init, DrainIds, grants
  <1>2. Cardinality({}) = 0 /\ Policy.max_exception_extensions \in Nat
    BY FS_EmptySet, EngineAssumption, Zenon DEF PolicyType
  <1> QED BY <1>1, <1>2 DEF PacedInv, GrantsInv

\* The pace and the grants hold of every reachable state.
THEOREM PaceInvariant == CallSpec => [](TypeOK /\ PacedInv /\ GrantsInv)
  <1>1. DrainInv /\ DrainInv' /\ PacedInv /\ GrantsInv /\ [AnyNext]_vars => PacedInv' /\ GrantsInv'
    BY PacedNext, GrantsNext, Zenon DEF DrainInv, OwnershipInv
  <1>2. DrainInv => TypeOK
    BY Zenon DEF DrainInv
  <1> QED BY <1>1, <1>2, PacedInit, DrainInvariant, PTL DEF CallSpec

\* step_drain waits for admission_fence_settle before evacuation starts, and no restart,
\* resume or blocked state lets a drain get around the wait.
THEOREM FencesSettleFirst == CallSpec => []FenceSettledFirst
  <1>1. PacedInv => FenceSettledFirst
    BY Zenon DEF PacedInv, Paced, FenceSettledFirst, Late
  <1> QED BY <1>1, PaceInvariant, PTL

\* evaluate_evacuation keeps the requests of a drain within max_evacuation_attempts, and
\* grant_exception its grants within max_exception_extensions: retries come to an end.
THEOREM RetriesComeToAnEnd == CallSpec => []RetriesAreBounded
  <1>1. TypeOK /\ PacedInv /\ GrantsInv => RetriesAreBounded
    BY DEF PacedInv, Paced, GrantsInv, RetriesAreBounded, DrainIds, TypeOK
  <1> QED BY <1>1, PaceInvariant, PTL
------------------------------------------------------------------------------
(* The ledger of the engine.                                               *)

\* A ledger in order, whose attested records are all of the live epoch.
LiveLedger(led) ==
  /\ led \in Ledger /\ OrderedLedger(led) /\ KeptLedger(led)
  /\ \A e \in led.records : e.attested => e.epoch = epoch

LedgerIsLive == LiveLedger(evidence)

\* What can_record lets into a ledger, and record() adds to it, is of the live epoch.
LEMMA RecordIsLive ==
  ASSUME NEW led, LiveLedger(led), NEW e \in Evidence,
         NEW live, can_record(led, e, evidence_fence, live)
  PROVE  LiveLedger(record(led, e))
  <1> DEFINE e2 == [e EXCEPT !.attested = TRUE]
  <1>1. led \in Ledger /\ OrderedLedger(led) /\ KeptLedger(led)
    BY Zenon DEF LiveLedger
  <1>2. /\ e.epoch = epoch /\ e.seq > led.latest[e.key]
        /\ has_capacity(led) \/ Retirable(led, e.key) # {}
    BY Zenon DEF can_record, evidence_fence
  <1>3. OrderedLedger(record(led, e)) /\ KeptLedger(record(led, e))
    BY <1>1, <1>2, RecordKeepsNewest, StreamsAssumption, Zenon
  <1>4. record(led, e) \in Ledger /\ \A f \in record(led, e).records : f \in led.records \/ f = e2
    BY <1>1, RecordFacts, Zenon
  <1>5. e2.epoch = epoch
    BY <1>2, Zenon DEF Evidence
  <1> HIDE DEF e2
  <1> QED BY <1>3, <1>4, <1>5, Zenon DEF LiveLedger

\* The engine's own observation of a removal is a piece of evidence.
LEMMA RemovalEvidenceTypes ==
  ASSUME TypeOK, NEW d \in DrainIds, NEW r \in DrainRecord, NEW led \in Ledger
  PROVE  /\ RemovalEvidence(d, r, led) \in Evidence
         /\ RemovalKey(d) \in EvidenceKeys
  <1>1. RemovalKey(d) \in EvidenceKeys
    BY EngineAssumption, StreamsAssumption, SMTT(30) DEF TypeOK, DrainIds, RemovalKey, BoundsType
  <1>2. high_water(led, RemovalKey(d)) + 1 \in Nat
    BY <1>1 DEF high_water, Ledger
  <1>3. epoch \in Nat /\ incarnation \in Nat /\ now \in Nat /\ r.generation \in Nat
    BY Zenon DEF TypeOK, AuthorityTypeOK, DrainRecord
  <1> QED BY <1>1, <1>2, <1>3, Zenon DEF RemovalEvidence, Evidence

\* Recording a removal, if the ledger takes it, keeps the ledger live.
LEMMA RemovalIsLive ==
  ASSUME TypeOK, NEW d \in DrainIds, NEW r \in DrainRecord, NEW led, LiveLedger(led)
  PROVE  /\ LiveLedger(record_removal_evidence(d, r, led))
         /\ LiveLedger(VerificationLedger(d, r, led))
  <1>1. RemovalEvidence(d, r, led) \in Evidence
    BY RemovalEvidenceTypes, Zenon DEF LiveLedger
  <1>2. can_record_removal(d, r, led) => LiveLedger(record(led, RemovalEvidence(d, r, led)))
    BY <1>1, RecordIsLive, Zenon DEF can_record_removal
  <1>3. LiveLedger(record_removal_evidence(d, r, led))
    BY <1>2, Zenon DEF record_removal_evidence
  <1> QED BY <1>3, Zenon DEF VerificationLedger

\* What a resumed drain is when it takes its step.
LEMMA ResumedRecord ==
  ASSUME NEW r \in DrainRecord, r.state = "blocked", NEW at \in Nat, Paced(r, at)
  PROVE  LET r1 == transition(r, r.blocked_from, at)
         IN /\ r1 \in DrainRecord
            /\ r1.state = r.blocked_from
            /\ r1.target = r.target /\ r1.set = r.set /\ r1.authority = r.authority
            /\ r1.generation = r.generation
            /\ r1.evacuation_requests = r.evacuation_requests
            /\ r1.state # "admission-closed" => r1.admission_closed_at = r.admission_closed_at
  <1> DEFINE next == r.blocked_from
             r1 == transition(r, next, at)
  <1>1. next \in Interruptible
    BY Zenon DEF Paced
  <1>2. next \in DrainState /\ next # "blocked" /\ is_legal_drain_transition("blocked", next)
    BY <1>1, Zenon DEF Interruptible, Late, DrainState, is_legal_drain_transition, LegalTargets
  <1>3. r1 = [r EXCEPT !.state = next, !.blocked_from = "none", !.state_since = at,
                       !.admission_closed_at = IF next = "admission-closed" THEN at ELSE @]
    BY <1>2, Zenon DEF transition
  <1>4. r1 \in DrainRecord
    BY <1>2, TransitionFacts, Zenon
  <1> QED BY <1>3, <1>4, Zenon DEF DrainRecord

\* One drain's share of advance() leaves a live ledger.
LEMMA StepLedger ==
  ASSUME TypeOK, PacedInv, LedgerIsLive, NEW d \in DrainIds, step_drain(d)
  PROVE  LiveLedger(evidence')
  <1> DEFINE r == drains[d]
             led == RevalidationLedger(d, r)
             r1 == transition(r, r.blocked_from, now)
  <1>1. r \in DrainRecord /\ now \in Nat /\ Paced(r, now)
    BY Zenon DEF TypeOK, PacedInv
  <1>2. LiveLedger(evidence) /\ LiveLedger(led)
    BY <1>1, RemovalIsLive, Zenon DEF RevalidationLedger, LedgerIsLive
  <1> HIDE DEF r, led
  <1>3. CASE Switch(d, r, evidence)
    BY <1>1, <1>2, <1>3, SwitchLedger, RemovalIsLive
  <1>4. CASE StayBlocked(d, r)
    BY <1>2, <1>4, Zenon DEF StayBlocked, Becomes, led
  <1>5. CASE Unblock(d, r)
    <2>1. r.state = "blocked" /\ Switch(d, r1, led)
      BY <1>5, Zenon DEF Unblock, led
    <2>2. r1 \in DrainRecord
      BY <1>1, <2>1, ResumedRecord, Zenon
    <2> HIDE DEF r1
    <2> QED BY <1>2, <2>1, <2>2, SwitchLedger, RemovalIsLive
  <1> QED BY <1>3, <1>4, <1>5, Zenon DEF step_drain, r

\* Quarantine leaves nothing attested, so a new line starts with a live ledger.
LEMMA QuarantineIsLive ==
  ASSUME LedgerIsLive, evidence' = quarantine_all(evidence)
  PROVE  LedgerIsLive'
  <1>1. evidence \in Ledger /\ OrderedLedger(evidence) /\ KeptLedger(evidence)
    BY Zenon DEF LedgerIsLive, LiveLedger
  <1>2. evidence' \in Ledger /\ \A f \in evidence'.records : ~f.attested
    BY <1>1, QuarantineFacts, Zenon
  <1>3. OrderedLedger(evidence') /\ KeptLedger(evidence')
    BY <1>1, QuarantineKeepsNewest, StreamsAssumption, Zenon
  <1> QED BY <1>2, <1>3, Zenon DEF LedgerIsLive, LiveLedger

\* attest_evidence revives the one record it names, of the live line.
LEMMA AttestIsLive ==
  ASSUME LedgerIsLive, NEW k, NEW seq, attest_evidence(k, seq)
  PROVE  LedgerIsLive'
  <1>1. evidence \in Ledger /\ OrderedLedger(evidence) /\ KeptLedger(evidence)
    BY Zenon DEF LedgerIsLive, LiveLedger
  <1>2. /\ evidence' \in Ledger
        /\ \A f \in evidence'.records :
             \/ f \in evidence.records /\ ~(f.key = k /\ f.seq = seq)
             \/ \E g \in find(evidence, k, seq) : f = [g EXCEPT !.attested = TRUE]
    BY <1>1, AttestFacts DEF attest_evidence
  <1>3. OrderedLedger(evidence') /\ KeptLedger(evidence')
    BY <1>1, AttestKeepsNewest, StreamsAssumption, Zenon DEF attest_evidence
  <1>4. PICK live \in find(evidence, k, seq) : live.epoch = epoch
    BY Zenon DEF attest_evidence, can_attest, evidence_fence
  <1>5. live \in Evidence /\ \A g \in find(evidence, k, seq) : g = live
    BY <1>1, <1>4, Zenon DEF OrderedLedger, find, Ledger
  <1> DEFINE new == [live EXCEPT !.attested = TRUE]
  <1>6. new.epoch = epoch
    BY <1>4, <1>5, Zenon DEF Evidence
  <1>7. \A f \in evidence'.records : f \in evidence.records \/ f = new
    BY <1>2, <1>5, Zenon
  <1>8. epoch' = epoch
    BY Zenon DEF attest_evidence, authorityVars
  <1> HIDE DEF new
  <1> QED BY <1>2, <1>3, <1>6, <1>7, <1>8, Zenon DEF LedgerIsLive, LiveLedger

\* Every step of the engine leaves a live ledger.
LEMMA LedgerNext ==
  ASSUME TypeOK, PacedInv, LedgerIsLive, [AnyNext]_vars
  PROVE  LedgerIsLive'
  <1>1. CASE UNCHANGED <<evidence, epoch>>
    BY <1>1, Zenon DEF LedgerIsLive, LiveLedger
  <1>2. CASE advance
    <2>1. turn \in DrainIds /\ UNCHANGED epoch
      BY <1>2, EngineAssumption DEF TypeOK, DrainIds, advance, BoundsType, authorityVars
    <2>2. LiveLedger(evidence')
      BY <1>2, <2>1, StepLedger, Zenon DEF advance, SkipSettled, LedgerIsLive
    <2> QED BY <2>1, <2>2, Zenon DEF LedgerIsLive, LiveLedger
  <1>3. CASE Restart \/ \E i, e \in Nat : install_authority_line(i, e)
    BY <1>3, QuarantineIsLive, Zenon DEF Restart, install_authority_line
  <1>4. CASE AnyObserve
    <2>1. ASSUME NEW k, NEW seq, attest_evidence(k, seq) PROVE LedgerIsLive'
      BY <2>1, AttestIsLive, Zenon
    <2>2. ASSUME NEW k \in EvidenceKeys, NEW seq \in Nat, NEW g \in Nat, NEW ep \in Nat,
                 NEW p \in Nat, NEW at \in Nat, record_evidence(k, seq, g, ep, p, at)
          PROVE  LedgerIsLive'
      <3> DEFINE e == [key |-> k, seq |-> seq, generation |-> g, epoch |-> ep, producer |-> p,
                       observed_at |-> at, attested |-> FALSE]
      <3>1. e \in Evidence
        BY Zenon DEF Evidence
      <3>2. /\ can_record(evidence, e, evidence_fence, Policy.evidence_requires_live_incarnation)
            /\ evidence' = record(evidence, e) /\ UNCHANGED epoch
        BY <2>2, Zenon DEF record_evidence, authorityVars
      <3> HIDE DEF e
      <3>4. LiveLedger(evidence')
        BY <3>1, <3>2, RecordIsLive, Zenon DEF LedgerIsLive
      <3> QED BY <3>2, <3>4, Zenon DEF LedgerIsLive, LiveLedger
    <2> QED BY <1>4, <2>1, <2>2, Zenon DEF AnyObserve
  <1>5. \/ UNCHANGED vars \/ Tick \/ AnyAdmit \/ AnyReport \/ AnyOperate
        \/ \E s \in Scopes, v \in Nat : issue_authority(s, v)
        \/ \E i \in DOMAIN tokens : revoke_authority(i)
        \/ revoke_tokens
        \/ \E x \in Resources : add_resource(x)
        \/ \E x \in Resources, s \in ResourceStatus : report_resource_status(x, s)
        \/ \E i \in Nat : InstallIncarnation(i)
        => UNCHANGED <<evidence, epoch>>
    BY Zenon DEF vars, Tick, AnyAdmit, AnyReport, AnyOperate, issue_authority, revoke_authority,
       revoke_tokens, InstallIncarnation, install_incarnation, add_resource, report_resource_status,
       admit_obligation, report_obligation,
       request_drain_set, cancel_drain, restore_drain, resume_drain, grant_exception, authorityVars, issue, revoke
  <1> QED BY <1>1, <1>2, <1>3, <1>4, <1>5, Zenon DEF AnyNext, AnyGovern

\* A fresh ledger is empty.
LEMMA LedgerStart == Init => LedgerIsLive
  <1> SUFFICES ASSUME Init PROVE LedgerIsLive
    BY Zenon
  <1>1. evidence \in Ledger /\ evidence.records = {}
    BY Zenon DEF Init, EmptyLedger, Ledger
  <1>2. IsFiniteSet({}) /\ Cardinality({}) = 0
    BY FS_EmptySet, Zenon
  <1>3. \A k \in EvidenceKeys : evidence.latest[k] = NoSeq
    BY Zenon DEF Init, EmptyLedger
  <1>4. KeptLedger(evidence)
    BY <1>1, <1>2, <1>3, StreamsAssumption DEF KeptLedger
  <1>5. OrderedLedger(evidence)
    BY <1>1, Zenon DEF OrderedLedger
  <1> QED BY <1>1, <1>4, <1>5, Zenon DEF LedgerIsLive, LiveLedger

\* Every reachable ledger of the engine is in order and vouches only for the live epoch.
THEOREM LedgerStaysLive == CallSpec => []LedgerIsLive
  <1>1. TypeOK /\ PacedInv /\ LedgerIsLive /\ [AnyNext]_vars => LedgerIsLive'
    BY LedgerNext, Zenon
  <1> QED BY <1>1, LedgerStart, PaceInvariant, PTL DEF CallSpec

------------------------------------------------------------------------------
(* What completion and retirement rest on.                                 *)

\* Of the branches of the switch only Complete ends in Drained, and only a branch that
\* meets a blocker, or a removal the ledger does not take, in Blocked.
LEMMA SwitchEnds ==
  ASSUME TypeOK, NEW d \in DrainIds, NEW r \in DrainRecord, NEW led, Switch(d, r, led),
         drains'[d].state \in {"drained", "blocked"}
  PROVE  \/ drains'[d].state = "drained" /\ Complete(d, r, led)
         \/ /\ drains'[d].state = "blocked"
            /\ \/ ValidationBlocked(d, r, led) \/ EvacuationBlocked(d, r, led)
               \/ QuiescenceBlocked(d, r, led) \/ VerificationBlocked(d, r, led)
               \/ RemoveResource(d, r, led) /\ ~can_record_removal(d, r, led)
  <1> DEFINE Running == DrainState \ {"drained", "blocked"}
  <1>1. r.state \in Running /\ now \in Nat /\ d \in DOMAIN drains
    BY SwitchIsRunning, Zenon DEF is_settled, TypeOK, DrainRecord
  <1>2. \A next \in Running : transition(r, next, now).state \in Running
    BY <1>1, TransitionFacts
  <1>3. \A next \in Running : ~Put(d, transition(r, next, now))
    BY <1>1, <1>2, Zenon DEF Put
  <1>4. ~Put(d, r)
    BY <1>1, Zenon DEF Put
  <1>5. {"validating", "evacuating", "quiescing", "verifying", "cancelled", "admission-closed"}
          \subseteq Running
    BY Zenon DEF DrainState
  <1>6. Put(d, transition(r, "blocked", now)) => drains'[d].state = "blocked"
    <2>1. transition(r, "blocked", now).state \in {r.state, "blocked"}
      BY <1>1, TransitionFacts, Zenon DEF DrainState
    <2> QED BY <1>1, <2>1, Zenon DEF Put
  <1>7. ~CloseAdmission(d, r, led)
    <2> DEFINE rg == [r EXCEPT !.generation = fence[r.target].generation + 1]
    <2>1. rg.state = r.state
      BY Zenon DEF DrainRecord
    <2>2. transition(rg, "admission-closed", now).state \in {r.state, "admission-closed"}
      BY <2>1, Zenon DEF transition, DrainRecord
    <2> HIDE DEF rg
    <2>3. ~Put(d, transition(rg, "admission-closed", now))
      BY <1>1, <1>5, <2>2, Zenon DEF Put
    <2> QED BY <2>3, Zenon DEF CloseAdmission, rg
  <1>8. ~RequestEvacuation(d, r, led)
    <2>1. note_evacuation_attempt(r, now).state = r.state
      BY Zenon DEF note_evacuation_attempt, DrainRecord
    <2> QED BY <1>1, <2>1, Zenon DEF RequestEvacuation, Put
  <1>9. ~FinishRestoration(d, r, led)
    <2>1. transition(r, "cancelled", now) \in DrainRecord
      BY <1>1, <1>5, TransitionFacts, Zenon
    <2>2. mark_restored(transition(r, "cancelled", now), now).state \in Running
      BY <1>2, <1>5, <2>1, Zenon DEF mark_restored, DrainRecord
    <2> QED BY <1>1, <2>2, Zenon DEF FinishRestoration, Put
  <1>10. ~LeaveAdmissionClosed(d, r, led)
    BY <1>3, <1>5, Zenon DEF LeaveAdmissionClosed, Becomes
  <1>11. RemoveResource(d, r, led)
           => ~can_record_removal(d, r, led) /\ drains'[d].state = "blocked"
    BY <1>3, <1>5, <1>6, Zenon DEF RemoveResource
  <1>12. ~Begin(d, r, led) /\ ~AllEvacuated(d, r, led) /\ ~FallBack(d, r, led)
    BY <1>3, <1>5, Zenon DEF Begin, AllEvacuated, FallBack, Becomes
  <1>13. /\ ~AwaitFenceSettle(d, r, led) /\ ~AwaitEvacuation(d, r, led)
         /\ ~RetireReleased(d, r, led) /\ ~AwaitRestoreSettle(d, r, led)
    BY <1>4, Zenon DEF AwaitFenceSettle, AwaitEvacuation, RetireReleased, AwaitRestoreSettle, Becomes
  <1>14. \/ ValidationBlocked(d, r, led) \/ EvacuationBlocked(d, r, led)
         \/ QuiescenceBlocked(d, r, led) \/ VerificationBlocked(d, r, led)
         => drains'[d].state = "blocked"
    BY <1>6, Zenon DEF ValidationBlocked, EvacuationBlocked, QuiescenceBlocked, VerificationBlocked,
       enter_blocked, Becomes
  <1>15. Complete(d, r, led) => drains'[d].state = "drained"
    <2> DEFINE led2   == VerificationLedger(d, r, led)
               proofs == removal_proofs(d, r, led2)
               proof  == IF Policy.require_quiescence_evidence /\ proofs # {}
                         THEN (CHOOSE e \in proofs : TRUE).seq ELSE 0
               rp     == [r EXCEPT !.completion_evidence = proof]
    <2>1. Complete(d, r, led) => Put(d, transition(rp, "drained", now))
      BY Zenon DEF Complete, Becomes
    <2> HIDE DEF proof
    <2>2. rp.state = r.state
      BY Zenon DEF DrainRecord
    <2>3. transition(rp, "drained", now).state \in {r.state, "drained"}
      BY <2>2, Zenon DEF transition, DrainRecord
    <2> HIDE DEF rp
    <2> QED BY <1>1, <2>1, <2>3, Zenon DEF Put
  <1> HIDE DEF Running
  <1> QED BY <1>7, <1>8, <1>9, <1>10, <1>11, <1>12, <1>13, <1>14, <1>15, Zenon DEF Switch

\* A step that completes a drain behind its own fence has the proof of completion.
LEMMA CompleteIsComplete ==
  ASSUME TypeOK, NEW d \in DrainIds, NEW r \in DrainRecord, NEW led, LiveLedger(led),
         Complete(d, r, led), fence[r.target].generation = r.generation
  PROVE  IsComplete(d)
  <1> DEFINE led2   == VerificationLedger(d, r, led)
             proofs == removal_proofs(d, r, led2)
             proof  == IF Policy.require_quiescence_evidence /\ proofs # {}
                       THEN (CHOOSE e \in proofs : TRUE).seq ELSE 0
             rp     == [r EXCEPT !.completion_evidence = proof]
             r2     == transition(rp, "drained", now)
  <1>1. /\ r.state = "verifying" /\ evaluate_verification(d, r, led2) = {}
        /\ drains' = [drains EXCEPT ![d] = r2] /\ evidence' = led2
    BY Zenon DEF Complete, Becomes, Put
  <1>2. LiveLedger(led2)
    BY RemovalIsLive, Zenon
  <1>3. /\ outstanding_for(r.target) = {} /\ removal_owned_by(d, r)
        /\ Policy.require_quiescence_evidence => proofs # {}
    BY <1>1, Zenon DEF evaluate_verification, blocker_if
  <1>4. drains'[d] = r2
    BY <1>1, Zenon DEF TypeOK
  <1> HIDE DEF led2, proofs
  <1>5. rp.state = "verifying" /\ rp.target = r.target /\ rp.completion_evidence = proof
        /\ rp.admission_closed_at = r.admission_closed_at /\ rp = [rp EXCEPT !.state = "verifying"]
    BY <1>1, Zenon DEF DrainRecord
  <1> HIDE DEF proof
  <1>6. /\ r2.target = r.target /\ r2.completion_evidence = proof
        /\ r2.admission_closed_at = r.admission_closed_at
    BY <1>1, Zenon DEF transition, is_legal_drain_transition, LegalTargets, DrainRecord
  <1> HIDE DEF r2, rp
  <1>7. removal_owned_by(d, r2)
    BY <1>3, <1>6, Zenon DEF removal_owned_by, StatusOf
  <1>8. ASSUME Policy.require_quiescence_evidence
        PROVE  \E e \in evidence'.records :
            /\ e.key = RemovalKey(d) /\ e.seq = r2.completion_evidence
            /\ e.attested /\ e.epoch = epoch
            /\ e.generation = fence[r2.target].generation
            /\ e.observed_at \in r2.admission_closed_at..(now + Policy.evidence_clock_skew)
            /\ now <= e.observed_at + Policy.evidence_freshness
    <2> DEFINE e == CHOOSE e \in proofs : TRUE
    <2>1. e \in proofs /\ proof = e.seq
      BY <1>3, <1>8, Zenon DEF proof
    <2> HIDE DEF e
    <2>2. /\ e \in led2.records /\ e.key = RemovalKey(d)
          /\ is_fresh(e, evidence_fence, Policy.evidence_freshness)
          /\ e.generation = r.generation /\ e.observed_at >= r.admission_closed_at
      BY <2>1, Zenon DEF proofs, removal_proofs, fresh, latest, find, proves
    <2>3. /\ e.attested /\ e.epoch = epoch
          /\ e.observed_at <= now + Policy.evidence_clock_skew
          /\ now <= e.observed_at + Policy.evidence_freshness
      BY <2>2, Zenon DEF is_fresh, evidence_fence
    <2>4. e \in Evidence
      BY <1>2, <2>2, Zenon DEF LiveLedger, Ledger
    <2>5. e.observed_at \in r.admission_closed_at..(now + Policy.evidence_clock_skew)
      BY <2>2, <2>3, <2>4 DEF Evidence, DrainRecord
    <2> QED BY <1>1, <1>6, <2>1, <2>2, <2>3, <2>4, <2>5, Zenon
  <1> QED BY <1>3, <1>4, <1>6, <1>7, <1>8, Zenon DEF IsComplete

\* Only advance() completes a drain: no request, resume, exception or restart does.
LEMMA OnlyAdvanceCompletes ==
  ASSUME TypeOK, OneOwner, PacedInv, [AnyNext]_vars, NEW d \in DrainIds, Completes(d)
  PROVE  advance
  <1> DEFINE r == drains[d]
  <1>1. /\ r \in DrainRecord /\ now \in Nat /\ Paced(r, now) /\ drains \in [DrainIds -> DrainRecord]
        /\ r.state # "drained" /\ drains'[d].state = "drained"
    BY Zenon DEF TypeOK, PacedInv, Completes
  <1>2. \A next \in DrainState \ {"drained"} : transition(r, next, now).state # "drained"
    BY <1>1, TransitionFacts, Zenon
  <1>3. "cancelled" \in DrainState \ {"drained"} /\ "blocked" \in DrainState \ {"drained"}
    BY Zenon DEF DrainState
  <1>4. ~(Tick \/ AnyGovern \/ AnyObserve \/ AnyAdmit \/ AnyReport) /\ ~UNCHANGED vars
    BY <1>1, OtherSteps, Zenon DEF vars
  <1>5. ~Restart
    BY <1>1, <1>2, <1>3, Zenon DEF Restart, recovered
  <1>6. ASSUME NEW S \in SUBSET Targets, NEW a \in DOMAIN tokens, NEW n \in Nat,
               request_drain_set(S, a, n)
        PROVE  FALSE
    <2>1. S \in SUBSET Targets /\ a \in Nat /\ n \in Nat
      BY <1>6 DEF TypeOK, AuthorityTypeOK
    <2> QED BY <1>1, <1>6, <2>1, RequestMoves, Zenon
  <1>7. ASSUME NEW f \in DrainIds, NEW a, cancel_drain(f, a)
        PROVE  FALSE
    BY <1>1, <1>2, <1>3, <1>7, Zenon DEF cancel_drain
  <1>8. ASSUME NEW f \in DrainIds, NEW a, restore_drain(f, a)
        PROVE  FALSE
    BY <1>1, <1>8, RestoreMoves, Zenon
  <1>9. ASSUME NEW f \in DrainIds, NEW a, resume_drain(f, a)
        PROVE  FALSE
    <2>1. f = d /\ r.state = "blocked" /\ drains'[d] = transition(r, r.blocked_from, now)
      BY <1>1, <1>9, Zenon DEF resume_drain
    <2>2. r.blocked_from \in DrainState \ {"drained"}
      BY <1>1, <2>1, Zenon DEF Paced, Interruptible, Late, DrainState
    <2> QED BY <1>1, <1>2, <2>1, <2>2, Zenon
  <1>10. ASSUME NEW f \in DrainIds, NEW o, NEW x, NEW a, grant_exception(f, o, x, a)
         PROVE  FALSE
    BY <1>1, <1>10, Zenon DEF grant_exception, DrainRecord
  <1>11. ~AnyOperate
    BY <1>6, <1>7, <1>8, <1>9, <1>10, Zenon DEF AnyOperate
  <1> QED BY <1>4, <1>5, <1>11, Zenon DEF AnyNext

\* The drain whose record advance() changes is the one whose turn it is.
LEMMA AdvanceSteps ==
  ASSUME TypeOK, PacedInv, advance
  PROVE  /\ turn \in DrainIds
         /\ \A d \in DrainIds : drains'[d] # drains[d] => d = turn /\ step_drain(d)
  <1>1. turn \in DrainIds
    BY EngineAssumption DEF TypeOK, DrainIds, advance, BoundsType
  <1>2. Paced(drains[turn], now) /\ drains \in [DrainIds -> DrainRecord]
    BY <1>1, Zenon DEF PacedInv, TypeOK
  <1>3. CASE step_drain(turn)
    <2>1. PICK r2 : drains' = [drains EXCEPT ![turn] = r2]
      BY <1>1, <1>2, <1>3, PacedStepDrain, Zenon
    <2> QED BY <1>1, <1>2, <1>3, <2>1, Zenon
  <1>4. CASE SkipSettled(turn)
    BY <1>1, <1>4, Zenon DEF SkipSettled
  <1> QED BY <1>3, <1>4, Zenon DEF advance

\* A drain past closure has the generation of its target's fence.
LEMMA HeldGeneration ==
  ASSUME FenceHeld, NEW d \in DrainIds, holds_fence(drains[d])
  PROVE  fence[drains[d].target].generation = drains[d].generation
  <1>1. fence[drains[d].target] =
          [closed |-> TRUE, generation |-> drains[d].generation, drain |-> d]
    BY Zenon DEF FenceHeld
  <1> QED BY <1>1

\* A drain that becomes drained has all that evaluate_verification asks for.
LEMMA CompletionStep ==
  ASSUME DrainInv, PacedInv, LedgerIsLive, [AnyNext]_vars, NEW d \in DrainIds, Completes(d)
  PROVE  IsComplete(d)
  <1> DEFINE r == drains[d]
             led == RevalidationLedger(d, r)
             r1 == transition(r, r.blocked_from, now)
  <1>1. /\ TypeOK /\ OneOwner /\ FenceHeld /\ r \in DrainRecord /\ now \in Nat /\ Paced(r, now)
        /\ r.state # "drained" /\ drains'[d].state = "drained"
    BY Zenon DEF DrainInv, OwnershipInv, TypeOK, PacedInv, Completes
  <1>2. step_drain(d)
    BY <1>1, OnlyAdvanceCompletes, AdvanceSteps, Zenon
  <1>3. LiveLedger(evidence) /\ LiveLedger(led)
    BY <1>1, RemovalIsLive, Zenon DEF RevalidationLedger, LedgerIsLive
  <1>4. CASE Switch(d, r, evidence)
    <2>1. Complete(d, r, evidence)
      BY <1>1, <1>4, SwitchEnds, Zenon
    <2>2. fence[r.target].generation = r.generation
      BY <1>1, <2>1, HeldGeneration, Zenon DEF Complete, is_fence_holding_state, holds_fence
    <2> QED BY <1>1, <1>3, <2>1, <2>2, CompleteIsComplete, Zenon
  <1>5. CASE StayBlocked(d, r)
    BY <1>1, <1>5, Zenon DEF StayBlocked, Becomes, Put, TypeOK
  <1>6. CASE Unblock(d, r)
    <2>1. r.state = "blocked" /\ Switch(d, r1, led)
      BY <1>6, Zenon DEF Unblock
    <2>2. /\ r1 \in DrainRecord /\ r1.state = r.blocked_from /\ r1.target = r.target
          /\ r1.generation = r.generation
      BY <1>1, <2>1, ResumedRecord, Zenon
    <2> HIDE DEF r1, led
    <2>3. Complete(d, r1, led)
      BY <1>1, <2>1, <2>2, SwitchEnds, Zenon
    <2>4. fence[r1.target].generation = r1.generation
      BY <1>1, <2>1, <2>2, <2>3, HeldGeneration, Zenon DEF Complete, is_fence_holding_state, holds_fence
    <2> QED BY <1>1, <1>3, <2>2, <2>3, <2>4, CompleteIsComplete, Zenon
  <1> QED BY <1>2, <1>4, <1>5, <1>6, Zenon DEF step_drain

\* A drain becomes Drained only with nothing protected outstanding, its target out of
\* service behind its own fence, and a removal observed in the live epoch, within
\* the closed period and still fresh: no restart, resume or re-observation gets around it.
THEOREM CompletionsAreProven == CallSpec => CompletionIsProven
  <1>1. DrainInv /\ PacedInv /\ LedgerIsLive /\ [AnyNext]_vars
          => [\A d \in DrainIds : Completes(d) => IsComplete(d)]_vars
    BY CompletionStep, Zenon
  <1> QED BY <1>1, DrainInvariant, PaceInvariant, LedgerStaysLive, PTL DEF CallSpec, CompletionIsProven

\* What RetireReleased retires is released, by evidence the drain's own period vouches for.
LEMMA RetiredIsReleased ==
  ASSUME TypeOK, LedgerIsLive, NEW d \in DrainIds, NEW r \in DrainRecord,
         RetireReleased(d, r, evidence), NEW o \in ObligationIds, Retires(o),
         r.target = drains[d].target, r.admission_closed_at = drains[d].admission_closed_at,
         fence[r.target].generation = r.generation
  PROVE  IsReleased(o)
  <1> DEFINE ob == obligations[o]
  <1>1. ob \in ObligationRecord /\ ob.state # "retired" /\ obligations'[o].state = "retired"
    BY Zenon DEF TypeOK, Retires
  <1>2. o \in outstanding_for(r.target) /\ obligations'[o] = apply_state(ob, "retired", ob.release_evidence)
    BY <1>1, Zenon DEF RetireReleased
  <1>3. r.target \in ob.dependencies /\ is_retirable(d, r, o, evidence)
    BY <1>2, Zenon DEF RetireReleased, evaluate_quiescence, blocker_if, outstanding_for, blocks_completion
  <1>4. obligations'[o].release_evidence = ob.release_evidence
    BY <1>1, <1>2, Zenon DEF apply_state, MoveState, ObligationRecord
  <1>5. PICK e \in find(evidence, ReleaseKey(d, o), ob.release_evidence) : proves(e, r)
    BY <1>3, Zenon DEF is_retirable
  <1>6. /\ e \in evidence.records /\ e.key = ReleaseKey(d, o) /\ e.seq = ob.release_evidence
        /\ is_fresh(e, evidence_fence, Policy.evidence_freshness)
        /\ e.generation = r.generation /\ e.observed_at >= r.admission_closed_at
    BY <1>5, Zenon DEF find, proves
  <1>7. e.attested /\ e.epoch = epoch /\ now <= e.observed_at + Policy.evidence_freshness
    BY <1>6, Zenon DEF is_fresh, evidence_fence
  <1> QED BY <1>3, <1>4, <1>6, <1>7, Zenon DEF IsReleased

\* An obligation that advance() retires has all that evaluate_quiescence asks for.
LEMMA RetirementStep ==
  ASSUME DrainInv, PacedInv, LedgerIsLive, NEW o \in ObligationIds, Retires(o)
  PROVE  IsReleased(o)
  <1> DEFINE d == turn
             r == drains[d]
             led == RevalidationLedger(d, r)
             r1 == transition(r, r.blocked_from, now)
  <1>1. TypeOK /\ FenceHeld /\ advance /\ obligations' # obligations
    BY Zenon DEF DrainInv, OwnershipInv, Retires
  <1>2. d \in DrainIds /\ r \in DrainRecord /\ now \in Nat /\ Paced(r, now)
    BY <1>1, AdvanceSteps, Zenon DEF TypeOK, PacedInv
  <1>3. step_drain(d)
    BY <1>1, Zenon DEF advance, SkipSettled
  <1>4. CASE Switch(d, r, evidence)
    <2>1. RetireReleased(d, r, evidence)
      BY <1>1, <1>4, OnlyRetireReleased, Zenon
    <2>2. fence[r.target].generation = r.generation
      BY <1>1, <1>2, <2>1, HeldGeneration, Zenon DEF RetireReleased, is_fence_holding_state, holds_fence
    <2> QED BY <1>1, <1>2, <2>1, <2>2, RetiredIsReleased, Zenon
  <1>5. CASE StayBlocked(d, r)
    BY <1>1, <1>5, Zenon DEF StayBlocked, Becomes
  <1>6. CASE Unblock(d, r)
    <2>1. r.state = "blocked" /\ Switch(d, r1, led)
      BY <1>6, Zenon DEF Unblock
    <2>2. /\ r1 \in DrainRecord /\ r1.state = r.blocked_from /\ r1.target = r.target
          /\ r1.generation = r.generation
          /\ r1.state # "admission-closed" => r1.admission_closed_at = r.admission_closed_at
      BY <1>2, <2>1, ResumedRecord, Zenon
    <2> HIDE DEF r1
    <2>3. RetireReleased(d, r1, led)
      BY <1>1, <2>1, OnlyRetireReleased, Zenon
    <2>4. r1.state = "quiescing" /\ led = evidence
      BY <2>2, <2>3, Zenon DEF RetireReleased, RevalidationLedger
    <2> HIDE DEF led
    <2>5. fence[r1.target].generation = r1.generation
      BY <1>1, <1>2, <2>1, <2>2, <2>4, HeldGeneration, Zenon DEF is_fence_holding_state, holds_fence
    <2> QED BY <1>1, <1>2, <2>2, <2>3, <2>4, <2>5, RetiredIsReleased, Zenon
  <1> QED BY <1>3, <1>4, <1>5, <1>6, Zenon DEF step_drain

\* advance() retires an obligation only on release evidence of the live epoch, for
\* the drain and the generation at work, taken while admission was closed and still fresh.
THEOREM RetirementsAreProven == CallSpec => RetirementIsProven
  <1>1. DrainInv /\ PacedInv /\ LedgerIsLive
          => [\A o \in ObligationIds : Retires(o) => IsReleased(o)]_vars
    BY RetirementStep, Zenon
  <1> QED BY <1>1, DrainInvariant, PaceInvariant, LedgerStaysLive, PTL DEF CallSpec, RetirementIsProven

------------------------------------------------------------------------------
(* What a removal and a revalidation rest on.                              *)

\* Only the removal step of the switch takes a resource out of service, and only after
\* evaluate_quiescence found that the topology can spare it.
LEMMA SwitchRemoves ==
  ASSUME TypeOK, NEW d \in DrainIds, NEW r \in DrainRecord, NEW led, Switch(d, r, led),
         NEW x \in Resources, status[x] = "in-service", status'[x] = "unavailable"
  PROVE  ValidRemoval(status', {x})
  <1>1. status \in [Resources -> ResourceStatus \cup {"absent"}]
    BY Zenon DEF TypeOK
  <1>2. ~FinishRestoration(d, r, led)
    BY <1>1, Zenon DEF FinishRestoration
  <1>3. status' # status
    BY Zenon
  <1>4. RemoveResource(d, r, led)
    BY <1>2, <1>3, Zenon DEF Switch, Begin, ValidationBlocked, CloseAdmission, AwaitFenceSettle,
     LeaveAdmissionClosed, AllEvacuated, EvacuationBlocked, AwaitEvacuation, RequestEvacuation,
     FallBack, QuiescenceBlocked, RetireReleased, VerificationBlocked, Complete,
     AwaitRestoreSettle, Becomes, enter_blocked
  <1>5. x = ResourceOf[r.target] /\ status' = [status EXCEPT ![x] = "unavailable"]
    BY <1>1, <1>4, Zenon DEF RemoveResource
  <1>6. ValidRemoval(status, {x})
    BY <1>4, <1>5, Zenon DEF RemoveResource, evaluate_quiescence, blocker_if, StatusOf
  <1> QED BY <1>1, <1>5, <1>6, RemovalAssumption, Zenon

\* No step that moves a drain breaks a commitment by a removal.
LEMMA RemovalStep ==
  ASSUME TypeOK, PacedInv, [AnyNext]_vars, NEW x \in Resources,
         drains' # drains, status[x] = "in-service", status'[x] = "unavailable"
  PROVE  ValidRemoval(status', {x})
  <1> DEFINE d == turn
             r == drains[d]
  <1>1. ~(Tick \/ AnyGovern \/ AnyObserve \/ AnyAdmit \/ AnyReport) /\ ~UNCHANGED vars
    BY OtherSteps, Zenon DEF vars
  <1>2. AnyOperate \/ Restart => status' = status
    <2>1. Restart => status' = status
      BY Zenon DEF Restart
    <2>2. AnyOperate => status' = status
      BY ZenonT(40) DEF AnyOperate, request_drain_set, cancel_drain, restore_drain, resume_drain,
                        grant_exception
    <2> QED BY <2>1, <2>2, Zenon
  <1>3. advance
    BY <1>1, <1>2, Zenon DEF AnyNext
  <1>4. d \in DrainIds /\ r \in DrainRecord /\ now \in Nat /\ Paced(r, now)
    BY <1>3, AdvanceSteps, Zenon DEF TypeOK, PacedInv
  <1>5. step_drain(d)
    BY <1>3, Zenon DEF advance, SkipSettled
  <1>6. ~StayBlocked(d, r)
    BY Zenon DEF StayBlocked, Becomes
  <1>7. CASE Switch(d, r, evidence)
    BY <1>4, <1>7, SwitchRemoves, Zenon
  <1>8. CASE Unblock(d, r)
    <2>1. r.state = "blocked" /\ Switch(d, transition(r, r.blocked_from, now), RevalidationLedger(d, r))
      BY <1>8, Zenon DEF Unblock
    <2>2. transition(r, r.blocked_from, now) \in DrainRecord
      BY <1>4, <2>1, ResumedRecord, Zenon
    <2> QED BY <1>4, <2>1, <2>2, SwitchRemoves, Zenon
  <1> QED BY <1>5, <1>6, <1>7, <1>8, Zenon DEF step_drain

\* When step_drain takes a resource out of service the topology's commitments still hold,
\* whatever was drained, reported or restored since the drain was validated.
THEOREM RemovalsKeepCommitments == CallSpec => RemovalKeepsCommitments
  <1>1. TypeOK /\ PacedInv /\ [AnyNext]_vars
          => [\A x \in Resources :
                drains' # drains /\ status[x] = "in-service" /\ status'[x] = "unavailable"
                  => ValidRemoval(status', {x})]_vars
    BY RemovalStep, Zenon
  <1> QED BY <1>1, PaceInvariant, PTL DEF CallSpec, RemovalKeepsCommitments

\* A resumed drain meets the very blockers that its revalidation looked for.
LEMMA ResumedIsJudgedAlike ==
  ASSUME NEW d, NEW r \in DrainRecord, NEW r1, NEW led,
         r1.target = r.target, r1.set = r.set, r1.authority = r.authority,
         r1.generation = r.generation, r1.evacuation_requests = r.evacuation_requests
  PROVE  /\ evaluate_start(d, r1) = evaluate_start(d, r)
         /\ evaluate_evacuation(d, r1) = evaluate_evacuation(d, r)
         /\ r1.admission_closed_at = r.admission_closed_at
              => /\ evaluate_quiescence(d, r1, led) = evaluate_quiescence(d, r, led)
                 /\ evaluate_verification(d, r1, led) = evaluate_verification(d, r, led)
  <1>1. /\ StatusOf(r1) = StatusOf(r) /\ authority_rejected(r1) = authority_rejected(r)
        /\ removal_owned_by(d, r1) = removal_owned_by(d, r)
    BY Zenon DEF StatusOf, authority_rejected, removal_owned_by
  <1>2. /\ active_drains_in_domain(d, r1) = active_drains_in_domain(d, r)
        /\ predecessor_waiting(d, r1) = predecessor_waiting(d, r)
        /\ predecessor_unsettled(d, r1) = predecessor_unsettled(d, r)
    BY Zenon DEF active_drains_in_domain, predecessor_waiting, predecessor_unsettled, SameDomain
  <1>3. evaluate_start(d, r1) = evaluate_start(d, r)
    BY <1>1, <1>2, Zenon DEF evaluate_start
  <1>4. evaluate_evacuation(d, r1) = evaluate_evacuation(d, r)
    BY Zenon DEF evaluate_evacuation
  <1>5. ASSUME r1.admission_closed_at = r.admission_closed_at
        PROVE  /\ evaluate_quiescence(d, r1, led) = evaluate_quiescence(d, r, led)
               /\ evaluate_verification(d, r1, led) = evaluate_verification(d, r, led)
    <2>1. \A e : proves(e, r1) = proves(e, r)
      BY <1>5, Zenon DEF proves
    <2>2. \A o : is_retirable(d, r1, o, led) = is_retirable(d, r, o, led)
      BY <2>1, Zenon DEF is_retirable
    <2>3. removal_proofs(d, r1, led) = removal_proofs(d, r, led)
      BY <2>1, Zenon DEF removal_proofs
    <2>4. evaluate_quiescence(d, r1, led) = evaluate_quiescence(d, r, led)
      BY <1>1, <2>2, Zenon DEF evaluate_quiescence
    <2>5. evaluate_verification(d, r1, led) = evaluate_verification(d, r, led)
      BY <1>1, <2>3, Zenon DEF evaluate_verification
    <2> QED BY <2>4, <2>5, Zenon
  <1> QED BY <1>3, <1>4, <1>5, Zenon

\* A drain that step_drain resumes is blocked again in the same pass only where the ledger
\* can take no record of its removal.
LEMMA UnblockedStaysUnblocked ==
  ASSUME TypeOK, PacedInv, NEW d \in DrainIds, Unblock(d, drains[d]),
         drains'[d].state = "blocked"
  PROVE  drains[d].blocked_from = "quiescing" /\ RemovalUnrecordable(d)
  <1> DEFINE r == drains[d]
             led == RevalidationLedger(d, r)
             r1 == transition(r, r.blocked_from, now)
  <1>1. r \in DrainRecord /\ now \in Nat /\ Paced(r, now) /\ r.state = "blocked"
    BY Zenon DEF TypeOK, PacedInv, Unblock
  <1>2. Switch(d, r1, led) /\ evaluate_state(d, r, r.blocked_from, led) = {}
    BY Zenon DEF Unblock
  <1>3. /\ r1 \in DrainRecord /\ r1.state = r.blocked_from
        /\ r1.target = r.target /\ r1.set = r.set /\ r1.authority = r.authority
        /\ r1.generation = r.generation /\ r1.evacuation_requests = r.evacuation_requests
        /\ r1.state # "admission-closed" => r1.admission_closed_at = r.admission_closed_at
    BY <1>1, ResumedRecord, Zenon
  <1>4. r.blocked_from # "verifying" => led = evidence
    BY Zenon DEF RevalidationLedger
  <1>5. can_record_removal(d, r1, led) = can_record_removal(d, r, led)
    BY <1>3, Zenon DEF can_record_removal, RemovalEvidence
  <1>11. RemovalUnrecordable(d) = ~can_record_removal(d, r, evidence)
    BY Zenon DEF RemovalUnrecordable
  <1> HIDE DEF r, led, r1
  <1>6. /\ evaluate_start(d, r1) = evaluate_start(d, r)
        /\ evaluate_evacuation(d, r1) = evaluate_evacuation(d, r)
        /\ r1.state # "admission-closed"
              => /\ evaluate_quiescence(d, r1, led) = evaluate_quiescence(d, r, led)
                 /\ evaluate_verification(d, r1, led) = evaluate_verification(d, r, led)
    BY <1>1, <1>3, ResumedIsJudgedAlike
  <1>7. ~ValidationBlocked(d, r1, led)
    BY <1>2, <1>3, <1>6, Zenon DEF ValidationBlocked, evaluate_state
  <1>8. ~EvacuationBlocked(d, r1, led)
    BY <1>2, <1>3, <1>6, Zenon DEF EvacuationBlocked, evaluate_state
  <1>9. ~QuiescenceBlocked(d, r1, led)
    BY <1>2, <1>3, <1>6, Zenon DEF QuiescenceBlocked, evaluate_state
  <1>10. ~VerificationBlocked(d, r1, led)
    BY <1>2, <1>3, <1>6, Zenon DEF VerificationBlocked, VerificationLedger, evaluate_state
  <1>12. RemoveResource(d, r1, led) /\ ~can_record_removal(d, r1, led)
    BY <1>2, <1>3, <1>7, <1>8, <1>9, <1>10, SwitchEnds, Zenon
  <1>13. r.blocked_from = "quiescing"
    BY <1>3, <1>12, Zenon DEF RemoveResource
  <1> QED BY <1>4, <1>5, <1>11, <1>12, <1>13, Zenon DEF r

\* A blocked drain that any step leaves blocked is left as it was, or its removal cannot be
\* recorded.
LEMMA BlockedStep ==
  ASSUME TypeOK, OneOwner, PacedInv, [AnyNext]_vars, NEW d \in DrainIds,
         drains[d].state = "blocked", drains'[d].state = "blocked",
         drains'[d].state_since # drains[d].state_since
  PROVE  drains[d].blocked_from = "quiescing" /\ RemovalUnrecordable(d)
  <1> DEFINE r == drains[d]
  <1> SUFFICES ASSUME ~(r.blocked_from = "quiescing" /\ RemovalUnrecordable(d)) PROVE FALSE
    BY Zenon
  <1>1. /\ r \in DrainRecord /\ now \in Nat /\ Paced(r, now) /\ drains \in [DrainIds -> DrainRecord]
    BY Zenon DEF TypeOK, PacedInv
  <1>2. ~(Tick \/ AnyGovern \/ AnyObserve \/ AnyAdmit \/ AnyReport) /\ ~UNCHANGED vars
    BY OtherSteps, Zenon DEF vars
  <1>3. ~Restart
    BY <1>1, Zenon DEF Restart, recovered, is_transient
  <1>4. ~advance
    <2>1. advance => step_drain(d)
      BY AdvanceSteps, Zenon
    <2>2. ~Switch(d, r, evidence)
      BY SwitchIsRunning, Zenon
    <2>3. ~StayBlocked(d, r)
      BY <1>1, Zenon DEF StayBlocked, Becomes, Put
    <2>4. ~Unblock(d, r)
      BY UnblockedStaysUnblocked, Zenon
    <2> QED BY <2>1, <2>2, <2>3, <2>4, Zenon DEF step_drain
  <1>5. ASSUME NEW S \in SUBSET Targets, NEW a \in DOMAIN tokens, NEW n \in Nat,
               request_drain_set(S, a, n)
        PROVE  FALSE
    <2>1. S \in SUBSET Targets /\ a \in Nat /\ n \in Nat
      BY <1>5, TokenNames, Zenon
    <2> QED BY <1>1, <1>5, <2>1, RequestMoves, Zenon
  <1>6. ASSUME NEW f \in DrainIds, NEW a, cancel_drain(f, a)
        PROVE  FALSE
    <2>1. f = d /\ drains'[d] = transition(r, "cancelled", now)
      BY <1>1, <1>6, Zenon DEF cancel_drain
    <2> QED BY <1>1, <2>1, LegalMove DEF LegalTargets, DrainState
  <1>7. ASSUME NEW f \in DrainIds, NEW a, restore_drain(f, a)
        PROVE  FALSE
    BY <1>1, <1>7, RestoreMoves, Zenon
  <1>8. ASSUME NEW f \in DrainIds, NEW a, resume_drain(f, a)
        PROVE  FALSE
    <2>1. f = d /\ drains'[d] = transition(r, r.blocked_from, now)
      BY <1>1, <1>8, Zenon DEF resume_drain
    <2>2. r.blocked_from # "blocked"
      BY <1>1, Zenon DEF Paced, Interruptible, Late
    <2> QED BY <1>1, <2>1, <2>2, ResumedRecord
  <1>9. ASSUME NEW f \in DrainIds, NEW o, NEW x, NEW a, grant_exception(f, o, x, a)
        PROVE  FALSE
    BY <1>1, <1>9, Zenon DEF grant_exception, DrainRecord
  <1>10. CASE AnyOperate
    BY <1>5, <1>6, <1>7, <1>8, <1>9, <1>10, Zenon DEF AnyOperate
  <1> QED BY <1>2, <1>3, <1>4, <1>10, Zenon DEF AnyNext

\* Revalidation and the step agree: a drain that step_drain or resume_drain takes out of
\* Blocked falls back in the same pass only from the removal step, and only while the ledger
\* can take no record of its removal.
THEOREM BlockedDrainsAreStable == CallSpec => BlockedIsStable
  <1>1. DrainInv /\ PacedInv /\ [AnyNext]_vars
          => [\A d \in DrainIds :
                /\ drains[d].state = "blocked" /\ drains'[d].state = "blocked"
                /\ drains'[d].state_since # drains[d].state_since
                => drains[d].blocked_from = "quiescing" /\ RemovalUnrecordable(d)]_vars
    BY BlockedStep, Zenon DEF DrainInv, OwnershipInv
  <1> QED BY <1>1, DrainInvariant, PaceInvariant, PTL DEF CallSpec, BlockedIsStable
==============================================================================
