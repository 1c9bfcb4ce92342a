--------------------------- MODULE ContractProofs ---------------------------
(***************************************************************************)
(* DrainEngine implements DrainContract, for any targets, domains, policy  *)
(* and bounds, and so keeps the limit and the order of every failure       *)
(* domain.  Each step of the engine moves the phase of at most one drain;  *)
(* blocking, resuming and restarting move none.                            *)
(***************************************************************************)
EXTENDS DrainProofs, DrainRefinement, FiniteSetTheorems

\* A blocked drain has a state to return to, and only a cancelled one was restored.
Sound(r) ==
  /\ r.state = "blocked" =>
       r.blocked_from \in {"requested", "validating", "admission-closed", "evacuating",
                           "quiescing", "verifying", "restoring"}
  /\ r.restored_at # 0 => r.state = "cancelled"

\* The phase of a record, state by state.
LEMMA PhaseTable ==
  ASSUME NEW r \in DrainRecord, Sound(r)
  PROVE  /\ phase(r) \in {"waiting", "holding", "drained", "ended", "restoring", "restored"}
         /\ phase(r) = "waiting" <=> is_waiting(r)
         /\ phase(r) = "holding" <=> holds_fence(r)
         /\ phase(r) = "restoring" <=> is_restoring(r)
         /\ phase(r) = "drained" <=> r.state = "drained"
         /\ phase(r) = "restored" <=> is_restored(r)
         /\ phase(r) = "ended" <=> r.state = "failed" \/ (r.state = "cancelled" /\ r.restored_at = 0)
         /\ is_settled(r.state) <=> phase(r) \in {"drained", "ended", "restored"}
  <1>1. r.state \in DrainState
    BY Zenon DEF DrainRecord
  <1>2. /\ is_waiting(r) => ~holds_fence(r) /\ ~is_restoring(r) /\ ~is_settled(r.state)
        /\ holds_fence(r) => ~is_restoring(r) /\ ~is_settled(r.state)
        /\ is_restoring(r) => ~is_settled(r.state)
        /\ is_waiting(r) \/ holds_fence(r) \/ is_restoring(r) \/ is_settled(r.state)
    BY <1>1, Zenon DEF is_waiting, holds_fence, is_fence_holding_state, is_restoring, is_settled, Sound,
                DrainState
  <1>3. CASE is_waiting(r)
    BY <1>2, <1>3, Zenon DEF phase, is_settled, is_restored
  <1>4. CASE holds_fence(r)
    BY <1>2, <1>4, Zenon DEF phase, is_settled, is_restored
  <1>5. CASE is_restoring(r)
    BY <1>2, <1>5, Zenon DEF phase, is_settled, is_restored
  <1>6. CASE is_settled(r.state)
    <2>1. ~is_waiting(r) /\ ~holds_fence(r) /\ ~is_restoring(r)
      BY <1>2, <1>6, Zenon
    <2>2. CASE r.state = "drained"
      BY <2>1, <2>2, Zenon DEF phase, is_settled, is_restored
    <2>3. CASE r.state = "cancelled" /\ r.restored_at # 0
      BY <2>1, <2>3, Zenon DEF phase, is_settled, is_restored
    <2>4. CASE r.state = "failed" \/ (r.state = "cancelled" /\ r.restored_at = 0)
      BY <2>1, <2>4, Zenon DEF phase, is_settled, is_restored
    <2> QED BY <1>6, <2>2, <2>3, <2>4, Zenon DEF is_settled
  <1> QED BY <1>2, <1>3, <1>4, <1>5, <1>6, Zenon

\* How the phase of a drain may change when no fence moves.
PhaseMoves(p, q) ==
  \/ p = q
  \/ p = "holding" /\ q = "drained"
  \/ p \in {"waiting", "holding", "restoring"} /\ q = "ended"
  \/ p = "restoring" /\ q = "restored"

PhaseStep(r, r2) ==
  /\ r2 \in DrainRecord /\ Sound(r2)
  /\ r2.target = r.target /\ r2.set = r.set
  /\ PhaseMoves(phase(r), phase(r2))

\* transition keeps the set a drain belongs to.
LEMMA TransitionKeepsSet ==
  ASSUME NEW r \in DrainRecord, NEW next \in DrainState, NEW at \in Nat
  PROVE  transition(r, next, at).set = r.set
  BY Zenon DEF transition, DrainRecord

\* The transitions that step_drain, cancel_drain and a restart make, but for the closure.
LEMMA PhaseOfTransition ==
  ASSUME NEW r \in DrainRecord, Sound(r), NEW next \in DrainState, NEW at \in Nat,
         \/ next \in {"blocked", "cancelled"}
         \/ is_fence_holding_state(next) /\ is_fence_holding_state(r.state)
         \/ next = "drained" /\ is_fence_holding_state(r.state)
         \/ next = "validating" /\ r.state = "requested"
         \/ r.state = "blocked" /\ next = r.blocked_from
  PROVE  /\ PhaseStep(r, transition(r, next, at))
         /\ r.state = "blocked" /\ next = r.blocked_from
              => phase(transition(r, next, at)) = phase(r)
         /\ next = "blocked" => phase(transition(r, next, at)) = phase(r)
  <1> DEFINE r2 == transition(r, next, at)
  <1>1. /\ r2 \in DrainRecord /\ r2.target = r.target /\ r2.restored_at = r.restored_at
        /\ r2.state \in {r.state, next}
        /\ r2.state = r.state => r2 = r
        /\ r2.state # r.state /\ next = "blocked" => r2.blocked_from = r.state
        /\ r2.state # r.state => is_legal_drain_transition(r.state, next)
    BY TransitionFacts, Zenon
  <1>2. r2.set = r.set
    BY TransitionKeepsSet, Zenon
  <1> HIDE DEF r2
  <1>3. CASE r2 = r
    BY <1>1, <1>2, <1>3, Zenon DEF PhaseStep, PhaseMoves, r2
  <1>4. CASE r2.state # r.state /\ r2.state = next
    <2>1. next \in LegalTargets(r.state) /\ r.state \in DrainState
      BY <1>1, <1>4, Zenon DEF is_legal_drain_transition, DrainRecord
    <2>2. r.state # "drained" /\ (next = "blocked" => r.state \notin {"cancelled", "failed"})
      BY <2>1, Zenon DEF LegalTargets, is_fence_holding_state
    <2>3. Sound(r2)
      BY <1>1, <1>4, <2>2, Zenon DEF Sound, is_fence_holding_state, DrainState, DrainRecord
    <2>4. /\ r2.state = "cancelled" /\ r.state # "cancelled" => ~is_restored(r2)
      BY <1>1, Zenon DEF Sound, is_restored
    <2> USE DEF is_waiting, holds_fence, is_fence_holding_state, is_restoring
    <2>5. CASE next = "blocked"
      <3>1. r2.state = "blocked" /\ r2.blocked_from = r.state /\ ~is_settled(r.state)
        BY <1>1, <1>4, <2>2, <2>5, Zenon DEF is_settled
      <3>2. phase(r2) = phase(r)
        BY <1>1, <1>4, <2>3, <2>5, <3>1, PhaseTable, SMTT(30)
      <3> QED BY <1>1, <1>2, <2>3, <2>5, <3>2, Zenon DEF PhaseStep, PhaseMoves, r2
    <2>6. CASE next = "cancelled"
      <3>1. phase(r2) = "ended"
        BY <1>1, <1>4, <2>3, <2>4, <2>6, PhaseTable, Zenon DEF is_restored
      <3>2. phase(r) \notin {"drained", "restored"}
        BY <1>1, <1>4, <2>2, <2>6, PhaseTable, Zenon DEF is_restored
      <3>3. PhaseMoves(phase(r), phase(r2))
        BY <3>1, <3>2, PhaseTable, Zenon DEF PhaseMoves
      <3> QED BY <1>1, <1>2, <2>3, <2>6, <3>3, Zenon DEF PhaseStep, r2, Sound
    <2>7. CASE is_fence_holding_state(next) /\ is_fence_holding_state(r.state)
      <3>1. phase(r2) = "holding" /\ phase(r) = "holding"
        BY <1>1, <1>4, <2>3, <2>7, PhaseTable, Zenon
      <3> QED BY <1>1, <1>2, <2>3, <2>7, <3>1, Zenon DEF PhaseStep, PhaseMoves, r2
    <2>8. CASE next = "drained" /\ is_fence_holding_state(r.state)
      <3>1. phase(r2) = "drained" /\ phase(r) = "holding"
        BY <1>1, <1>4, <2>3, <2>8, PhaseTable, Zenon
      <3> QED BY <1>1, <1>2, <2>3, <2>8, <3>1, Zenon DEF PhaseStep, PhaseMoves, r2
    <2>9. CASE next = "validating" /\ r.state = "requested"
      <3>1. phase(r2) = "waiting" /\ phase(r) = "waiting"
        BY <1>1, <1>4, <2>3, <2>9, PhaseTable, Zenon
      <3> QED BY <1>1, <1>2, <2>3, <2>9, <3>1, Zenon DEF PhaseStep, PhaseMoves, r2
    <2>10. CASE r.state = "blocked" /\ next = r.blocked_from
      <3>1. phase(r2) = phase(r)
        BY <1>1, <1>4, <2>3, <2>10, PhaseTable, SMTT(30) DEF Sound
      <3> QED BY <1>1, <1>2, <2>3, <2>10, <3>1, Zenon DEF PhaseStep, PhaseMoves, r2
    <2> QED BY <2>5, <2>6, <2>7, <2>8, <2>9, <2>10, Zenon
  <1> QED BY <1>1, <1>3, <1>4, Zenon

------------------------------------------------------------------------------
(* step_drain.                                                             *)

\* What evaluate_start has checked when it finds no blocker.
MayClose(d, t, s) ==
  /\ fence[t].closed => fence[t].drain = d
  /\ Cardinality({e \in DrainIds \ {d} : /\ DomainOf[drains[e].target] = DomainOf[t]
                                         /\ holds_fence(drains[e])})
       < Policy.max_concurrent_drains_per_domain
  /\ \A e \in DrainIds :
       e < d /\ DomainOf[drains[e].target] = DomainOf[t] => ~is_waiting(drains[e])
  /\ Policy.serialize_same_domain_in_set =>
       \A e \in DrainIds :
         e < d /\ drains[e].set = s /\ DomainOf[drains[e].target] = DomainOf[t]
           => is_settled(drains[e].state)

\* No blocker: the fence is free, and the domain has room and nobody earlier waits.
LEMMA StartIsFree ==
  ASSUME TypeOK, NEW d \in DrainIds, NEW r \in DrainRecord, evaluate_start(d, r) = {}
  PROVE  MayClose(d, r.target, r.set)
  <1> DEFINE active == active_drains_in_domain(d, r)
             limit == Policy.max_concurrent_drains_per_domain
  <1>1. /\ ~(is_closed(fence, r.target) /\ fence[r.target].drain # d)
        /\ ~(Cardinality(active) >= limit)
        /\ ~predecessor_waiting(d, r)
        /\ ~(Policy.serialize_same_domain_in_set /\ predecessor_unsettled(d, r))
    BY Zenon DEF evaluate_start, blocker_if
  <1>2. Cardinality(active) \in Nat /\ limit \in Nat
    <2>1. IsFiniteSet(DrainIds) /\ active \subseteq DrainIds
      BY FS_Interval DEF DrainIds, TypeOK, active_drains_in_domain
    <2>2. IsFiniteSet(active)
      BY <2>1, FS_Subset, Zenon
    <2> QED BY <2>2, FS_CardinalityType, EngineAssumption, Zenon DEF PolicyType
  <1>3. Cardinality(active) < limit
    <2> HIDE DEF active, limit
    <2> QED BY <1>1, <1>2
  <1>4. active = {e \in DrainIds \ {d} : /\ DomainOf[drains[e].target] = DomainOf[r.target]
                                         /\ holds_fence(drains[e])}
    BY Zenon DEF active_drains_in_domain, SameDomain
  <1> HIDE DEF active
  <1> QED BY <1>1, <1>3, <1>4, Zenon
          DEF MayClose, is_closed, predecessor_waiting, predecessor_unsettled, SameDomain

\* Drain d, whose record was r, closes the admission of its target.
ClosesAt(d, r, r2) ==
  /\ phase(r) = "waiting" /\ phase(r2) = "holding"
  /\ r2 \in DrainRecord /\ Sound(r2)
  /\ r2.target = r.target /\ r2.set = r.set
  /\ MayClose(d, r.target, r.set)
  /\ fence' = close(fence, r.target, d)

\* Every branch of the switch moves the phase of its drain as the contract lets it.
LEMMA SwitchPhases ==
  ASSUME TypeOK, NEW d \in DrainIds, NEW r \in DrainRecord, Sound(r),
         NEW led \in Ledger, Switch(d, r, led)
  PROVE  \E r2 : /\ drains' = [drains EXCEPT ![d] = r2]
                 /\ \/ fence' = fence /\ PhaseStep(r, r2)
                    \/ ClosesAt(d, r, r2)
  <1> USE DEF Put, Becomes, enter_blocked
  <1>0. now \in Nat
    BY Zenon DEF TypeOK
  <1>1. PhaseStep(r, r)
    BY Zenon DEF PhaseStep, PhaseMoves
  <1>2. PhaseStep(r, transition(r, "blocked", now))
    BY <1>0, PhaseOfTransition, Zenon DEF DrainState
  <1>3. CASE Begin(d, r, led)
    <2>1. PhaseStep(r, transition(r, "validating", now))
      BY <1>0, <1>3, PhaseOfTransition, Zenon DEF DrainState, Begin
    <2> QED BY <1>3, <2>1, Zenon DEF Begin
  <1>4. CASE \/ ValidationBlocked(d, r, led) \/ EvacuationBlocked(d, r, led)
             \/ QuiescenceBlocked(d, r, led) \/ VerificationBlocked(d, r, led)
    BY <1>2, <1>4, Zenon DEF ValidationBlocked, EvacuationBlocked, QuiescenceBlocked, VerificationBlocked
  <1>5. CASE \/ AwaitFenceSettle(d, r, led) \/ AwaitEvacuation(d, r, led)
             \/ AwaitRestoreSettle(d, r, led) \/ RetireReleased(d, r, led)
    BY <1>1, <1>5, Zenon DEF AwaitFenceSettle, AwaitEvacuation, AwaitRestoreSettle, RetireReleased
  <1>6. CASE CloseAdmission(d, r, led)
    <2> DEFINE r1 == [r EXCEPT !.generation = fence[r.target].generation + 1]
               r2 == transition(r1, "admission-closed", now)
    <2>1. r.target \in Targets /\ fence[r.target].generation \in Nat
      BY Zenon DEF TypeOK, FenceTypeOK, FenceEntry, DrainRecord
    <2>2. /\ r1 \in DrainRecord /\ r1.target = r.target /\ r1.state = "validating"
          /\ r1.set = r.set /\ r1.restored_at = r.restored_at
      BY <1>6, <2>1 DEF DrainRecord, CloseAdmission
    <2>3. /\ drains' = [drains EXCEPT ![d] = r2] /\ fence' = close(fence, r.target, d)
          /\ r.state = "validating" /\ MayClose(d, r.target, r.set)
      BY <1>6, StartIsFree, Zenon DEF CloseAdmission
    <2> HIDE DEF r1
    <2>4. "admission-closed" \in LegalTargets("validating") /\ "admission-closed" \in DrainState
      BY Zenon DEF LegalTargets, DrainState
    <2>5. /\ r2 \in DrainRecord /\ r2.target = r.target /\ r2.set = r.set
          /\ r2.restored_at = r.restored_at /\ r2.state = "admission-closed"
      BY <1>0, <2>2, <2>4, LegalMove, TransitionKeepsSet
    <2> HIDE DEF r2
    <2>6. Sound(r2) /\ phase(r) = "waiting" /\ phase(r2) = "holding"
      BY <2>3, <2>5, PhaseTable, Zenon DEF Sound, is_waiting, holds_fence, is_fence_holding_state
    <2> QED BY <2>3, <2>5, <2>6, Zenon DEF ClosesAt
  <1>7. CASE \/ LeaveAdmissionClosed(d, r, led) \/ AllEvacuated(d, r, led) \/ FallBack(d, r, led)
    <2>1. PICK next \in {"quiescing", "evacuating"} : Becomes(d, transition(r, next, now), led)
      BY <1>7, Zenon DEF LeaveAdmissionClosed, AllEvacuated, FallBack
    <2>2. is_fence_holding_state(r.state) /\ is_fence_holding_state(next)
      BY <1>7, Zenon DEF LeaveAdmissionClosed, AllEvacuated, FallBack, is_fence_holding_state
    <2>3. PhaseStep(r, transition(r, next, now))
      BY <1>0, <2>2, PhaseOfTransition, Zenon DEF DrainState
    <2> QED BY <2>1, <2>3, Zenon
  <1>8. CASE RequestEvacuation(d, r, led)
    <2>0. r.evacuation_requests + 1 \in Nat
      BY DEF DrainRecord
    <2> DEFINE r2 == note_evacuation_attempt(r, now)
    <2>1. /\ r2 \in DrainRecord /\ r2.state = r.state /\ r2.blocked_from = r.blocked_from
          /\ r2.restored_at = r.restored_at /\ r2.target = r.target /\ r2.set = r.set
      BY <1>0, <2>0, Zenon DEF note_evacuation_attempt, DrainRecord
    <2> HIDE DEF r2
    <2>2. r.state = "evacuating" /\ drains' = [drains EXCEPT ![d] = r2] /\ fence' = fence
      BY <1>8, Zenon DEF RequestEvacuation, r2
    <2>3. Sound(r2) /\ phase(r2) = "holding" /\ phase(r) = "holding"
      BY <2>1, <2>2, PhaseTable, Zenon DEF Sound, holds_fence, is_fence_holding_state
    <2> QED BY <2>1, <2>2, <2>3, Zenon DEF PhaseStep, PhaseMoves
  <1>9. CASE RemoveResource(d, r, led)
    <2>1. PhaseStep(r, transition(r, "verifying", now))
      BY <1>0, <1>9, PhaseOfTransition, Zenon DEF RemoveResource, DrainState, is_fence_holding_state
    <2> QED BY <1>2, <1>9, <2>1, Zenon DEF RemoveResource
  <1>10. CASE Complete(d, r, led)
    <2>1. PICK proof : /\ drains' = [drains EXCEPT ![d] =
                             transition([r EXCEPT !.completion_evidence = proof], "drained", now)]
                       /\ proof \in Nat /\ fence' = fence /\ r.state = "verifying"
      <3>1. \A e \in removal_proofs(d, r, VerificationLedger(d, r, led)) : e.seq \in Nat
        BY RemovalLedgerTypes
           DEF VerificationLedger, removal_proofs, fresh, latest, find, Ledger, Evidence
      <3> DEFINE proofs == removal_proofs(d, r, VerificationLedger(d, r, led))
                 proof == IF Policy.require_quiescence_evidence /\ proofs # {}
                          THEN (CHOOSE e \in proofs : TRUE).seq ELSE 0
      <3>2. proof \in Nat
        BY <3>1, Zenon
      <3> QED BY <1>10, <3>2, Zenon DEF Complete
    <2> DEFINE r1 == [r EXCEPT !.completion_evidence = proof]
    <2>2. /\ r1 \in DrainRecord /\ r1.state = "verifying" /\ r1.restored_at = r.restored_at
          /\ r1.target = r.target /\ r1.set = r.set
      BY <2>1, Zenon DEF DrainRecord
    <2> HIDE DEF r1
    <2>3. Sound(r1) /\ phase(r1) = phase(r)
      BY <2>1, <2>2, PhaseTable, Zenon DEF Sound, holds_fence, is_fence_holding_state
    <2>4. PhaseStep(r1, transition(r1, "drained", now))
      BY <1>0, <2>2, <2>3, PhaseOfTransition, Zenon DEF DrainState, is_fence_holding_state
    <2>5. PhaseStep(r, transition(r1, "drained", now))
      BY <2>2, <2>3, <2>4, Zenon DEF PhaseStep
    <2> QED BY <2>1, <2>5, Zenon DEF r1
  <1>11. CASE FinishRestoration(d, r, led)
    <2> DEFINE r1 == transition(r, "cancelled", now)
               r2 == mark_restored(r1, now)
    <2>1. r.state = "restoring" /\ drains' = [drains EXCEPT ![d] = r2] /\ fence' = fence
      BY <1>11, Zenon DEF FinishRestoration
    <2>2. "cancelled" \in LegalTargets("restoring") /\ "cancelled" \in DrainState
      BY Zenon DEF LegalTargets, DrainState
    <2>3. /\ r1 \in DrainRecord /\ r1.state = "cancelled" /\ r1.target = r.target
          /\ r1.set = r.set
      BY <1>0, <2>1, <2>2, LegalMove, TransitionKeepsSet
    <2> HIDE DEF r1
    <2>4. r2 \in DrainRecord /\ r2.state = "cancelled" /\ r2.target = r.target /\ r2.set = r.set
      BY <1>0, <2>3, SMTT(30) DEF mark_restored, DrainRecord
    <2> HIDE DEF r2
    <2>5. Sound(r2) /\ phase(r) = "restoring" /\ phase(r2) \in {"ended", "restored"}
      BY <2>1, <2>4, PhaseTable, Zenon DEF Sound, is_restoring, is_settled, is_restored
    <2> QED BY <2>1, <2>4, <2>5, Zenon DEF PhaseStep, PhaseMoves
  <1> QED BY <1>3, <1>4, <1>5, <1>6, <1>7, <1>8, <1>9, <1>10, <1>11, SMTT(30) DEF Switch

\* step_drain moves the phase of its drain as the contract lets it, or closes admission.
LEMMA StepPhases ==
  ASSUME TypeOK, NEW d \in DrainIds, Sound(drains[d]), step_drain(d)
  PROVE  \E r2 : /\ drains' = [drains EXCEPT ![d] = r2]
                 /\ \/ fence' = fence /\ PhaseStep(drains[d], r2)
                    \/ ClosesAt(d, drains[d], r2)
  <1> DEFINE r == drains[d]
             r1 == transition(r, r.blocked_from, now)
  <1>1. r \in DrainRecord /\ now \in Nat /\ evidence \in Ledger
    BY Zenon DEF TypeOK
  <1> HIDE DEF r
  <1>2. Sound(r)
    BY Zenon DEF r
  <1>3. CASE Switch(d, r, evidence)
    BY <1>1, <1>2, <1>3, SwitchPhases, Zenon DEF r
  <1>4. CASE StayBlocked(d, r)
    <2>1. PhaseStep(r, r)
      BY <1>1, <1>2, Zenon DEF PhaseStep, PhaseMoves
    <2> QED BY <1>4, <2>1, Zenon DEF StayBlocked, Becomes, Put, r
  <1>5. CASE Unblock(d, r)
    <2> DEFINE led == RevalidationLedger(d, r)
    <2>1. r.state = "blocked" /\ Switch(d, r1, led)
      BY <1>5, Zenon DEF Unblock
    <2>2. r.blocked_from \in DrainState
      BY <1>2, <2>1, Zenon DEF Sound, DrainState
    <2>3. PhaseStep(r, r1) /\ phase(r1) = phase(r)
      BY <1>1, <1>2, <2>1, <2>2, PhaseOfTransition, Zenon
    <2>4. led \in Ledger
      BY <1>1, RemovalLedgerTypes, Zenon DEF RevalidationLedger
    <2> HIDE DEF r1, led
    <2>5. PICK r2 : /\ drains' = [drains EXCEPT ![d] = r2]
                    /\ \/ fence' = fence /\ PhaseStep(r1, r2)
                       \/ ClosesAt(d, r1, r2)
      BY <2>1, <2>3, <2>4, SwitchPhases, Zenon DEF PhaseStep
    <2>6. CASE fence' = fence /\ PhaseStep(r1, r2)
      <3>1. PhaseStep(r, r2)
        BY <2>3, <2>6, Zenon DEF PhaseStep
      <3> QED BY <2>5, <2>6, <3>1, Zenon DEF r
    <2>7. CASE ClosesAt(d, r1, r2)
      <3>1. r1.target = r.target /\ r1.set = r.set
        BY <2>3, Zenon DEF PhaseStep
      <3>2. ClosesAt(d, r, r2)
        BY <2>3, <2>7, <3>1, Zenon DEF ClosesAt
      <3> QED BY <2>5, <3>2, Zenon DEF r
    <2> QED BY <2>5, <2>6, <2>7, Zenon
  <1> QED BY <1>3, <1>4, <1>5, Zenon DEF step_drain, r

------------------------------------------------------------------------------
(* The book of the contract.                                               *)

\* No drain that still waits holds a closed fence, and every record is sound.
PhaseInv ==
  /\ \A d \in DrainIds : Sound(drains[d])
  /\ \A t \in Targets : fence[t].closed => ~is_waiting(drains[fence[t].drain])

RefInv == DrainInv /\ PhaseInv

\* The book lists every drain with its target, its set and its phase.
LEMMA BookEntries ==
  /\ Contract!Drains = DrainIds
  /\ \A d \in DrainIds : /\ Book[d].target = drains[d].target
                         /\ Book[d].set = drains[d].set
                         /\ Book[d].phase = phase(drains[d])
                         /\ Contract!Domain(d) = DomainOf[drains[d].target]
  BY Zenon DEF Book, Contract!Drains, Contract!Domain

\* The contract counts as the engine does.
LEMMA SameCounting ==
  ASSUME NEW S
  PROVE  /\ Contract!IsFiniteSet(S) <=> IsFiniteSet(S)
         /\ Contract!Cardinality(S) = Cardinality(S)
  <1>1. Contract!IsFiniteSet(S) <=> IsFiniteSet(S)
    BY Zenon DEF Contract!IsFiniteSet, IsFiniteSet
  <1>2. Contract!Cardinality(S) = Cardinality(S)
    BY Zenon DEF Contract!Cardinality, Cardinality
  <1> QED BY <1>1, <1>2, Zenon

\* What the book needs of the engine's types (drains_).
LEMMA BookTypes ==
  ASSUME TypeOK
  PROVE  /\ drain_high_water \in Nat /\ DrainIds \subseteq Nat
         /\ drains \in [DrainIds -> DrainRecord]
  <1>1. drain_high_water \in 0..Bounds.drains /\ drains \in [DrainIds -> DrainRecord]
    BY Zenon DEF TypeOK
  <1>2. drain_high_water \in Nat
    BY <1>1
  <1>3. DrainIds \subseteq Nat
    BY <1>2 DEF DrainIds
  <1> QED BY <1>1, <1>2, <1>3, Zenon

\* When only the record of d changes, and keeps its target and set, only the phase of d
\* changes in the book.
LEMMA BookChanges ==
  ASSUME TypeOK, drain_high_water' = drain_high_water, NEW d \in DrainIds, NEW r2,
         drains' = [drains EXCEPT ![d] = r2],
         r2.target = drains[d].target, r2.set = drains[d].set
  PROVE  Book' = [Book EXCEPT ![d].phase = phase(r2)]
  <1>1. DrainIds' = DrainIds /\ DOMAIN drains = DrainIds
    BY Zenon DEF DrainIds, TypeOK
  <1>2. drains'[d] = r2 /\ \A e \in DrainIds \ {d} : drains'[e] = drains[e]
    BY <1>1, Zenon
  <1>3. Book' = [e \in DrainIds |-> [target |-> drains'[e].target, set |-> drains'[e].set,
                                     phase |-> phase(drains'[e])]]
    BY <1>1, Zenon DEF Book, phase, is_waiting, holds_fence, is_restoring, is_restored
  <1> DEFINE Entry(r) == [target |-> r.target, set |-> r.set, phase |-> phase(r)]
  <1>4. [Entry(drains[d]) EXCEPT !.phase = phase(r2)] = Entry(r2)
    OBVIOUS
  <1> QED BY <1>2, <1>3, <1>4, Zenon DEF Book

\* A step of one drain that moves no fence is one step of the contract or none.
LEMMA QuietContractStep ==
  ASSUME TypeOK, drain_high_water' = drain_high_water, fence' = fence, NEW d \in DrainIds,
         NEW r2, drains' = [drains EXCEPT ![d] = r2], PhaseStep(drains[d], r2)
  PROVE  [Contract!ContractNext]_Contract!contractVars
  <1> DEFINE p == phase(drains[d])
             q == phase(r2)
  <1>1. Book' = [Book EXCEPT ![d].phase = q]
    BY BookChanges, Zenon DEF PhaseStep
  <1>2. Book[d].phase = p /\ d \in Contract!Drains
    BY BookEntries, Zenon
  <1>3. PhaseMoves(p, q)
    BY Zenon DEF PhaseStep
  <1> HIDE DEF p, q
  <1>4. CASE p = q
    <2>1. Book' = Book
      BY <1>1, <1>2, <1>4 DEF Book
    <2> QED BY <2>1, Zenon DEF Contract!contractVars
  <1>5. CASE p = "holding" /\ q = "drained"
    <2>1. Contract!Finish(d)
      BY <1>1, <1>2, <1>5, Zenon DEF Contract!Finish, Contract!Changes
    <2> QED BY <1>2, <2>1, Zenon DEF Contract!ContractNext
  <1>6. CASE p \in {"waiting", "holding", "restoring"} /\ q = "ended"
    <2>1. Contract!End(d)
      BY <1>1, <1>2, <1>6, Zenon DEF Contract!End, Contract!Changes
    <2> QED BY <1>2, <2>1, Zenon DEF Contract!ContractNext
  <1>7. CASE p = "restoring" /\ q = "restored"
    <2>1. Contract!Restored(d)
      BY <1>1, <1>2, <1>7, Zenon DEF Contract!Restored, Contract!Changes
    <2> QED BY <1>2, <2>1, Zenon DEF Contract!ContractNext
  <1> QED BY <1>3, <1>4, <1>5, <1>6, <1>7, Zenon DEF PhaseMoves

\* Closing admission in step_drain is the contract's Close: the gate was open, the drain
\* is the first to wait in its domain, and the domain has room for it.
LEMMA ClosingContractStep ==
  ASSUME TypeOK, PhaseInv, drain_high_water' = drain_high_water, NEW d \in DrainIds,
         NEW r2, drains' = [drains EXCEPT ![d] = r2], ClosesAt(d, drains[d], r2)
  PROVE  Contract!ContractNext
  <1> DEFINE t == drains[d].target
             x == DomainOf[t]
             limit == Policy.max_concurrent_drains_per_domain
             others == {e \in DrainIds \ {d} : /\ DomainOf[drains[e].target] = x
                                               /\ holds_fence(drains[e])}
  <1>1. /\ drains \in [DrainIds -> DrainRecord] /\ t \in Targets
        /\ \A e \in DrainIds : drains[e] \in DrainRecord /\ Sound(drains[e])
    BY Zenon DEF TypeOK, DrainRecord, PhaseInv
  <1>2. \A e \in DrainIds :
          /\ phase(drains[e]) = "waiting" <=> is_waiting(drains[e])
          /\ phase(drains[e]) = "holding" <=> holds_fence(drains[e])
          /\ is_settled(drains[e].state) =>
               phase(drains[e]) \in {"drained", "ended", "restored"}
    BY <1>1, PhaseTable, Zenon
  <1>3. Contract!Changes(d, {"waiting"}, "holding")
    <2>1. /\ phase(drains[d]) = "waiting" /\ phase(r2) = "holding"
          /\ r2.target = drains[d].target /\ r2.set = drains[d].set
      BY Zenon DEF ClosesAt
    <2>2. Book' = [Book EXCEPT ![d].phase = phase(r2)]
      BY <2>1, BookChanges, Zenon
    <2> QED BY <2>1, <2>2, BookEntries, Zenon DEF Contract!Changes
  <1>4. MayClose(d, t, drains[d].set) /\ is_waiting(drains[d])
    BY <1>2, Zenon DEF ClosesAt
  <1>5. ~fence[t].closed
    BY <1>1, <1>4, Zenon DEF MayClose, PhaseInv
  <1>6. \A e \in DrainIds :
          /\ Contract!Domain(e) = DomainOf[drains[e].target]
          /\ Book[e].set = drains[e].set /\ Book[e].phase = phase(drains[e])
    BY BookEntries, Zenon
  <1>7. \A e \in DrainIds : e < d /\ Contract!Domain(e) = x => Book[e].phase # "waiting"
    BY <1>2, <1>4, <1>6 DEF MayClose
  <1>8. Policy.serialize_same_domain_in_set =>
          \A e \in Contract!Before(d) : Book[e].phase \in {"drained", "ended", "restored"}
    <2>1. \A e \in Contract!Before(d) :
            e \in DrainIds /\ e < d /\ drains[e].set = drains[d].set /\ DomainOf[drains[e].target] = x
      BY <1>6, BookEntries DEF Contract!Before
    <2> QED BY <1>2, <1>4, <1>6, <2>1 DEF MayClose
  <1>9. Cardinality(Contract!Holders(x)) + 1 <= limit
    <2>1. Contract!Holders(x) = {e \in DrainIds : /\ DomainOf[drains[e].target] = x
                                                  /\ holds_fence(drains[e])}
      BY <1>2, <1>6, BookEntries DEF Contract!Holders
    <2>2. ~holds_fence(drains[d])
      BY <1>2, <1>4, Zenon
    <2>3. Contract!Holders(x) = others
      BY <2>1, <2>2, Zenon
    <2>4. IsFiniteSet(DrainIds)
      BY FS_Interval DEF DrainIds, TypeOK
    <2>5. Cardinality(others) \in Nat /\ limit \in Nat
      <3>1. IsFiniteSet(others)
        BY <2>4, FS_Subset, Zenon
      <3> QED BY <3>1, FS_CardinalityType, EngineAssumption, Zenon DEF PolicyType
    <2>6. Cardinality(others) < limit
      BY <1>4, Zenon DEF MayClose
    <2> HIDE DEF others, limit
    <2> QED BY <2>3, <2>5, <2>6
  <1>10. fence' = [fence EXCEPT ![t] = [closed |-> TRUE, generation |-> fence[t].generation + 1,
                                        drain |-> d]]
    BY Zenon DEF ClosesAt, close
  <1>11. d \in Contract!Drains /\ Book[d].target = t /\ Contract!Domain(d) = x
    BY <1>6, BookEntries, Zenon
  <1> HIDE DEF t, x, limit
  <1>12. Contract!Close(d)
    <2>1. ~fence[Book[d].target].closed
      BY <1>5, <1>11, Zenon
    <2>2. \A e \in Contract!Drains :
            e < d /\ Contract!Domain(e) = Contract!Domain(d) => Book[e].phase # "waiting"
      BY <1>7, <1>11, BookEntries, Zenon
    <2>3. Contract!Cardinality(Contract!Holders(Contract!Domain(d))) + 1
            <= Policy.max_concurrent_drains_per_domain
      BY <1>9, <1>11, SameCounting, Zenon DEF limit
    <2>4. fence' = [fence EXCEPT ![Book[d].target] =
                     [closed |-> TRUE, generation |-> fence[Book[d].target].generation + 1,
                      drain |-> d]]
      BY <1>10, <1>11, Zenon
    <2> QED BY <1>3, <1>8, <2>1, <2>2, <2>3, <2>4, Zenon DEF Contract!Close
  <1> QED BY <1>11, <1>12, Zenon DEF Contract!ContractNext

\* A closed fence is held by a drain that no longer waits.
LEMMA ClosingKeepsPhases ==
  ASSUME TypeOK, OwnershipInv, PhaseInv, drain_high_water' = drain_high_water,
         NEW d \in DrainIds, NEW r2, drains' = [drains EXCEPT ![d] = r2],
         ClosesAt(d, drains[d], r2)
  PROVE  PhaseInv'
  <1> DEFINE t == drains[d].target
  <1>1. DrainIds' = DrainIds /\ DOMAIN drains = DrainIds /\ t \in Targets
    BY Zenon DEF DrainIds, TypeOK, DrainRecord
  <1>2. Sound(r2) /\ ~is_waiting(r2)
    BY PhaseTable, Zenon DEF ClosesAt
  <1>3. drains'[d] = r2 /\ \A e \in DrainIds \ {d} : drains'[e] = drains[e]
    BY <1>1, Zenon
  <1>4. /\ fence'[t].drain = d
        /\ \A u \in Targets \ {t} : fence'[u] = fence[u]
    BY <1>1, Zenon DEF ClosesAt, close, TypeOK, FenceTypeOK
  <1> HIDE DEF t
  <1>5. ASSUME NEW u \in Targets, fence'[u].closed
        PROVE  ~is_waiting(drains'[fence'[u].drain])
    <2>1. CASE fence'[u].drain = d
      BY <1>2, <1>3, <2>1, Zenon
    <2>2. CASE fence'[u].drain # d
      <3>1. fence'[u] = fence[u]
        BY <1>4, <2>2, Zenon
      <3>2. fence[u].drain \in DrainIds /\ ~is_waiting(drains[fence[u].drain])
        BY <1>5, <3>1, Zenon DEF OwnershipInv, ClosedFenceHasOwner, PhaseInv
      <3>3. drains'[fence[u].drain] = drains[fence[u].drain]
        BY <1>3, <2>2, <3>1, <3>2, Zenon
      <3> QED BY <3>1, <3>2, <3>3, Zenon
    <2> QED BY <2>1, <2>2, Zenon
  <1> QED BY <1>1, <1>2, <1>3, <1>5, Zenon DEF PhaseInv, is_waiting

\* restore_drain is the contract's Reopen, by the drain that closed the gate if any did.
LEMMA RestoreContractStep ==
  ASSUME TypeOK, OwnershipInv, PhaseInv, NEW d \in DrainIds, NEW a, restore_drain(d, a)
  PROVE  /\ Contract!ContractNext
         /\ PhaseInv'
  <1> DEFINE t == drains[d].target
             r2 == drains'[d]
  <1>1. drains[d] \in DrainRecord /\ Sound(drains[d]) /\ t \in Targets /\ DOMAIN drains = DrainIds
    BY Zenon DEF TypeOK, DrainRecord, PhaseInv
  <1>2. /\ r2 \in DrainRecord /\ r2.target = t /\ r2.state = "restoring" /\ r2.restored_at = 0
        /\ \A e \in DrainIds \ {d} : drains'[e] = drains[e]
        /\ drains' \in [DrainIds -> DrainRecord]
    BY RestoreMoves, Zenon DEF OwnershipInv
  <1>3. /\ fence' = ReopenedFence(d) /\ drain_high_water' = drain_high_water
        /\ is_settled(drains[d].state) /\ ~is_restored(drains[d])
        /\ fence[t].closed => fence[t].drain = d
    BY Zenon DEF restore_drain, requestVars, is_closed
  <1>4. r2.set = drains[d].set
    <2> DEFINE r1 == transition(drains[d], "restoring", now)
               g == ReopenedFence(d)[t].generation
    <2>1. r1 \in DrainRecord /\ r1.set = drains[d].set
      <3>1. now \in Nat /\ "restoring" \in DrainState
        BY Zenon DEF TypeOK, DrainState
      <3> QED BY <1>1, <3>1, TransitionFacts, TransitionKeepsSet
    <2>2. r2 = [r1 EXCEPT !.restore_generation = g]
      BY <1>1, Zenon DEF restore_drain
    <2> HIDE DEF r1, g, r2
    <2> QED BY <2>1, <2>2, Zenon DEF DrainRecord
  <1>5. drains' = [drains EXCEPT ![d] = r2]
    BY <1>2, <1>1, Zenon DEF TypeOK
  <1>6. PICK r3 : r3 = r2
    BY Zenon
  <1>7. Sound(r3) /\ phase(r3) = "restoring" /\ ~is_waiting(r3)
    BY <1>2, <1>6, PhaseTable, Zenon DEF Sound, is_restoring, is_waiting
  <1>8. phase(drains[d]) \in {"drained", "ended"}
    BY <1>1, <1>3, PhaseTable, Zenon
  <1>9. Contract!Changes(d, {"drained", "ended"}, "restoring")
    <2>1. Book' = [Book EXCEPT ![d].phase = phase(r3)]
      BY <1>2, <1>3, <1>4, <1>5, <1>6, BookChanges, Zenon
    <2> QED BY <1>7, <1>8, <2>1, BookEntries, Zenon DEF Contract!Changes
  <1>10. /\ fence' \in [Targets -> FenceEntry] /\ ~fence'[t].closed
         /\ fence'[t].generation >= fence[t].generation
         /\ fence[t].closed => fence'[t].generation > fence[t].generation
         /\ \A u \in Targets \ {t} : fence'[u] = fence[u]
    BY <1>3, ReopenMoves, Zenon
  <1>11. fence' = [fence EXCEPT ![t] = fence'[t]] /\ fence'[t] \in Contract!GateEntry
    BY <1>1, <1>10, Zenon DEF TypeOK, FenceTypeOK, FenceEntry, Contract!GateEntry
  <1>12. Book[d].target = t /\ d \in Contract!Drains
    BY BookEntries, Zenon
  <1>13. Contract!Reopen(d)
    BY <1>3, <1>9, <1>10, <1>11, <1>12, Zenon DEF Contract!Reopen
  <1>14. \A e \in DrainIds' : Sound(drains'[e])
    BY <1>2, <1>3, <1>6, <1>7, Zenon DEF DrainIds, PhaseInv
  <1>15. ASSUME NEW u \in Targets, fence'[u].closed
         PROVE  ~is_waiting(drains'[fence'[u].drain])
    <2>1. u # t /\ fence'[u] = fence[u]
      BY <1>10, <1>15, Zenon
    <2>2. ~is_waiting(drains[fence[u].drain])
      BY <1>15, <2>1, Zenon DEF PhaseInv
    <2>3. CASE fence[u].drain = d
      BY <1>6, <1>7, <2>1, <2>3, Zenon
    <2>4. CASE fence[u].drain # d
      <3>1. drains'[fence[u].drain] = drains[fence[u].drain]
        BY <1>2, <1>15, <2>1, <2>4, Zenon DEF OwnershipInv, ClosedFenceHasOwner
      <3> QED BY <2>1, <2>2, <3>1, Zenon
    <2> QED BY <2>3, <2>4, Zenon
  <1> QED BY <1>12, <1>13, <1>14, <1>15, Zenon DEF Contract!ContractNext, PhaseInv, is_waiting

\* request_drain_set is the contract's Request: every target it takes is free.
LEMMA RequestContractStep ==
  ASSUME TypeOK, OwnershipInv, PhaseInv, NEW S \in SUBSET Targets, NEW a \in Nat,
         NEW nonce \in Nat, request_drain_set(S, a, nonce)
  PROVE  /\ Contract!ContractNext
         /\ PhaseInv'
  <1> DEFINE New == DrainIds' \ DrainIds
  <1>1. /\ drains' \in [DrainIds' -> DrainRecord]
        /\ \A d \in DrainIds : d \in DrainIds' /\ drains'[d] = drains[d]
        /\ \A d \in New :
             /\ drains'[d].state = "requested" /\ drains'[d].restored_at = 0
             /\ drains'[d].target \in S
             /\ \A e \in New : e # d => drains'[e].target # drains'[d].target
    BY RequestMoves, Zenon
  <1>2. /\ fence' = fence /\ drain_high_water' \in Nat /\ drain_high_water \in Nat
        /\ \A t \in S, d \in DrainIds : drains[d].target = t => is_restored(drains[d])
    <2>1. drain_high_water' \in 0..Bounds.drains
      BY RequestMoves, Zenon
    <2>2. drain_high_water' \in Nat
      BY <2>1
    <2>3. fence' = fence
      BY Zenon DEF request_drain_set
    <2>4. \A t \in S, d \in DrainIds : drains[d].target = t => is_restored(drains[d])
      BY Zenon DEF request_drain_set, is_reusable
    <2> QED BY <2>2, <2>3, <2>4, BookTypes, Zenon
  <1>3. DrainIds' = 1..drain_high_water' /\ DrainIds = 1..drain_high_water
    BY Zenon DEF DrainIds
  <1>4. \A d \in DrainIds' : d \in DrainIds \/ d \in New
    BY Zenon
  <1>5. \A d \in New : d \in Nat /\ \A e \in DrainIds : e < d
    BY <1>2, <1>3
  <1> HIDE DEF New
  <1>6. \A d \in New : /\ drains'[d] \in DrainRecord
                       /\ phase(drains'[d]) = "waiting" /\ Sound(drains'[d])
    <2> TAKE d \in New
    <2>1. PICK r \in DrainRecord : r = drains'[d] /\ r.state = "requested" /\ r.restored_at = 0
      BY <1>1, Zenon DEF New
    <2>2. Sound(r) /\ phase(r) = "waiting"
      BY <2>1, PhaseTable, Zenon DEF Sound, is_waiting
    <2> QED BY <2>1, <2>2, Zenon
  <1>7. \A d \in DrainIds' : /\ drains'[d] \in DrainRecord /\ Sound(drains'[d])
    BY <1>1, <1>4, <1>6, Zenon DEF PhaseInv
  <1>8. \A d \in DrainIds : phase(drains[d]) = "restored" <=> is_restored(drains[d])
    BY PhaseTable, Zenon DEF TypeOK, PhaseInv
  <1>9. Book' = [d \in DrainIds' |-> [target |-> drains'[d].target, set |-> drains'[d].set,
                                     phase |-> phase(drains'[d])]]
    BY Zenon DEF Book, phase, is_waiting, holds_fence, is_restoring, is_restored
  <1>10. DOMAIN Book' = DrainIds' /\ Contract!Drains = DrainIds
    BY <1>9, BookEntries, Zenon
  <1>11. /\ Contract!IsFiniteSet(DrainIds') /\ DrainIds \subseteq DrainIds'
    <2>1. IsFiniteSet(1..drain_high_water')
      BY <1>2, FS_Interval
    <2>2. Contract!IsFiniteSet(DrainIds')
      BY <1>3, <2>1, SameCounting, Zenon
    <2> QED BY <1>1, <2>2, Zenon
  <1>12. Book' \in [DrainIds' -> Contract!Entry]
    <2>1. \A d \in DrainIds' :
            /\ drains'[d].target \in Targets /\ drains'[d].set \in Nat
            /\ phase(drains'[d]) \in {"waiting", "holding", "drained", "ended", "restoring",
                                      "restored"}
      BY <1>7, PhaseTable, Zenon DEF DrainRecord
    <2> QED BY <1>9, <2>1, Zenon DEF Contract!Entry
  <1>13. \A d \in DrainIds : Book'[d] = Book[d]
    BY <1>1, <1>9, Zenon DEF Book
  <1>14. \A d \in New : /\ Book'[d].phase = "waiting"
                        /\ Contract!Free(Book'[d].target)
                        /\ \A e \in New : Book'[e].target = Book'[d].target => e = d
    <2>1. \A d \in New : Book'[d].phase = "waiting" /\ Book'[d].target = drains'[d].target
      BY <1>6, <1>9, Zenon DEF New
    <2>2. \A t \in S : Contract!Free(t)
      BY <1>2, <1>8, BookEntries, Zenon DEF Contract!Free
    <2> QED BY <1>1, <2>1, <2>2
  <1>15. Contract!Request
    BY <1>2, <1>5, <1>10, <1>11, <1>12, <1>13, <1>14, Zenon DEF Contract!Request, New
  <1>16. ASSUME NEW u \in Targets, fence'[u].closed
         PROVE  ~is_waiting(drains'[fence'[u].drain])
    BY <1>1, <1>2, <1>16, Zenon DEF PhaseInv, OwnershipInv, ClosedFenceHasOwner
  <1> QED BY <1>7, <1>15, <1>16, Zenon DEF Contract!ContractNext, PhaseInv, is_waiting

\* Steps that move no fence make no drain wait again.
LEMMA QuietKeepsPhases ==
  ASSUME TypeOK, OwnershipInv, PhaseInv, fence' = fence, drain_high_water' = drain_high_water,
         \A d \in DrainIds : PhaseStep(drains[d], drains'[d])
  PROVE  PhaseInv'
  <1>1. DrainIds' = DrainIds
    BY Zenon DEF DrainIds
  <1>2. ASSUME NEW t \in Targets, fence'[t].closed
        PROVE  ~is_waiting(drains'[fence'[t].drain])
    <2>1. PICK d \in DrainIds : d = fence[t].drain /\ fence'[t].drain = d /\ ~is_waiting(drains[d])
      BY <1>2, Zenon DEF OwnershipInv, ClosedFenceHasOwner, PhaseInv
    <2>2. PICK r2 : r2 = drains'[d]
      BY Zenon
    <2>3. drains[d] \in DrainRecord /\ Sound(drains[d]) /\ PhaseStep(drains[d], r2)
      BY <2>2, Zenon DEF TypeOK, PhaseInv
    <2>4. ~is_waiting(r2)
      BY <2>1, <2>3, PhaseTable, Zenon DEF PhaseStep, PhaseMoves
    <2> QED BY <2>1, <2>2, <2>4, Zenon
  <1> QED BY <1>1, <1>2, Zenon DEF PhaseInv, PhaseStep, is_waiting

\* Cancellation, resumption and an exception move the phase of one drain at most; a
\* restart moves none.
LEMMA OperationPhases ==
  ASSUME TypeOK, PhaseInv,
         \/ \E d \in DrainIds, a \in DOMAIN tokens :
              \/ cancel_drain(d, a)
              \/ resume_drain(d, a)
              \/ \E o, x : grant_exception(d, o, x, a)
  PROVE  /\ fence' = fence /\ drain_high_water' = drain_high_water
         /\ \E d \in DrainIds : \E r2 : /\ drains' = [drains EXCEPT ![d] = r2]
                                       /\ PhaseStep(drains[d], r2)
  <1>1. now \in Nat /\ \A d \in DrainIds : drains[d] \in DrainRecord /\ Sound(drains[d])
    BY Zenon DEF TypeOK, PhaseInv
  <1>2. ASSUME NEW d \in DrainIds, NEW a, cancel_drain(d, a)
        PROVE  /\ fence' = fence /\ drain_high_water' = drain_high_water
               /\ \E r2 : drains' = [drains EXCEPT ![d] = r2] /\ PhaseStep(drains[d], r2)
    <2>1. PhaseStep(drains[d], transition(drains[d], "cancelled", now))
      BY <1>1, PhaseOfTransition, Zenon DEF DrainState
    <2> QED BY <1>2, <2>1, Zenon DEF cancel_drain, requestVars
  <1>3. ASSUME NEW d \in DrainIds, NEW a, resume_drain(d, a)
        PROVE  /\ fence' = fence /\ drain_high_water' = drain_high_water
               /\ \E r2 : drains' = [drains EXCEPT ![d] = r2] /\ PhaseStep(drains[d], r2)
    <2>1. drains[d].state = "blocked" /\ drains[d].blocked_from \in DrainState
      BY <1>1, <1>3, Zenon DEF resume_drain, Sound, DrainState
    <2>2. PhaseStep(drains[d], transition(drains[d], drains[d].blocked_from, now))
      BY <1>1, <2>1, PhaseOfTransition, Zenon
    <2> QED BY <1>3, <2>2, Zenon DEF resume_drain, requestVars
  <1>4. ASSUME NEW d \in DrainIds, NEW a, NEW o, NEW x, grant_exception(d, o, x, a)
        PROVE  /\ fence' = fence /\ drain_high_water' = drain_high_water
               /\ \E r2 : drains' = [drains EXCEPT ![d] = r2] /\ PhaseStep(drains[d], r2)
    <2> DEFINE r == drains[d]
               r2 == [r EXCEPT !.evacuation_requests = 0]
    <2>1. drains' = [drains EXCEPT ![d] = r2] /\ r \in DrainRecord /\ Sound(r)
      BY <1>1, <1>4, Zenon DEF grant_exception
    <2> HIDE DEF r
    <2>2. /\ r2 \in DrainRecord /\ r2.state = r.state /\ r2.blocked_from = r.blocked_from
          /\ r2.restored_at = r.restored_at /\ r2.target = r.target /\ r2.set = r.set
      BY <2>1, Zenon DEF DrainRecord
    <2> HIDE DEF r2
    <2>3. phase(r2) = phase(r) /\ Sound(r2)
      BY <2>1, <2>2, Zenon DEF phase, is_waiting, holds_fence, is_restoring, is_restored, Sound
    <2>4. PhaseStep(r, r2)
      BY <2>2, <2>3, Zenon DEF PhaseStep, PhaseMoves
    <2> QED BY <1>4, <2>1, <2>4, Zenon DEF grant_exception, r
  <1> QED BY <1>2, <1>3, <1>4, Zenon

\* A restart blocks what was running, which the contract does not see.
LEMMA RestartPhases ==
  ASSUME TypeOK, OwnershipInv, PhaseInv, Restart
  PROVE  /\ Book' = Book /\ fence' = fence
         /\ PhaseInv'
  <1>1. now \in Nat /\ \A d \in DrainIds : drains[d] \in DrainRecord /\ Sound(drains[d])
    BY Zenon DEF TypeOK, PhaseInv
  <1>2. /\ fence' = fence /\ DrainIds' = DrainIds /\ drain_high_water' = drain_high_water
        /\ \A d \in DrainIds : drains'[d] = recovered(drains[d])
    BY Zenon DEF Restart, requestVars, DrainIds
  <1>3. ASSUME NEW r \in DrainRecord, Sound(r)
        PROVE  PhaseStep(r, recovered(r)) /\ phase(recovered(r)) = phase(r)
    <2>1. CASE is_transient(r.state)
      BY <1>1, <1>3, <2>1, PhaseOfTransition, Zenon DEF recovered, DrainState
    <2>2. CASE ~is_transient(r.state)
      BY <1>3, <2>2, Zenon DEF recovered, PhaseStep, PhaseMoves
    <2> QED BY <2>1, <2>2, Zenon
  <1>4. \A d \in DrainIds : /\ drains'[d].target = drains[d].target
                            /\ drains'[d].set = drains[d].set
                            /\ phase(drains'[d]) = phase(drains[d])
                            /\ PhaseStep(drains[d], drains'[d])
    BY <1>1, <1>2, <1>3, Zenon DEF PhaseStep
  <1>5. Book' = [d \in DrainIds |-> [target |-> drains'[d].target, set |-> drains'[d].set,
                                     phase |-> phase(drains'[d])]]
    BY <1>2, Zenon DEF Book, phase, is_waiting, holds_fence, is_restoring, is_restored
  <1>6. Book' = Book
    BY <1>4, <1>5, Zenon DEF Book
  <1> QED BY <1>2, <1>4, <1>6, QuietKeepsPhases, Zenon

------------------------------------------------------------------------------
\* Every step of the engine is a step of the contract or invisible to it.
LEMMA ContractStep ==
  ASSUME DrainInv, PhaseInv, [AnyNext]_vars
  PROVE  /\ [Contract!ContractNext]_Contract!contractVars
         /\ PhaseInv'
  <1>1. TypeOK /\ OwnershipInv
    BY Zenon DEF DrainInv
  <1>2. ASSUME drain_high_water' = drain_high_water, fence' = fence, NEW d \in DrainIds, NEW r2,
               drains' = [drains EXCEPT ![d] = r2], PhaseStep(drains[d], r2)
        PROVE  [Contract!ContractNext]_Contract!contractVars /\ PhaseInv'
    <2>1. \A e \in DrainIds : PhaseStep(drains[e], drains'[e])
      BY <1>1, <1>2, Zenon DEF TypeOK, PhaseInv, PhaseStep, PhaseMoves
    <2> QED BY <1>1, <1>2, <2>1, QuietContractStep, QuietKeepsPhases, Zenon
  <1>3. CASE UNCHANGED <<drains, fence, drain_high_water>>
    <2>1. Book' = Book
      BY <1>3, Zenon DEF Book, DrainIds, phase, is_waiting, holds_fence, is_restoring, is_restored
    <2>2. PhaseInv'
      BY <1>3, SMTT(30) DEF PhaseInv, DrainIds
    <2> QED BY <1>3, <2>1, <2>2, Zenon DEF Contract!contractVars
  <1>4. CASE advance
    <2>1. turn \in DrainIds /\ drain_high_water' = drain_high_water
      BY <1>1, <1>4, EngineAssumption DEF TypeOK, DrainIds, advance, BoundsType, requestVars
    <2>2. CASE SkipSettled(turn)
      BY <1>3, <2>1, <2>2, Zenon DEF SkipSettled
    <2>3. CASE step_drain(turn)
      <3>1. PICK r2 : /\ drains' = [drains EXCEPT ![turn] = r2]
                      /\ \/ fence' = fence /\ PhaseStep(drains[turn], r2)
                         \/ ClosesAt(turn, drains[turn], r2)
        BY <1>1, <2>1, <2>3, StepPhases, Zenon DEF PhaseInv
      <3>2. CASE fence' = fence /\ PhaseStep(drains[turn], r2)
        BY <1>2, <2>1, <3>1, <3>2, Zenon
      <3>3. CASE ClosesAt(turn, drains[turn], r2)
        <4>1. Contract!ContractNext
          BY <1>1, <2>1, <3>1, <3>3, ClosingContractStep, Zenon
        <4>2. PhaseInv'
          BY <1>1, <2>1, <3>1, <3>3, ClosingKeepsPhases, Zenon
        <4> QED BY <4>1, <4>2, Zenon
      <3> QED BY <3>1, <3>2, <3>3, Zenon
    <2> QED BY <1>4, <2>2, <2>3, Zenon DEF advance
  <1>5. CASE AnyOperate
    <2>1. ASSUME NEW a \in DOMAIN tokens, NEW S \in SUBSET Targets, NEW n \in Nat,
                 request_drain_set(S, a, n)
          PROVE  [Contract!ContractNext]_Contract!contractVars /\ PhaseInv'
      <3>1. S \in SUBSET Targets /\ n \in Nat /\ a \in Nat
        BY <1>1, TokenNames, Zenon
      <3> QED BY <1>1, <2>1, <3>1, RequestContractStep, Zenon
    <2>2. ASSUME NEW d \in DrainIds, NEW a \in DOMAIN tokens,
                 \/ cancel_drain(d, a)
                 \/ resume_drain(d, a)
                 \/ \E o, x : grant_exception(d, o, x, a)
          PROVE  [Contract!ContractNext]_Contract!contractVars /\ PhaseInv'
      BY <1>1, <1>2, <2>2, OperationPhases, Zenon
    <2>3. ASSUME NEW d \in DrainIds, NEW a \in DOMAIN tokens, restore_drain(d, a)
          PROVE  [Contract!ContractNext]_Contract!contractVars /\ PhaseInv'
      BY <1>1, <2>3, RestoreContractStep, Zenon
    <2> QED BY <1>5, <2>1, <2>2, <2>3, Zenon DEF AnyOperate
  <1>6. CASE Restart
    BY <1>1, <1>6, RestartPhases, Zenon DEF Contract!contractVars
  <1>7. UNCHANGED vars => UNCHANGED <<drains, fence, drain_high_water>>
    BY Zenon DEF vars, requestVars
  <1> QED BY <1>3, <1>4, <1>5, <1>6, <1>7, OtherSteps, Zenon DEF AnyNext

\* A fresh engine has an empty book and open gates.
LEMMA ContractStart == Init => Contract!ContractInit /\ PhaseInv
  <1> SUFFICES ASSUME Init
               PROVE  Contract!ContractInit /\ PhaseInv
    BY Zenon
  <1>1. DrainIds = {}
    BY DEF Init, DrainIds
  <1>2. Book = <<>>
    BY <1>1 DEF Book
  <1>3. fence = [t \in Targets |-> [closed |-> FALSE, generation |-> 0, drain |-> 0]]
    BY Zenon DEF Init, FenceInit
  <1> QED BY <1>1, <1>2, <1>3, Zenon DEF Contract!ContractInit, PhaseInv

\* The drain engine implements the contract of its operators: whatever evidence, clock,
\* authority, blocking, retries and restarts do, drains take gates in order and within
\* the limit of their domain, and give them back only through their own restoration.
THEOREM EngineImplementsContract == CallSpec => ImplementsContract
  <1>1. RefInv /\ [AnyNext]_vars => [Contract!ContractNext]_Contract!contractVars /\ PhaseInv'
    BY ContractStep, Zenon DEF RefInv
  <1>2. RefInv <=> DrainInv /\ PhaseInv
    BY Zenon DEF RefInv
  <1> QED BY <1>1, <1>2, ContractStart, DrainInvariant, PTL
          DEF CallSpec, ImplementsContract, Contract!ContractSpec

\* The contract once more, with what is proved of it.
Promise ==
  INSTANCE DrainContractProofs
    WITH Limit <- Policy.max_concurrent_drains_per_domain,
         Serialize <- Policy.serialize_same_domain_in_set, book <- Book, gate <- fence

\* The two instances are the same specification.
LEMMA SameContract == Contract!ContractSpec => Promise!ContractSpec
  <1>1. Contract!ContractInit => Promise!ContractInit
    BY Zenon DEF Contract!ContractInit, Promise!ContractInit
  <1>2. ASSUME NEW x
        PROVE  Contract!Cardinality(Contract!Holders(x)) = Promise!Cardinality(Promise!Holders(x))
    <2>1. Contract!Holders(x) = Promise!Holders(x)
      BY Zenon DEF Contract!Holders, Promise!Holders, Contract!Drains, Promise!Drains,
                   Contract!Domain, Promise!Domain
    <2>2. \A S : Contract!Cardinality(S) = Promise!Cardinality(S)
      BY Zenon DEF Contract!Cardinality, Promise!Cardinality, Contract!IsFiniteSet,
                   Promise!IsFiniteSet
    <2> QED BY <2>1, <2>2, Zenon
  <1>3. ASSUME NEW d
        PROVE  Contract!Close(d) => Promise!Close(d)
    <2>1. Contract!Before(d) = Promise!Before(d)
      BY Zenon DEF Contract!Before, Promise!Before, Contract!Drains, Promise!Drains,
                   Contract!Domain, Promise!Domain
    <2> QED BY <1>2, <2>1, Zenon
            DEF Contract!Close, Promise!Close, Contract!Changes, Promise!Changes,
                Contract!Drains, Promise!Drains, Contract!Domain, Promise!Domain
  <1>4. ASSUME NEW d
        PROVE  /\ Contract!Finish(d) => Promise!Finish(d)
               /\ Contract!End(d) => Promise!End(d)
               /\ Contract!Reopen(d) => Promise!Reopen(d)
               /\ Contract!Restored(d) => Promise!Restored(d)
    BY Zenon DEF Contract!Finish, Promise!Finish, Contract!End, Promise!End, Contract!Reopen,
                 Promise!Reopen, Contract!Restored, Promise!Restored, Contract!Changes,
                 Promise!Changes, Contract!GateEntry, Promise!GateEntry
  <1>5. Contract!Request => Promise!Request
    <2>1. \A S : Contract!IsFiniteSet(S) => Promise!IsFiniteSet(S)
      BY Zenon DEF Contract!IsFiniteSet, Promise!IsFiniteSet
    <2> QED BY <2>1, Zenon DEF Contract!Request, Promise!Request, Contract!Free, Promise!Free,
                               Contract!Drains, Promise!Drains, Contract!Entry, Promise!Entry
  <1>6. [Contract!ContractNext]_Contract!contractVars
          => [Promise!ContractNext]_Promise!contractVars
    BY <1>3, <1>4, <1>5, Zenon
       DEF Contract!ContractNext, Promise!ContractNext, Contract!contractVars,
           Promise!contractVars, Contract!Drains, Promise!Drains
  <1> QED BY <1>1, <1>6, PTL DEF Contract!ContractSpec, Promise!ContractSpec

\* What the promises count and order are the engine's drains.
LEMMA PromisedBook ==
  /\ Promise!Drains = DrainIds
  /\ \A d \in DrainIds : Promise!Domain(d) = DomainOf[drains[d].target]
  /\ \A S : Promise!Cardinality(S) = Cardinality(S)
  <1>1. Promise!Drains = DrainIds /\ \A d \in DrainIds : Promise!Domain(d) = DomainOf[drains[d].target]
    BY Zenon DEF Book, Promise!Drains, Promise!Domain
  <1>2. \A S : Promise!Cardinality(S) = Cardinality(S)
    BY Zenon DEF Promise!Cardinality, Cardinality, Promise!IsFiniteSet, IsFiniteSet
  <1> QED BY <1>1, <1>2, Zenon

\* What the contract promises holds of the engine's drains and fences.
THEOREM EngineKeepsContract == CallSpec => [](DrainInv /\ PhaseInv /\ Promise!ContractInv)
  <1>1. Policy.max_concurrent_drains_per_domain \in Nat
    BY EngineAssumption, Zenon DEF PolicyType
  <1>2. Contract!ContractSpec => []Promise!ContractInv
    <2>1. Promise!ContractSpec => []Promise!ContractInv
      BY <1>1, Promise!ContractHolds, Zenon
    <2> QED BY <2>1, SameContract, PTL
  <1>3. DrainInv /\ PhaseInv /\ [AnyNext]_vars => PhaseInv'
    BY ContractStep, Zenon
  <1> QED BY <1>2, <1>3, ContractStart, DrainInvariant, EngineImplementsContract, PTL
          DEF CallSpec, ImplementsContract

\* evaluate_start keeps every failure domain within max_concurrent_drains_per_domain:
\* no interleaving of validations, resumes and restarts lets one more past it.
THEOREM DomainsAreLimited == CallSpec => []DomainLimit
  <1>1. DrainInv /\ PhaseInv /\ Promise!ContractInv => DomainLimit
    <2> SUFFICES ASSUME DrainInv, PhaseInv, Promise!ContractInv, NEW x \in Domains
                 PROVE  Cardinality({d \in DrainIds : /\ DomainOf[drains[d].target] = x
                                                      /\ holds_fence(drains[d])})
                          <= Policy.max_concurrent_drains_per_domain
      BY Zenon DEF DomainLimit
    <2> DEFINE H == {d \in DrainIds : /\ DomainOf[drains[d].target] = x
                                      /\ holds_fence(drains[d])}
    <2>1. \A d \in DrainIds : phase(drains[d]) = "holding" <=> holds_fence(drains[d])
      BY PhaseTable, Zenon DEF DrainInv, TypeOK, PhaseInv
    <2>2. H = Promise!Holders(x)
      BY <2>1, BookEntries, PromisedBook, Zenon DEF Promise!Holders
    <2>3. CASE H = {}
      <3>1. Cardinality(H) = 0 /\ Policy.max_concurrent_drains_per_domain \in Nat
        BY <2>3, FS_EmptySet, EngineAssumption, Zenon DEF PolicyType
      <3> HIDE DEF H
      <3>2. Cardinality(H) <= Policy.max_concurrent_drains_per_domain
        BY <3>1
      <3> QED BY <3>2, Zenon DEF H
    <2>4. CASE H # {}
      <3>1. PICK d \in DrainIds : DomainOf[drains[d].target] = x /\ holds_fence(drains[d])
        BY <2>4, Zenon
      <3>2. Promise!Cardinality(Promise!Holders(x)) <= Policy.max_concurrent_drains_per_domain
        BY <2>1, <3>1, BookEntries, PromisedBook, Zenon DEF Promise!ContractInv, Promise!HoldersAreFew
      <3> HIDE DEF H
      <3>3. Cardinality(H) <= Policy.max_concurrent_drains_per_domain
        BY <2>2, <3>2, PromisedBook, Zenon
      <3> QED BY <3>3, Zenon DEF H
    <2> QED BY <2>3, <2>4, Zenon
  <1> QED BY <1>1, EngineKeepsContract, PTL

\* With serialize_same_domain_in_set, predecessor_unsettled keeps the members of a set
\* that share a domain from holding their fences together.
THEOREM SetsTakeTurns == CallSpec => []SerializedWithinSet
  <1>1. DrainInv /\ PhaseInv /\ Promise!ContractInv => SerializedWithinSet
    <2> SUFFICES ASSUME DrainInv, PhaseInv, Promise!ContractInv,
                        Policy.serialize_same_domain_in_set,
                        NEW d \in DrainIds, NEW e \in DrainIds, d # e,
                        drains[d].set = drains[e].set,
                        DomainOf[drains[d].target] = DomainOf[drains[e].target],
                        holds_fence(drains[d]), holds_fence(drains[e])
                 PROVE  FALSE
      BY Zenon DEF SerializedWithinSet
    <2>1. Book[d].phase = "holding" /\ Book[e].phase = "holding"
      BY PhaseTable, BookEntries, Zenon DEF DrainInv, TypeOK, PhaseInv
    <2>2. e < d \/ d < e
      <3>1. d \in Nat /\ e \in Nat
        BY BookTypes, Zenon DEF DrainInv
      <3> QED BY <3>1
    <2>3. e \in Promise!Before(d) \/ d \in Promise!Before(e)
      BY <2>2, BookEntries, PromisedBook, Zenon DEF Promise!Before
    <2> QED BY <2>1, <2>3, BookEntries, PromisedBook, Zenon DEF Promise!ContractInv, Promise!HoldersTakeTurns
  <1> QED BY <1>1, EngineKeepsContract, PTL
=============================================================================
