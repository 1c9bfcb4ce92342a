---------------------------- MODULE DrainProofs -----------------------------
(***************************************************************************)
(* The invariants of the drain engine, for any targets, domains, policy    *)
(* and bounds.  First what its operations do to the owner of a target, to  *)
(* its fence: every step of a drain is either quiet (no fence moves) or    *)
(* the closure of admission; requests and restorations are the only others *)
(* that matter.  Then the types, and the theorems.                         *)
(* TypeOK, OwnershipInv and NoAdmissionBehindFence are inductive together: *)
(* ownership needs the types, the fence needs the owner, and admission     *)
(* needs the fence to move forward only.                                   *)
(***************************************************************************)
EXTENDS DrainCalls, TLAPS

------------------------------------------------------------------------------
(* One step of one drain, as ownership sees it.                            *)

\* Holds its fence for good: past admission closure, or drained.
is_closed_drain(r) == holds_fence(r) \/ r.state = "drained"

\* Drain d, whose record was r, has record r2 after a step that leaves every
\* fence alone: it holds its fence, is restored or is restoring only if it did
\* or was before, and keeps its target and its generation.
QuietStep(r, r2) ==
  /\ r2 \in DrainRecord
  /\ r2.target = r.target
  /\ r2.generation = r.generation
  /\ is_closed_drain(r2) => is_closed_drain(r)
  /\ is_restored(r2) => is_restored(r) \/ is_restoring(r)
  /\ is_restored(r) => is_restored(r2)
  /\ is_restoring(r2) => is_restoring(r)
  /\ r2.restored_at # 0 => r2.state = "cancelled"

\* Drain d closes admission: it takes the fence of its target, which then has
\* the generation that the drain remembers.
ClosingStep(d, r, r2) ==
  /\ r.state = "validating" \/ (r.state = "blocked" /\ r.blocked_from = "validating")
  /\ fence' = close(fence, r.target, d)
  /\ r2 \in DrainRecord
  /\ r2.target = r.target
  /\ r2.generation = fence[r.target].generation + 1
  /\ r2.state = "admission-closed"
  /\ r2.restored_at = 0

\* Everything DrainRecord::transition does to the fields of a record.
LEMMA TransitionFacts ==
  ASSUME NEW r \in DrainRecord, NEW next \in DrainState, NEW at \in Nat
  PROVE  /\ transition(r, next, at) \in DrainRecord
         /\ transition(r, next, at).target = r.target
         /\ transition(r, next, at).generation = r.generation
         /\ transition(r, next, at).restored_at = r.restored_at
         /\ transition(r, next, at).state \in {r.state, next}
         /\ transition(r, next, at).state = r.state => transition(r, next, at) = r
         /\ transition(r, next, at).state # r.state /\ next = "blocked"
              => transition(r, next, at).blocked_from = r.state
         /\ transition(r, next, at).state # r.state => is_legal_drain_transition(r.state, next)
         /\ next # r.state /\ is_legal_drain_transition(r.state, next)
              => transition(r, next, at).state = next
  <1> DEFINE stays == next = r.state \/ ~is_legal_drain_transition(r.state, next)
             from == IF next = "blocked" THEN r.state
                     ELSE IF r.state = "blocked" THEN "none" ELSE r.blocked_from
             closed_at == IF next = "admission-closed" THEN at ELSE r.admission_closed_at
             moved == [r EXCEPT !.state = next, !.blocked_from = from, !.state_since = at,
                                !.admission_closed_at = closed_at]
  <1>1. transition(r, next, at) = IF stays THEN r ELSE moved
    BY Zenon DEF transition
  <1>2. moved \in DrainRecord
    <2>1. from \in DrainState \cup {"none"} /\ closed_at \in Nat
      BY Zenon DEF DrainRecord
    <2> HIDE DEF from, closed_at
    <2> QED BY <2>1, Zenon DEF DrainRecord
  <1>3. /\ moved.target = r.target /\ moved.generation = r.generation
        /\ moved.restored_at = r.restored_at /\ moved.state = next
        /\ next = "blocked" => moved.blocked_from = r.state
    BY Zenon DEF DrainRecord
  <1> HIDE DEF moved
  <1> QED BY <1>1, <1>2, <1>3, Zenon

\* A legal transition to another state is taken.
LEMMA LegalMove ==
  ASSUME NEW r \in DrainRecord, NEW next \in DrainState, NEW at \in Nat,
         next # r.state, next \in LegalTargets(r.state)
  PROVE  /\ transition(r, next, at) \in DrainRecord
         /\ transition(r, next, at).state = next
         /\ transition(r, next, at).target = r.target
         /\ transition(r, next, at).generation = r.generation
         /\ transition(r, next, at).restored_at = r.restored_at
  BY TransitionFacts DEF is_legal_drain_transition

\* A transition is quiet unless it enters a closed or a restoring state anew.
LEMMA QuietTransition ==
  ASSUME NEW r \in DrainRecord, NEW next \in DrainState, NEW at \in Nat,
         r.restored_at = 0,
         is_fence_holding_state(next) \/ next = "drained" => is_closed_drain(r),
         next = "restoring" => is_restoring(r)
  PROVE  QuietStep(r, transition(r, next, at))
  <1> DEFINE r2 == transition(r, next, at)
  <1>1. /\ r2 \in DrainRecord /\ r2.target = r.target /\ r2.generation = r.generation
        /\ r2.restored_at = 0 /\ r2.state \in {r.state, next}
        /\ r2.state = r.state => r2 = r
        /\ r2.state # r.state /\ next = "blocked" => r2.blocked_from = r.state
    BY TransitionFacts, Zenon
  <1> HIDE DEF r2
  <1>2. CASE r2 = r
    BY <1>1, <1>2, Zenon DEF QuietStep, is_restored, r2
  <1>3. CASE r2 # r /\ r2.state = next
    BY <1>1, <1>3, Zenon DEF QuietStep, is_restored, is_restoring, is_closed_drain, holds_fence,
                      is_fence_holding_state, r2
  <1> QED BY <1>1, <1>2, <1>3, Zenon

\* Two quiet steps in one pass are one.
LEMMA QuietCompose ==
  ASSUME NEW r, NEW r1, NEW r2, QuietStep(r, r1), QuietStep(r1, r2)
  PROVE  QuietStep(r, r2)
  BY Zenon DEF QuietStep

\* A blocked drain whose blockers cleared resumes quietly, or stays as it was.
LEMMA QuietResume ==
  ASSUME NEW r \in DrainRecord, r.state = "blocked", r.restored_at = 0, NEW at \in Nat
  PROVE  /\ QuietStep(r, transition(r, r.blocked_from, at))
         /\ transition(r, r.blocked_from, at).state \in {"blocked", r.blocked_from}
         /\ transition(r, r.blocked_from, at).restored_at = 0
  <1>1. CASE r.blocked_from \in LegalTargets("blocked")
    <2>1. r.blocked_from \in DrainState \ {"drained", "blocked"}
      BY <1>1, Zenon DEF LegalTargets, DrainState
    <2>2. r.blocked_from = "restoring" => is_restoring(r)
      BY Zenon DEF is_restoring
    <2>3. is_fence_holding_state(r.blocked_from) => is_closed_drain(r)
      BY Zenon DEF is_closed_drain, holds_fence
    <2> QED BY <2>1, <2>2, <2>3, QuietTransition, TransitionFacts
  <1>2. CASE r.blocked_from \notin LegalTargets("blocked")
    <2>1. transition(r, r.blocked_from, at) = r
      BY <1>2, Zenon DEF transition, is_legal_drain_transition
    <2> QED BY <2>1, Zenon DEF QuietStep, DrainRecord
  <1> QED BY <1>1, <1>2, Zenon

\* record(), quarantine_all() and attest() keep the ledger a ledger.
LEMMA LedgerTypes ==
  ASSUME NEW led \in Ledger
  PROVE  /\ \A e \in Evidence : record(led, e) \in Ledger
         /\ quarantine_all(led) \in Ledger
         /\ \A key, seq : attest(led, key, seq) \in Ledger
  <1>1. \A e \in Evidence : /\ [e EXCEPT !.attested = TRUE] \in Evidence
                            /\ [e EXCEPT !.attested = FALSE] \in Evidence
    BY Zenon DEF Evidence
  <1>2. led.records \subseteq Evidence
    BY Zenon DEF Ledger
  <1>3. ASSUME NEW e \in Evidence PROVE record(led, e) \in Ledger
    <2>1. retire_one_for(led, e.key) \subseteq led.records
      BY Zenon DEF retire_one_for
    <2>2. [led.latest EXCEPT ![e.key] = e.seq] \in [EvidenceKeys -> Nat \cup {NoSeq}]
      BY Zenon DEF Ledger, Evidence
    <2> QED BY <1>1, <2>1, <2>2, Zenon DEF record, Ledger
  <1>4. quarantine_all(led) \in Ledger
    <2>1. {[e EXCEPT !.attested = FALSE] : e \in led.records} \in SUBSET Evidence
      BY <1>1, <1>2, Zenon
    <2> QED BY <2>1, Zenon DEF quarantine_all, Ledger
  <1>5. ASSUME NEW key, NEW seq PROVE attest(led, key, seq) \in Ledger
    <2>1. (led.records \ find(led, key, seq))
            \cup {[e EXCEPT !.attested = TRUE] : e \in find(led, key, seq)} \in SUBSET Evidence
      BY <1>1, <1>2, Zenon DEF find
    <2> QED BY <2>1, Zenon DEF attest, Ledger
  <1> QED BY <1>3, <1>4, <1>5, Zenon

\* Recording a removal keeps the ledger a ledger.
LEMMA RemovalLedgerTypes ==
  ASSUME TypeOK, NEW d \in DrainIds, NEW r \in DrainRecord, NEW led \in Ledger
  PROVE  record_removal_evidence(d, r, led) \in Ledger
  <1>1. RemovalKey(d) \in EvidenceKeys
    BY EngineAssumption, StreamsAssumption, SMTT(30) DEF TypeOK, DrainIds, RemovalKey, BoundsType
  <1>2. high_water(led, RemovalKey(d)) \in Nat
    BY <1>1, Zenon DEF high_water, Ledger
  <1>3. epoch \in Nat /\ incarnation \in Nat /\ now \in Nat /\ r.generation \in Nat
    BY Zenon DEF TypeOK, AuthorityTypeOK, DrainRecord
  <1>4. high_water(led, RemovalKey(d)) + 1 \in Nat
    BY <1>2
  <1>5. RemovalEvidence(d, r, led) \in Evidence
    BY <1>1, <1>3, <1>4, Zenon DEF RemovalEvidence, Evidence
  <1> QED BY <1>5, LedgerTypes, Zenon DEF record_removal_evidence

\* What the evaluation of one branch of step_drain does to the drain and to the
\* fences, given the record r the switch is entered with.
LEMMA SwitchMoves ==
  ASSUME TypeOK, NEW d \in DrainIds, NEW r \in DrainRecord, r.restored_at = 0,
         NEW led \in Ledger, Switch(d, r, led)
  PROVE  \E r2 : /\ drains' = [drains EXCEPT ![d] = r2]
                 /\ \/ fence' = fence /\ QuietStep(r, r2)
                    \/ r.state = "validating" /\ ClosingStep(d, r, r2)
  <1> DEFINE Quiet(r2) == drains' = [drains EXCEPT ![d] = r2] /\ fence' = fence /\ QuietStep(r, r2)
  <1> USE DEF Put, Becomes, enter_blocked
  <1>0. now \in Nat
    BY Zenon DEF TypeOK
  <1>1. QuietStep(r, r)
    BY Zenon DEF QuietStep
  <1>2. QuietStep(r, transition(r, "blocked", now))
    BY <1>0, QuietTransition, Zenon DEF DrainState, is_fence_holding_state
  <1>3. CASE Begin(d, r, led)
    <2>1. QuietStep(r, transition(r, "validating", now))
      BY <1>0, QuietTransition, Zenon DEF DrainState, is_fence_holding_state
    <2> QED BY <1>3, <2>1, Zenon DEF Begin
  <1>4. CASE \/ ValidationBlocked(d, r, led) \/ EvacuationBlocked(d, r, led)
             \/ QuiescenceBlocked(d, r, led) \/ VerificationBlocked(d, r, led)
    BY <1>2, <1>4, Zenon DEF ValidationBlocked, EvacuationBlocked, QuiescenceBlocked, VerificationBlocked
  <1>5. CASE AwaitFenceSettle(d, r, led) \/ AwaitEvacuation(d, r, led) \/ AwaitRestoreSettle(d, r, led)
    BY <1>1, <1>5, Zenon DEF AwaitFenceSettle, AwaitEvacuation, AwaitRestoreSettle
  <1>6. CASE CloseAdmission(d, r, led)
    <2> DEFINE r1 == [r EXCEPT !.generation = fence[r.target].generation + 1]
               r2 == transition(r1, "admission-closed", now)
    <2>1. r.target \in Targets /\ fence[r.target].generation \in Nat
      BY Zenon DEF TypeOK, FenceTypeOK, FenceEntry, DrainRecord
    <2>2. /\ r1 \in DrainRecord /\ r1.target = r.target /\ r1.state = "validating"
          /\ r1.generation = fence[r.target].generation + 1 /\ r1.restored_at = 0
      BY <1>6, <2>1 DEF DrainRecord, CloseAdmission
    <2>3. drains' = [drains EXCEPT ![d] = r2] /\ fence' = close(fence, r.target, d)
          /\ r.state = "validating"
      BY <1>6, Zenon DEF CloseAdmission
    <2> HIDE DEF r1
    <2>4. "admission-closed" \in LegalTargets("validating") /\ "admission-closed" \in DrainState
      BY Zenon DEF LegalTargets, DrainState
    <2>5. /\ r2 \in DrainRecord /\ r2.target = r1.target /\ r2.generation = r1.generation
          /\ r2.restored_at = 0 /\ r2.state = "admission-closed"
      BY <1>0, <2>2, <2>4, LegalMove
    <2> HIDE DEF r2
    <2>6. ClosingStep(d, r, r2)
      BY <2>2, <2>3, <2>5, Zenon DEF ClosingStep
    <2> QED BY <2>3, <2>6, Zenon
  <1>7. CASE LeaveAdmissionClosed(d, r, led)
    <2>1. PICK next \in {"quiescing", "evacuating"} :
            Becomes(d, transition(r, next, now), led)
      BY <1>7, Zenon DEF LeaveAdmissionClosed
    <2>2. is_closed_drain(r)
      BY <1>7, Zenon DEF LeaveAdmissionClosed, is_closed_drain, holds_fence, is_fence_holding_state
    <2>3. QuietStep(r, transition(r, next, now))
      BY <1>0, <2>2, QuietTransition, Zenon DEF DrainState
    <2> QED BY <2>1, <2>3, Zenon
  <1>8. CASE AllEvacuated(d, r, led)
    <2>1. QuietStep(r, transition(r, "quiescing", now))
      BY <1>0, <1>8, QuietTransition, Zenon
         DEF AllEvacuated, DrainState, is_closed_drain, holds_fence, is_fence_holding_state
    <2> QED BY <1>8, <2>1, Zenon DEF AllEvacuated
  <1>9. CASE RequestEvacuation(d, r, led)
    <2>0. r.evacuation_requests + 1 \in Nat
      BY DEF DrainRecord
    <2>1. note_evacuation_attempt(r, now) \in DrainRecord
      BY <1>0, <2>0, Zenon DEF note_evacuation_attempt, DrainRecord
    <2>2. QuietStep(r, note_evacuation_attempt(r, now))
      BY <2>1, Zenon DEF note_evacuation_attempt, QuietStep, DrainRecord, is_restored, is_restoring,
                  is_closed_drain, holds_fence
    <2> QED BY <1>9, <2>2, Zenon DEF RequestEvacuation
  <1>10. CASE FallBack(d, r, led)
    <2>1. QuietStep(r, transition(r, "evacuating", now))
      BY <1>0, <1>10, QuietTransition, Zenon
         DEF FallBack, DrainState, is_closed_drain, holds_fence, is_fence_holding_state
    <2> QED BY <1>10, <2>1, Zenon DEF FallBack
  <1>11. CASE RetireReleased(d, r, led)
    BY <1>1, <1>11, Zenon DEF RetireReleased
  <1>12. CASE RemoveResource(d, r, led)
    <2>1. QuietStep(r, transition(r, "verifying", now))
      BY <1>0, <1>12, QuietTransition, Zenon
         DEF RemoveResource, DrainState, is_closed_drain, holds_fence, is_fence_holding_state
    <2> QED BY <1>2, <1>12, <2>1, Zenon DEF RemoveResource
  <1>13. CASE Complete(d, r, led)
    <2> DEFINE led2   == VerificationLedger(d, r, led)
               proofs == removal_proofs(d, r, led2)
               proof  == IF Policy.require_quiescence_evidence /\ proofs # {}
                         THEN (CHOOSE e \in proofs : TRUE).seq ELSE 0
               r1 == [r EXCEPT !.completion_evidence = proof]
    <2>1. proof \in Nat
      <3>1. led2 \in Ledger
        BY RemovalLedgerTypes, Zenon DEF VerificationLedger
      <3>2. \A e \in proofs : e.seq \in Nat
        BY <3>1, Zenon DEF removal_proofs, fresh, latest, find, Ledger, Evidence
      <3> QED BY <3>2, Zenon
    <2>2. drains' = [drains EXCEPT ![d] = transition(r1, "drained", now)] /\ fence' = fence
          /\ r.state = "verifying"
      BY <1>13, Zenon DEF Complete
    <2> HIDE DEF proof
    <2>3. /\ r1 \in DrainRecord /\ r1.state = "verifying" /\ r1.restored_at = 0
          /\ QuietStep(r, r1)
      BY <2>1, <2>2, Zenon DEF DrainRecord, QuietStep, is_restored, is_restoring, is_closed_drain,
                        holds_fence, is_fence_holding_state
    <2> HIDE DEF r1
    <2>4. QuietStep(r1, transition(r1, "drained", now))
      BY <1>0, <2>3, QuietTransition, Zenon DEF DrainState, is_closed_drain, holds_fence,
                                         is_fence_holding_state
    <2> QED BY <2>2, <2>3, <2>4, QuietCompose, Zenon
  <1>14. CASE FinishRestoration(d, r, led)
    <2> DEFINE r1 == transition(r, "cancelled", now)
    <2>1. r.state = "restoring" /\ drains' = [drains EXCEPT ![d] = mark_restored(r1, now)]
          /\ fence' = fence
      BY <1>14, Zenon DEF FinishRestoration
    <2>2. "cancelled" \in LegalTargets("restoring") /\ "cancelled" \in DrainState
      BY Zenon DEF LegalTargets, DrainState
    <2>3. /\ r1 \in DrainRecord /\ r1.state = "cancelled" /\ r1.target = r.target
          /\ r1.generation = r.generation
      BY <1>0, <2>1, <2>2, LegalMove
    <2> HIDE DEF r1
    <2>4. QuietStep(r, mark_restored(r1, now))
      BY <1>0, <2>1, <2>3, SMTT(30)
         DEF mark_restored, QuietStep, DrainRecord, is_restored, is_restoring, is_closed_drain,
             holds_fence, is_fence_holding_state
    <2> QED BY <2>1, <2>4, Zenon
  <1> QED BY <1>3, <1>4, <1>5, <1>6, <1>7, <1>8, <1>9, <1>10, <1>11, <1>12, <1>13, <1>14, SMTT(30) DEF Switch

\* The state a record is in when a branch of the switch applies.
LEMMA SwitchIsRunning ==
  ASSUME NEW d, NEW r, NEW led, Switch(d, r, led)
  PROVE  ~is_settled(r.state) /\ r.state # "blocked"
  BY Zenon DEF Switch, Begin, ValidationBlocked, CloseAdmission, AwaitFenceSettle, LeaveAdmissionClosed,
         AllEvacuated, EvacuationBlocked, AwaitEvacuation, RequestEvacuation, FallBack,
         QuiescenceBlocked, RetireReleased, RemoveResource, VerificationBlocked, Complete,
         AwaitRestoreSettle, FinishRestoration, is_settled

\* step_drain is a quiet step of one drain, or that drain closes admission.
LEMMA StepMoves ==
  ASSUME TypeOK, OneOwner, NEW d \in DrainIds, step_drain(d)
  PROVE  \E r2 : /\ drains' = [drains EXCEPT ![d] = r2]
                 /\ \/ fence' = fence /\ QuietStep(drains[d], r2)
                    \/ ClosingStep(d, drains[d], r2)
  <1> DEFINE r == drains[d]
             r1 == transition(r, r.blocked_from, now)
  <1>1. r \in DrainRecord /\ now \in Nat /\ evidence \in Ledger
    BY Zenon DEF TypeOK
  <1>2. r.state # "cancelled" => r.restored_at = 0
    BY Zenon DEF OneOwner
  <1> HIDE DEF r
  <1>3. CASE Switch(d, r, evidence)
    <2>1. r.restored_at = 0
      BY <1>2, <1>3, SwitchIsRunning, Zenon DEF is_settled
    <2> QED BY <1>1, <1>3, <2>1, SwitchMoves, Zenon DEF r
  <1>4. CASE StayBlocked(d, r)
    <2>1. QuietStep(r, r)
      BY <1>1, <1>2, <1>4, Zenon DEF StayBlocked, QuietStep
    <2> QED BY <1>4, <2>1, Zenon DEF StayBlocked, Becomes, Put, r
  <1>5. CASE Unblock(d, r)
    <2> DEFINE led == RevalidationLedger(d, r)
    <2>1. r.state = "blocked" /\ r.restored_at = 0 /\ Switch(d, r1, led)
      BY <1>2, <1>5, Zenon DEF Unblock
    <2>2. /\ QuietStep(r, r1) /\ r1 \in DrainRecord /\ r1.restored_at = 0
          /\ r1.state \in {"blocked", r.blocked_from}
      BY <1>1, <2>1, QuietResume, Zenon DEF QuietStep
    <2>3. led \in Ledger
      BY <1>1, RemovalLedgerTypes, Zenon DEF RevalidationLedger
    <2> HIDE DEF r1, led
    <2>4. PICK r2 : /\ drains' = [drains EXCEPT ![d] = r2]
                    /\ \/ fence' = fence /\ QuietStep(r1, r2)
                       \/ r1.state = "validating" /\ ClosingStep(d, r1, r2)
      BY <2>1, <2>2, <2>3, SwitchMoves, Zenon
    <2>5. CASE fence' = fence /\ QuietStep(r1, r2)
      BY <2>2, <2>4, <2>5, QuietCompose, Zenon DEF r
    <2>6. CASE r1.state = "validating" /\ ClosingStep(d, r1, r2)
      <3>1. r.blocked_from = "validating" /\ r1.target = r.target
        BY <2>2, <2>6, Zenon DEF QuietStep
      <3>2. ClosingStep(d, r, r2)
        BY <2>1, <2>6, <3>1, Zenon DEF ClosingStep
      <3> QED BY <2>4, <3>2, Zenon DEF r
    <2> QED BY <2>4, <2>5, <2>6, Zenon
  <1> QED BY <1>3, <1>4, <1>5, Zenon DEF step_drain, r

------------------------------------------------------------------------------
(* Who owns a target, and who holds its fence.                             *)

OwnershipInv == OneOwner /\ FenceHeld /\ ClosedFenceHasOwner

\* Drains that take quiet steps keep who owns what.
LEMMA QuietKeeps ==
  ASSUME TypeOK, OwnershipInv, fence' = fence, drain_high_water' = drain_high_water,
         \A d \in DrainIds : QuietStep(drains[d], drains'[d])
  PROVE  OwnershipInv'
  <1> USE DEF OwnershipInv
  <1>1. DrainIds' = DrainIds
    BY Zenon DEF DrainIds
  <1>2. OneOwner'
    BY <1>1 DEF OneOwner, QuietStep
  <1>3. FenceHeld'
    BY <1>1, Zenon DEF FenceHeld, QuietStep, is_closed_drain
  <1>4. ClosedFenceHasOwner'
    BY <1>1, Zenon DEF ClosedFenceHasOwner, QuietStep
  <1> QED BY <1>2, <1>3, <1>4, Zenon

\* A drain that closes admission takes a fence nobody else holds: any other
\* drain of its target has been restored.
LEMMA ClosingKeeps ==
  ASSUME TypeOK, OwnershipInv, drain_high_water' = drain_high_water,
         NEW d \in DrainIds, NEW r2, drains' = [drains EXCEPT ![d] = r2],
         ClosingStep(d, drains[d], r2)
  PROVE  OwnershipInv'
  <1> USE DEF OwnershipInv
  <1> DEFINE t == drains[d].target
  <1>1. DrainIds' = DrainIds
    BY Zenon DEF DrainIds
  <1>2. drains'[d] = r2 /\ \A e \in DrainIds \ {d} : drains'[e] = drains[e]
    BY Zenon DEF TypeOK
  <1>3. /\ r2.target = t /\ r2.state = "admission-closed" /\ r2.restored_at = 0
        /\ drains[d].state # "cancelled"
        /\ r2.generation = fence[t].generation + 1
    BY Zenon DEF ClosingStep
  <1>4. t \in Targets
    BY Zenon DEF TypeOK, DrainRecord
  <1>5. /\ fence'[t] = [closed |-> TRUE, generation |-> r2.generation, drain |-> d]
        /\ \A u \in Targets \ {t} : fence'[u] = fence[u]
    BY <1>3, <1>4, Zenon DEF ClosingStep, close, TypeOK, FenceTypeOK
  <1>6. \A e \in DrainIds \ {d} : drains[e].target = t => is_restored(drains[e])
    BY <1>3, Zenon DEF OneOwner, is_restored
  <1> HIDE DEF t
  <1>7. OneOwner'
    BY <1>1, <1>2, <1>3, <1>6 DEF OneOwner, is_restored, t
  <1>8. FenceHeld'
    <2> SUFFICES ASSUME NEW e \in DrainIds, is_closed_drain(drains'[e])
                 PROVE  fence'[drains'[e].target] =
                          [closed |-> TRUE, generation |-> drains'[e].generation, drain |-> e]
      BY <1>1, Zenon DEF FenceHeld, is_closed_drain
    <2>1. CASE e = d
      BY <1>2, <1>3, <1>5, <2>1, Zenon
    <2>2. CASE e # d
      <3>1. drains[e].target # t
        BY <1>2, <1>6, <2>2, Zenon DEF is_restored, is_closed_drain, holds_fence, is_fence_holding_state
      <3>2. drains[e].target \in Targets
        BY Zenon DEF TypeOK, DrainRecord
      <3> QED BY <1>2, <1>5, <2>2, <3>1, <3>2 DEF FenceHeld, is_closed_drain
    <2> QED BY <2>1, <2>2, Zenon
  <1>9. ClosedFenceHasOwner'
    <2> SUFFICES ASSUME NEW u \in Targets, fence'[u].closed
                 PROVE  /\ fence'[u].drain \in DrainIds
                        /\ drains'[fence'[u].drain].target = u
                        /\ ~is_restored(drains'[fence'[u].drain])
                        /\ ~is_restoring(drains'[fence'[u].drain])
      BY <1>1, Zenon DEF ClosedFenceHasOwner
    <2>1. CASE u = t
      BY <1>2, <1>3, <1>5, <2>1, SMTT(30) DEF is_restored, is_restoring
    <2>2. CASE u # t
      BY <1>2, <1>5, <2>2 DEF ClosedFenceHasOwner, t
    <2> QED BY <2>1, <2>2, Zenon
  <1> QED BY <1>7, <1>8, <1>9, Zenon

\* restore_drain: a settled drain that was not restored takes its fence back to
\* open and restores; no other drain of the target is live.
LEMMA RestoreMoves ==
  ASSUME TypeOK, OneOwner, NEW d \in DrainIds, NEW a, restore_drain(d, a)
  PROVE  /\ drains[d].restored_at = 0
         /\ drains'[d] \in DrainRecord
         /\ drains'[d].target = drains[d].target
         /\ drains'[d].state = "restoring"
         /\ drains'[d].restored_at = 0
         /\ drains' \in [DrainIds -> DrainRecord]
         /\ \A e \in DrainIds \ {d} : drains'[e] = drains[e]
  <1> DEFINE r == drains[d]
             r1 == transition(r, "restoring", now)
             g == ReopenedFence(d)[r.target].generation
             r2 == [r1 EXCEPT !.restore_generation = g]
  <1>1. r \in DrainRecord /\ now \in Nat /\ r.target \in Targets
    BY Zenon DEF TypeOK, DrainRecord
  <1>2. r.restored_at = 0
    BY Zenon DEF restore_drain, OneOwner, is_restored
  <1>3. "restoring" \in LegalTargets(r.state) /\ "restoring" # r.state /\ "restoring" \in DrainState
    BY Zenon DEF restore_drain, is_settled, LegalTargets, DrainState
  <1>4. g \in Nat
    BY <1>1 DEF ReopenedFence, close, reopen, TypeOK, FenceTypeOK, FenceEntry
  <1>5. drains' = [drains EXCEPT ![d] = r2]
    BY Zenon DEF restore_drain
  <1> HIDE DEF r, g
  <1>6. /\ r1 \in DrainRecord /\ r1.state = "restoring" /\ r1.target = r.target
        /\ r1.restored_at = r.restored_at
    BY <1>1, <1>3, LegalMove, Zenon
  <1> HIDE DEF r1
  <1>7. /\ r2 \in DrainRecord /\ r2.state = "restoring" /\ r2.target = r.target
        /\ r2.restored_at = 0
    BY <1>2, <1>4, <1>6, SMTT(30) DEF DrainRecord
  <1> HIDE DEF r2
  <1> QED BY <1>2, <1>5, <1>7, Zenon DEF TypeOK, r

\* What restoration does to the fences.
LEMMA ReopenMoves ==
  ASSUME TypeOK, NEW d \in DrainIds
  PROVE  /\ ReopenedFence(d) \in [Targets -> FenceEntry]
         /\ ~ReopenedFence(d)[drains[d].target].closed
         /\ ReopenedFence(d)[drains[d].target].generation >= fence[drains[d].target].generation
         /\ fence[drains[d].target].closed =>
              ReopenedFence(d)[drains[d].target].generation > fence[drains[d].target].generation
         /\ \A t \in Targets \ {drains[d].target} : ReopenedFence(d)[t] = fence[t]
  <1> DEFINE t == drains[d].target
  <1>1. t \in Targets /\ fence \in [Targets -> FenceEntry]
    BY Zenon DEF TypeOK, FenceTypeOK, DrainRecord
  <1>2. /\ fence[t] \in FenceEntry /\ fence[t].generation \in Nat /\ fence[t].closed \in BOOLEAN
        /\ d \in Nat /\ drains[d].generation \in Nat
    <2>1. fence[t] \in FenceEntry
      BY <1>1, Zenon
    <2>2. d \in Nat /\ drains[d] \in DrainRecord
      BY DEF TypeOK, DrainIds
    <2> QED BY <2>1, <2>2, Zenon DEF FenceEntry, DrainRecord
  <1>3. \A n \in Nat : [closed |-> FALSE, generation |-> n, drain |-> d] \in FenceEntry
    BY <1>2, Zenon DEF FenceEntry
  <1>4. CASE is_closed(fence, t)
    <2>1. ReopenedFence(d) = [fence EXCEPT ![t] = [closed |-> FALSE,
                                generation |-> fence[t].generation + 1, drain |-> d]]
      BY <1>4, SMTT(30) DEF ReopenedFence, reopen
    <2> QED BY <1>1, <1>2, <1>3, <1>4, <2>1 DEF is_closed
  <1>5. CASE ~is_closed(fence, t) /\ fence[t].generation <= drains[d].generation
    <2>1. ReopenedFence(d) = reopen(close(fence, t, d), t, d)
      BY <1>5, Zenon DEF ReopenedFence
    <2>2. ReopenedFence(d) = [fence EXCEPT ![t] = [closed |-> FALSE,
                                generation |-> (fence[t].generation + 1) + 1, drain |-> d]]
      BY <1>1, <2>1, Zenon DEF reopen, close
    <2> QED BY <1>1, <1>2, <1>3, <1>5, <2>2 DEF is_closed
  <1>6. CASE ~is_closed(fence, t) /\ ~(fence[t].generation <= drains[d].generation)
    <2>1. ReopenedFence(d) = fence
      BY <1>6, Zenon DEF ReopenedFence
    <2> QED BY <1>1, <1>2, <1>6, <2>1 DEF is_closed
  <1> QED BY <1>4, <1>5, <1>6, Zenon

\* Restoration keeps who owns what.
LEMMA RestoreKeeps ==
  ASSUME TypeOK, OwnershipInv, NEW d \in DrainIds, NEW a, restore_drain(d, a)
  PROVE  OwnershipInv'
  <1> USE DEF OwnershipInv
  <1> DEFINE t == drains[d].target
  <1>1. DrainIds' = DrainIds
    BY Zenon DEF DrainIds, restore_drain, requestVars
  <1>2. /\ drains[d].restored_at = 0 /\ drains'[d].target = t /\ drains'[d].state = "restoring"
        /\ drains'[d].restored_at = 0
        /\ \A e \in DrainIds \ {d} : drains'[e] = drains[e]
    BY RestoreMoves, Zenon
  <1>3. ~fence'[t].closed /\ \A u \in Targets \ {t} : fence'[u] = fence[u]
    BY ReopenMoves, Zenon DEF restore_drain
  <1>4. \A e \in DrainIds \ {d} : drains[e].target = t => is_restored(drains[e])
    BY <1>2, Zenon DEF OneOwner, is_restored
  <1>5. OneOwner'
    BY <1>1, <1>2, <1>4, SMTT(30) DEF OneOwner, is_restored
  <1>6. FenceHeld'
    <2> SUFFICES ASSUME NEW e \in DrainIds, is_closed_drain(drains'[e])
                 PROVE  fence'[drains'[e].target] =
                          [closed |-> TRUE, generation |-> drains'[e].generation, drain |-> e]
      BY <1>1, Zenon DEF FenceHeld, is_closed_drain
    <2>1. e # d
      BY <1>2, Zenon DEF is_closed_drain, holds_fence, is_fence_holding_state
    <2>2. drains[e].target # t
      BY <1>2, <1>4, <2>1, Zenon DEF is_restored, is_closed_drain, holds_fence, is_fence_holding_state
    <2>3. drains[e].target \in Targets
      BY SMTT(30) DEF TypeOK, DrainRecord
    <2> QED BY <1>2, <1>3, <2>1, <2>2, <2>3, SMTT(30) DEF FenceHeld, is_closed_drain
  <1>7. ClosedFenceHasOwner'
    <2> SUFFICES ASSUME NEW u \in Targets, fence'[u].closed
                 PROVE  /\ fence'[u].drain \in DrainIds
                        /\ drains'[fence'[u].drain].target = u
                        /\ ~is_restored(drains'[fence'[u].drain])
                        /\ ~is_restoring(drains'[fence'[u].drain])
      BY <1>1, Zenon DEF ClosedFenceHasOwner
    <2> DEFINE e == fence[u].drain
    <2>1. u # t /\ fence'[u] = fence[u]
      BY <1>3, Zenon
    <2>2. /\ e \in DrainIds /\ drains[e].target = u
          /\ ~is_restored(drains[e]) /\ ~is_restoring(drains[e])
      BY <2>1, Zenon DEF ClosedFenceHasOwner
    <2>3. drains'[e] = drains[e]
      BY <1>2, <2>1, <2>2, Zenon
    <2> QED BY <2>1, <2>2, <2>3, Zenon
  <1> QED BY <1>5, <1>6, <1>7, Zenon

\* A new drain has been requested and nothing else.
LEMMA NewDrainFacts ==
  ASSUME NEW t \in Targets, NEW s \in Nat, NEW a \in Nat, NEW at \in Nat
  PROVE  /\ NewDrain(t, s, a, at) \in DrainRecord
         /\ NewDrain(t, s, a, at).state = "requested"
         /\ NewDrain(t, s, a, at).restored_at = 0
         /\ NewDrain(t, s, a, at).target = t
  BY Zenon DEF NewDrain, DrainRecord, DrainState

\* request_drain_set adds one drain per target, and touches no other.
LEMMA RequestMoves ==
  ASSUME TypeOK, NEW S \in SUBSET Targets, NEW a \in Nat, NEW nonce \in Nat,
         request_drain_set(S, a, nonce)
  PROVE  /\ drain_high_water' \in 0..Bounds.drains /\ drain_high_water' >= drain_high_water
         /\ drains' \in [DrainIds' -> DrainRecord]
         /\ \A d \in DrainIds : d \in DrainIds' /\ drains'[d] = drains[d]
         /\ \A d \in DrainIds' \ DrainIds :
              /\ drains'[d].state = "requested" /\ drains'[d].restored_at = 0
              /\ drains'[d].target \in S
              /\ \A e \in DrainIds' \ DrainIds : e # d => drains'[e].target # drains'[d].target
         /\ sets' \in Seq(DrainSetRecord)
  <1> DEFINE n == Cardinality(S)
             m == drain_high_water
  <1>1. n \in Nat /\ m \in Nat /\ Bounds.drains \in Nat
    BY EngineAssumption, TargetsAssumption DEF TypeOK, BoundsType
  <1>2. /\ m + n <= Bounds.drains /\ drain_high_water' = m + n
        /\ sets' = Append(sets, [targets |-> S, nonce |-> nonce])
    BY Zenon DEF request_drain_set
  <1>3. PICK f \in Assignments(S) :
          drains' = [d \in 1..(m + n) |-> IF d \in DrainIds THEN drains[d]
                                          ELSE NewDrain(f[d], Len(sets) + 1, a, now)]
    BY Zenon DEF request_drain_set
  <1> HIDE DEF n
  <1>4. f \in [(m + 1)..(m + n) -> S] /\ \A i, j \in (m + 1)..(m + n) : i < j => f[i] < f[j]
    BY Zenon DEF Assignments, target_order_less, n
  <1>5. DrainIds = 1..m /\ DrainIds' = 1..(m + n)
    BY <1>2, Zenon DEF DrainIds
  <1>6. \A d \in DrainIds' \ DrainIds : d \in (m + 1)..(m + n)
    BY <1>1, <1>5
  <1>7. PICK id \in Nat : id = Len(sets) + 1 /\ now \in Nat
    BY DEF TypeOK
  <1> HIDE DEF m
  <1>8. \A d \in DrainIds' \ DrainIds :
          /\ drains'[d] = NewDrain(f[d], id, a, now)
          /\ f[d] \in S
    BY <1>3, <1>4, <1>5, <1>6, <1>7, SMTT(30)
  <1>9. \A d \in DrainIds' \ DrainIds :
          /\ drains'[d] \in DrainRecord
          /\ drains'[d].state = "requested" /\ drains'[d].restored_at = 0
          /\ drains'[d].target = f[d]
    <2> TAKE d \in DrainIds' \ DrainIds
    <2>1. PICK t \in Targets : t = f[d] /\ drains'[d] = NewDrain(t, id, a, now)
      BY <1>8, Zenon
    <2>2. /\ NewDrain(t, id, a, now) \in DrainRecord
          /\ NewDrain(t, id, a, now).state = "requested"
          /\ NewDrain(t, id, a, now).restored_at = 0
          /\ NewDrain(t, id, a, now).target = t
      BY <1>7, NewDrainFacts
    <2> QED BY <2>1, <2>2, Zenon
  <1>10. \A d \in DrainIds : d \in DrainIds' /\ drains'[d] = drains[d]
    BY <1>1, <1>3, <1>5
  <1>11. drains' \in [DrainIds' -> DrainRecord]
    <2>1. \A d \in DrainIds : drains[d] \in DrainRecord
      BY Zenon DEF TypeOK
    <2>2. \A d \in DrainIds' : drains'[d] \in DrainRecord
      BY <1>9, <1>10, <2>1, Zenon
    <2> QED BY <1>3, <1>5, <2>2, Zenon
  <1>12. \A d, e \in DrainIds' \ DrainIds : e # d => f[e] # f[d]
    <2>1. \A d \in (m + 1)..(m + n) : f[d] \in Nat
      BY <1>4, TargetsAreNumbered, Zenon
    <2> QED BY <1>1, <1>4, <1>6, <2>1
  <1>13. sets' \in Seq(DrainSetRecord)
    BY <1>2 DEF DrainSetRecord, TypeOK
  <1> QED BY <1>1, <1>2, <1>8, <1>9, <1>10, <1>11, <1>12, <1>13, SMTT(30) DEF m

\* A request leaves every owned target with its owner.
LEMMA RequestKeeps ==
  ASSUME TypeOK, OwnershipInv, NEW S \in SUBSET Targets, NEW a \in Nat, NEW nonce \in Nat,
         request_drain_set(S, a, nonce)
  PROVE  OwnershipInv'
  <1> USE DEF OwnershipInv
  <1> DEFINE New == DrainIds' \ DrainIds
  <1>1. /\ \A d \in DrainIds : d \in DrainIds' /\ drains'[d] = drains[d]
        /\ \A d \in New :
             /\ drains'[d].state = "requested" /\ drains'[d].restored_at = 0
             /\ drains'[d].target \in S
             /\ \A e \in New : e # d => drains'[e].target # drains'[d].target
    BY RequestMoves, Zenon
  <1>2. fence' = fence /\ \A d \in DrainIds : drains[d].target \in S => is_restored(drains[d])
    BY Zenon DEF request_drain_set, is_reusable
  <1>3. \A d \in DrainIds' : d \in DrainIds \/ d \in New
    BY Zenon
  <1> HIDE DEF New
  <1>4. OneOwner'
    <2>1. ASSUME NEW d \in DrainIds', NEW e \in DrainIds', d # e,
                 drains'[d].target = drains'[e].target
          PROVE  is_restored(drains'[d]) \/ is_restored(drains'[e])
      BY <1>1, <1>2, <1>3, <2>1, SMTT(30) DEF OneOwner
    <2>2. \A d \in DrainIds' : drains'[d].restored_at # 0 => drains'[d].state = "cancelled"
      BY <1>1, <1>3, SMTT(30) DEF OneOwner
    <2> QED BY <2>1, <2>2, Zenon DEF OneOwner, is_restored
  <1>5. FenceHeld'
    BY <1>1, <1>2, <1>3, SMTT(30) DEF FenceHeld, holds_fence, is_fence_holding_state
  <1>6. ClosedFenceHasOwner'
    BY <1>1, <1>2, SMTT(30) DEF ClosedFenceHasOwner
  <1> QED BY <1>4, <1>5, <1>6, Zenon

\* Cancellation, resumption, an exception and a restart are quiet.
LEMMA OperationsAreQuiet ==
  ASSUME TypeOK, OneOwner,
         \/ \E d \in DrainIds, a \in DOMAIN tokens :
              \/ cancel_drain(d, a)
              \/ resume_drain(d, a)
              \/ \E o, x : grant_exception(d, o, x, a)
         \/ Restart
  PROVE  /\ fence' = fence /\ drain_high_water' = drain_high_water
         /\ DOMAIN drains' = DrainIds
         /\ \A d \in DrainIds : QuietStep(drains[d], drains'[d])
  <1>1. \A d \in DrainIds : drains[d] \in DrainRecord /\ QuietStep(drains[d], drains[d])
    BY Zenon DEF TypeOK, OneOwner, QuietStep
  <1>2. now \in Nat /\ DOMAIN drains = DrainIds
    BY Zenon DEF TypeOK
  <1>3. \A d \in DrainIds : drains[d].state # "cancelled" => drains[d].restored_at = 0
    BY Zenon DEF OneOwner
  <1>4. ASSUME NEW d \in DrainIds, NEW a, cancel_drain(d, a)
        PROVE  /\ fence' = fence /\ drain_high_water' = drain_high_water
               /\ DOMAIN drains' = DrainIds
               /\ \A e \in DrainIds : QuietStep(drains[e], drains'[e])
    <2>1. QuietStep(drains[d], transition(drains[d], "cancelled", now))
      BY <1>1, <1>2, <1>3, <1>4, QuietTransition, SMTT(30) DEF cancel_drain, DrainState, is_fence_holding_state
    <2> QED BY <1>1, <1>2, <1>4, <2>1, SMTT(30) DEF cancel_drain, requestVars
  <1>5. ASSUME NEW d \in DrainIds, NEW a, resume_drain(d, a)
        PROVE  /\ fence' = fence /\ drain_high_water' = drain_high_water
               /\ DOMAIN drains' = DrainIds
               /\ \A e \in DrainIds : QuietStep(drains[e], drains'[e])
    <2>1. QuietStep(drains[d], transition(drains[d], drains[d].blocked_from, now))
      BY <1>1, <1>2, <1>3, <1>5, QuietResume, SMTT(30) DEF resume_drain
    <2> QED BY <1>1, <1>2, <1>5, <2>1, SMTT(30) DEF resume_drain, requestVars
  <1>6. ASSUME NEW d \in DrainIds, NEW o, NEW x, NEW a, grant_exception(d, o, x, a)
        PROVE  /\ fence' = fence /\ drain_high_water' = drain_high_water
               /\ DOMAIN drains' = DrainIds
               /\ \A e \in DrainIds : QuietStep(drains[e], drains'[e])
    <2> DEFINE r == drains[d]
               r2 == [r EXCEPT !.evacuation_requests = 0]
    <2>1. r \in DrainRecord /\ r.restored_at = 0
      BY <1>1, <1>3, <1>6, Zenon DEF grant_exception, is_settled
    <2>2. drains' = [drains EXCEPT ![d] = r2]
      BY <1>6, Zenon DEF grant_exception
    <2> HIDE DEF r
    <2>3. QuietStep(r, r2)
      BY <2>1, Zenon DEF QuietStep, DrainRecord, is_restored, is_restoring, is_closed_drain, holds_fence
    <2> HIDE DEF r2
    <2> QED BY <1>1, <1>2, <1>6, <2>2, <2>3, SMTT(30) DEF grant_exception, r
  <1>7. ASSUME Restart
        PROVE  /\ fence' = fence /\ drain_high_water' = drain_high_water
               /\ DOMAIN drains' = DrainIds
               /\ \A e \in DrainIds : QuietStep(drains[e], drains'[e])
    <2>1. \A e \in DrainIds : QuietStep(drains[e], recovered(drains[e]))
      <3> TAKE e \in DrainIds
      <3>1. CASE is_transient(drains[e].state)
        BY <1>1, <1>2, <1>3, <3>1, QuietTransition, SMTT(30)
           DEF recovered, is_transient, DrainState, is_fence_holding_state
      <3>2. CASE ~is_transient(drains[e].state)
        BY <1>1, <3>2, Zenon DEF recovered
      <3> QED BY <3>1, <3>2, Zenon
    <2> QED BY <1>7, <2>1, Zenon DEF Restart, requestVars
  <1> QED BY <1>4, <1>5, <1>6, <1>7, Zenon

\* The steps of the engine, as ownership sees them: the drains and the fences
\* are untouched, or move quietly, or one of the four operations below is taken.
LEMMA OtherSteps ==
  ASSUME Tick \/ AnyGovern \/ AnyObserve \/ AnyAdmit \/ AnyReport
  PROVE  UNCHANGED <<drains, fence, drain_high_water>>
  BY Zenon DEF Tick, AnyGovern, AnyObserve, AnyAdmit, AnyReport, issue_authority, revoke_authority,
         revoke_tokens, install_authority_line, InstallIncarnation, add_resource, report_resource_status,
         record_evidence, attest_evidence, admit_obligation, report_obligation, requestVars

\* What callers pass in the engine's own specification has the right types.
LEMMA NextIsCalls ==
  ASSUME [Next]_vars
  PROVE  [AnyNext]_vars
  <1>1. Govern => AnyGovern
    BY InputsAssumption, Zenon DEF Govern, AnyGovern
  <1>2. Observe => AnyObserve
    <2>1. Inputs.evidence_keys \subseteq EvidenceKeys
      BY InputsAssumption, Zenon
    <2>2. /\ \A seq \in 1..Bounds.seq : seq \in Nat
          /\ \A g \in 0..Bounds.generation : g \in Nat
          /\ \A ep \in 1..Bounds.incarnation : ep \in Nat
          /\ \A at \in 0..(now + Policy.evidence_clock_skew) : at \in Nat
      OBVIOUS
    <2>3. Inputs.producers \subseteq Nat
      BY InputsAssumption, Zenon
    <2> QED BY <2>1, <2>2, <2>3, Zenon DEF Observe, AnyObserve
  <1>3. Admit => AnyAdmit
    <2>1. \A g \in 0..Bounds.generation : g \in Nat
      OBVIOUS
    <2> QED BY <2>1, InputsAssumption, Zenon DEF Admit, AnyAdmit
  <1>4. Report => AnyReport
    <2>1. \A ev \in 0..Bounds.seq : ev \in Nat
      OBVIOUS
    <2> QED BY <2>1, InputsAssumption, Zenon DEF Report, AnyReport
  <1>5. Operate => AnyOperate
    BY InputsAssumption, Zenon DEF Operate, AnyOperate
  <1> QED BY <1>1, <1>2, <1>3, <1>4, <1>5, Zenon DEF Next, AnyNext

\* The engine with the callers that TLC enumerates is the engine under some callers.
THEOREM SpecMakesCalls == Spec => CallSpec
  <1>1. [Next]_vars => [AnyNext]_vars
    BY NextIsCalls, Zenon
  <1> QED BY <1>1, PTL DEF Spec, CallSpec

------------------------------------------------------------------------------
(* Types, action by action, and with them what no action does to an        *)
(* obligation: its dependencies and its admission generation are fixed.    *)

\* apply_state changes state, revision and proof, and nothing else.
LEMMA ApplyStateFacts ==
  ASSUME NEW o \in ObligationRecord, NEW next \in ObligationState, NEW ev \in Nat
  PROVE  /\ apply_state(o, next, ev) \in ObligationRecord
         /\ apply_state(o, next, ev).dependencies = o.dependencies
         /\ apply_state(o, next, ev).admission_generation = o.admission_generation
  <1> DEFINE moved == [o EXCEPT !.state = next, !.revision = @ + 1,
                         !.release_evidence = IF next \in {"retired", "released"} THEN ev
                                              ELSE IF next = "admitted" THEN 0 ELSE @]
             renewed == [o EXCEPT !.release_evidence = ev, !.revision = @ + 1]
  <1>1. o.revision + 1 \in Nat
    BY DEF ObligationRecord
  <1>2. /\ moved \in ObligationRecord /\ moved.dependencies = o.dependencies
        /\ moved.admission_generation = o.admission_generation
    BY <1>1, Zenon DEF ObligationRecord
  <1>3. /\ renewed \in ObligationRecord /\ renewed.dependencies = o.dependencies
        /\ renewed.admission_generation = o.admission_generation
    BY <1>1, Zenon DEF ObligationRecord
  <1>4. apply_state(o, next, ev) \in {o, moved, renewed}
    BY Zenon DEF apply_state, MoveState, ReobserveState
  <1> HIDE DEF moved, renewed
  <1> QED BY <1>2, <1>3, <1>4, Zenon

\* The obligations, as a later step may have left them.
ObligationsKept ==
  /\ obligations' \in [ObligationIds -> ObligationRecord]
  /\ \A o \in ObligationIds :
       /\ obligations'[o].dependencies = obligations[o].dependencies
       /\ obligations'[o].admission_generation = obligations[o].admission_generation

\* An evacuation request is a message.
LEMMA EvacuationRequestTypes ==
  ASSUME TypeOK, NEW d \in DrainIds, NEW r \in DrainRecord, NEW o \in ObligationIds,
         NEW led \in Ledger
  PROVE  EvacuationRequest(d, r, o, led) \in Message
  <1>1. d \in Nat /\ o \in Nat /\ d \in 1..Bounds.drains /\ o \in 1..Bounds.obligations
    BY EngineAssumption, SMTT(30) DEF TypeOK, DrainIds, ObligationIds, BoundsType
  <1>2. ReleaseKey(d, o) \in EvidenceKeys
    BY <1>1, StreamsAssumption, Zenon DEF ReleaseKey
  <1>3. high_water(led, ReleaseKey(d, o)) + 1 \in Nat
    BY <1>2 DEF high_water, Ledger
  <1>4. r.generation \in Nat /\ obligations[o].revision \in Nat
    BY Zenon DEF TypeOK, DrainRecord, ObligationRecord
  <1> QED BY <1>1, <1>3, <1>4, Zenon DEF EvacuationRequest, Message

\* Every branch of step_drain keeps the types of what it writes beside the drain.
LEMMA SwitchTypes ==
  ASSUME TypeOK, NEW d \in DrainIds, NEW r \in DrainRecord, NEW led \in Ledger,
         Switch(d, r, led)
  PROVE  /\ evidence' \in Ledger
         /\ ObligationsKept
         /\ status' \in [Resources -> ResourceStatus \cup {"absent"}]
         /\ sent' \subseteq Message
  <1> USE DEF Put, Becomes, enter_blocked
  <1>1. UNCHANGED obligations => ObligationsKept
    BY Zenon DEF ObligationsKept, TypeOK
  <1>2. /\ status \in [Resources -> ResourceStatus \cup {"absent"}]
        /\ sent \subseteq Message
    BY Zenon DEF TypeOK
  <1>3. /\ record_removal_evidence(d, r, led) \in Ledger
        /\ VerificationLedger(d, r, led) \in Ledger
    BY RemovalLedgerTypes, Zenon DEF VerificationLedger
  <1>4. ResourceOf[r.target] \in Resources
    BY TargetsAssumption, Zenon DEF DrainRecord
  <1>5. \A s \in {"in-service", "unavailable"} :
          [status EXCEPT ![ResourceOf[r.target]] = s]
            \in [Resources -> ResourceStatus \cup {"absent"}]
    BY <1>2, <1>4, Zenon DEF ResourceStatus
  <1>6. CASE RequestEvacuation(d, r, led)
    <2>1. \A o \in still_moving(r.target) : EvacuationRequest(d, r, o, led) \in Message
      BY EvacuationRequestTypes, Zenon DEF still_moving, outstanding_for
    <2>2. sent' \subseteq Message
      BY <1>2, <1>6, <2>1, Zenon DEF RequestEvacuation
    <2> QED BY <1>1, <1>2, <1>6, <2>2, Zenon DEF RequestEvacuation
  <1>7. CASE RetireReleased(d, r, led)
    <2>1. \A o \in ObligationIds : /\ obligations[o] \in ObligationRecord
                                   /\ obligations[o].release_evidence \in Nat
      BY Zenon DEF TypeOK, ObligationRecord
    <2>2. "retired" \in ObligationState
      BY Zenon DEF ObligationState
    <2>3. \A o \in ObligationIds :
            LET o2 == apply_state(obligations[o], "retired", obligations[o].release_evidence)
            IN /\ o2 \in ObligationRecord /\ o2.dependencies = obligations[o].dependencies
               /\ o2.admission_generation = obligations[o].admission_generation
      BY <2>1, <2>2, ApplyStateFacts, SMTT(30)
    <2>4. ObligationsKept
      BY <1>7, <2>1, <2>3, Zenon DEF RetireReleased, ObligationsKept
    <2> QED BY <1>2, <1>7, <2>4, Zenon DEF RetireReleased
  <1>8. CASE RemoveResource(d, r, led)
    BY <1>1, <1>2, <1>3, <1>5, <1>8, SMTT(30) DEF RemoveResource
  <1>9. CASE FinishRestoration(d, r, led)
    BY <1>1, <1>2, <1>5, <1>9, Zenon DEF FinishRestoration
  <1>10. CASE VerificationBlocked(d, r, led) \/ Complete(d, r, led)
    BY <1>1, <1>2, <1>3, <1>10, Zenon DEF VerificationBlocked, Complete
  <1>11. CASE \/ Begin(d, r, led) \/ ValidationBlocked(d, r, led) \/ CloseAdmission(d, r, led)
              \/ AwaitFenceSettle(d, r, led) \/ LeaveAdmissionClosed(d, r, led)
              \/ AllEvacuated(d, r, led) \/ EvacuationBlocked(d, r, led)
              \/ AwaitEvacuation(d, r, led) \/ FallBack(d, r, led)
              \/ QuiescenceBlocked(d, r, led) \/ AwaitRestoreSettle(d, r, led)
    <2>1. evidence' = led /\ UNCHANGED <<obligations, status, sent>>
      BY <1>11, Zenon DEF Begin, ValidationBlocked, CloseAdmission, AwaitFenceSettle,
                   LeaveAdmissionClosed, AllEvacuated, EvacuationBlocked, AwaitEvacuation,
                   FallBack, QuiescenceBlocked, AwaitRestoreSettle
    <2> QED BY <1>1, <1>2, <2>1, SMTT(30)
  <1> QED BY <1>6, <1>7, <1>8, <1>9, <1>10, <1>11, Zenon DEF Switch

\* One drain's share of advance() keeps every type.
LEMMA AdvanceTypes ==
  ASSUME TypeOK, OneOwner, advance
  PROVE  TypeOK' /\ ObligationsKept
  <1>1. /\ turn \in DrainIds /\ UNCHANGED <<now, drain_high_water, sets, exceptions,
                                            obligation_high_water>>
        /\ UNCHANGED <<incarnation, epoch, tokens, scope_generations>>
    BY DEF advance, requestVars, authorityVars, TypeOK, DrainIds
  <1>2. DrainIds' = DrainIds /\ ObligationIds' = ObligationIds
    BY <1>1, Zenon DEF DrainIds, ObligationIds
  <1>3. turn' \in DrainIds \cup {1}
    BY <1>1 DEF advance, drain_after, DrainIds, TypeOK
  <1>4. /\ evidence' \in Ledger /\ ObligationsKept
        /\ status' \in [Resources -> ResourceStatus \cup {"absent"}] /\ sent' \subseteq Message
    <2>1. UNCHANGED <<obligations, status, sent>>
            => /\ ObligationsKept /\ sent' \subseteq Message
               /\ status' \in [Resources -> ResourceStatus \cup {"absent"}]
      BY Zenon DEF ObligationsKept, TypeOK
    <2>2. drains[turn] \in DrainRecord /\ evidence \in Ledger /\ now \in Nat
      BY <1>1, Zenon DEF TypeOK
    <2>3. RevalidationLedger(turn, drains[turn]) \in Ledger
      BY <1>1, <2>2, RemovalLedgerTypes, Zenon DEF RevalidationLedger
    <2>4. CASE Switch(turn, drains[turn], evidence)
      BY <1>1, <2>2, <2>4, SwitchTypes, Zenon
    <2>5. CASE StayBlocked(turn, drains[turn])
      BY <2>1, <2>3, <2>5, Zenon DEF StayBlocked, Becomes
    <2>6. CASE Unblock(turn, drains[turn])
      <3> DEFINE r1 == transition(drains[turn], drains[turn].blocked_from, now)
                 led == RevalidationLedger(turn, drains[turn])
      <3>1. /\ drains[turn].state = "blocked" /\ drains[turn].restored_at = 0
            /\ Switch(turn, r1, led)
        BY <1>1, <2>6, Zenon DEF Unblock, OneOwner
      <3>2. r1 \in DrainRecord
        BY <2>2, <3>1, QuietResume, Zenon DEF QuietStep
      <3>3. led \in Ledger
        BY <2>3, Zenon
      <3> HIDE DEF r1, led
      <3> QED BY <1>1, <3>1, <3>2, <3>3, SwitchTypes, Zenon
    <2>7. CASE SkipSettled(turn)
      BY <2>1, <2>2, <2>7, Zenon DEF SkipSettled
    <2> QED BY <2>4, <2>5, <2>6, <2>7, Zenon DEF advance, step_drain
  <1>5. drains' \in [DrainIds -> DrainRecord] /\ fence' \in [Targets -> FenceEntry]
    <2>1. CASE step_drain(turn)
      <3>1. PICK r2 : /\ drains' = [drains EXCEPT ![turn] = r2]
                      /\ \/ fence' = fence /\ QuietStep(drains[turn], r2)
                         \/ ClosingStep(turn, drains[turn], r2)
        BY <1>1, <2>1, StepMoves, Zenon
      <3>2. r2 \in DrainRecord
        BY <3>1, Zenon DEF QuietStep, ClosingStep
      <3>3. drains' \in [DrainIds -> DrainRecord]
        BY <3>1, <3>2, Zenon DEF TypeOK
      <3>4. CASE fence' = fence
        BY <3>3, <3>4, SMTT(30) DEF TypeOK, FenceTypeOK
      <3>5. CASE ClosingStep(turn, drains[turn], r2)
        <4> DEFINE t == drains[turn].target
        <4>1. t \in Targets /\ fence[t].generation + 1 \in Nat /\ turn \in Nat
          <5>1. t \in Targets
            BY <1>1, Zenon DEF TypeOK, DrainRecord
          <5>2. fence[t] \in FenceEntry
            BY <5>1, Zenon DEF TypeOK, FenceTypeOK
          <5>3. turn \in Nat
            BY <1>1 DEF DrainIds, TypeOK
          <5> QED BY <5>1, <5>2, <5>3 DEF FenceEntry
        <4>2. fence' = [fence EXCEPT ![t] = [closed |-> TRUE,
                          generation |-> fence[t].generation + 1, drain |-> turn]]
          BY <3>5, Zenon DEF ClosingStep, close
        <4>3. [closed |-> TRUE, generation |-> fence[t].generation + 1, drain |-> turn]
                \in FenceEntry
          BY <4>1, Zenon DEF FenceEntry
        <4> QED BY <3>3, <4>1, <4>2, <4>3, SMTT(30) DEF TypeOK, FenceTypeOK
      <3> QED BY <3>1, <3>4, <3>5, Zenon
    <2>2. CASE SkipSettled(turn)
      BY <2>2, Zenon DEF SkipSettled, TypeOK, FenceTypeOK
    <2> QED BY <2>1, <2>2, Zenon DEF advance
  <1>6. AuthorityTypeOK'
    BY <1>1, Zenon DEF TypeOK, AuthorityTypeOK
  <1> QED BY <1>1, <1>2, <1>3, <1>4, <1>5, <1>6, SMTT(30) DEF TypeOK, FenceTypeOK, ObligationsKept

\* The types hold initially.
LEMMA InitTypes == Init => TypeOK
  <1> SUFFICES ASSUME Init PROVE TypeOK
    BY Zenon
  <1>1. now \in Nat /\ drain_high_water \in 0..Bounds.drains
        /\ obligation_high_water \in 0..Bounds.obligations /\ turn \in DrainIds \cup {1}
    BY EngineAssumption DEF Init, BoundsType
  <1>2. DrainIds = {} /\ ObligationIds = {}
    BY DEF Init, DrainIds, ObligationIds
  <1>3. drains \in [DrainIds -> DrainRecord] /\ obligations \in [ObligationIds -> ObligationRecord]
    BY <1>2 DEF Init
  <1>4. sets \in Seq(DrainSetRecord) /\ exceptions \in Seq(ExceptionGrant) /\ sent \subseteq Message
    BY DEF Init
  <1>5. status \in [Resources -> ResourceStatus \cup {"absent"}]
    BY InputsAssumption, Zenon DEF Init
  <1>6. FenceTypeOK
    BY Zenon DEF Init, FenceInit, FenceTypeOK, FenceEntry
  <1>7. evidence \in Ledger
    BY Zenon DEF Init, EmptyLedger, Ledger
  <1>8. AuthorityTypeOK
    BY DEF Init, AuthorityTypeOK
  <1> QED BY <1>1, <1>3, <1>4, <1>5, <1>6, <1>7, <1>8, SMTT(30) DEF TypeOK

\* Nothing but the obligations and the types named here decides TypeOK.
LEMMA TypesFromParts ==
  ASSUME TypeOK, UNCHANGED <<drain_high_water, turn, sets, exceptions, obligation_high_water>>,
         now' \in Nat, drains' \in [DrainIds -> DrainRecord],
         obligations' \in [ObligationIds -> ObligationRecord],
         status' \in [Resources -> ResourceStatus \cup {"absent"}], sent' \subseteq Message,
         fence' \in [Targets -> FenceEntry], evidence' \in Ledger, AuthorityTypeOK'
  PROVE  TypeOK'
  <1>1. DrainIds' = DrainIds /\ ObligationIds' = ObligationIds
    BY Zenon DEF DrainIds, ObligationIds
  <1> QED BY <1>1, Zenon DEF TypeOK, FenceTypeOK

\* The parts, as a state of the engine has them.
LEMMA PartsOfTypes ==
  ASSUME TypeOK
  PROVE  /\ now \in Nat /\ drains \in [DrainIds -> DrainRecord]
         /\ obligations \in [ObligationIds -> ObligationRecord]
         /\ status \in [Resources -> ResourceStatus \cup {"absent"}] /\ sent \subseteq Message
         /\ fence \in [Targets -> FenceEntry] /\ evidence \in Ledger
         /\ AuthorityTypeOK
         /\ UNCHANGED authorityVars => AuthorityTypeOK'
  BY Zenon DEF TypeOK, FenceTypeOK, AuthorityTypeOK, authorityVars

\* A token is named by its place in the registry.
LEMMA TokenNames ==
  ASSUME TypeOK
  PROVE  DOMAIN tokens \subseteq Nat
  <1>1. tokens \in Seq(AuthorityToken)
    BY Zenon DEF TypeOK, AuthorityTypeOK
  <1> QED BY <1>1

\* The registry issues and revokes tokens and installs lines, and stays a registry.
LEMMA RegistryTypes ==
  ASSUME AuthorityTypeOK
  PROVE  /\ revoke_all(tokens) \in Seq(AuthorityToken)
         /\ \A i, e \in Nat : install_line(i, e) => AuthorityTypeOK'
         /\ \A i \in Nat : install_incarnation(i) => AuthorityTypeOK'
         /\ \A s \in Scopes : \A at, v \in Nat : issue(s, at, v) => AuthorityTypeOK'
         /\ \A i \in DOMAIN tokens : revoke(i) => AuthorityTypeOK'
  <1>1. \A n \in DOMAIN tokens : [tokens[n] EXCEPT !.revoked = TRUE] \in AuthorityToken
    <2>1. \A tok \in AuthorityToken : [tok EXCEPT !.revoked = TRUE] \in AuthorityToken
      BY Zenon DEF AuthorityToken
    <2> QED BY <2>1 DEF AuthorityTypeOK
  <1>2. revoke_all(tokens) \in Seq(AuthorityToken)
    <2>1. revoke_all(tokens) = [n \in 1..Len(tokens) |-> [tokens[n] EXCEPT !.revoked = TRUE]]
      BY DEF revoke_all, AuthorityTypeOK
    <2>2. revoke_all(tokens) \in [1..Len(tokens) -> AuthorityToken] /\ Len(tokens) \in Nat
      BY <1>1, <2>1 DEF AuthorityTypeOK
    <2> HIDE DEF revoke_all
    <2> QED BY <2>2
  <1>3. ASSUME NEW i \in Nat, NEW e \in Nat, install_line(i, e) PROVE AuthorityTypeOK'
    BY <1>2, <1>3, Zenon DEF install_line, AuthorityTypeOK
  <1>4. ASSUME NEW s \in Scopes, NEW at \in Nat, NEW v \in Nat, issue(s, at, v)
        PROVE  AuthorityTypeOK'
    <2>1. [scope |-> s, generation |-> scope_generations[s], epoch |-> epoch,
           incarnation |-> incarnation, expires_at |-> IF v = 0 THEN 0 ELSE at + v,
           revoked |-> FALSE] \in AuthorityToken
      BY DEF AuthorityTypeOK, AuthorityToken
    <2> QED BY <1>4, <2>1 DEF issue, AuthorityTypeOK
  <1>5. ASSUME NEW i \in DOMAIN tokens, revoke(i) PROVE AuthorityTypeOK'
    BY <1>1, <1>5 DEF revoke, AuthorityTypeOK
  <1>6. ASSUME NEW i \in Nat, install_incarnation(i) PROVE AuthorityTypeOK'
    BY <1>6, Zenon DEF install_incarnation, AuthorityTypeOK
  <1> QED BY <1>2, <1>3, <1>4, <1>5, <1>6, Zenon

\* The clock, the callers' reports on topology and authority, and new evidence.
LEMMA GovernTypes ==
  ASSUME TypeOK, Tick \/ AnyGovern \/ AnyObserve
  PROVE  TypeOK'
  <1> USE DEF callVars, requestVars, obligationVars
  <1> USE PartsOfTypes
  <1>1. CASE Tick
    <2>1. now' \in Nat /\ UNCHANGED <<turn, drains, drain_high_water, sets, exceptions, obligations,
             obligation_high_water, status, sent, fence, evidence>> /\ UNCHANGED authorityVars
      BY <1>1 DEF Tick
    <2> QED BY <2>1, TypesFromParts, Zenon
  <1>2. ASSUME NEW s \in Scopes, NEW v \in Nat, issue_authority(s, v) PROVE TypeOK'
    <2>1. AuthorityTypeOK'
      BY <1>2, RegistryTypes, Zenon DEF issue_authority
    <2> QED BY <1>2, <2>1, TypesFromParts, SMTT(30) DEF issue_authority
  <1>3. ASSUME NEW i \in DOMAIN tokens, revoke_authority(i) PROVE TypeOK'
    <2>1. AuthorityTypeOK'
      BY <1>3, RegistryTypes, SMTT(30) DEF revoke_authority
    <2> QED BY <1>3, <2>1, TypesFromParts, Zenon DEF revoke_authority
  <1>4. ASSUME NEW i \in Nat, NEW e \in Nat, install_authority_line(i, e)
        PROVE  TypeOK'
    <2>1. AuthorityTypeOK'
      BY <1>4, RegistryTypes, Zenon DEF install_authority_line
    <2>2. evidence' \in Ledger
      BY <1>4, LedgerTypes, Zenon DEF install_authority_line
    <2> QED BY <1>4, <2>1, <2>2, TypesFromParts, SMTT(30) DEF install_authority_line
  <1>5. ASSUME NEW x \in Resources, add_resource(x) PROVE TypeOK'
    <2>1. status' \in [Resources -> ResourceStatus \cup {"absent"}]
      BY <1>5, SMTT(30) DEF add_resource, ResourceStatus
    <2> QED BY <1>5, <2>1, TypesFromParts, Zenon DEF add_resource
  <1>6. ASSUME NEW x \in Resources, NEW s \in ResourceStatus, report_resource_status(x, s)
        PROVE  TypeOK'
    <2>1. status' \in [Resources -> ResourceStatus \cup {"absent"}]
      BY <1>6, Zenon DEF report_resource_status
    <2> QED BY <1>6, <2>1, TypesFromParts, SMTT(30) DEF report_resource_status
  <1>7. ASSUME NEW k, NEW seq, attest_evidence(k, seq) PROVE TypeOK'
    <2>1. evidence' \in Ledger
      BY <1>7, LedgerTypes, Zenon DEF attest_evidence
    <2> QED BY <1>7, <2>1, TypesFromParts, Zenon DEF attest_evidence
  <1>8. ASSUME NEW k \in EvidenceKeys, NEW seq \in Nat, NEW g \in Nat, NEW ep \in Nat, NEW p \in Nat,
               NEW at \in Nat, record_evidence(k, seq, g, ep, p, at)
        PROVE  TypeOK'
    <2> DEFINE e == [key |-> k, seq |-> seq, generation |-> g, epoch |-> ep, producer |-> p,
                     observed_at |-> at, attested |-> FALSE]
    <2>1. e \in Evidence
      BY Zenon DEF Evidence
    <2>2. evidence' = record(evidence, e)
      BY <1>8, Zenon DEF record_evidence
    <2> HIDE DEF e
    <2>3. evidence' \in Ledger
      BY <2>1, <2>2, LedgerTypes, ZenonT(40)
    <2> QED BY <1>8, <2>3, TypesFromParts, Zenon DEF record_evidence
  <1>9. CASE revoke_tokens
    <2>1. AuthorityTypeOK'
      BY <1>9, RegistryTypes, Zenon DEF revoke_tokens, AuthorityTypeOK
    <2> QED BY <1>9, <2>1, TypesFromParts, Zenon DEF revoke_tokens
  <1>12. ASSUME NEW i \in Nat, InstallIncarnation(i) PROVE TypeOK'
    <2>1. AuthorityTypeOK'
      BY <1>12, RegistryTypes, Zenon DEF InstallIncarnation
    <2> QED BY <1>12, <2>1, TypesFromParts, Zenon DEF InstallIncarnation
  <1>10. CASE AnyGovern
    BY <1>2, <1>3, <1>4, <1>5, <1>6, <1>9, <1>10, <1>12, Zenon DEF AnyGovern
  <1>11. CASE AnyObserve
    BY <1>7, <1>8, <1>11, Zenon DEF AnyObserve
  <1> QED BY <1>1, <1>10, <1>11, Zenon

\* Admission, reports and restarts.
LEMMA ReportTypes ==
  ASSUME TypeOK, OneOwner, AnyReport \/ Restart
  PROVE  TypeOK' /\ ObligationsKept
  <1> USE DEF callVars, requestVars, obligationVars
  <1> USE PartsOfTypes
  <1>1. CASE AnyReport
    <2>1. PICK o \in ObligationIds, next \in ObligationState, ev \in Nat :
               \E d, g, rev : report_obligation(o, d, g, rev, next, ev)
      BY <1>1, Zenon DEF AnyReport
    <2>2. /\ obligations[o] \in ObligationRecord
          /\ obligations' = [obligations EXCEPT ![o] = apply_state(obligations[o], next, ev)]
      BY <2>1, Zenon DEF report_obligation
    <2> DEFINE o2 == apply_state(obligations[o], next, ev)
    <2>3. /\ o2 \in ObligationRecord /\ o2.dependencies = obligations[o].dependencies
          /\ o2.admission_generation = obligations[o].admission_generation
      BY <2>2, ApplyStateFacts, Zenon
    <2> HIDE DEF o2
    <2>4. ObligationsKept
      BY <2>2, <2>3, SMTT(30) DEF ObligationsKept, o2
    <2> QED BY <2>1, <2>4, TypesFromParts, SMTT(30) DEF report_obligation, ObligationsKept
  <1>2. CASE Restart
    <2>1. drains' \in [DrainIds -> DrainRecord]
      <3>1. \A d \in DrainIds : drains'[d] \in DrainRecord
        BY <1>2, OperationsAreQuiet, Zenon DEF QuietStep
      <3> QED BY <1>2, <3>1, SMTT(30) DEF Restart
    <2>2. evidence' \in Ledger
      BY <1>2, LedgerTypes, Zenon DEF Restart
    <2>3. AuthorityTypeOK'
      <3>1. incarnation + 1 \in Nat /\ epoch + 1 \in Nat
        BY DEF AuthorityTypeOK
      <3> QED BY <1>2, <3>1, RegistryTypes, Zenon DEF Restart
    <2>4. ObligationsKept
      BY <1>2, Zenon DEF Restart, ObligationsKept
    <2> QED BY <1>2, <2>1, <2>2, <2>3, <2>4, TypesFromParts, SMTT(30) DEF Restart
  <1> QED BY <1>1, <1>2, SMTT(30)

\* admit_obligation adds one obligation, which every target's open fence admits.
LEMMA AdmitMoves ==
  ASSUME TypeOK, AnyAdmit
  PROVE  /\ TypeOK'
         /\ UNCHANGED <<fence, drains, drain_high_water>>
         /\ \A o \in ObligationIds : o \in ObligationIds' /\ obligations'[o] = obligations[o]
         /\ \A o \in ObligationIds' \ ObligationIds : \A t \in obligations'[o].dependencies :
              /\ t \in Targets
              /\ obligations'[o].admission_generation = fence[t].generation /\ ~fence[t].closed
  <1> USE DEF callVars, requestVars, obligationVars
  <1> USE PartsOfTypes
  <1> DEFINE n == obligation_high_water
  <1>1. PICK deps \in SUBSET Targets, prot \in BOOLEAN, g \in Nat :
             \E a : admit_obligation(deps, prot, g, a)
    BY Zenon DEF AnyAdmit
  <1> DEFINE new == NewObligation(deps, prot, g, now)
  <1>2. deps \in SUBSET Targets /\ prot \in BOOLEAN /\ g \in Nat
    BY Zenon
  <1>3. new \in ObligationRecord /\ new.dependencies = deps /\ new.admission_generation = g
    BY <1>2, SMTT(30) DEF NewObligation, ObligationRecord, ObligationState
  <1> HIDE DEF new
  <1>4. /\ n < Bounds.obligations /\ obligation_high_water' = n + 1
        /\ obligations' = [o \in 1..(n + 1) |-> IF o \in ObligationIds THEN obligations[o] ELSE new]
        /\ \A t \in deps : g = fence[t].generation /\ ~fence[t].closed
    BY <1>1, Zenon DEF admit_obligation, check_admission, new
  <1>5. n \in Nat /\ Bounds.obligations \in Nat
    BY EngineAssumption DEF TypeOK, BoundsType
  <1>6. ObligationIds = 1..n /\ ObligationIds' = 1..(n + 1)
    BY <1>4, Zenon DEF ObligationIds
  <1>7. obligations' \in [ObligationIds' -> ObligationRecord]
    BY <1>3, <1>4, <1>6, SMTT(30)
  <1>8. /\ UNCHANGED <<now, turn, drains, drain_high_water, sets, exceptions, status, sent, fence,
                       evidence>>
        /\ UNCHANGED authorityVars
    BY <1>1, SMTT(30) DEF admit_obligation
  <1>9. TypeOK'
    <2>1. DrainIds' = DrainIds
      BY <1>8, Zenon DEF DrainIds
    <2>2. obligation_high_water' \in 0..Bounds.obligations
      BY <1>4, <1>5
    <2> QED BY <1>7, <1>8, <2>1, <2>2, SMTT(30) DEF TypeOK, FenceTypeOK
  <1>10. \A o \in ObligationIds : o \in ObligationIds' /\ obligations'[o] = obligations[o]
    BY <1>4, <1>5, <1>6
  <1>11. \A o \in ObligationIds' \ ObligationIds : obligations'[o] = new
    BY <1>4, <1>6, SMTT(30)
  <1>12. ASSUME NEW o \in ObligationIds' \ ObligationIds, NEW t \in obligations'[o].dependencies
         PROVE  /\ t \in Targets
                /\ obligations'[o].admission_generation = fence[t].generation /\ ~fence[t].closed
    BY <1>2, <1>3, <1>4, <1>11, <1>12, Zenon
  <1>13. UNCHANGED <<fence, drains, drain_high_water>>
    BY <1>8, Zenon
  <1> QED BY <1>9, <1>10, <1>12, <1>13, Zenon

\* What a restoration sends: one reopening, and a request per outstanding obligation.
LEMMA RestoreMessages ==
  ASSUME NEW d \in Nat, NEW g \in Nat, NEW t \in Targets
  PROVE  /\ [type |-> "reopen", target |-> t, generation |-> g] \in Message
         /\ \A o \in Nat :
              [type |-> "restore", drain |-> d, obligation |-> o, generation |-> g] \in Message
  BY Zenon DEF Message

\* The operator's requests.
LEMMA OperateTypes ==
  ASSUME TypeOK, OneOwner, AnyOperate
  PROVE  TypeOK' /\ ObligationsKept
  <1> USE DEF callVars, requestVars, obligationVars
  <1> USE PartsOfTypes
  <1>1. UNCHANGED obligations => ObligationsKept
    BY Zenon DEF ObligationsKept
  <1>2. \A a \in DOMAIN tokens : a \in Nat
    BY SMTT(30) DEF AuthorityTypeOK
  <1>3. ASSUME NEW a \in DOMAIN tokens, NEW S \in SUBSET Targets, NEW n \in Nat,
               request_drain_set(S, a, n)
        PROVE  TypeOK' /\ ObligationsKept
    <2>1. S \in SUBSET Targets /\ n \in Nat /\ a \in Nat
      BY <1>2, Zenon
    <2>2. /\ drain_high_water' \in 0..Bounds.drains /\ drain_high_water' >= drain_high_water
          /\ drains' \in [DrainIds' -> DrainRecord] /\ sets' \in Seq(DrainSetRecord)
          /\ \A d \in DrainIds : d \in DrainIds'
      BY <1>3, <2>1, RequestMoves, ZenonT(40)
    <2>3. /\ UNCHANGED <<now, turn, exceptions, obligations, obligation_high_water, status, sent,
                         fence, evidence>>
          /\ UNCHANGED authorityVars
      BY <1>3, Zenon DEF request_drain_set
    <2>4. ObligationIds' = ObligationIds
      BY <2>3, SMTT(30) DEF ObligationIds
    <2>5. turn' \in DrainIds' \cup {1}
      BY <2>2, <2>3, Zenon DEF TypeOK
    <2> QED BY <1>1, <2>2, <2>3, <2>4, <2>5, SMTT(30) DEF TypeOK, FenceTypeOK
  <1>4. ASSUME NEW d \in DrainIds, NEW a \in DOMAIN tokens, cancel_drain(d, a) \/ resume_drain(d, a)
        PROVE  TypeOK' /\ ObligationsKept
    <2>1. DOMAIN drains' = DrainIds /\ \A e \in DrainIds : drains'[e] \in DrainRecord
      BY <1>4, OperationsAreQuiet, Zenon DEF QuietStep
    <2>2. drains' \in [DrainIds -> DrainRecord]
      BY <1>4, <2>1, SMTT(30) DEF cancel_drain, resume_drain
    <2> QED BY <1>1, <1>4, <2>2, TypesFromParts, SMTT(30) DEF cancel_drain, resume_drain
  <1>5. ASSUME NEW d \in DrainIds, NEW a \in DOMAIN tokens, restore_drain(d, a)
        PROVE  TypeOK' /\ ObligationsKept
    <2> DEFINE t == drains[d].target
               g == ReopenedFence(d)[t].generation
    <2>1. drains' \in [DrainIds -> DrainRecord]
      BY <1>5, RestoreMoves, Zenon
    <2>2. fence' \in [Targets -> FenceEntry] /\ g \in Nat /\ t \in Targets
      BY <1>5, ReopenMoves, SMTT(30) DEF restore_drain, FenceEntry, DrainRecord
    <2>3. sent' \subseteq Message
      <3>1. d \in Nat /\ ObligationIds \subseteq Nat
        BY SMTT(30) DEF DrainIds, ObligationIds, TypeOK
      <3>2. [type |-> "reopen", target |-> t, generation |-> g] \in Message
        BY <2>2, <3>1, RestoreMessages, Zenon
      <3>3. \A o \in outstanding_for(t) :
              [type |-> "restore", drain |-> d, obligation |-> o, generation |-> g] \in Message
        BY <2>2, <3>1, RestoreMessages, Zenon DEF outstanding_for
      <3> QED BY <1>5, <3>2, <3>3, SMTT(30) DEF restore_drain
    <2> QED BY <1>1, <1>5, <2>1, <2>2, <2>3, TypesFromParts, SMTT(30) DEF restore_drain
  <1>6. ASSUME NEW d \in DrainIds, NEW a \in DOMAIN tokens, NEW o \in ObligationIds \cup {0},
               NEW x \in Nat, grant_exception(d, o, x, a)
        PROVE  TypeOK' /\ ObligationsKept
    <2>1. \A e \in DrainIds : drains'[e] \in DrainRecord
      BY <1>6, OperationsAreQuiet, Zenon DEF QuietStep
    <2>2. drains' \in [DrainIds -> DrainRecord]
      BY <1>6, <2>1, ZenonT(40) DEF grant_exception
    <2>3. d \in Nat /\ o \in Nat /\ x \in Nat
      BY DEF DrainIds, ObligationIds, TypeOK
    <2>4. [drain |-> d, obligation |-> o, extension |-> x] \in ExceptionGrant
      BY <2>3, Zenon DEF ExceptionGrant
    <2>5. exceptions' \in Seq(ExceptionGrant)
      BY <1>6, <2>4 DEF grant_exception, TypeOK
    <2>6. DrainIds' = DrainIds /\ ObligationIds' = ObligationIds
      BY <1>6, Zenon DEF grant_exception, DrainIds, ObligationIds
    <2>7. /\ UNCHANGED <<now, turn, drain_high_water, sets, obligations, obligation_high_water,
                         status, sent, fence, evidence>>
          /\ UNCHANGED authorityVars
      BY <1>6, Zenon DEF grant_exception
    <2> QED BY <1>1, <2>2, <2>5, <2>6, <2>7, SMTT(30) DEF TypeOK, FenceTypeOK
  <1> QED BY <1>3, <1>4, <1>5, <1>6, Zenon DEF AnyOperate

------------------------------------------------------------------------------
(* The inductive invariant, and the theorems it gives.                     *)

DrainInv == TypeOK /\ OwnershipInv /\ NoAdmissionBehindFence

\* What one step may do to the fences: a fence that is moved gets a newer
\* generation, unless restoration finds it open at a newer one already.
FencesAdvance ==
  \A t \in Targets :
    /\ fence'[t].generation >= fence[t].generation
    /\ fence'[t] = fence[t] \/ ~fence'[t].closed \/ fence'[t].generation > fence[t].generation
    /\ fence'[t].closed # fence[t].closed => fence'[t].generation > fence[t].generation

\* A step that leaves the fences alone advances them trivially.
LEMMA SameFences ==
  ASSUME TypeOK, fence' = fence
  PROVE  FencesAdvance
  <1>1. \A t \in Targets : fence[t].generation \in Nat
    BY PartsOfTypes, Zenon DEF FenceEntry
  <1> QED BY <1>1 DEF FencesAdvance

\* One fence moves on and the others stay.
LEMMA OneFenceAdvances ==
  ASSUME NEW u, \A t \in Targets : t = u \/ fence'[t] = fence[t],
         \A t \in Targets : fence[t].generation \in Nat,
         fence'[u].generation >= fence[u].generation,
         ~fence'[u].closed \/ fence'[u].generation > fence[u].generation,
         fence'[u].closed # fence[u].closed => fence'[u].generation > fence[u].generation
  PROVE  FencesAdvance
  BY DEF FencesAdvance

\* Closing admission in step_drain moves the fence of the drain's target on.
LEMMA ClosingAdvances ==
  ASSUME TypeOK, NEW d \in DrainIds, NEW r2, ClosingStep(d, drains[d], r2)
  PROVE  FencesAdvance
  <1> DEFINE u == drains[d].target
  <1>1. u \in Targets
    BY PartsOfTypes, Zenon DEF DrainRecord
  <1>2. \A t \in Targets : fence[t].generation \in Nat
    BY PartsOfTypes, Zenon DEF FenceEntry
  <1>3. fence' = [fence EXCEPT ![u] = [closed |-> TRUE, generation |-> fence[u].generation + 1,
                                       drain |-> d]]
    BY Zenon DEF ClosingStep, close
  <1> HIDE DEF u
  <1>4. \A t \in Targets \ {u} : fence'[t] = fence[t]
    BY <1>3, PartsOfTypes, Zenon
  <1>5. fence'[u].generation = fence[u].generation + 1
    BY <1>1, <1>3, PartsOfTypes, Zenon
  <1>6. /\ fence'[u].generation >= fence[u].generation
        /\ fence'[u].generation > fence[u].generation
    BY <1>1, <1>2, <1>5, SMTT(30)
  <1> QED BY <1>2, <1>4, <1>6 DEF FencesAdvance

\* advance() keeps ownership and moves the fences only forward.
LEMMA AdvanceKeeps ==
  ASSUME TypeOK, OwnershipInv, advance
  PROVE  OwnershipInv' /\ FencesAdvance
  <1>1. OneOwner /\ drain_high_water' = drain_high_water
    BY Zenon DEF OwnershipInv, advance, requestVars
  <1>2. CASE UNCHANGED <<drains, fence>>
    <2>1. \A d \in DrainIds : QuietStep(drains[d], drains'[d])
      BY <1>1, <1>2, PartsOfTypes, Zenon DEF QuietStep, OneOwner
    <2> QED BY <1>1, <1>2, <2>1, QuietKeeps, SameFences, SMTT(30)
  <1>3. CASE step_drain(turn)
    <2>1. turn \in DrainIds
      BY EngineAssumption DEF TypeOK, DrainIds, advance, BoundsType
    <2>2. PICK r2 : /\ drains' = [drains EXCEPT ![turn] = r2]
                    /\ \/ fence' = fence /\ QuietStep(drains[turn], r2)
                       \/ ClosingStep(turn, drains[turn], r2)
      BY <1>1, <1>3, <2>1, StepMoves, Zenon
    <2>3. CASE fence' = fence /\ QuietStep(drains[turn], r2)
      <3>1. \A d \in DrainIds : QuietStep(drains[d], drains[d])
        BY <1>1, PartsOfTypes, Zenon DEF QuietStep, OneOwner
      <3>2. \A d \in DrainIds : QuietStep(drains[d], drains'[d])
        BY <2>1, <2>2, <2>3, <3>1, PartsOfTypes, Zenon
      <3> QED BY <1>1, <2>3, <3>2, QuietKeeps, SameFences, Zenon
    <2>4. CASE ClosingStep(turn, drains[turn], r2)
      BY <1>1, <2>1, <2>2, <2>4, ClosingKeeps, ClosingAdvances, Zenon
    <2> QED BY <2>2, <2>3, <2>4, Zenon
  <1> QED BY <1>2, <1>3, Zenon DEF advance, SkipSettled

\* The operator's requests keep ownership and move the fences only forward.
LEMMA OperateKeeps ==
  ASSUME TypeOK, OwnershipInv, AnyOperate
  PROVE  OwnershipInv' /\ FencesAdvance
  <1>1. OneOwner /\ \A a \in DOMAIN tokens : a \in Nat
    BY DEF OwnershipInv, TypeOK, AuthorityTypeOK
  <1>2. ASSUME NEW a \in DOMAIN tokens, NEW S \in SUBSET Targets, NEW n \in Nat,
               request_drain_set(S, a, n)
        PROVE  OwnershipInv' /\ FencesAdvance
    <2>1. S \in SUBSET Targets /\ n \in Nat /\ a \in Nat
      BY <1>1, Zenon
    <2>2. fence' = fence
      BY <1>2, Zenon DEF request_drain_set
    <2> QED BY <1>2, <2>1, <2>2, RequestKeeps, SameFences, Zenon
  <1>3. ASSUME NEW d \in DrainIds, NEW a \in DOMAIN tokens,
               \/ cancel_drain(d, a)
               \/ resume_drain(d, a)
               \/ \E o, x : grant_exception(d, o, x, a)
        PROVE  OwnershipInv' /\ FencesAdvance
    BY <1>1, <1>3, OperationsAreQuiet, QuietKeeps, SameFences, Zenon
  <1>4. ASSUME NEW d \in DrainIds, NEW a \in DOMAIN tokens, restore_drain(d, a)
        PROVE  OwnershipInv' /\ FencesAdvance
    <2>1. fence' = ReopenedFence(d)
      BY <1>4, Zenon DEF restore_drain
    <2>2. \A t \in Targets : fence[t].generation \in Nat /\ fence[t].closed \in BOOLEAN
      BY PartsOfTypes, SMTT(30) DEF FenceEntry
    <2> DEFINE u == drains[d].target
    <2>3. /\ \A t \in Targets \ {u} : fence'[t] = fence[t]
          /\ ~fence'[u].closed /\ fence'[u].generation >= fence[u].generation
          /\ fence[u].closed => fence'[u].generation > fence[u].generation
      BY <2>1, ReopenMoves, Zenon
    <2> HIDE DEF u
    <2>4. \A t \in Targets : t = u \/ fence'[t] = fence[t]
      BY <2>3, Zenon
    <2>5. fence'[u].closed # fence[u].closed => fence[u].closed
      BY <1>4, <2>1, <2>2, <2>3, PartsOfTypes, ReopenMoves, SMTT(30) DEF u, FenceEntry, DrainRecord
    <2>6. FencesAdvance
      BY <2>2, <2>3, <2>4, <2>5, OneFenceAdvances, Zenon
    <2> QED BY <1>4, <2>6, RestoreKeeps, Zenon
  <1> QED BY <1>2, <1>3, <1>4, Zenon DEF AnyOperate

\* Every step keeps the owner of every target and moves fences only forward.
LEMMA OwnershipStep ==
  ASSUME TypeOK, OwnershipInv, [AnyNext]_vars
  PROVE  OwnershipInv' /\ FencesAdvance
  <1>1. CASE UNCHANGED <<drains, fence, drain_high_water>>
    <2>1. \A d \in DrainIds : QuietStep(drains[d], drains'[d])
      BY <1>1, PartsOfTypes, Zenon DEF QuietStep, OwnershipInv, OneOwner
    <2> QED BY <1>1, <2>1, QuietKeeps, SameFences, SMTT(30)
  <1>2. CASE Restart
    BY <1>2, OperationsAreQuiet, QuietKeeps, SameFences, Zenon DEF OwnershipInv
  <1>3. UNCHANGED vars => UNCHANGED <<drains, fence, drain_high_water>>
    BY Zenon DEF vars, requestVars
  <1> QED BY <1>1, <1>2, <1>3, OtherSteps, AdvanceKeeps, OperateKeeps, Zenon DEF AnyNext

\* Every step keeps the types.
LEMMA TypesStep ==
  ASSUME TypeOK, OwnershipInv, [AnyNext]_vars
  PROVE  TypeOK'
  <1>1. CASE UNCHANGED vars
    <2>1. /\ UNCHANGED <<now, turn, drains, drain_high_water, sets, exceptions, obligations,
                         obligation_high_water, status, sent, fence, evidence>>
          /\ UNCHANGED <<incarnation, epoch, tokens, scope_generations>>
      BY <1>1, Zenon DEF vars, callVars, requestVars, obligationVars, authorityVars
    <2>2. AuthorityTypeOK'
      BY <2>1, PartsOfTypes, Zenon DEF AuthorityTypeOK
    <2> QED BY <2>1, <2>2, PartsOfTypes, TypesFromParts, Zenon
  <1> QED BY <1>1, GovernTypes, ReportTypes, AdmitMoves, OperateTypes, AdvanceTypes, Zenon
          DEF AnyNext, OwnershipInv

\* What admission was checked against does not change later: an obligation
\* keeps its targets and its generation, and a new one meets open fences.
LEMMA ObligationsStep ==
  ASSUME TypeOK, OwnershipInv, [AnyNext]_vars
  PROVE  \A o \in ObligationIds' :
           \/ /\ o \in ObligationIds
              /\ obligations'[o].dependencies = obligations[o].dependencies
              /\ obligations'[o].admission_generation = obligations[o].admission_generation
           \/ /\ fence' = fence
              /\ \A t \in obligations'[o].dependencies :
                   /\ obligations'[o].admission_generation = fence[t].generation
                   /\ ~fence[t].closed
  <1>1. CASE AnyAdmit
    BY <1>1, AdmitMoves, Zenon
  <1>2. CASE UNCHANGED obligation_high_water /\ ObligationsKept
    BY <1>2, Zenon DEF ObligationIds, ObligationsKept
  <1>3. CASE UNCHANGED <<obligations, obligation_high_water>>
    BY <1>3, SMTT(30) DEF ObligationIds
  <1>4. UNCHANGED vars \/ Tick \/ AnyGovern \/ AnyObserve
          => UNCHANGED <<obligations, obligation_high_water>>
    BY Zenon DEF Tick, AnyGovern, AnyObserve, issue_authority, revoke_authority,
           install_authority_line, InstallIncarnation, revoke_tokens, add_resource,
           report_resource_status, record_evidence, attest_evidence, obligationVars, vars
  <1>5. AnyReport \/ AnyOperate \/ advance \/ Restart => UNCHANGED obligation_high_water
    BY ZenonT(40) DEF AnyReport, report_obligation, AnyOperate, request_drain_set, cancel_drain, restore_drain,
           resume_drain, grant_exception, advance, Restart, obligationVars
  <1> QED BY <1>1, <1>2, <1>3, <1>4, <1>5, ReportTypes, OperateTypes, AdvanceTypes, SMTT(30)
          DEF AnyNext, OwnershipInv

\* No step admits an obligation behind a fence, nor moves a fence back below one.
LEMMA AdmissionStep ==
  ASSUME DrainInv, [AnyNext]_vars
  PROVE  NoAdmissionBehindFence'
  <1>1. TypeOK /\ TypeOK' /\ OwnershipInv /\ FencesAdvance
    BY TypesStep, OwnershipStep, Zenon DEF DrainInv
  <1> SUFFICES ASSUME NEW o \in ObligationIds', NEW t \in obligations'[o].dependencies
               PROVE  /\ obligations'[o].admission_generation <= fence'[t].generation
                      /\ fence'[t].closed =>
                           obligations'[o].admission_generation < fence'[t].generation
    BY Zenon DEF NoAdmissionBehindFence
  <1>2. obligations'[o] \in ObligationRecord
    BY <1>1, Zenon DEF TypeOK
  <1>3. t \in Targets /\ obligations'[o].admission_generation \in Nat
    BY <1>2, Zenon DEF ObligationRecord
  <1>4. fence[t].generation \in Nat /\ fence'[t].generation \in Nat
    BY <1>1, <1>3, SMTT(30) DEF TypeOK, FenceTypeOK, FenceEntry
  <1>5. CASE /\ o \in ObligationIds
             /\ obligations'[o].dependencies = obligations[o].dependencies
             /\ obligations'[o].admission_generation = obligations[o].admission_generation
    <2>1. /\ obligations[o].admission_generation <= fence[t].generation
          /\ fence[t].closed => obligations[o].admission_generation < fence[t].generation
      BY <1>5, Zenon DEF DrainInv, NoAdmissionBehindFence
    <2>2. /\ fence'[t].generation >= fence[t].generation
          /\ fence'[t] = fence[t] \/ ~fence'[t].closed
               \/ fence'[t].generation > fence[t].generation
      BY <1>1, <1>3, Zenon DEF FencesAdvance
    <2> QED BY <1>3, <1>4, <1>5, <2>1, <2>2, SMTT(30)
  <1>6. CASE /\ fence' = fence
             /\ obligations'[o].admission_generation = fence[t].generation
             /\ ~fence[t].closed
    BY <1>3, <1>4, <1>6
  <1> QED BY <1>1, <1>5, <1>6, ObligationsStep, Zenon

\* Of the branches of the switch only RetireReleased writes obligations.
LEMMA OnlyRetireReleased ==
  ASSUME NEW d, NEW r, NEW led, Switch(d, r, led), obligations' # obligations
  PROVE  RetireReleased(d, r, led)
  BY Zenon DEF Switch, Begin, ValidationBlocked, CloseAdmission, AwaitFenceSettle,
     LeaveAdmissionClosed, AllEvacuated, EvacuationBlocked, AwaitEvacuation, RequestEvacuation,
     FallBack, QuiescenceBlocked, RemoveResource, VerificationBlocked, Complete,
     AwaitRestoreSettle, FinishRestoration, Becomes, enter_blocked

\* Drains and obligations are numbered in their order and never forgotten.
LEMMA IdsGrow ==
  ASSUME TypeOK, [AnyNext]_vars
  PROVE  DrainIds \subseteq DrainIds' /\ ObligationIds \subseteq ObligationIds'
  <1>1. CASE AnyAdmit
    BY <1>1, AdmitMoves, Zenon DEF DrainIds
  <1>2. ASSUME NEW S \in SUBSET Targets, NEW a \in DOMAIN tokens, NEW n \in Nat,
               request_drain_set(S, a, n)
        PROVE  DrainIds \subseteq DrainIds' /\ ObligationIds' = ObligationIds
    <2>1. a \in Nat
      BY TokenNames, Zenon
    <2>2. \A d \in DrainIds : d \in DrainIds'
      BY <1>2, <2>1, RequestMoves, Zenon
    <2>3. obligation_high_water' = obligation_high_water
      BY <1>2, Zenon DEF request_drain_set, obligationVars
    <2> QED BY <2>2, <2>3, Zenon DEF ObligationIds
  <1>3. CASE UNCHANGED <<drain_high_water, obligation_high_water>>
    BY <1>3, Zenon DEF DrainIds, ObligationIds
  <1>4. UNCHANGED vars \/ Tick \/ AnyGovern \/ AnyObserve \/ AnyReport \/ advance \/ Restart
          => UNCHANGED <<drain_high_water, obligation_high_water>>
    BY ZenonT(40) DEF vars, Tick, AnyGovern, AnyObserve, AnyReport, advance, Restart, issue_authority,
       revoke_authority, revoke_tokens, install_authority_line, InstallIncarnation, add_resource,
       report_resource_status, record_evidence, attest_evidence, report_obligation, requestVars, obligationVars
  <1>5. ASSUME NEW d, NEW a,
               \/ cancel_drain(d, a) \/ restore_drain(d, a) \/ resume_drain(d, a)
               \/ \E o, x : grant_exception(d, o, x, a)
        PROVE  UNCHANGED <<drain_high_water, obligation_high_water>>
    BY <1>5, ZenonT(40) DEF cancel_drain, restore_drain, resume_drain, grant_exception, requestVars,
       obligationVars
  <1>6. CASE AnyOperate
    BY <1>2, <1>3, <1>5, <1>6, Zenon DEF AnyOperate
  <1> QED BY <1>1, <1>3, <1>4, <1>6, Zenon DEF AnyNext

\* What advance() does to an obligation: nothing, or it retires it on the release evidence
\* the obligation names.
LEMMA AdvanceRetires ==
  ASSUME TypeOK, advance, NEW o \in ObligationIds
  PROVE  \/ obligations'[o] = obligations[o]
         \/ /\ obligations'[o].release_evidence = obligations[o].release_evidence
            /\ obligations[o].release_evidence # 0
  <1>1. ASSUME NEW d, NEW r, NEW led, RetireReleased(d, r, led), obligations'[o] # obligations[o]
        PROVE  /\ obligations'[o].release_evidence = obligations[o].release_evidence
               /\ obligations[o].release_evidence # 0
    <2>1. o \in outstanding_for(r.target)
      BY <1>1, Zenon DEF RetireReleased
    <2>2. /\ obligations[o].state # "retired" /\ obligations[o].release_evidence # 0
      BY <1>1, <2>1, Zenon DEF RetireReleased, evaluate_quiescence, blocker_if, is_retirable
    <2>3. obligations'[o] = MoveState(obligations[o], "retired", obligations[o].release_evidence)
      BY <1>1, <2>1, <2>2, Zenon DEF RetireReleased, apply_state
    <2>4. obligations[o] \in ObligationRecord
      BY Zenon DEF TypeOK
    <2> QED BY <2>2, <2>3, <2>4, Zenon DEF MoveState, ObligationRecord
  <1>2. ASSUME NEW d, NEW r, NEW led, Switch(d, r, led), obligations'[o] # obligations[o]
        PROVE  /\ obligations'[o].release_evidence = obligations[o].release_evidence
               /\ obligations[o].release_evidence # 0
    BY <1>1, <1>2, OnlyRetireReleased, Zenon
  <1>3. CASE SkipSettled(turn)
    BY <1>3, Zenon DEF SkipSettled
  <1>4. CASE StayBlocked(turn, drains[turn])
    BY <1>4, Zenon DEF StayBlocked, Becomes
  <1> QED BY <1>2, <1>3, <1>4, Zenon DEF advance, step_drain, Unblock

\* The ledger a branch of the switch leaves behind.
LEMMA SwitchLedger ==
  ASSUME NEW d, NEW r, NEW led, Switch(d, r, led)
  PROVE  evidence' \in {led, record_removal_evidence(d, r, led), VerificationLedger(d, r, led)}
  BY Zenon DEF Switch, Begin, ValidationBlocked, CloseAdmission, AwaitFenceSettle,
     LeaveAdmissionClosed, AllEvacuated, EvacuationBlocked, AwaitEvacuation, RequestEvacuation,
     FallBack, QuiescenceBlocked, RetireReleased, RemoveResource, VerificationBlocked, Complete,
     AwaitRestoreSettle, FinishRestoration, Becomes, enter_blocked

\* The newest number of no stream goes back.
Grown(led, led2) == \A k \in EvidenceKeys : led.latest[k] <= led2.latest[k]

\* record() moves the newest number of one stream forward.
LEMMA RecordGrows ==
  ASSUME NEW led \in Ledger, NEW e, e.key \in EvidenceKeys, e.seq \in Nat,
         e.seq > led.latest[e.key]
  PROVE  Grown(led, record(led, e))
  <1>1. led.latest \in [EvidenceKeys -> Nat \cup {NoSeq}]
    BY Zenon DEF Ledger
  <1>2. record(led, e).latest = [led.latest EXCEPT ![e.key] = e.seq]
    BY Zenon DEF record
  <1> QED BY <1>1, <1>2 DEF Grown, NoSeq

\* So does the engine's own observation of a removal, where the ledger takes it.
LEMMA RemovalGrows ==
  ASSUME TypeOK, NEW d \in DrainIds, NEW r, NEW led \in Ledger
  PROVE  /\ Grown(led, led)
         /\ Grown(led, record_removal_evidence(d, r, led))
         /\ Grown(led, VerificationLedger(d, r, led))
  <1> DEFINE e == RemovalEvidence(d, r, led)
  <1>1. RemovalKey(d) \in EvidenceKeys
    BY EngineAssumption, StreamsAssumption, SMTT(30) DEF TypeOK, DrainIds, RemovalKey, BoundsType
  <1>2. high_water(led, RemovalKey(d)) + 1 \in Nat
    BY <1>1 DEF high_water, Ledger
  <1>3. e.key \in EvidenceKeys /\ e.seq \in Nat
    BY <1>1, <1>2, Zenon DEF RemovalEvidence
  <1> HIDE DEF e
  <1>4. Grown(led, led)
    BY DEF Grown, Ledger, NoSeq
  <1>5. can_record_removal(d, r, led) => Grown(led, record(led, e))
    BY <1>3, RecordGrows, Zenon DEF can_record_removal, can_record, e
  <1>6. Grown(led, record_removal_evidence(d, r, led))
    BY <1>4, <1>5, Zenon DEF record_removal_evidence, e
  <1> QED BY <1>4, <1>6, Zenon DEF VerificationLedger

\* Growing is transitive.
LEMMA GrownTwice ==
  ASSUME NEW a \in Ledger, NEW b \in Ledger, NEW c \in Ledger, Grown(a, b), Grown(b, c)
  PROVE  Grown(a, c)
  BY DEF Grown, Ledger, NoSeq

\* One drain's share of advance() moves no stream back.
LEMMA StepGrows ==
  ASSUME TypeOK, TypeOK', NEW d \in DrainIds, step_drain(d)
  PROVE  Grown(evidence, evidence')
  <1> DEFINE r == drains[d]
             led == RevalidationLedger(d, r)
  <1>1. evidence \in Ledger /\ evidence' \in Ledger /\ r \in DrainRecord
    BY Zenon DEF TypeOK
  <1>2. led \in Ledger /\ Grown(evidence, led)
    BY <1>1, RemovalGrows, RemovalLedgerTypes, Zenon DEF RevalidationLedger
  <1> HIDE DEF led
  <1>3. ASSUME NEW r1, NEW led1 \in Ledger, Switch(d, r1, led1)
        PROVE  Grown(led1, evidence')
    BY <1>3, SwitchLedger, RemovalGrows
  <1>4. CASE Switch(d, r, evidence)
    BY <1>1, <1>3, <1>4, Zenon
  <1>5. CASE StayBlocked(d, r)
    BY <1>2, <1>5, Zenon DEF StayBlocked, Becomes, led
  <1>6. CASE Unblock(d, r)
    <2>1. Grown(led, evidence')
      BY <1>2, <1>3, <1>6, Zenon DEF Unblock, led
    <2> QED BY <1>1, <1>2, <2>1, GrownTwice, Zenon
  <1> QED BY <1>4, <1>5, <1>6, Zenon DEF step_drain

\* No call moves a stream back: what was recorded once stays below the newest number, also
\* when its record is evicted or quarantined.
LEMMA LedgerGrows ==
  ASSUME TypeOK, TypeOK', [AnyNext]_vars
  PROVE  Grown(evidence, evidence')
  <1>0. evidence \in Ledger
    BY Zenon DEF TypeOK
  <1>1. evidence \in Ledger /\ Grown(evidence, evidence)
    BY <1>0 DEF Grown, Ledger, NoSeq
  <1>2. CASE UNCHANGED evidence
    BY <1>1, <1>2, Zenon
  <1>3. CASE advance
    <2>1. turn \in DrainIds
      BY <1>3, EngineAssumption DEF TypeOK, DrainIds, advance, BoundsType
    <2> QED BY <1>1, <1>3, <2>1, StepGrows, Zenon DEF advance, SkipSettled
  <1>4. CASE evidence'.latest = evidence.latest
    BY <1>1, <1>4, Zenon DEF Grown
  <1>5. CASE Restart \/ \E i, e \in Nat : install_authority_line(i, e)
    <2>1. evidence' = quarantine_all(evidence)
      BY <1>5, Zenon DEF Restart, install_authority_line
    <2> QED BY <1>1, <1>4, <2>1, Zenon DEF quarantine_all, Ledger
  <1>6. CASE AnyObserve
    <2>1. ASSUME NEW k, NEW seq, attest_evidence(k, seq) PROVE evidence'.latest = evidence.latest
      BY <1>1, <2>1, Zenon DEF attest_evidence, attest, Ledger
    <2>2. ASSUME NEW k \in EvidenceKeys, NEW seq \in Nat, NEW g \in Nat, NEW ep \in Nat,
                 NEW p \in Nat, NEW at \in Nat, record_evidence(k, seq, g, ep, p, at)
          PROVE  Grown(evidence, evidence')
      <3> DEFINE e == [key |-> k, seq |-> seq, generation |-> g, epoch |-> ep, producer |-> p,
                       observed_at |-> at, attested |-> FALSE]
      <3>1. e.key = k /\ e.seq = seq
        BY Zenon
      <3>2. e.seq > evidence.latest[e.key] /\ evidence' = record(evidence, e)
        BY <2>2, Zenon DEF record_evidence, can_record
      <3> HIDE DEF e
      <3> QED BY <1>1, <3>1, <3>2, RecordGrows, Zenon
    <2> QED BY <1>4, <1>6, <2>1, <2>2, Zenon DEF AnyObserve
  <1>7. \/ UNCHANGED vars \/ Tick \/ AnyAdmit \/ AnyReport \/ AnyOperate
        \/ \E s \in Scopes, v \in Nat : issue_authority(s, v)
        \/ \E i \in DOMAIN tokens : revoke_authority(i)
        \/ revoke_tokens
        \/ \E x \in Resources : add_resource(x)
        \/ \E x \in Resources, s \in ResourceStatus : report_resource_status(x, s)
        \/ \E i \in Nat : InstallIncarnation(i)
        => UNCHANGED evidence
    BY ZenonT(40) DEF vars, Tick, AnyAdmit, AnyReport, AnyOperate, issue_authority, revoke_authority,
       revoke_tokens, InstallIncarnation, add_resource, report_resource_status, admit_obligation,
       report_obligation, request_drain_set, cancel_drain, restore_drain, resume_drain, grant_exception
  <1> QED BY <1>2, <1>3, <1>5, <1>6, <1>7, Zenon DEF AnyNext, AnyGovern

\* Every call keeps the invariant, whatever arguments of the right types it passes.
LEMMA CallsKeep ==
  ASSUME DrainInv, [AnyNext]_vars
  PROVE  DrainInv' /\ FencesAdvance
  BY TypesStep, OwnershipStep, AdmissionStep, Zenon DEF DrainInv

\* A fresh engine has no drain, no closed fence and no obligation.
LEMMA InitInv == Init => DrainInv
  <1> SUFFICES ASSUME Init
               PROVE  DrainInv
    BY Zenon
  <1>1. TypeOK
    BY InitTypes, Zenon
  <1>2. DrainIds = {} /\ ObligationIds = {}
    BY DEF Init, DrainIds, ObligationIds
  <1>3. \A t \in Targets : ~fence[t].closed
    BY Zenon DEF Init, FenceInit
  <1>4. OwnershipInv
    BY <1>2, <1>3, Zenon DEF OwnershipInv, OneOwner, FenceHeld, ClosedFenceHasOwner
  <1>5. NoAdmissionBehindFence
    BY <1>2, Zenon DEF NoAdmissionBehindFence
  <1> QED BY <1>1, <1>4, <1>5, Zenon DEF DrainInv

\* Every reachable state of the engine satisfies the inductive invariant:
\* whatever callers, advance() and restarts interleave.
THEOREM DrainInvariant == CallSpec => []DrainInv
  <1>1. DrainInv /\ [AnyNext]_vars => DrainInv'
    BY CallsKeep, Zenon
  <1> QED BY <1>1, InitInv, PTL DEF CallSpec

\* Every variable of the engine keeps the shape the code's types give it.
THEOREM TypesAreKept == CallSpec => []TypeOK
  <1>1. DrainInv => TypeOK
    BY Zenon DEF DrainInv
  <1> QED BY <1>1, DrainInvariant, PTL

\* request_drain_set, restore_drain and step_drain never give one target two
\* owners: of two drains of a target, one has been restored for good.
THEOREM OneOwnerPerTarget == CallSpec => []OneOwner
  <1>1. DrainInv => OneOwner
    BY Zenon DEF DrainInv, OwnershipInv
  <1> QED BY <1>1, DrainInvariant, PTL

\* From the closure in step_drain until its own restoration a drain holds the
\* closed fence of its target at the generation it closed.
THEOREM FencesAreHeld == CallSpec => []FenceHeld
  <1>1. DrainInv => FenceHeld
    BY Zenon DEF DrainInv, OwnershipInv
  <1> QED BY <1>1, DrainInvariant, PTL

\* Every closed fence has a drain that restore_drain can reopen it for.
THEOREM ClosedFencesHaveOwners == CallSpec => []ClosedFenceHasOwner
  <1>1. DrainInv => ClosedFenceHasOwner
    BY Zenon DEF DrainInv, OwnershipInv
  <1> QED BY <1>1, DrainInvariant, PTL

\* admit_obligation binds nothing to a target whose admission is closed, and
\* no closure or reopening ever makes an earlier admission look newer.
THEOREM NothingIsAdmittedBehindAFence == CallSpec => []NoAdmissionBehindFence
  <1>1. DrainInv => NoAdmissionBehindFence
    BY Zenon DEF DrainInv
  <1> QED BY <1>1, DrainInvariant, PTL

\* A generation names one admission period: AdmissionFence::close and ::reopen,
\* called by step_drain and restore_drain, move it forward, and nothing back.
THEOREM GenerationsOnlyAdvance == CallSpec => GenerationsAdvance
  <1> DEFINE Moves == \A t \in Targets :
               /\ fence'[t].generation >= fence[t].generation
               /\ fence'[t].closed # fence[t].closed => fence'[t].generation > fence[t].generation
  <1>1. DrainInv /\ [AnyNext]_vars => Moves
    BY CallsKeep, Zenon DEF FencesAdvance
  <1>2. DrainInv /\ [AnyNext]_vars => [Moves]_vars
    BY <1>1, Zenon
  <1> QED BY <1>2, DrainInvariant, PTL DEF CallSpec, GenerationsAdvance
==============================================================================
