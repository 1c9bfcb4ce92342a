----------------------------- MODULE Obligation -----------------------------
(***************************************************************************)
(* One obligation (obligation.cpp): its states, the legality table and     *)
(* apply_state, which is fenced by the obligation's revision.  Kind,       *)
(* holder, evacuation mode, note and attempt are read by no decision.      *)
(***************************************************************************)
EXTENDS DrainTarget

ObligationState ==
  {"admitted", "evacuating", "quiescing", "released", "retired", "failed"}

ObligationRecord ==
  [dependencies : SUBSET Targets, protected : BOOLEAN,
   state : ObligationState, revision : Nat, release_evidence : Nat,
   admission_generation : Nat, admitted_at : Nat]

NewObligation(deps, prot, g, at) ==
  [dependencies |-> deps, protected |-> prot, state |-> "admitted", revision |-> 1,
   release_evidence |-> 0, admission_generation |-> g, admitted_at |-> at]

\* True when the obligation prevents a drain of t from completing.
blocks_completion(o, t) == o.protected /\ o.state # "retired" /\ t \in o.dependencies

\* Still has to be moved before anything can be released.
is_movable(o) == o.state \in {"admitted", "evacuating"}

LegalObligationTargets(from) ==
  CASE from = "admitted"   -> {"evacuating", "quiescing", "released", "retired", "failed"}
    [] from = "evacuating" -> {"quiescing", "released", "retired", "failed"}
    [] from = "quiescing"  -> {"released", "retired", "failed", "admitted"}
    [] from = "released"   -> {"retired", "failed", "admitted", "quiescing"}
    [] from = "retired"    -> {"admitted"}
    [] OTHER               -> {"admitted", "evacuating", "quiescing"} \* failed

is_legal_obligation_transition(from, to) == from = to \/ to \in LegalObligationTargets(from)

\* The same state again: a replay unless it carries another evidence number,
\* which then replaces the stored proof.
ReobserveState(o, ev) ==
  IF ev \in {0, o.release_evidence} \/ o.state \notin {"quiescing", "released", "retired"}
  THEN o
  ELSE [o EXCEPT !.release_evidence = ev, !.revision = @ + 1]

\* A move to another state; a return to Admitted is a reappearance.
MoveState(o, next, ev) ==
  [o EXCEPT
     !.state = next,
     !.revision = @ + 1,
     !.release_evidence = IF next \in {"retired", "released"} THEN ev
                          ELSE IF next = "admitted" THEN 0 ELSE @]

\* The revision fence and the legality table come before the first write.
can_apply_state(o, expected_revision, next) ==
  /\ expected_revision = o.revision
  /\ is_legal_obligation_transition(o.state, next)

apply_state(o, next, ev) ==
  IF next = o.state THEN ReobserveState(o, ev) ELSE MoveState(o, next, ev)
==============================================================================
