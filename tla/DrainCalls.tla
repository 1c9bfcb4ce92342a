----------------------------- MODULE DrainCalls ------------------------------
(***************************************************************************)
(* The drain engine under any caller.  Spec takes the arguments of a call  *)
(* from Inputs and Bounds, so that TLC can enumerate them; the controller  *)
(* takes them from the wire.  Here they are any values of their types: the *)
(* theorems about the engine are about CallSpec, which Spec implies        *)
(* (DrainProofs) and the controller with its peers implies too             *)
(* (ControllerProofs).                                                     *)
(***************************************************************************)
EXTENDS DrainSafety

\* Runtime::stop revokes every token, one after the other, with nothing in between.
revoke_tokens ==
  /\ tokens' = revoke_all(tokens)
  /\ UNCHANGED <<callVars, drains, requestVars, obligationVars, status, sent, fence, evidence,
                 incarnation, epoch, scope_generations>>

AnyGovern ==
  \/ \E s \in Scopes, v \in Nat : issue_authority(s, v)
  \/ \E i \in DOMAIN tokens : revoke_authority(i)
  \/ revoke_tokens
  \/ \E i, e \in Nat : install_authority_line(i, e)
  \/ \E i \in Nat : InstallIncarnation(i)
  \/ \E x \in Resources : add_resource(x)
  \/ \E x \in Resources, s \in ResourceStatus : report_resource_status(x, s)

AnyObserve ==
  \E k \in EvidenceKeys, seq \in Nat :
    \/ attest_evidence(k, seq)
    \/ \E g, ep, p, at \in Nat : record_evidence(k, seq, g, ep, p, at)

AnyAdmit ==
  \E deps \in SUBSET Targets, prot \in BOOLEAN, g \in Nat : \E a : admit_obligation(deps, prot, g, a)

AnyReport ==
  \E o \in ObligationIds, next \in ObligationState, ev \in Nat :
    \E d, g, rev : report_obligation(o, d, g, rev, next, ev)

AnyOperate ==
  \E a \in DOMAIN tokens :
    \/ \E S \in SUBSET Targets, n \in Nat : request_drain_set(S, a, n)
    \/ \E d \in DrainIds :
         \/ cancel_drain(d, a)
         \/ restore_drain(d, a)
         \/ resume_drain(d, a)
         \/ \E o \in ObligationIds \cup {0}, x \in Nat : grant_exception(d, o, x, a)

AnyNext ==
  \/ Tick
  \/ AnyGovern
  \/ AnyObserve
  \/ AnyAdmit
  \/ AnyReport
  \/ AnyOperate
  \/ advance
  \/ Restart

CallSpec == Init /\ [][AnyNext]_vars
==============================================================================
