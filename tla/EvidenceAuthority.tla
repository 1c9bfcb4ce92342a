-------------------------- MODULE EvidenceAuthority --------------------------
(***************************************************************************)
(* The evidence ledger and the authority registry as the engine composes   *)
(* them (engine.cpp): every authority line that is installed quarantines   *)
(* what the previous line had attested, an incarnation that is installed   *)
(* alone does not, and the ledger admits and attests only under the live   *)
(* line.  Callers present any incarnation and epoch.                       *)
(***************************************************************************)
EXTENDS EvidenceLedger, AuthorityRegistry

CONSTANTS Skew, RequireLive, \* evidence_clock_skew, evidence_requires_live_incarnation
          Lines,             \* incarnations and epochs callers may name
          Validities,        \* token validities; 0 never expires
          MaxTime, MaxSeq, MaxTokens, MaxScopeGeneration \* bounds of the model

ASSUME LedgerAssumption ==
  /\ EvidenceKeys \subseteq Nat \X Nat \X Nat
  /\ Skew \in Nat
  /\ RequireLive \in BOOLEAN
  /\ Lines \subseteq Nat
  /\ Validities \subseteq Nat
  /\ {MaxTime, MaxSeq, MaxTokens, MaxScopeGeneration, MaxRecords} \subseteq Nat

VARIABLES now,
          fenced   \* history: the incarnation the last authority line was installed with

ledgerVars == <<evidence, now, fenced, authorityVars>>

LiveFence ==
  [live_incarnation |-> incarnation, live_epoch |-> epoch, now |-> now, allowed_skew |-> Skew]

LedgerInit == AuthorityInit /\ evidence = EmptyLedger /\ now = 1 /\ fenced = 0

InstallLine(i, e) ==
  /\ install_line(i, e)
  /\ evidence' = quarantine_all(evidence)
  /\ fenced' = i
  /\ UNCHANGED now

\* DrainEngine::install_incarnation: what is attested stays attested.
InstallIncarnation(i) ==
  /\ install_incarnation(i)
  /\ UNCHANGED <<evidence, now, fenced>>

Record(k, seq, e, p, at) ==
  LET draft == [key |-> k, seq |-> seq, generation |-> 0, epoch |-> e, producer |-> p,
                observed_at |-> at, attested |-> FALSE]
  IN /\ can_record(evidence, draft, LiveFence, RequireLive)
     /\ evidence' = record(evidence, draft)
     /\ UNCHANGED <<now, fenced, authorityVars>>

Attest(k, seq) ==
  /\ can_attest(evidence, k, seq, LiveFence)
  /\ evidence' = attest(evidence, k, seq)
  /\ UNCHANGED <<now, fenced, authorityVars>>

Issue(s, v) ==
  /\ Len(tokens) < MaxTokens
  /\ issue(s, now, v)
  /\ UNCHANGED <<evidence, now, fenced>>

Revoke(i) == revoke(i) /\ UNCHANGED <<evidence, now, fenced>>

AdvanceScope(s) ==
  /\ scope_generations[s] < MaxScopeGeneration
  /\ advance_scope_generation(s)
  /\ UNCHANGED <<evidence, now, fenced>>

LedgerTick ==
  /\ now < MaxTime
  /\ now' = now + 1
  /\ UNCHANGED <<evidence, fenced, authorityVars>>

LedgerNext ==
  \/ LedgerTick
  \/ \E i, e \in Lines : InstallLine(i, e)
  \/ \E i \in Lines : InstallIncarnation(i)
  \/ \E k \in EvidenceKeys, seq \in 0..MaxSeq :
       \/ Attest(k, seq)
       \/ \E e, p \in Lines, at \in 0..(MaxTime + Skew) : Record(k, seq, e, p, at)
  \/ \E s \in Scopes, v \in Validities : Issue(s, v)
  \/ \E i \in DOMAIN tokens : Revoke(i)
  \/ \E s \in Scopes : AdvanceScope(s)

LedgerSpec == LedgerInit /\ [][LedgerNext]_ledgerVars

------------------------------------------------------------------------------
\* Both components keep the shape the code's types give them.
LedgerTypeOK == evidence \in Ledger /\ AuthorityTypeOK /\ {now, fenced} \subseteq Nat

\* Attested evidence is of the live epoch and, where policy asks for the live incarnation,
\* of one that lived since the last authority line was installed: nothing a line had
\* attested survives the next one as current, also when the epoch stays the same, and
\* nothing older is attested again (install_authority_line, record, attest).  It need not
\* be of the live incarnation: install_incarnation quarantines nothing.
AttestedIsLive ==
  \A e \in evidence.records :
    e.attested => /\ e.epoch = epoch
                  /\ RequireLive => e.producer \in fenced..incarnation

\* The ledger stays within its capacity, and eviction never takes the newest
\* record of a stream: latest() always finds what it looks for.
NewestIsKept ==
  /\ Cardinality(evidence.records) <= MaxRecords
  /\ \A k \in EvidenceKeys :
       /\ evidence.latest[k] # NoSeq => find(evidence, k, evidence.latest[k]) # {}
       /\ \A e \in evidence.records : e.key = k => e.seq <= evidence.latest[k]

\* A sequence number of a stream is used once, also after its record was
\* evicted: what appears in the ledger is newer than all its stream accepted.
SequencesAreFresh ==
  [][\A e \in evidence'.records :
       find(evidence, e.key, e.seq) = {} => e.seq > evidence.latest[e.key]]_ledgerVars

\* A token that was rejected once is rejected for good, whatever is installed,
\* issued or advanced after it and however much time passes.
RejectionIsFinal ==
  [][\A i \in DOMAIN tokens : ~check(i, now) => ~check(i, now)']_ledgerVars
==============================================================================
