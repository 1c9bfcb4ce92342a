-------------------------- MODULE ComponentProofs ---------------------------
(***************************************************************************)
(* Proofs about the parts that stand alone: the evidence ledger with the   *)
(* authority registry, for every capacity, clock and set of streams and    *)
(* lines; the topology, for everything that may be declared in it; the     *)
(* runtime and its files, for every line and content.                      *)
(***************************************************************************)
EXTENDS Topology, Recovery, EvidenceAuthority, ComponentLemmas

\* What a stream holds is ordered, and the newest of it is there: without the
\* order attest() might revive two records, and eviction might find no victim.
LedgerInv ==
  /\ LedgerTypeOK
  /\ fenced <= incarnation
  /\ AttestedIsLive
  /\ OrderedLedger(evidence)
  /\ KeptLedger(evidence)

\* A record that Record drafts and the ledger accepts.
LEMMA DraftFacts ==
  ASSUME LedgerInv, NEW k \in EvidenceKeys, NEW seq \in 0..MaxSeq,
         NEW e \in Lines, NEW p \in Lines, NEW at \in 0..(MaxTime + Skew), Record(k, seq, e, p, at)
  PROVE  \E draft \in Evidence :
           /\ draft.epoch = epoch
           /\ RequireLive => draft.producer = incarnation
           /\ draft.seq > evidence.latest[draft.key]
           /\ has_capacity(evidence) \/ Retirable(evidence, draft.key) # {}
           /\ evidence' = record(evidence, draft)
  <1> DEFINE draft == [key |-> k, seq |-> seq, generation |-> 0, epoch |-> e, producer |-> p,
                       observed_at |-> at, attested |-> FALSE]
  <1>1. draft \in Evidence
    BY LedgerAssumption DEF Evidence
  <1>2. can_record(evidence, draft, LiveFence, RequireLive) /\ evidence' = record(evidence, draft)
    BY DEF Record
  <1>3. /\ draft.epoch = epoch
        /\ RequireLive => draft.producer = incarnation
        /\ draft.seq > evidence.latest[draft.key]
        /\ has_capacity(evidence) \/ Retirable(evidence, draft.key) # {}
    BY <1>2 DEF can_record, LiveFence
  <1> HIDE DEF draft
  <1> QED BY <1>1, <1>2, <1>3

\* Initially there is no record, no token and no line.
LEMMA LedgerInvInit == LedgerInit => LedgerInv
  <1> SUFFICES ASSUME LedgerInit PROVE LedgerInv
    OBVIOUS
  <1>1. evidence \in Ledger
    BY DEF LedgerInit, EmptyLedger, Ledger
  <1>2. AuthorityTypeOK /\ now \in Nat
    BY DEF LedgerInit, AuthorityInit, AuthorityTypeOK
  <1>3. evidence.records = {}
    BY DEF LedgerInit, EmptyLedger
  <1>4. OrderedLedger(evidence)
    BY <1>3 DEF OrderedLedger
  <1>5. KeptLedger(evidence)
    <2>1. IsFiniteSet({}) /\ Cardinality({}) = 0
      BY FS_EmptySet
    <2>2. \A k \in EvidenceKeys : evidence.latest[k] = NoSeq
      BY DEF LedgerInit, EmptyLedger
    <2> QED BY <1>3, <2>1, <2>2, LedgerAssumption DEF KeptLedger
  <1>6. fenced \in Nat /\ fenced <= incarnation
    BY DEF LedgerInit, AuthorityInit
  <1> QED BY <1>1, <1>2, <1>3, <1>4, <1>5, <1>6 DEF LedgerInv, LedgerTypeOK, AttestedIsLive

\* A new line quarantines: nothing is attested under it yet.
LEMMA InstallLineKeeps ==
  ASSUME LedgerInv, NEW i \in Lines, NEW e \in Lines, InstallLine(i, e)
  PROVE  LedgerInv'
  <1> USE DEF LedgerInv, LedgerTypeOK
  <1>1. /\ evidence' \in Ledger
        /\ evidence'.latest = evidence.latest
        /\ \A f \in evidence'.records :
             ~f.attested /\ \E g \in evidence.records : f = [g EXCEPT !.attested = FALSE]
    BY QuarantineFacts DEF InstallLine
  <1>2. AuthorityTypeOK' /\ now' \in Nat /\ fenced' \in Nat /\ fenced' <= incarnation'
    BY InstallLineTypes, LedgerAssumption DEF InstallLine, install_line
  <1>3. AttestedIsLive'
    BY <1>1 DEF AttestedIsLive
  <1>4. OrderedLedger(evidence') /\ KeptLedger(evidence')
    BY QuarantineKeepsNewest, LedgerAssumption DEF InstallLine
  <1> QED BY <1>1, <1>2, <1>3, <1>4

\* An incarnation that is installed alone leaves the ledger and the last line's number alone.
LEMMA InstallIncarnationKeeps ==
  ASSUME LedgerInv, NEW i \in Lines, InstallIncarnation(i)
  PROVE  LedgerInv'
  <1> USE DEF LedgerInv, LedgerTypeOK
  <1>1. /\ UNCHANGED <<evidence, now, fenced, epoch, tokens, scope_generations>>
        /\ incarnation' = i /\ i > incarnation
    BY DEF InstallIncarnation, install_incarnation
  <1>2. AuthorityTypeOK' /\ fenced' <= incarnation'
    BY <1>1, LedgerAssumption DEF AuthorityTypeOK
  <1>3. \A n \in fenced..incarnation : n \in fenced'..incarnation'
    BY <1>1, LedgerAssumption DEF AuthorityTypeOK
  <1>4. AttestedIsLive'
    BY <1>1, <1>3, Zenon DEF AttestedIsLive
  <1> QED BY <1>1, <1>2, <1>4

\* record() is fenced by the live line and by the newest number of the stream.
LEMMA RecordKeeps ==
  ASSUME LedgerInv, NEW k \in EvidenceKeys, NEW seq \in 0..MaxSeq,
         NEW e \in Lines, NEW p \in Lines, NEW at \in 0..(MaxTime + Skew), Record(k, seq, e, p, at)
  PROVE  LedgerInv'
  <1> USE DEF LedgerInv, LedgerTypeOK
  <1>1. PICK draft \in Evidence :
          /\ draft.epoch = epoch
          /\ RequireLive => draft.producer = incarnation
          /\ draft.seq > evidence.latest[draft.key]
          /\ has_capacity(evidence) \/ Retirable(evidence, draft.key) # {}
          /\ evidence' = record(evidence, draft)
    BY DraftFacts
  <1> DEFINE new == [draft EXCEPT !.attested = TRUE]
  <1>2. /\ evidence' \in Ledger
        /\ evidence'.latest = [evidence.latest EXCEPT ![draft.key] = draft.seq]
        /\ \A f \in evidence'.records : f \in evidence.records \/ f = new
    BY <1>1, RecordFacts
  <1>3. new.key = draft.key /\ new.seq = draft.seq /\ new.epoch = draft.epoch
        /\ new.producer = draft.producer
    BY DEF Evidence
  <1>4. UNCHANGED <<now, fenced, incarnation, epoch, tokens, scope_generations>>
    BY DEF Record, authorityVars
  <1> HIDE DEF new
  <1>7. incarnation \in fenced..incarnation
    BY DEF AuthorityTypeOK
  <1>5. AttestedIsLive'
    BY <1>1, <1>2, <1>3, <1>4, <1>7, Zenon DEF AttestedIsLive
  <1>6. OrderedLedger(evidence') /\ KeptLedger(evidence')
    BY <1>1, RecordKeepsNewest, LedgerAssumption
  <1> QED BY <1>2, <1>4, <1>5, <1>6 DEF AuthorityTypeOK

\* attest() revives a record of the live line only.
LEMMA AttestKeeps ==
  ASSUME LedgerInv, NEW k \in EvidenceKeys, NEW seq \in 0..MaxSeq, Attest(k, seq)
  PROVE  LedgerInv'
  <1> USE DEF LedgerInv, LedgerTypeOK
  <1>1. /\ evidence' \in Ledger
        /\ evidence'.latest = evidence.latest
        /\ \A f \in evidence'.records :
             \/ f \in evidence.records /\ ~(f.key = k /\ f.seq = seq)
             \/ \E g \in find(evidence, k, seq) : f = [g EXCEPT !.attested = TRUE]
    BY AttestFacts DEF Attest
  <1>2. UNCHANGED <<now, fenced, incarnation, epoch, tokens, scope_generations>>
    BY DEF Attest, authorityVars
  <1>3. PICK kept \in find(evidence, k, seq) : kept.epoch = epoch /\ kept.producer = incarnation
    BY DEF Attest, can_attest, LiveFence
  <1>4. \A g \in find(evidence, k, seq) : g = kept
    BY <1>3 DEF OrderedLedger, find
  <1>5. \A f \in evidence'.records :
          \/ f \in evidence.records /\ ~(f.key = k /\ f.seq = seq)
          \/ f = [kept EXCEPT !.attested = TRUE]
    BY <1>1, <1>4
  <1> DEFINE new == [kept EXCEPT !.attested = TRUE]
  <1>6. /\ new.key = k /\ new.seq = seq /\ new.epoch = epoch /\ new.producer = incarnation
        /\ kept \in evidence.records /\ kept.key = k /\ kept.seq = seq
    BY <1>3 DEF find, Evidence, Ledger
  <1> HIDE DEF new
  <1>9. incarnation \in fenced..incarnation
    BY DEF AuthorityTypeOK
  <1>7. AttestedIsLive'
    BY <1>2, <1>5, <1>6, <1>9, Zenon DEF AttestedIsLive, new
  <1>8. OrderedLedger(evidence') /\ KeptLedger(evidence')
    BY AttestKeepsNewest, LedgerAssumption DEF Attest
  <1> QED BY <1>1, <1>2, <1>7, <1>8 DEF AuthorityTypeOK

\* Tokens and the clock do not touch the ledger.
LEMMA RegistryKeeps ==
  ASSUME LedgerInv,
         \/ LedgerTick
         \/ \E s \in Scopes, v \in Validities : Issue(s, v)
         \/ \E i \in DOMAIN tokens : Revoke(i)
         \/ \E s \in Scopes : AdvanceScope(s)
  PROVE  LedgerInv'
  <1> USE DEF LedgerInv, LedgerTypeOK
  <1>1. UNCHANGED <<evidence, fenced, incarnation, epoch>> /\ now' \in Nat
    <2>1. CASE LedgerTick
      BY <2>1 DEF LedgerTick, authorityVars
    <2>2. CASE \E s \in Scopes, v \in Validities : Issue(s, v)
      BY <2>2 DEF Issue, issue
    <2>3. CASE \E i \in DOMAIN tokens : Revoke(i)
      BY <2>3 DEF Revoke, revoke
    <2>4. CASE \E s \in Scopes : AdvanceScope(s)
      BY <2>4 DEF AdvanceScope, advance_scope_generation
    <2> QED BY <2>1, <2>2, <2>3, <2>4
  <1>2. AuthorityTypeOK'
    <2>1. CASE LedgerTick
      BY <2>1 DEF LedgerTick, authorityVars, AuthorityTypeOK
    <2>2. CASE \E s \in Scopes, v \in Validities : Issue(s, v)
      BY <2>2, IssueTypes, LedgerAssumption DEF Issue
    <2>3. CASE \E i \in DOMAIN tokens : Revoke(i)
      BY <2>3, RevokeTypes DEF Revoke
    <2>4. CASE \E s \in Scopes : AdvanceScope(s)
      BY <2>4 DEF AdvanceScope, advance_scope_generation, AuthorityTypeOK
    <2> QED BY <2>1, <2>2, <2>3, <2>4
  <1> QED BY <1>1, <1>2 DEF AttestedIsLive

\* Every step of the composed ledger and registry keeps the invariant.
LEMMA LedgerInvNext == LedgerInv /\ [LedgerNext]_ledgerVars => LedgerInv'
  <1> SUFFICES ASSUME LedgerInv, [LedgerNext]_ledgerVars PROVE LedgerInv'
    OBVIOUS
  <1>1. CASE UNCHANGED ledgerVars
    BY <1>1 DEF ledgerVars, authorityVars, LedgerInv, LedgerTypeOK, AuthorityTypeOK,
                AttestedIsLive
  <1>2. CASE LedgerNext
    BY <1>2, InstallLineKeeps, InstallIncarnationKeeps, RecordKeeps, AttestKeeps, RegistryKeeps
       DEF LedgerNext
  <1> QED BY <1>1, <1>2

\* The invariant holds throughout.
THEOREM LedgerInvariant == LedgerSpec => []LedgerInv
  BY LedgerInvInit, LedgerInvNext, PTL DEF LedgerSpec

\* For every capacity, skew and sequence of lines and of incarnations installed alone:
\* attested evidence is of the live epoch and, where policy asks, of an incarnation that
\* lived since the last line was installed (EvidenceLedger::quarantine_all, record, attest).
THEOREM AttestedEvidenceIsLive == LedgerSpec => []AttestedIsLive
  <1>1. LedgerInv => AttestedIsLive
    BY DEF LedgerInv
  <1> QED BY <1>1, LedgerInvariant, PTL

\* For every capacity and every set of streams: the ledger stays within its
\* capacity and evicts no stream's newest record (EvidenceLedger::record and
\* retire_one_for).
THEOREM NewestEvidenceIsKept == LedgerSpec => []NewestIsKept
  <1>1. LedgerInv => NewestIsKept
    BY DEF LedgerInv, LedgerTypeOK, OrderedLedger, KeptLedger, NewestIsKept, find
  <1> QED BY <1>1, LedgerInvariant, PTL

\* A sequence number of a stream is used once, for every eviction order.
THEOREM SequenceNumbersAreFresh == LedgerSpec => SequencesAreFresh
  <1> DEFINE A == \A e \in evidence'.records :
                    find(evidence, e.key, e.seq) = {} => e.seq > evidence.latest[e.key]
  <1>1. LedgerInv /\ [LedgerNext]_ledgerVars => [A]_ledgerVars
    <2> SUFFICES ASSUME LedgerInv, LedgerNext, NEW f \in evidence'.records
                 PROVE  \/ find(evidence, f.key, f.seq) # {}
                        \/ f.seq > evidence.latest[f.key]
      OBVIOUS
    <2> USE DEF LedgerInv, LedgerTypeOK
    <2>1. CASE \E i, e \in Lines : InstallLine(i, e)
      <3>1. PICK g \in evidence.records : f = [g EXCEPT !.attested = FALSE]
        BY <2>1, QuarantineFacts DEF InstallLine
      <3> QED BY <3>1 DEF find, Ledger, Evidence
    <2>2. CASE \E k \in EvidenceKeys, seq \in 0..MaxSeq : Attest(k, seq)
      <3>1. f \in evidence.records \/ \E g \in evidence.records : f = [g EXCEPT !.attested = TRUE]
        BY <2>2, AttestFacts DEF Attest, find
      <3> QED BY <3>1 DEF find, Ledger, Evidence
    <2>3. CASE \E k \in EvidenceKeys, seq \in 0..MaxSeq, e, p \in Lines, at \in 0..(MaxTime + Skew) :
                 Record(k, seq, e, p, at)
      <3>1. PICK draft \in Evidence : /\ draft.seq > evidence.latest[draft.key]
                                      /\ evidence' = record(evidence, draft)
        BY <2>3, DraftFacts
      <3>2. f \in evidence.records \/ f = [draft EXCEPT !.attested = TRUE]
        BY <3>1, RecordFacts, Zenon
      <3> QED BY <3>1, <3>2 DEF find, Evidence
    <2>4. CASE UNCHANGED evidence
      BY <2>4 DEF find
    <2> QED BY <2>1, <2>2, <2>3, <2>4
            DEF LedgerNext, LedgerTick, InstallIncarnation, Issue, Revoke, AdvanceScope
  <1>2. LedgerSpec => [][A]_ledgerVars
    BY <1>1, LedgerInvariant, PTL DEF LedgerSpec
  <1> QED BY <1>2 DEF SequencesAreFresh

------------------------------------------------------------------------------
(* Tokens: the registry only moves forward, so a token it rejects once has *)
(* fallen behind for good.                                                 *)

\* What a token was issued under is not ahead of what the registry is at.
TokenIsPast(tok) ==
  /\ tok.incarnation <= incarnation
  /\ tok.epoch <= epoch
  /\ tok.generation <= scope_generations[tok.scope]

TokensArePast == \A i \in DOMAIN tokens : TokenIsPast(tokens[i])

\* tok, in the registry as it was, became tok2: nothing but its revocation moved.
SameToken(tok, tok2) == tok2 = tok \/ tok2 = [tok EXCEPT !.revoked = TRUE]

\* The registry and the clock move forward, and old tokens keep their contents.
LEMMA RegistryMovesForward ==
  ASSUME LedgerTypeOK, LedgerTypeOK', LedgerNext
  PROVE  /\ now' >= now
         /\ \/ incarnation' = incarnation /\ epoch' = epoch
            \/ incarnation' > incarnation /\ epoch' = epoch
            \/ /\ incarnation # 0 => incarnation' > incarnation
               /\ epoch' >= epoch
               /\ tokens' = revoke_all(tokens)
         /\ \A s \in Scopes : scope_generations'[s] >= scope_generations[s]
         /\ \A i \in DOMAIN tokens : i \in DOMAIN tokens' /\ SameToken(tokens[i], tokens'[i])
  <1> USE DEF LedgerTypeOK, AuthorityTypeOK
  <1>1. CASE LedgerTick
    BY <1>1 DEF LedgerTick, authorityVars, SameToken
  <1>2. CASE \E i, e \in Lines : InstallLine(i, e)
    BY <1>2 DEF InstallLine, install_line, revoke_all, SameToken
  <1>3. CASE \E k \in EvidenceKeys, seq \in 0..MaxSeq :
               \/ Attest(k, seq)
               \/ \E e, p \in Lines, at \in 0..(MaxTime + Skew) : Record(k, seq, e, p, at)
    <2>1. UNCHANGED <<now, incarnation, epoch, tokens, scope_generations>>
      BY <1>3, Zenon DEF Attest, Record, authorityVars
    <2> QED BY <2>1 DEF SameToken
  <1>4. CASE \E s \in Scopes, v \in Validities : Issue(s, v)
    <2>1. PICK s \in Scopes, v \in Validities : Issue(s, v)
      BY <1>4
    <2>2. PICK tok : tokens' = Append(tokens, tok)
      BY <2>1 DEF Issue, issue
    <2>3. \A i \in DOMAIN tokens : i \in DOMAIN tokens' /\ tokens'[i] = tokens[i]
      BY <2>2
    <2> QED BY <2>1, <2>3 DEF Issue, issue, SameToken
  <1>5. CASE \E i \in DOMAIN tokens : Revoke(i)
    <2>1. PICK i \in DOMAIN tokens : Revoke(i)
      BY <1>5
    <2>2. tokens' = [tokens EXCEPT ![i] = [tokens[i] EXCEPT !.revoked = TRUE]]
      BY <2>1 DEF Revoke, revoke
    <2>3. \A n \in DOMAIN tokens : n \in DOMAIN tokens' /\ SameToken(tokens[n], tokens'[n])
      BY <2>2, Zenon DEF SameToken
    <2>4. UNCHANGED <<now, incarnation, epoch, scope_generations>>
      BY <2>1 DEF Revoke, revoke
    <2> QED BY <2>3, <2>4
  <1>6. CASE \E s \in Scopes : AdvanceScope(s)
    BY <1>6 DEF AdvanceScope, advance_scope_generation, SameToken
  <1>7. CASE \E i \in Lines : InstallIncarnation(i)
    BY <1>7 DEF InstallIncarnation, install_incarnation, SameToken
  <1> QED BY <1>1, <1>2, <1>3, <1>4, <1>5, <1>6, <1>7 DEF LedgerNext

\* Revocation changes nothing else of a token.
LEMMA SameTokenFacts ==
  ASSUME NEW tok \in AuthorityToken, NEW tok2, SameToken(tok, tok2)
  PROVE  /\ tok2.scope = tok.scope /\ tok2.generation = tok.generation
         /\ tok2.epoch = tok.epoch /\ tok2.incarnation = tok.incarnation
         /\ tok2.expires_at = tok.expires_at /\ (tok.revoked => tok2.revoked)
  BY DEF SameToken, AuthorityToken

\* Tokens stay behind the registry: an older token because the registry moved
\* forward, a new one because it was issued under what is live.
LEMMA TokensArePastNext ==
  ASSUME LedgerTypeOK, LedgerTypeOK', TokensArePast, LedgerNext
  PROVE  TokensArePast'
  <1> USE DEF LedgerTypeOK, AuthorityTypeOK
  <1> DEFINE Past(tok) == /\ tok.incarnation <= incarnation'
                          /\ tok.epoch <= epoch'
                          /\ tok.generation <= scope_generations'[tok.scope]
  <1>1. ASSUME NEW i \in DOMAIN tokens PROVE Past(tokens'[i])
    <2>1. tokens[i] \in AuthorityToken /\ TokenIsPast(tokens[i])
      BY DEF TokensArePast
    <2>2. SameToken(tokens[i], tokens'[i])
      BY RegistryMovesForward
    <2>3. /\ incarnation' >= incarnation /\ epoch' >= epoch
          /\ \A s \in Scopes : scope_generations'[s] >= scope_generations[s]
      BY RegistryMovesForward
    <2>4. /\ tokens[i].incarnation \in Nat /\ tokens[i].epoch \in Nat
          /\ tokens[i].generation \in Nat /\ tokens[i].scope \in Scopes
      BY <2>1 DEF AuthorityToken
    <2>5. /\ tokens'[i].incarnation = tokens[i].incarnation
          /\ tokens'[i].epoch = tokens[i].epoch
          /\ tokens'[i].generation = tokens[i].generation
          /\ tokens'[i].scope = tokens[i].scope
      BY <2>1, <2>2, SameTokenFacts
    <2>6. tokens[i].incarnation <= incarnation' /\ tokens[i].epoch <= epoch'
      BY <2>1, <2>3, <2>4, SMTT(30) DEF TokenIsPast
    <2>7. tokens[i].generation <= scope_generations'[tokens[i].scope]
      BY <2>1, <2>3, <2>4 DEF TokenIsPast
    <2> QED BY <2>5, <2>6, <2>7
  <1>2. ASSUME NEW i \in DOMAIN tokens', i \notin DOMAIN tokens PROVE Past(tokens'[i])
    <2>1. PICK s \in Scopes, v \in Validities : Issue(s, v)
      <3>1. CASE LedgerTick
        BY <1>2, <3>1 DEF LedgerTick, authorityVars
      <3>2. CASE \E n, e \in Lines : InstallLine(n, e)
        BY <1>2, <3>2 DEF InstallLine, install_line, revoke_all
      <3>3. CASE \E k \in EvidenceKeys, seq \in 0..MaxSeq :
                   \/ Attest(k, seq)
                   \/ \E e, p \in Lines, at \in 0..(MaxTime + Skew) : Record(k, seq, e, p, at)
        BY <1>2, <3>3, Zenon DEF Attest, Record, authorityVars
      <3>4. CASE \E n \in DOMAIN tokens : Revoke(n)
        BY <1>2, <3>4 DEF Revoke, revoke
      <3>5. CASE \E x \in Scopes : AdvanceScope(x)
        BY <1>2, <3>5 DEF AdvanceScope, advance_scope_generation
      <3>6. CASE \E n \in Lines : InstallIncarnation(n)
        BY <1>2, <3>6 DEF InstallIncarnation, install_incarnation
      <3> QED BY <3>1, <3>2, <3>3, <3>4, <3>5, <3>6 DEF LedgerNext
    <2> DEFINE new == [scope |-> s, generation |-> scope_generations[s], epoch |-> epoch,
                       incarnation |-> incarnation,
                       expires_at |-> IF v = 0 THEN 0 ELSE now + v, revoked |-> FALSE]
    <2>2. tokens' = Append(tokens, new) /\ UNCHANGED <<incarnation, epoch, scope_generations>>
      BY <2>1 DEF Issue, issue
    <2>3. /\ new.incarnation = incarnation /\ new.epoch = epoch
          /\ new.generation = scope_generations[s] /\ new.scope = s
      OBVIOUS
    <2> HIDE DEF new
    <2>4. tokens'[i] = new
      BY <1>2, <2>2
    <2> QED BY <2>2, <2>3, <2>4
  <1> QED BY <1>1, <1>2 DEF TokensArePast, TokenIsPast

\* A rejected token stays rejected, through every step of the composed ledger
\* and registry (AuthorityRegistry::check).
LEMMA RejectionStep ==
  ASSUME LedgerTypeOK, LedgerTypeOK', TokensArePast, LedgerNext,
         NEW i \in DOMAIN tokens, check(i, now)'
  PROVE  check(i, now)
  <1> USE DEF LedgerTypeOK, AuthorityTypeOK
  <1>1. tokens[i] \in AuthorityToken /\ TokenIsPast(tokens[i])
    BY DEF TokensArePast
  <1>2. /\ tokens[i].scope \in Scopes /\ tokens[i].generation \in Nat /\ tokens[i].epoch \in Nat
        /\ tokens[i].incarnation \in Nat /\ tokens[i].expires_at \in Nat
    BY <1>1 DEF AuthorityToken
  <1>3. /\ i \in DOMAIN tokens'
        /\ SameToken(tokens[i], tokens'[i])
    BY RegistryMovesForward
  <1>4. /\ tokens'[i].scope = tokens[i].scope /\ tokens'[i].generation = tokens[i].generation
        /\ tokens'[i].epoch = tokens[i].epoch /\ tokens'[i].incarnation = tokens[i].incarnation
        /\ tokens'[i].expires_at = tokens[i].expires_at
        /\ tokens[i].revoked => tokens'[i].revoked
    BY <1>1, <1>3, SameTokenFacts
  <1>5. /\ ~tokens'[i].revoked
        /\ tokens'[i].incarnation = incarnation' /\ tokens'[i].epoch = epoch'
        /\ tokens'[i].generation = scope_generations'[tokens'[i].scope]
        /\ ~(tokens'[i].expires_at # 0 /\ now' > tokens'[i].expires_at)
    BY DEF check, expired_at
  <1>6. incarnation' = incarnation /\ epoch' = epoch
    <2>1. SUFFICES ASSUME tokens' = revoke_all(tokens) PROVE FALSE
      BY <1>1, <1>2, <1>4, <1>5, RegistryMovesForward DEF TokenIsPast
    <2>2. tokens'[i].revoked = TRUE
      BY <1>1, <2>1 DEF revoke_all, AuthorityToken
    <2> QED BY <1>5, <2>2
  <1>7. scope_generations[tokens[i].scope] = tokens[i].generation
    BY <1>1, <1>2, <1>4, <1>5, RegistryMovesForward DEF TokenIsPast
  <1>8. now' >= now
    BY RegistryMovesForward
  <1>9. ~tokens[i].revoked
    BY <1>4, <1>5
  <1>10. ~(tokens[i].expires_at # 0 /\ now > tokens[i].expires_at)
    BY <1>2, <1>4, <1>5, <1>8
  <1>11. tokens[i].incarnation = incarnation /\ tokens[i].epoch = epoch
    BY <1>4, <1>5, <1>6
  <1> QED BY <1>7, <1>9, <1>10, <1>11, Zenon DEF check, expired_at

\* A token rejected once is rejected for good: for every set of scopes, lines
\* and validities.
THEOREM RejectedTokensStayRejected == LedgerSpec => RejectionIsFinal
  <1> DEFINE A == \A i \in DOMAIN tokens : ~check(i, now) => ~check(i, now)'
  <1>1. LedgerInit => TokensArePast
    BY DEF LedgerInit, AuthorityInit, TokensArePast
  <1>2. LedgerInv /\ LedgerInv' /\ TokensArePast /\ [LedgerNext]_ledgerVars => TokensArePast'
    <2>1. LedgerInv => LedgerTypeOK
      BY DEF LedgerInv
    <2>2. LedgerInv' => LedgerTypeOK'
      BY DEF LedgerInv
    <2>3. TokensArePast /\ UNCHANGED ledgerVars => TokensArePast'
      BY DEF ledgerVars, authorityVars, TokensArePast, TokenIsPast
    <2> QED BY <2>1, <2>2, <2>3, TokensArePastNext
  <1>3. LedgerInv /\ LedgerInv' /\ TokensArePast /\ [LedgerNext]_ledgerVars => [A]_ledgerVars
    <2>1. ASSUME LedgerTypeOK, LedgerTypeOK', TokensArePast, LedgerNext PROVE A
      BY <2>1, RejectionStep
    <2> QED BY <2>1 DEF LedgerInv
  <1>4. LedgerSpec => [][A]_ledgerVars
    BY <1>1, <1>2, <1>3, LedgerInvariant, PTL DEF LedgerSpec
  <1> QED BY <1>4 DEF RejectionIsFinal

------------------------------------------------------------------------------
(* The topology.                                                           *)

\* A removal that validate_removal_many accepts leaves the commitments standing once the
\* resource is out of service: RemovalAssumption of the engine, from topology.cpp.
THEOREM RemovalStaysValid ==
  ASSUME NEW net, NEW st, NEW x \in DOMAIN st, NEW n, NEW m,
         st = [y \in DOMAIN st |-> st[y]],
         \A pool \in net.pools : pool.members \subseteq DOMAIN st,
         st[x] = "in-service", validate_removal_many(net, st, {x}, n, m)
  PROVE  validate_removal_many(net, [st EXCEPT ![x] = "unavailable"], {x}, n, m)
  <1> DEFINE st2 == [st EXCEPT ![x] = "unavailable"]
             excluded == {y \in DOMAIN st : st[y] \in {"unavailable", "failed"}} \cup {x}
             excluded2 == {y \in DOMAIN st2 : st2[y] \in {"unavailable", "failed"}} \cup {x}
  <1>1. DOMAIN st2 = DOMAIN st /\ st2[x] = "unavailable" /\ \A y \in DOMAIN st \ {x} : st2[y] = st[y]
    OBVIOUS
  <1> HIDE DEF st2
  <1>2. excluded2 = excluded
    BY <1>1
  <1>3. \A pool \in net.pools :
          available_pool_capacity(net, st2, pool, excluded)
            = available_pool_capacity(net, st, pool, excluded)
    <2> TAKE pool \in net.pools
    <2>1. {y \in pool.members \ excluded : st2[y] = "in-service"}
            = {y \in pool.members \ excluded : st[y] = "in-service"}
      BY <1>1
    <2> QED BY <2>1 DEF available_pool_capacity
  <1>4. \A route \in net.routes :
          has_route(net, st2, excluded, route) = has_route(net, st, excluded, route)
    <2>1. {y \in DOMAIN st2 : st2[y] = "in-service"} \ excluded
            = {y \in DOMAIN st : st[y] = "in-service"} \ excluded
      BY <1>1
    <2> QED BY <2>1 DEF has_route
  <1>5. st2[x] # "absent"
    BY <1>1
  <1>6. validate_removal_many(net, st2, {x}, n, m)
    <2> HIDE DEF excluded, excluded2
    <2> QED BY <1>2, <1>3, <1>4, <1>5 DEF validate_removal_many, excluded, excluded2
  <1> QED BY <1>6 DEF st2

------------------------------------------------------------------------------
(* The runtime and its files.                                              *)

\* The boot marker carries the whole argument about lines: unless it is rejected it is at or
\* above every line recorded since the last reset (write_boot_marker, peek_boot_record).
MarkerCovers ==
  /\ marker = None => installed = NoLine
  /\ marker \notin {None, Torn} =>
       marker.incarnation >= installed.incarnation /\ marker.epoch >= installed.epoch

LineInv == RecoveryTypeOK /\ MarkerCovers /\ LinesAdvance

Content(f) == IF f = None THEN 0 ELSE f.content

\* Without failed renames, damage and moved lines, the live file is missing or complete,
\* restorable, and holds what the last successful save wrote; a temporary file that is
\* about to be renamed holds the engine's content (Persistence::save).
SaveInv ==
  faults \cap {"rename", "damage", "foreign"} = {} =>
    /\ live = None \/ Restorable(live)
    /\ Content(live) = durable
    /\ pc # "marking" => engine.incarnation = line.incarnation
    /\ pc \in {"written", "rotating", "rotated"} => temporary = Written
    /\ pc # "replacing"

\* Renames that fail leave the live file missing or complete, and a marker is rejected only
\* while a start is writing it.
RefusalInv ==
  faults \subseteq {"io", "rename"} =>
    /\ live = None \/ Restorable(live)
    /\ pc # "marking" => engine.incarnation = line.incarnation
    /\ pc \in {"written", "rotating", "rotated", "replacing"} => temporary = Written
    /\ marker = Torn => pc = "marking"

\* What NextLine returns: a line above the marker, and above the engine it restores.
LEMMA NextLineAdvances ==
  ASSUME RecoveryTypeOK, NEW l \in BOOLEAN, NEW b \in BootIds, CanStart(l)
  PROVE  /\ NextLine(l, b) \in Line
         /\ Restored(l) \in Engine
         /\ peek_boot_record \in Line
         /\ NextLine(l, b).incarnation > peek_boot_record.incarnation
         /\ NextLine(l, b).epoch > peek_boot_record.epoch
         /\ NextLine(l, b).incarnation > Restored(l).incarnation
         /\ NextLine(l, b).epoch >= Restored(l).epoch
<1>1. peek_boot_record \in Line
  BY DEF RecoveryTypeOK, CanStart, peek_boot_record, NoLine, Line
<1>2. b \in Nat
  BY RecoveryAssumption
<1>3. CASE Loads(l)
  <2>1. load \in Snapshot /\ load.header = load.incarnation
    BY <1>3 DEF RecoveryTypeOK, CanStart, Restorable, load
  <2>2. QED
    BY <1>1, <1>2, <1>3, <2>1 DEF NextLine, Restored, Larger, Line, Snapshot, Engine
<1>4. CASE ~Loads(l)
  BY <1>1, <1>2, <1>4, SMTT(30) DEF NextLine, Restored, EmptyEngine, Larger, Line, Engine
<1>5. QED
  BY <1>3, <1>4

\* Every step keeps the shapes of the files and of the process's memory.
LEMMA RecoveryTypes ==
  ASSUME RecoveryTypeOK, [RecoveryNext]_recoveryVars
  PROVE  RecoveryTypeOK'
<1> USE DEF RecoveryTypeOK, diskVars, historyVars, Phases, Faults
<1>1. ASSUME NEW l \in BOOLEAN, NEW b \in BootIds, start(l, b) PROVE RecoveryTypeOK'
  <2>1. NextLine(l, b) \in Line /\ Restored(l) \in Engine
    BY <1>1, NextLineAdvances DEF start
  <2>2. QED
    BY <1>1, <2>1 DEF start
<1>2. CASE install
  BY <1>2, Zenon DEF install, Line, Engine
<1>3. CASE operate
  BY <1>3 DEF operate, Engine
<1>4. CASE \E n \in {0, 1} : move_line(n)
  <2>1. PICK n \in {0, 1} : move_line(n)
    BY <1>4
  <2>2. engine' \in Engine
    <3>1. /\ engine \in [incarnation : Nat, epoch : Nat, content : Nat]
          /\ n \in Nat
      BY DEF Engine
    <3>2. engine' = [engine EXCEPT !.incarnation = engine.incarnation + 1,
                                   !.epoch = engine.epoch + n]
      BY <2>1 DEF move_line
    <3>3. engine.incarnation + 1 \in Nat /\ engine.epoch + n \in Nat
      BY <3>1
    <3>4. QED
      BY <3>1, <3>2, <3>3, Zenon DEF Engine
  <2>3. QED
    BY <2>1, <2>2 DEF move_line
<1>5. CASE save
  BY <1>5 DEF save
<1>6. CASE stop
  BY <1>6 DEF stop, Engine
<1>7. CASE write_whole_file
  <2>1. Written \in Snapshot
    BY DEF Written, Snapshot, Line, Engine
  <2>2. QED
    BY <1>7, <2>1 DEF write_whole_file
<1>8. CASE remove_backup \/ copy_file \/ rename_fails
  BY <1>8, Zenon DEF remove_backup, copy_file, rename_fails
<1>9. ASSUME Return PROVE pc' \in Phases /\ ending' \in BOOLEAN /\ line' \in Line /\ engine' \in Engine
  BY <1>9, Zenon DEF Return, NoLine, EmptyEngine, Line, Engine
<1>10. CASE rename \/ rename_again
  <2>1. Saved /\ UNCHANGED faults
    BY <1>10 DEF rename, rename_again
  <2>2. durable' \in Nat
    BY <2>1 DEF Saved, Engine
  <2>3. QED
    BY <1>9, <2>1, <2>2 DEF Saved
<1>11. CASE save_fails
  BY <1>9, <1>11 DEF save_fails
<1>12. CASE reset
  <2>1. ending' \in BOOLEAN
    BY <1>12, Zenon DEF reset
  <2>2. pc' \in Phases /\ durable' \in Nat /\ live' = None
    BY <1>12 DEF reset
  <2>3. QED
    BY <1>12, <2>1, <2>2 DEF reset
<1>18. CASE reset_backup
  BY <1>18 DEF reset_backup
<1>13. CASE reset_state
  BY <1>9, <1>13 DEF reset_state, NoLine, Line
<1>14. CASE Kill
  BY <1>14, Zenon DEF Kill, NoLine, EmptyEngine, Line, Engine
<1>15. CASE Damage
  BY <1>15 DEF Damage
<1>16. CASE UNCHANGED recoveryVars
  BY <1>16 DEF recoveryVars
<1>17. QED
  BY <1>1, <1>2, <1>3, <1>4, <1>5, <1>6, <1>7, <1>8, <1>10, <1>11, <1>12, <1>13, <1>14,
     <1>15, <1>16, <1>18, Zenon DEF RecoveryNext

\* Only a start that finishes and a reset write the marker, and a start chooses its line
\* above what it read there.
LEMMA LineStep ==
  ASSUME LineInv, [RecoveryNext]_recoveryVars
  PROVE  LineInv'
<1> USE DEF LineInv, MarkerCovers, LinesAdvance, diskVars, historyVars
<1>0. RecoveryTypeOK'
  BY RecoveryTypes
<1>1. ASSUME NEW l \in BOOLEAN, NEW b \in BootIds, start(l, b) PROVE LineInv'
  <2>1. /\ peek_boot_record \in Line
        /\ line' = NextLine(l, b)
        /\ engine' = Restored(l)
        /\ line'.incarnation > peek_boot_record.incarnation
        /\ line'.epoch > peek_boot_record.epoch
        /\ line'.incarnation > engine'.incarnation
        /\ line'.epoch >= engine'.epoch
    BY <1>1, NextLineAdvances DEF start
  <2>2. /\ peek_boot_record.incarnation >= installed.incarnation
        /\ peek_boot_record.epoch >= installed.epoch
    BY <1>1 DEF start, CanStart, peek_boot_record, RecoveryTypeOK, NoLine, Line
  <2>3. marker' = Torn /\ pc' = "marking" /\ installed' = installed
    BY <1>1 DEF start
  <2>4. LinesAdvance'
    BY <1>0, <2>1, <2>2, <2>3 DEF RecoveryTypeOK, Line, Engine
  <2>5. QED
    BY <1>0, <2>3, <2>4, RecoveryAssumption
<1>2. CASE install
  <2>1. marker' = line /\ installed' = line /\ pc' = "up" /\ line \in Line
    BY <1>2 DEF install, RecoveryTypeOK
  <2>2. QED
    BY <1>0, <2>1, RecoveryAssumption DEF Line
<1>3. CASE operate \/ (\E n \in {0, 1} : move_line(n)) \/ save \/ stop \/ write_whole_file
             \/ remove_backup \/ copy_file \/ rename_fails \/ reset \/ reset_backup \/ Kill
  <2>1. marker' = marker /\ installed' = installed /\ pc' # "marking"
    BY <1>3 DEF operate, move_line, save, stop, write_whole_file,
                remove_backup, copy_file, rename_fails, reset, reset_backup, Kill
  <2>2. QED
    BY <1>0, <2>1
<1>4. CASE rename \/ rename_again \/ save_fails
  <2>1. marker' = marker /\ installed' = installed /\ pc' # "marking"
    BY <1>4 DEF rename, rename_again, Saved, save_fails, Return
  <2>2. QED
    BY <1>0, <2>1
<1>5. CASE reset_state
  BY <1>0, <1>5 DEF reset_state, Return
<1>6. CASE Damage
  <2>1. /\ marker' \in {marker, Torn}
        /\ UNCHANGED <<pc, line, engine, installed>>
    BY <1>6 DEF Damage
  <2>2. QED
    BY <1>0, <2>1, RecoveryAssumption
<1>7. CASE UNCHANGED recoveryVars
  BY <1>0, <1>7 DEF recoveryVars
<1>8. QED
  BY <1>1, <1>2, <1>3, <1>4, <1>5, <1>6, <1>7 DEF RecoveryNext

\* The types and the lines: every start records a line above all earlier ones, whatever the
\* kills, lost snapshots and damaged files before it (Runtime::start).
THEOREM LinesAlwaysAdvance == RecoverySpec => [](RecoveryTypeOK /\ LinesAdvance)
<1>1. RecoveryInit => LineInv
  <2>0. RecoveryInit => ending \in BOOLEAN
    BY Zenon DEF RecoveryInit
  <2>1. RecoveryInit => RecoveryTypeOK
    BY <2>0 DEF RecoveryInit, RecoveryTypeOK, NoLine, EmptyEngine, Line, Engine, Phases, Faults
  <2>2. RecoveryInit => MarkerCovers /\ LinesAdvance
    BY DEF RecoveryInit, MarkerCovers, LinesAdvance
  <2>3. QED
    BY <2>1, <2>2 DEF LineInv
<1>2. LineInv /\ [RecoveryNext]_recoveryVars => LineInv'
  BY LineStep
<1>3. LineInv => RecoveryTypeOK /\ LinesAdvance
  BY DEF LineInv
<1>4. QED
  BY <1>1, <1>2, <1>3, PTL DEF RecoverySpec

\* What save writes is a snapshot that a start accepts, unless the engine's line was moved.
LEMMA WrittenIsRestorable ==
  ASSUME RecoveryTypeOK, engine.incarnation = line.incarnation
  PROVE  Written \in Snapshot /\ Restorable(Written) /\ Content(Written) = engine.content
<1>1. Written \in Snapshot
  BY DEF Written, RecoveryTypeOK, Line, Engine, Snapshot
<1>2. Written \notin {None, Torn}
  BY <1>1, RecoveryAssumption
<1>3. QED
  BY <1>1, <1>2 DEF Written, Restorable, Content

\* Only the rename moves content into the live file, and what it moves is complete.
LEMMA SaveStep ==
  ASSUME RecoveryTypeOK, SaveInv, [RecoveryNext]_recoveryVars
  PROVE  SaveInv'
<1> DEFINE Bad == {"rename", "damage", "foreign"}
<1> SUFFICES ASSUME faults' \cap Bad = {}
             PROVE  /\ live' = None \/ Restorable(live')
                    /\ Content(live') = durable'
                    /\ pc' # "marking" => engine'.incarnation = line'.incarnation
                    /\ pc' \in {"written", "rotating", "rotated"} => temporary' = Written'
                    /\ pc' # "replacing"
  BY DEF SaveInv, Restorable, Content
<1> USE DEF diskVars, historyVars
<1>1. ASSUME faults \cap Bad = {}
      PROVE  /\ live = None \/ Restorable(live)
             /\ Content(live) = durable
             /\ pc # "marking" => engine.incarnation = line.incarnation
             /\ pc \in {"written", "rotating", "rotated"} => temporary = Written
             /\ pc # "replacing"
  BY <1>1 DEF SaveInv
<1>3. CASE \E l \in BOOLEAN, b \in BootIds : start(l, b)
  BY <1>1, <1>3 DEF start
<1>4. CASE install
  BY <1>1, <1>4 DEF install, RecoveryTypeOK, Engine
<1>5. CASE operate
  BY <1>1, <1>5 DEF operate, RecoveryTypeOK, Engine
<1>6. CASE (\E n \in {0, 1} : move_line(n)) \/ rename_fails \/ Damage
  BY <1>6 DEF move_line, rename_fails, Damage
<1>7. CASE save
  BY <1>1, <1>7 DEF save
<1>8. CASE stop
  BY <1>1, <1>8 DEF stop, RecoveryTypeOK, Engine
<1>9. CASE write_whole_file
  BY <1>1, <1>9 DEF write_whole_file, Written
<1>10. CASE remove_backup \/ copy_file
  BY <1>1, <1>10 DEF remove_backup, copy_file, Written
<1>11. ASSUME Return, pc # "marking", engine.incarnation = line.incarnation
       PROVE  pc' \in {"up", "down"} /\ engine'.incarnation = line'.incarnation
  BY <1>11 DEF Return, NoLine, EmptyEngine
<1>12. CASE rename
  <2>1. /\ live' = Written /\ durable' = engine.content /\ Return
        /\ engine.incarnation = line.incarnation
    BY <1>1, <1>12 DEF rename, Saved
  <2>2. QED
    BY <1>11, <1>12, <2>1, WrittenIsRestorable DEF rename
<1>13. CASE rename_again
  BY <1>1, <1>13 DEF rename_again
<1>14. CASE save_fails
  <2>1. faults \cap Bad = {} /\ live' = live /\ durable' = durable /\ Return /\ pc # "marking"
    BY <1>14 DEF save_fails
  <2>2. QED
    BY <1>1, <1>11, <2>1
<1>15. CASE reset
  BY <1>1, <1>15 DEF reset, Content
<1>16. CASE reset_backup
  BY <1>1, <1>16 DEF reset_backup
<1>17. CASE reset_state
  <2>1. faults \cap Bad = {} /\ live' = live /\ durable' = durable /\ Return /\ pc # "marking"
    BY <1>17 DEF reset_state
  <2>2. QED
    BY <1>1, <1>11, <2>1
<1>18. CASE Kill
  BY <1>1, <1>18 DEF Kill, NoLine, EmptyEngine
<1>19. CASE UNCHANGED recoveryVars
  BY <1>1, <1>19 DEF recoveryVars, Written
<1>20. QED
  BY <1>3, <1>4, <1>5, <1>6, <1>7, <1>8, <1>9, <1>10, <1>12, <1>13, <1>14, <1>15, <1>16, <1>17,
     <1>18, <1>19, Zenon DEF RecoveryNext

\* Kills, failed writes and failed renames never leave a live file or a marker that a start
\* rejects, but for the marker that a start was writing.
LEMMA RefusalStep ==
  ASSUME RecoveryTypeOK, RefusalInv, [RecoveryNext]_recoveryVars
  PROVE  RefusalInv'
<1> DEFINE Excused == {"io", "rename"}
<1> DEFINE Before == {"written", "rotating", "rotated", "replacing"}
<1> SUFFICES ASSUME faults' \subseteq Excused
             PROVE  /\ live' = None \/ Restorable(live')
                    /\ pc' # "marking" => engine'.incarnation = line'.incarnation
                    /\ pc' \in Before => temporary' = Written'
                    /\ marker' = Torn => pc' = "marking"
  BY DEF RefusalInv, Restorable
<1> USE DEF diskVars, historyVars
<1>1. ASSUME faults \subseteq Excused
      PROVE  /\ live = None \/ Restorable(live)
             /\ pc # "marking" => engine.incarnation = line.incarnation
             /\ pc \in Before => temporary = Written
             /\ marker = Torn => pc = "marking"
  BY <1>1 DEF RefusalInv
<1>2. CASE \E l \in BOOLEAN, b \in BootIds : start(l, b)
  BY <1>1, <1>2 DEF start
<1>3. CASE install
  <2>1. line # Torn
    BY RecoveryAssumption DEF RecoveryTypeOK
  <2>2. QED
    BY <1>1, <1>3, <2>1 DEF install, RecoveryTypeOK, Engine
<1>4. CASE operate
  BY <1>1, <1>4 DEF operate, RecoveryTypeOK, Engine
<1>5. CASE (\E n \in {0, 1} : move_line(n)) \/ Damage
  BY <1>5 DEF move_line, Damage
<1>6. CASE save
  BY <1>1, <1>6 DEF save
<1>7. CASE stop
  BY <1>1, <1>7 DEF stop, RecoveryTypeOK, Engine
<1>8. CASE write_whole_file
  BY <1>1, <1>8 DEF write_whole_file, Written
<1>9. CASE remove_backup \/ copy_file \/ rename_fails
  BY <1>1, <1>9, Zenon DEF remove_backup, copy_file, rename_fails, Written
<1>10. ASSUME Return, pc # "marking", engine.incarnation = line.incarnation
       PROVE  pc' \in {"up", "down"} /\ engine'.incarnation = line'.incarnation
  BY <1>10 DEF Return, NoLine, EmptyEngine
<1>11. CASE rename \/ rename_again
  <2>1. /\ live' = Written /\ marker' = marker /\ Return
        /\ pc # "marking" /\ faults' = faults
        /\ engine.incarnation = line.incarnation
    BY <1>1, <1>11, Zenon DEF rename, rename_again, Saved
  <2>2. QED
    BY <1>1, <1>10, <2>1, WrittenIsRestorable
<1>12. CASE save_fails
  <2>1. /\ faults \subseteq Excused /\ live' = live /\ marker' = marker
        /\ Return /\ pc # "marking"
    BY <1>12 DEF save_fails
  <2>2. QED
    BY <1>1, <1>10, <2>1
<1>13. CASE reset
  BY <1>1, <1>13 DEF reset
<1>14. CASE reset_backup
  BY <1>1, <1>14 DEF reset_backup
<1>15. CASE reset_state
  <2>1. /\ faults \subseteq Excused /\ live' = live /\ marker' = None
        /\ Return /\ pc # "marking"
    BY <1>15 DEF reset_state
  <2>2. QED
    BY <1>1, <1>10, <2>1, RecoveryAssumption
<1>16. CASE Kill
  BY <1>1, <1>16 DEF Kill, NoLine, EmptyEngine
<1>17. CASE UNCHANGED recoveryVars
  BY <1>1, <1>17 DEF recoveryVars, Written
<1>18. QED
  BY <1>2, <1>3, <1>4, <1>5, <1>6, <1>7, <1>8, <1>9, <1>11, <1>12, <1>13, <1>14, <1>15, <1>16,
     <1>17, Zenon DEF RecoveryNext

\* Wherever a save is killed or fails, the next start recovers the last content that was
\* saved (Persistence::save, Persistence::load).
THEOREM SavesAreAllOrNothing == RecoverySpec => []SaveIsAllOrNothing
<1>1. RecoveryInit => SaveInv
  BY DEF RecoveryInit, SaveInv, Content, NoLine, EmptyEngine
<1>2. RecoveryTypeOK /\ SaveInv /\ [RecoveryNext]_recoveryVars => SaveInv'
  BY SaveStep
<1>3. SaveInv => SaveIsAllOrNothing
  BY DEF SaveInv, SaveIsAllOrNothing, Restored, Loads, load, Restorable, Content, EmptyEngine
<1>4. QED
  BY <1>1, <1>2, <1>3, LinesAlwaysAdvance, PTL DEF RecoverySpec

\* No start is refused without a marker cut short, damage, or a line moved under the
\* runtime (Runtime::start).
THEOREM RefusalsHaveCauses == RecoverySpec => []RefusalHasCause
<1>1. RecoveryInit => RefusalInv
  BY RecoveryAssumption DEF RecoveryInit, RefusalInv, NoLine, EmptyEngine
<1>2. RecoveryTypeOK /\ RefusalInv /\ [RecoveryNext]_recoveryVars => RefusalInv'
  BY RefusalStep
<1>3. RefusalInv => RefusalHasCause
  BY DEF RefusalInv, RefusalHasCause, CanStart, Loads, load, Restorable
<1>4. QED
  BY <1>1, <1>2, <1>3, LinesAlwaysAdvance, PTL DEF RecoverySpec
==============================================================================
