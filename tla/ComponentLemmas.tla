-------------------------- MODULE ComponentLemmas --------------------------
(***************************************************************************)
(* What the operations of the evidence ledger and of the authority         *)
(* registry return: facts that every composition of the two rests on.      *)
(***************************************************************************)
EXTENDS EvidenceLedger, AuthorityRegistry, FiniteSetTheorems, WellFoundedInduction, TLAPS

\* What record() keeps of the ledger, whatever it evicts, and what it adds.
LEMMA RecordFacts ==
  ASSUME NEW led \in Ledger, NEW e \in Evidence
  PROVE  /\ record(led, e) \in Ledger
         /\ record(led, e).latest = [led.latest EXCEPT ![e.key] = e.seq]
         /\ \A f \in record(led, e).records :
              f \in led.records \/ f = [e EXCEPT !.attested = TRUE]
  <1>1. [e EXCEPT !.attested = TRUE] \in Evidence
    BY Zenon DEF Evidence
  <1>2. retire_one_for(led, e.key) \subseteq led.records
    BY DEF retire_one_for
  <1>3. [led.latest EXCEPT ![e.key] = e.seq] \in [EvidenceKeys -> Nat \cup {NoSeq}]
    BY DEF Ledger, Evidence
  <1> QED BY <1>1, <1>2, <1>3, Zenon DEF record, Ledger

\* Quarantine keeps everything of a record but its attestation.
LEMMA QuarantineFacts ==
  ASSUME NEW led \in Ledger
  PROVE  /\ quarantine_all(led) \in Ledger
         /\ quarantine_all(led).latest = led.latest
         /\ \A f \in quarantine_all(led).records :
              ~f.attested /\ \E e \in led.records : f = [e EXCEPT !.attested = FALSE]
  <1>1. \A e \in led.records : /\ [e EXCEPT !.attested = FALSE] \in Evidence
                               /\ [e EXCEPT !.attested = FALSE].attested = FALSE
    BY Zenon DEF Evidence, Ledger
  <1>2. {[e EXCEPT !.attested = FALSE] : e \in led.records} \in SUBSET Evidence
    BY <1>1
  <1> QED BY <1>1, <1>2, Zenon DEF quarantine_all, Ledger

\* attest() touches the records of one stream and number only.
LEMMA AttestFacts ==
  ASSUME NEW led \in Ledger, NEW key, NEW seq
  PROVE  /\ attest(led, key, seq) \in Ledger
         /\ attest(led, key, seq).latest = led.latest
         /\ \A f \in attest(led, key, seq).records :
              \/ f \in led.records /\ ~(f.key = key /\ f.seq = seq)
              \/ \E e \in find(led, key, seq) : f = [e EXCEPT !.attested = TRUE]
  <1>1. \A e \in led.records : [e EXCEPT !.attested = TRUE] \in Evidence
    BY Zenon DEF Evidence, Ledger
  <1>2. (led.records \ find(led, key, seq))
          \cup {[e EXCEPT !.attested = TRUE] : e \in find(led, key, seq)} \in SUBSET Evidence
    BY <1>1 DEF find, Ledger
  <1> QED BY <1>1, <1>2 DEF attest, find, Ledger

------------------------------------------------------------------------------
(* Eviction: what the ledger keeps when it is full.                        *)

\* A set of naturals has a least element (by well-foundedness of <).
LEMMA LeastNatural ==
  ASSUME NEW S, S \subseteq Nat, S # {}
  PROVE  \E n \in S : \A m \in S : n <= m
  <1>1. PICK n \in S : \A m \in S : ~(<<m, n>> \in OpToRel(<, Nat))
    BY NatLessThanWellFounded, WFMin, Zenon
  <1>2. \A m \in S : m \in Nat /\ ~(m < n) /\ n \in Nat
    BY <1>1, Zenon DEF OpToRel
  <1> QED BY <1>2

\* So has the range of a measure.
LEMMA LeastBy ==
  ASSUME NEW R, R # {}, NEW g \in [R -> Nat]
  PROVE  \E e \in R : \A f \in R : g[e] <= g[f]
  <1> DEFINE S == {g[e] : e \in R}
  <1>1. S \subseteq Nat /\ S # {}
    OBVIOUS
  <1> HIDE DEF S
  <1>2. PICK n \in S : \A m \in S : n <= m
    BY <1>1, LeastNatural, Zenon
  <1> QED BY <1>2 DEF S

\* A ledger whose streams are ordered: a record is the only one of its stream and
\* number, and no newer than the newest its stream accepted.
OrderedLedger(led) ==
  \A e \in led.records :
    /\ e.seq <= led.latest[e.key]
    /\ \A f \in led.records : e.key = f.key /\ e.seq = f.seq => e = f

\* retire_one_for erases one of the records it may erase: the first of them exists.
LEMMA VictimIsRetirable ==
  ASSUME EvidenceKeys \subseteq Nat \X Nat \X Nat,
         NEW led \in Ledger, OrderedLedger(led), NEW key, Retirable(led, key) # {}
  PROVE  \E v \in Retirable(led, key) : retire_one_for(led, key) = led.records \ {v}
  <1> DEFINE R == Retirable(led, key)
  <1>1. R \subseteq led.records
    BY DEF Retirable
  <1>2. \A e \in R : /\ e.key[1] \in Nat /\ e.key[2] \in Nat /\ e.key[3] \in Nat /\ e.seq \in Nat
                     /\ e.key = <<e.key[1], e.key[2], e.key[3]>>
    BY <1>1 DEF Ledger, Evidence
  <1> HIDE DEF R
  <1>3. PICK e1 \in R : \A f \in R : e1.key[1] <= f.key[1]
    <2>1. [e \in R |-> e.key[1]] \in [R -> Nat]
      BY <1>2
    <2>2. PICK e \in R : \A f \in R : [x \in R |-> x.key[1]][e] <= [x \in R |-> x.key[1]][f]
      BY <2>1, LeastBy, Zenon DEF R
    <2> QED BY <2>2
  <1> DEFINE R1 == {e \in R : e.key[1] = e1.key[1]}
  <1>4. PICK e2 \in R1 : \A f \in R1 : e2.key[2] <= f.key[2]
    <2>1. [e \in R1 |-> e.key[2]] \in [R1 -> Nat] /\ R1 # {}
      BY <1>2, <1>3
    <2> HIDE DEF R1
    <2>2. PICK e \in R1 : \A f \in R1 : [x \in R1 |-> x.key[2]][e] <= [x \in R1 |-> x.key[2]][f]
      BY <2>1, LeastBy, Zenon
    <2> QED BY <2>2
  <1> DEFINE R2 == {e \in R1 : e.key[2] = e2.key[2]}
  <1>5. PICK e3 \in R2 : \A f \in R2 : e3.key[3] <= f.key[3]
    <2>1. [e \in R2 |-> e.key[3]] \in [R2 -> Nat] /\ R2 # {}
      BY <1>2, <1>4
    <2> HIDE DEF R2
    <2>2. PICK e \in R2 : \A f \in R2 : [x \in R2 |-> x.key[3]][e] <= [x \in R2 |-> x.key[3]][f]
      BY <2>1, LeastBy, Zenon
    <2> QED BY <2>2
  <1> DEFINE R3 == {e \in R2 : e.key[3] = e3.key[3]}
  <1>6. PICK v \in R3 : \A f \in R3 : v.seq <= f.seq
    <2>1. [e \in R3 |-> e.seq] \in [R3 -> Nat] /\ R3 # {}
      BY <1>2, <1>5
    <2> HIDE DEF R3
    <2>2. PICK e \in R3 : \A f \in R3 : [x \in R3 |-> x.seq][e] <= [x \in R3 |-> x.seq][f]
      BY <2>1, LeastBy, Zenon
    <2> QED BY <2>2
  <1>7. v \in R /\ \A f \in R \ {v} : RecordBefore(v, f)
    <2> SUFFICES ASSUME NEW f \in R, f # v PROVE RecordBefore(v, f)
      BY <1>6
    <2>1. CASE f \notin R1
      BY <1>2, <1>3, <1>6, <2>1 DEF RecordBefore, KeyBefore
    <2>2. CASE f \in R1 /\ f \notin R2
      BY <1>2, <1>4, <1>6, <2>2 DEF RecordBefore, KeyBefore
    <2>3. CASE f \in R2 /\ f \notin R3
      BY <1>2, <1>5, <1>6, <2>3 DEF RecordBefore, KeyBefore
    <2>4. CASE f \in R3
      <3>1. v.key = f.key
        BY <1>2, <1>6, <2>4
      <3>2. v.seq # f.seq
        BY <1>1, <1>6, <2>4, <3>1 DEF OrderedLedger
      <3> QED BY <1>2, <1>6, <2>4, <3>1, <3>2 DEF RecordBefore
    <2> QED BY <2>1, <2>2, <2>3, <2>4
  <1> DEFINE w == CHOOSE e \in R : \A f \in R \ {e} : RecordBefore(e, f)
  <1>8. w \in R
    BY <1>7
  <1>9. retire_one_for(led, key) = led.records \ {w}
    BY DEF retire_one_for, R
  <1> QED BY <1>8, <1>9, Zenon DEF R

\* What a function makes of a finite set is no larger than the set.
LEMMA ImageIsNoLarger ==
  ASSUME NEW S, IsFiniteSet(S), NEW f, DOMAIN f = S, f = [x \in S |-> f[x]]
  PROVE  IsFiniteSet({f[x] : x \in S}) /\ Cardinality({f[x] : x \in S}) <= Cardinality(S)
  <1> DEFINE T == {f[x] : x \in S}
  <1>1. f \in Surjection(S, T)
    BY DEF Surjection
  <1> HIDE DEF T
  <1>2. IsFiniteSet(T) /\ Cardinality(T) <= Cardinality(S)
    BY <1>1, FS_Surjection
  <1> QED BY <1>2 DEF T

\* The ledger is within its capacity, and latest() finds the newest record of
\* every stream.
KeptLedger(led) ==
  /\ IsFiniteSet(led.records)
  /\ Cardinality(led.records) <= MaxRecords
  /\ \A k \in EvidenceKeys :
       led.latest[k] # NoSeq => \E e \in led.records : e.key = k /\ e.seq = led.latest[k]

\* record() keeps both, also when the ledger is full: what it evicts is of the
\* stream it serves or is superseded.
LEMMA RecordKeepsNewest ==
  ASSUME EvidenceKeys \subseteq Nat \X Nat \X Nat, MaxRecords \in Nat,
         NEW led \in Ledger, OrderedLedger(led), KeptLedger(led),
         NEW e \in Evidence, e.seq > led.latest[e.key],
         has_capacity(led) \/ Retirable(led, e.key) # {}
  PROVE  OrderedLedger(record(led, e)) /\ KeptLedger(record(led, e))
  <1> DEFINE e2 == [e EXCEPT !.attested = TRUE]
             led2 == record(led, e)
  <1>1. e2 \in Evidence /\ e2.key = e.key /\ e2.seq = e.seq
    BY Zenon DEF Evidence
  <1>2. PICK kept : /\ kept \subseteq led.records
                    /\ led2.records = kept \cup {e2}
                    /\ IsFiniteSet(kept) /\ Cardinality(kept) + 1 <= MaxRecords
                    /\ \A f \in led.records :
                         f \in kept \/ f.key = e.key \/ f.seq # led.latest[f.key]
    <2>0. Cardinality(led.records) \in Nat
      BY FS_CardinalityType DEF KeptLedger
    <2>1. CASE has_capacity(led)
      <3>1. led2.records = led.records \cup {e2}
        BY <2>1 DEF record
      <3> QED BY <2>0, <2>1, <3>1 DEF has_capacity, KeptLedger
    <2>2. CASE ~has_capacity(led)
      <3>1. led2.records = retire_one_for(led, e.key) \cup {e2}
        BY <2>2 DEF record
      <3>2. PICK v \in Retirable(led, e.key) : retire_one_for(led, e.key) = led.records \ {v}
        BY <2>2, VictimIsRetirable
      <3>3. v \in led.records /\ (v.key = e.key \/ v.seq # led.latest[v.key])
        BY <3>2 DEF Retirable
      <3>4. /\ IsFiniteSet(led.records \ {v})
            /\ Cardinality(led.records \ {v}) = Cardinality(led.records) - 1
        BY <3>3, FS_RemoveElement, Zenon DEF KeptLedger
      <3> QED BY <2>0, <3>1, <3>2, <3>3, <3>4 DEF KeptLedger
    <2> QED BY <2>1, <2>2
  <1>3. led2.latest = [led.latest EXCEPT ![e.key] = e.seq]
    BY DEF record
  <1>4. /\ e.key \in EvidenceKeys /\ e.seq \in Nat
        /\ led.latest \in [EvidenceKeys -> Nat \cup {NoSeq}]
        /\ \A f \in led.records : f.key \in EvidenceKeys /\ f.seq \in Nat
    BY DEF Ledger, Evidence
  <1> HIDE DEF led2, e2
  <1>5. OrderedLedger(led2)
    <2>1. \A f \in kept : f.seq <= led2.latest[f.key] /\ ~(f.key = e.key /\ f.seq = e.seq)
      BY <1>2, <1>3, <1>4 DEF OrderedLedger, NoSeq
    <2>2. e2.seq <= led2.latest[e2.key]
      BY <1>1, <1>3, <1>4
    <2> QED BY <1>1, <1>2, <2>1, <2>2 DEF OrderedLedger
  <1>6. IsFiniteSet(led2.records) /\ Cardinality(led2.records) <= MaxRecords
    <2>1. /\ IsFiniteSet(kept \cup {e2})
          /\ Cardinality(kept \cup {e2}) = Cardinality(kept)
             \/ Cardinality(kept \cup {e2}) = Cardinality(kept) + 1
      <3>1. CASE e2 \in kept
        <4>1. kept \cup {e2} = kept
          BY <3>1
        <4> QED BY <1>2, <4>1, Zenon
      <3>2. CASE e2 \notin kept
        BY <1>2, <3>2, FS_AddElement, Zenon
      <3> QED BY <3>1, <3>2
    <2>2. Cardinality(kept) \in Nat
      BY <1>2, FS_CardinalityType
    <2> QED BY <1>2, <2>1, <2>2
  <1>7. ASSUME NEW k \in EvidenceKeys, led2.latest[k] # NoSeq
        PROVE  \E f \in led2.records : f.key = k /\ f.seq = led2.latest[k]
    <2>1. CASE k = e.key
      BY <1>1, <1>2, <1>3, <1>4, <2>1
    <2>2. CASE k # e.key
      BY <1>2, <1>3, <1>4, <1>7, <2>2 DEF KeptLedger
    <2> QED BY <2>1, <2>2
  <1> QED BY <1>5, <1>6, <1>7 DEF KeptLedger, led2

\* A map of the records that keeps stream and number keeps the order and the newest.
LEMMA MarkingKeepsNewest ==
  ASSUME NEW led \in Ledger, OrderedLedger(led), KeptLedger(led), MaxRecords \in Nat,
         NEW led2, led2.latest = led.latest,
         NEW f \in [led.records -> Evidence], led2.records = {f[e] : e \in led.records},
         \A e \in led.records : f[e].key = e.key /\ f[e].seq = e.seq
  PROVE  OrderedLedger(led2) /\ KeptLedger(led2)
  <1>1. /\ IsFiniteSet(led2.records)
        /\ Cardinality(led2.records) <= Cardinality(led.records)
    BY ImageIsNoLarger DEF KeptLedger
  <1>2. Cardinality(led2.records) <= MaxRecords
    BY <1>1, FS_CardinalityType DEF KeptLedger
  <1> QED BY <1>1, <1>2 DEF OrderedLedger, KeptLedger

\* quarantine_all() keeps both: it rewrites attestations only.
LEMMA QuarantineKeepsNewest ==
  ASSUME NEW led \in Ledger, OrderedLedger(led), KeptLedger(led), MaxRecords \in Nat
  PROVE  OrderedLedger(quarantine_all(led)) /\ KeptLedger(quarantine_all(led))
  <1> DEFINE f == [e \in led.records |-> [e EXCEPT !.attested = FALSE]]
  <1>1. \A e \in led.records : /\ [e EXCEPT !.attested = FALSE] \in Evidence
                               /\ [e EXCEPT !.attested = FALSE].key = e.key
                               /\ [e EXCEPT !.attested = FALSE].seq = e.seq
    BY Zenon DEF Evidence, Ledger
  <1>2. /\ quarantine_all(led).latest = led.latest
        /\ quarantine_all(led).records = {f[e] : e \in led.records}
    BY Zenon DEF quarantine_all, Ledger
  <1>3. f \in [led.records -> Evidence] /\ \A e \in led.records : f[e].key = e.key /\ f[e].seq = e.seq
    BY <1>1
  <1> HIDE DEF f
  <1> QED BY <1>2, <1>3, MarkingKeepsNewest

\* So does attest().
LEMMA AttestKeepsNewest ==
  ASSUME NEW led \in Ledger, OrderedLedger(led), KeptLedger(led), MaxRecords \in Nat,
         NEW key, NEW seq
  PROVE  OrderedLedger(attest(led, key, seq)) /\ KeptLedger(attest(led, key, seq))
  <1> DEFINE found == find(led, key, seq)
             f == [e \in led.records |-> IF e \in found THEN [e EXCEPT !.attested = TRUE] ELSE e]
  <1>1. \A e \in led.records : /\ e \in Evidence
                               /\ [e EXCEPT !.attested = TRUE] \in Evidence
                               /\ [e EXCEPT !.attested = TRUE].key = e.key
                               /\ [e EXCEPT !.attested = TRUE].seq = e.seq
    BY Zenon DEF Evidence, Ledger
  <1>2. found \subseteq led.records
    BY DEF find
  <1> HIDE DEF found
  <1>3. (led.records \ found) \cup {[e EXCEPT !.attested = TRUE] : e \in found}
          = {f[e] : e \in led.records}
    BY <1>2, Zenon
  <1>4. /\ attest(led, key, seq).latest = led.latest
        /\ attest(led, key, seq).records
             = (led.records \ found) \cup {[e EXCEPT !.attested = TRUE] : e \in found}
    BY DEF attest, Ledger, found
  <1>5. f \in [led.records -> Evidence] /\ \A e \in led.records : f[e].key = e.key /\ f[e].seq = e.seq
    BY <1>1
  <1> HIDE DEF f
  <1> QED BY <1>3, <1>4, <1>5, MarkingKeepsNewest

------------------------------------------------------------------------------
(* The registry.                                                           *)

\* Revocation keeps a token a token.
LEMMA RevokedToken ==
  ASSUME NEW tok \in AuthorityToken
  PROVE  [tok EXCEPT !.revoked = TRUE] \in AuthorityToken
  BY Zenon DEF AuthorityToken

\* Revoking every token leaves a registry of tokens.
LEMMA RevokeAllTypes ==
  ASSUME AuthorityTypeOK
  PROVE  revoke_all(tokens) \in Seq(AuthorityToken)
  <1>1. \A n \in DOMAIN tokens : tokens[n] \in AuthorityToken
    BY DEF AuthorityTypeOK
  <1>2. \A n \in DOMAIN tokens : [tokens[n] EXCEPT !.revoked = TRUE] \in AuthorityToken
    BY <1>1, RevokedToken
  <1>3. revoke_all(tokens) = [n \in 1..Len(tokens) |-> [tokens[n] EXCEPT !.revoked = TRUE]]
    BY DEF revoke_all, AuthorityTypeOK
  <1>4. revoke_all(tokens) \in [1..Len(tokens) -> AuthorityToken] /\ Len(tokens) \in Nat
    BY <1>2, <1>3 DEF AuthorityTypeOK
  <1> HIDE DEF revoke_all
  <1> QED BY <1>4

\* A new line revokes every token and keeps the registry's types.
LEMMA InstallLineTypes ==
  ASSUME AuthorityTypeOK, NEW i \in Nat, NEW e \in Nat, install_line(i, e)
  PROVE  AuthorityTypeOK'
  BY RevokeAllTypes DEF install_line, AuthorityTypeOK

\* An issued token is a token.
LEMMA IssueTypes ==
  ASSUME AuthorityTypeOK, NEW s \in Scopes, NEW at \in Nat, NEW v \in Nat, issue(s, at, v)
  PROVE  AuthorityTypeOK'
  <1>1. [scope |-> s, generation |-> scope_generations[s], epoch |-> epoch,
         incarnation |-> incarnation, expires_at |-> IF v = 0 THEN 0 ELSE at + v,
         revoked |-> FALSE] \in AuthorityToken
    BY DEF AuthorityTypeOK, AuthorityToken
  <1> QED BY <1>1 DEF issue, AuthorityTypeOK

\* Revocation keeps the registry's types.
LEMMA RevokeTypes ==
  ASSUME AuthorityTypeOK, NEW i \in DOMAIN tokens, revoke(i)
  PROVE  AuthorityTypeOK'
  <1>1. [tokens[i] EXCEPT !.revoked = TRUE] \in AuthorityToken
    BY RevokedToken DEF AuthorityTypeOK
  <1> QED BY <1>1 DEF revoke, AuthorityTypeOK
==============================================================================
