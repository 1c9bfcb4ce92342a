--------------------------- MODULE EvidenceLedger ---------------------------
(***************************************************************************)
(* The evidence ledger (evidence.cpp): streams of observations, one per    *)
(* EvidenceKey, each observation with its own sequence number.             *)
(*                                                                         *)
(* A key is <<kind, drain, obligation>>.  The resource of the code's key   *)
(* is a function of the drain for the one kind that uses it.  Keys are     *)
(* numbers, so that the order of the code's std::map, which decides what   *)
(* is evicted, is the lexicographic order of the tuples.                   *)
(*                                                                         *)
(* `fn' is the code's EvidenceFence: the live incarnation and epoch, the   *)
(* caller's clock and the tolerated skew.                                  *)
(***************************************************************************)
EXTENDS Integers, FiniteSets

CONSTANTS EvidenceKeys,  \* the streams
          MaxRecords     \* max_records_: the ledger's capacity

VARIABLE evidence        \* [records, latest]

NoSeq == -1              \* the stream has never accepted a record

Evidence ==
  [key : EvidenceKeys, seq : Nat, generation : Nat, epoch : Nat, producer : Nat,
   observed_at : Nat, attested : BOOLEAN]

Ledger == [records : SUBSET Evidence, latest : [EvidenceKeys -> Nat \cup {NoSeq}]]

EmptyLedger == [records |-> {}, latest |-> [k \in EvidenceKeys |-> NoSeq]]

KeyBefore(k, l) ==
  \/ k[1] < l[1]
  \/ k[1] = l[1] /\ k[2] < l[2]
  \/ k[1] = l[1] /\ k[2] = l[2] /\ k[3] < l[3]

RecordBefore(e, f) == KeyBefore(e.key, f.key) \/ (e.key = f.key /\ e.seq < f.seq)

\* Slip: with nothing to supersede, any record is erased.
RetiresAnything(led, key) == led.records

\* What retire_one_for may erase: a record of the incoming stream or, when it
\* has none, a record that a newer one of its own stream has superseded.
Retirable(led, key) ==
  LET own == {e \in led.records : e.key = key}
  IN IF own # {} THEN own ELSE {e \in led.records : e.seq # led.latest[e.key]}

retire_one_for(led, key) ==
  LET victim == CHOOSE e \in Retirable(led, key) :
                  \A f \in Retirable(led, key) \ {e} : RecordBefore(e, f)
  IN led.records \ {victim}

has_capacity(led) == Cardinality(led.records) < MaxRecords

\* Slip: a replayed sequence number is accepted.
RecordsReplays(led, e, fn, require_live_incarnation) ==
  /\ e.observed_at <= fn.now + fn.allowed_skew
  /\ e.epoch = fn.live_epoch
  /\ require_live_incarnation => e.producer = fn.live_incarnation
  /\ has_capacity(led) \/ Retirable(led, e.key) # {}

can_record(led, e, fn, require_live_incarnation) ==
  /\ e.observed_at <= fn.now + fn.allowed_skew
  /\ e.epoch = fn.live_epoch
  /\ require_live_incarnation => e.producer = fn.live_incarnation
  /\ e.seq > led.latest[e.key]
  /\ has_capacity(led) \/ Retirable(led, e.key) # {}

record(led, e) ==
  [records |-> (IF has_capacity(led) THEN led.records ELSE retire_one_for(led, e.key))
                 \cup {[e EXCEPT !.attested = TRUE]},
   latest  |-> [led.latest EXCEPT ![e.key] = e.seq]]

\* Slip: recovered records stay attested.
QuarantinesNothing(led) == led

quarantine_all(led) ==
  [led EXCEPT !.records = {[e EXCEPT !.attested = FALSE] : e \in led.records}]

find(led, key, seq) == {e \in led.records : e.key = key /\ e.seq = seq}

can_attest(led, key, seq, fn) ==
  \E e \in find(led, key, seq) : e.epoch = fn.live_epoch /\ e.producer = fn.live_incarnation

attest(led, key, seq) ==
  LET found == find(led, key, seq)
  IN [led EXCEPT !.records = (led.records \ found)
                               \cup {[e EXCEPT !.attested = TRUE] : e \in found}]

latest(led, key) == find(led, key, led.latest[key])

is_fresh(e, fn, freshness) ==
  /\ e.attested
  /\ e.epoch = fn.live_epoch
  /\ e.observed_at <= fn.now + fn.allowed_skew
  /\ freshness > 0
  /\ fn.now <= e.observed_at + freshness

\* The newest record of the stream, provided it is fresh: a set of at most one.
fresh(led, key, fn, freshness) == {e \in latest(led, key) : is_fresh(e, fn, freshness)}

high_water(led, key) == IF led.latest[key] = NoSeq THEN 0 ELSE led.latest[key]
==============================================================================
