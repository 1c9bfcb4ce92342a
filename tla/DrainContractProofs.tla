------------------------ MODULE DrainContractProofs -------------------------
(***************************************************************************)
(* The contract keeps its own promises: ContractInv is inductive.          *)
(***************************************************************************)
EXTENDS DrainContract, FiniteSetTheorems, TLAPS

\* What a change of one drain's phase does to the book.
LEMMA ChangeFacts ==
  ASSUME ContractTypes, NEW d \in Drains, NEW from,
         NEW to \in {"waiting", "holding", "drained", "ended", "restoring", "restored"},
         Changes(d, from, to)
  PROVE  /\ DOMAIN book' = Drains /\ book' \in [Drains -> Entry]
         /\ \A e \in Drains \ {d} : book'[e] = book[e]
         /\ book'[d].target = book[d].target /\ book'[d].set = book[d].set
         /\ book'[d].phase = to
         /\ \A e \in Drains : Domain(e)' = Domain(e) /\ Before(e)' = Before(e)
  <1>1. book \in [Drains -> Entry] /\ book' = [book EXCEPT ![d].phase = to]
    BY DEF Changes, ContractTypes
  <1>2. [book[d] EXCEPT !.phase = to] \in Entry
    BY <1>1 DEF Entry
  <1>3. book' = [book EXCEPT ![d] = [book[d] EXCEPT !.phase = to]]
    BY <1>1
  <1>4. DOMAIN book' = Drains /\ book' \in [Drains -> Entry]
    BY <1>1, <1>2, <1>3
  <1>5. \A e \in Drains \ {d} : book'[e] = book[e]
    BY <1>1, <1>3
  <1>6. book'[d].target = book[d].target /\ book'[d].set = book[d].set /\ book'[d].phase = to
    BY <1>1, <1>3 DEF Entry
  <1>7. \A e \in Drains : /\ book'[e].target = book[e].target
                          /\ book'[e].set = book[e].set
    BY <1>5, <1>6
  <1>8. \A e \in Drains : Domain(e)' = Domain(e) /\ Before(e)' = Before(e)
    BY <1>4, <1>7 DEF Domain, Before, Drains
  <1> QED BY <1>4, <1>5, <1>6, <1>8

\* The holders of a domain after one drain changed its phase.
LEMMA ChangedHolders ==
  ASSUME ContractTypes, NEW d \in Drains, NEW from,
         NEW to \in {"waiting", "holding", "drained", "ended", "restoring", "restored"},
         Changes(d, from, to), NEW x
  PROVE  Holders(x)' \subseteq IF to = "holding" /\ Domain(d) = x THEN Holders(x) \cup {d}
                               ELSE Holders(x)
  <1> USE ChangeFacts
  <1>1. \A e \in Holders(x)' : e \in Drains /\ Domain(e) = x /\ book'[e].phase = "holding"
    BY DEF Holders, Drains
  <1>2. \A e \in Holders(x)' : e # d => e \in Holders(x)
    BY <1>1 DEF Holders
  <1>3. d \in Holders(x)' => to = "holding" /\ Domain(d) = x
    BY <1>1
  <1> QED BY <1>2, <1>3

\* A finite set of holders, and any part of it, stays within the limit.
LEMMA SubsetWithinLimit ==
  ASSUME NEW S, IsFiniteSet(S), NEW U, U \subseteq S, Cardinality(S) <= Limit
  PROVE  Cardinality(U) <= Limit \/ ~(Limit \in Int)
  BY FS_Subset, FS_CardinalityType

\* Close, Finish, End, Reopen and Restored keep everything but the gates as promised.
LEMMA ChangeKeeps ==
  ASSUME ContractInv, NEW d \in Drains, Limit \in Nat,
         Close(d) \/ Finish(d) \/ End(d) \/ Reopen(d) \/ Restored(d)
  PROVE  ContractInv'
  <1>1. PICK from, to :
          /\ to \in {"holding", "drained", "ended", "restoring", "restored"}
          /\ Changes(d, from, to)
          /\ "restored" \notin from /\ (to = "holding" => Close(d))
          /\ to = "drained" => from = {"holding"}
    BY DEF Close, Finish, End, Reopen, Restored
  <1>2. ContractTypes /\ book[d].phase \in from
    BY <1>1 DEF ContractInv, Changes
  <1>3. /\ DOMAIN book' = Drains /\ book' \in [Drains -> Entry]
        /\ \A e \in Drains \ {d} : book'[e] = book[e]
        /\ book'[d].target = book[d].target /\ book'[d].set = book[d].set
        /\ book'[d].phase = to
        /\ \A e \in Drains : Domain(e)' = Domain(e) /\ Before(e)' = Before(e)
    BY <1>1, <1>2, ChangeFacts
  <1>4. ContractTypes'
    <2>1. gate' \in [Targets -> GateEntry]
      <3>1. book[d].target \in Targets /\ d \in Nat
        BY <1>2 DEF ContractTypes, Entry
      <3>2. CASE Close(d)
        BY <1>2, <3>1, <3>2, SMTT(30) DEF Close, ContractTypes, GateEntry
      <3>3. CASE Reopen(d)
        BY <1>2, <3>1, <3>3, SMTT(30) DEF Reopen, ContractTypes
      <3>4. CASE UNCHANGED gate
        BY <1>2, <3>4 DEF ContractTypes
      <3> QED BY <3>2, <3>3, <3>4 DEF Finish, End, Restored
    <2> QED BY <1>2, <1>3, <2>1 DEF ContractTypes, Drains
  <1>5. OwnersDiffer'
    <2> SUFFICES ASSUME NEW e \in Drains, NEW f \in Drains, e # f,
                        book'[e].target = book'[f].target
                 PROVE  book'[e].phase = "restored" \/ book'[f].phase = "restored"
      BY <1>3 DEF OwnersDiffer, Drains
    <2>1. book[e].target = book[f].target
      BY <1>3
    <2>2. book[e].phase = "restored" \/ book[f].phase = "restored"
      BY <2>1 DEF ContractInv, OwnersDiffer
    <2> QED BY <1>1, <1>2, <1>3, <2>2
  <1>6. GateIsHeld'
    <2> SUFFICES ASSUME NEW e \in Drains, book'[e].phase \in {"holding", "drained"}
                 PROVE  gate'[book'[e].target].closed /\ gate'[book'[e].target].drain = e
      BY <1>3 DEF GateIsHeld, Drains
    <2>1. book'[e].target = book[e].target /\ book[e].target \in Targets /\ book[d].target \in Targets
      BY <1>2, <1>3 DEF ContractTypes, Entry
    <2>2. gate \in [Targets -> GateEntry]
      BY <1>2 DEF ContractTypes
    <2>3. CASE e = d
      <3>1. CASE to = "holding"
        BY <1>1, <2>1, <2>2, <2>3, <3>1 DEF Close
      <3>2. CASE to = "drained"
        <4>1. Finish(d)
          BY <1>1, <1>3, <3>2, ChangeFacts, <1>2, Zenon DEF Close, Finish, End, Reopen, Restored, Changes
        <4>2. book[d].phase = "holding" /\ gate' = gate
          BY <4>1 DEF Finish, Changes
        <4> QED BY <2>1, <2>3, <4>2 DEF ContractInv, GateIsHeld
      <3> QED BY <1>3, <2>3, <3>1, <3>2
    <2>4. CASE e # d
      <3>1. book[e].phase \in {"holding", "drained"}
        BY <1>3, <2>4
      <3>2. gate[book[e].target].closed /\ gate[book[e].target].drain = e
        BY <3>1 DEF ContractInv, GateIsHeld
      <3>3. book[e].target # book[d].target
        BY <1>1, <1>2, <2>4, <3>1 DEF ContractInv, OwnersDiffer
      <3>4. gate'[book[e].target] = gate[book[e].target]
        BY <2>1, <2>2, <3>3, SMTT(30) DEF Close, Finish, End, Reopen, Restored
      <3> QED BY <2>1, <3>2, <3>4
    <2> QED BY <2>3, <2>4
  <1>7. HoldersTakeTurns'
    <2> SUFFICES ASSUME Serialize, NEW f \in Drains, book'[f].phase = "holding", NEW e \in Before(f)
                 PROVE  book'[e].phase \notin {"waiting", "holding"}
      BY <1>3 DEF HoldersTakeTurns, Drains
    <2>1. e \in Drains /\ e # f
      BY <1>2 DEF Before, ContractTypes
    <2>2. CASE f = d
      <3>1. Close(d)
        BY <1>1, <1>3, <2>2
      <3>2. book[e].phase \in {"drained", "ended", "restored"}
        BY <2>2, <3>1 DEF Close
      <3> QED BY <1>3, <2>1, <2>2, <3>2
    <2>3. CASE f # d
      <3>1. book[f].phase = "holding"
        BY <1>3, <2>3
      <3>2. book[e].phase \notin {"waiting", "holding"}
        BY <3>1 DEF ContractInv, HoldersTakeTurns
      <3>3. CASE e = d
        BY <1>1, <1>3, <3>2, <3>3 DEF Close, Changes
      <3> QED BY <1>3, <2>1, <3>2, <3>3
    <2> QED BY <2>2, <2>3
  <1>8. HoldersAreFew'
    <2> SUFFICES ASSUME NEW e \in Drains, book'[e].phase = "holding", NEW x, x = Domain(e)
                 PROVE  Cardinality(Holders(x)') <= Limit
      BY <1>3 DEF HoldersAreFew, Drains, Holders
    <2>1. IsFiniteSet(Holders(x))
      <3>1. Holders(x) \subseteq Drains
        BY DEF Holders
      <3> QED BY <1>2, <3>1, FS_Subset DEF ContractTypes
    <2>2. CASE to = "holding" /\ Domain(d) = x
      <3>1. Cardinality(Holders(x)) + 1 <= Limit /\ d \notin Holders(x)
        BY <1>1, <2>2 DEF Close, Holders, Changes
      <3>2. /\ IsFiniteSet(Holders(x) \cup {d})
            /\ Cardinality(Holders(x) \cup {d}) = Cardinality(Holders(x)) + 1
        BY <2>1, <3>1, FS_AddElement
      <3>3. Holders(x)' \subseteq Holders(x) \cup {d}
        BY <1>1, <1>2, <2>2, ChangedHolders
      <3> QED BY <3>1, <3>2, <3>3, SubsetWithinLimit
    <2>3. CASE ~(to = "holding" /\ Domain(d) = x)
      <3>1. e # d
        BY <1>3, <2>3
      <3>2. Cardinality(Holders(x)) <= Limit
        BY <1>3, <3>1 DEF ContractInv, HoldersAreFew
      <3>3. Holders(x)' \subseteq Holders(x)
        BY <1>1, <1>2, <2>3, ChangedHolders
      <3> QED BY <2>1, <3>2, <3>3, SubsetWithinLimit
    <2> QED BY <2>2, <2>3
  <1> QED BY <1>4, <1>5, <1>6, <1>7, <1>8 DEF ContractInv

\* New drains only wait, after all others and on targets nobody owns.
LEMMA RequestKeeps ==
  ASSUME ContractInv, Request
  PROVE  ContractInv'
  <1>1. ContractTypes
    BY DEF ContractInv
  <1>2. /\ Drains \subseteq DOMAIN book' /\ gate' = gate
        /\ \A d \in Drains : book'[d] = book[d]
        /\ \A d \in DOMAIN book' \ Drains : book'[d].phase = "waiting"
    BY DEF Request
  <1>3. \A d \in DOMAIN book' : book'[d].phase # "waiting" => d \in Drains /\ book'[d] = book[d]
    BY <1>2
  <1>4. ContractTypes'
    BY <1>1 DEF Request, ContractTypes, Drains
  <1>5. OwnersDiffer'
    <2> SUFFICES ASSUME NEW d \in DOMAIN book', NEW e \in DOMAIN book', d # e,
                        book'[d].target = book'[e].target
                 PROVE  book'[d].phase = "restored" \/ book'[e].phase = "restored"
      BY DEF OwnersDiffer, Drains
    <2>1. CASE d \in Drains /\ e \in Drains
      BY <1>2, <2>1 DEF ContractInv, OwnersDiffer
    <2>2. CASE d \in Drains /\ e \notin Drains
      BY <1>2, <2>2 DEF Request, Free
    <2>3. CASE d \notin Drains /\ e \in Drains
      BY <1>2, <2>3 DEF Request, Free
    <2>4. CASE d \notin Drains /\ e \notin Drains
      BY <2>4 DEF Request
    <2> QED BY <2>1, <2>2, <2>3, <2>4
  <1>6. GateIsHeld'
    BY <1>2, <1>3 DEF ContractInv, GateIsHeld, Drains
  <1>7. HoldersTakeTurns'
    <2> SUFFICES ASSUME Serialize, NEW d \in DOMAIN book', book'[d].phase = "holding",
                        NEW e \in Before(d)'
                 PROVE  book'[e].phase \notin {"waiting", "holding"}
      BY DEF HoldersTakeTurns, Drains
    <2>1. d \in Drains /\ book'[d] = book[d]
      BY <1>3
    <2>2. /\ e \in DOMAIN book' /\ e < d
          /\ book'[e].set = book'[d].set /\ DomainOf[book'[e].target] = DomainOf[book'[d].target]
      BY DEF Before, Drains, Domain
    <2>3. e \in Drains
      <3>1. ASSUME e \notin Drains PROVE d < e /\ e \in Nat /\ d \in Nat
        BY <1>1, <2>1, <2>2, <3>1 DEF Request, ContractTypes
      <3> QED BY <2>2, <3>1
    <2>4. e \in Before(d) /\ book'[e] = book[e]
      BY <1>2, <2>1, <2>2, <2>3 DEF Before, Domain
    <2> QED BY <2>1, <2>4 DEF ContractInv, HoldersTakeTurns
  <1>8. HoldersAreFew'
    <2> SUFFICES ASSUME NEW d \in DOMAIN book', book'[d].phase = "holding", NEW x, x = Domain(d)'
                 PROVE  Cardinality(Holders(x)') <= Limit
      BY DEF HoldersAreFew, Drains, Holders
    <2>1. d \in Drains /\ book'[d] = book[d] /\ x = Domain(d)
      BY <1>3 DEF Domain
    <2>2. Holders(x)' = Holders(x)
      BY <1>2, <1>3 DEF Holders, Domain, Drains
    <2> QED BY <2>1, <2>2 DEF ContractInv, HoldersAreFew
  <1> QED BY <1>4, <1>5, <1>6, <1>7, <1>8 DEF ContractInv

\* Whoever implements the contract (request_drain_set, step_drain, cancel_drain and
\* restore_drain do) never gives one target to two drains, never opens the gate of a
\* drain that holds it, and keeps the limit and the order of every failure domain.
THEOREM ContractHolds ==
  ASSUME Limit \in Nat
  PROVE  ContractSpec => []ContractInv
  <1>1. ContractInit => ContractInv
    <2> SUFFICES ASSUME ContractInit PROVE ContractInv
      OBVIOUS
    <2>1. Drains = {}
      BY DEF ContractInit, Drains
    <2>2. ContractTypes
      BY <2>1, FS_EmptySet DEF ContractInit, ContractTypes, GateEntry, Drains
    <2> QED BY <2>1, <2>2 DEF ContractInv, OwnersDiffer, GateIsHeld, HoldersTakeTurns, HoldersAreFew
  <1>2. ContractInv /\ [ContractNext]_contractVars => ContractInv'
    <2> SUFFICES ASSUME ContractInv, [ContractNext]_contractVars PROVE ContractInv'
      OBVIOUS
    <2>1. CASE UNCHANGED contractVars
      <3>1. book' = book /\ gate' = gate
        BY <2>1 DEF contractVars
      <3> QED BY <3>1 DEF ContractInv, ContractTypes, OwnersDiffer, GateIsHeld, HoldersTakeTurns,
                          HoldersAreFew, Holders, Before, Domain, Drains
    <2> QED BY <2>1, RequestKeeps, ChangeKeeps DEF ContractNext
  <1> QED BY <1>1, <1>2, PTL DEF ContractSpec
==============================================================================
