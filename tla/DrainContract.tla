---------------------------- MODULE DrainContract ----------------------------
(***************************************************************************)
(* What the drain engine promises its operators, without saying how: a     *)
(* drain waits, holds the admission gate of its target, and is drained or  *)
(* ended; only a restoration gives the target back.  Everything between,   *)
(* evacuation, evidence, blocking, retries, restarts, is invisible here.   *)
(* DrainRefinement states that DrainEngine implements this specification,  *)
(* and what DrainContractProofs proves of it carries over to the engine.   *)
(***************************************************************************)
EXTENDS Integers, FiniteSets

CONSTANTS Targets, DomainOf,
          Limit,           \* holders a failure domain may have at once
          Serialize        \* whether the members of one set take turns in a domain

VARIABLES book,            \* per drain: its target, its set and its phase
          gate             \* per target: whether closed, the generation, who moved it last

Entry ==
  [target : Targets, set : Nat,
   phase : {"waiting", "holding", "drained", "ended", "restoring", "restored"}]
GateEntry == [closed : BOOLEAN, generation : Nat, drain : Nat]

contractVars == <<book, gate>>

Drains == DOMAIN book

ContractInit ==
  /\ book = <<>>
  /\ gate = [t \in Targets |-> [closed |-> FALSE, generation |-> 0, drain |-> 0]]

Domain(d) == DomainOf[book[d].target]

Holders(x) == {d \in Drains : Domain(d) = x /\ book[d].phase = "holding"}

\* A target is free once every drain it had was restored.
Free(t) == \A d \in Drains : book[d].target = t => book[d].phase = "restored"

\* New drains, of free targets, one each, come after all others.
Request ==
  /\ IsFiniteSet(DOMAIN book') /\ Drains \subseteq DOMAIN book'
  /\ book' \in [DOMAIN book' -> Entry]
  /\ \A d \in Drains : book'[d] = book[d]
  /\ \A d \in DOMAIN book' \ Drains :
       /\ d \in Nat /\ \A e \in Drains : e < d
       /\ book'[d].phase = "waiting"
       /\ Free(book'[d].target)
       /\ \A e \in DOMAIN book' \ Drains : book'[e].target = book'[d].target => e = d
  /\ UNCHANGED gate

\* The members of d's set that go before it in its domain.
Before(d) == {e \in Drains : e < d /\ book[e].set = book[d].set /\ Domain(e) = Domain(d)}

Changes(d, from, to) ==
  /\ book[d].phase \in from
  /\ book' = [book EXCEPT ![d].phase = to]

\* A drain takes the open gate of its target, in the order of the requests of its domain.
Close(d) ==
  LET t == book[d].target IN
  /\ Changes(d, {"waiting"}, "holding")
  /\ ~gate[t].closed
  /\ \A e \in Drains : e < d /\ Domain(e) = Domain(d) => book[e].phase # "waiting"
  /\ Serialize => \A e \in Before(d) : book[e].phase \in {"drained", "ended", "restored"}
  /\ Cardinality(Holders(Domain(d))) + 1 <= Limit
  /\ gate' = [gate EXCEPT ![t] = [closed |-> TRUE, generation |-> gate[t].generation + 1,
                                  drain |-> d]]

Finish(d) == Changes(d, {"holding"}, "drained") /\ UNCHANGED gate

\* The gate stays as it is: a cancelled drain keeps the admission it closed.
End(d) == Changes(d, {"waiting", "holding", "restoring"}, "ended") /\ UNCHANGED gate

\* The target is open, under a newer generation if it was closed, and it was closed by d.
Reopen(d) ==
  LET t == book[d].target IN
  /\ Changes(d, {"drained", "ended"}, "restoring")
  /\ gate[t].closed => gate[t].drain = d /\ gate'[t].generation > gate[t].generation
  /\ gate'[t] \in GateEntry
  /\ ~gate'[t].closed
  /\ gate'[t].generation >= gate[t].generation
  /\ gate' = [gate EXCEPT ![t] = gate'[t]]

Restored(d) == Changes(d, {"restoring"}, "restored") /\ UNCHANGED gate

ContractNext ==
  \/ Request
  \/ \E d \in Drains : Close(d) \/ Finish(d) \/ End(d) \/ Reopen(d) \/ Restored(d)

ContractSpec == ContractInit /\ [][ContractNext]_contractVars

------------------------------------------------------------------------------
ContractTypes ==
  /\ IsFiniteSet(Drains) /\ Drains \subseteq Nat
  /\ book \in [Drains -> Entry]
  /\ gate \in [Targets -> GateEntry]

\* Of two drains of one target, one was restored.
OwnersDiffer ==
  \A d, e \in Drains :
    d # e /\ book[d].target = book[e].target
      => book[d].phase = "restored" \/ book[e].phase = "restored"

\* A drain that holds or has drained its target keeps the gate closed.
GateIsHeld ==
  \A d \in Drains :
    book[d].phase \in {"holding", "drained"}
      => gate[book[d].target].closed /\ gate[book[d].target].drain = d

\* A holder came after the members of its set that wait or hold in its domain.
HoldersTakeTurns ==
  Serialize =>
    \A d \in Drains : book[d].phase = "holding" =>
      \A e \in Before(d) : book[e].phase \notin {"waiting", "holding"}

HoldersAreFew ==
  \A d \in Drains : book[d].phase = "holding" => Cardinality(Holders(Domain(d))) <= Limit

ContractInv ==
  ContractTypes /\ OwnersDiffer /\ GateIsHeld /\ HoldersTakeTurns /\ HoldersAreFew
==============================================================================
