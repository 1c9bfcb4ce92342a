--------------------------- MODULE AdmissionFence ---------------------------
(***************************************************************************)
(* The admission fence (admission.cpp): per target, whether admission is   *)
(* closed, the current generation and the drain that last moved it.  A     *)
(* target without an entry is an open one at generation 0: the two answer  *)
(* every query of the class alike.                                         *)
(***************************************************************************)
EXTENDS DrainTarget

VARIABLE fence

FenceEntry == [closed : BOOLEAN, generation : Nat, drain : Nat]

FenceTypeOK == fence \in [Targets -> FenceEntry]

FenceInit == fence = [t \in Targets |-> [closed |-> FALSE, generation |-> 0, drain |-> 0]]

\* Slip: the closure does not advance the generation.
CloseInPlace(f, t, d) == [f EXCEPT ![t].closed = TRUE, ![t].drain = d]

close(f, t, d) ==
  [f EXCEPT ![t] = [closed |-> TRUE, generation |-> f[t].generation + 1, drain |-> d]]

\* Slip: the generation advances and the entry stays closed.
ReopenStaysClosed(f, t, d) == [f EXCEPT ![t].generation = @ + 1, ![t].drain = d]

\* Defined for a closed entry only; the caller checks is_closed first.
reopen(f, t, d) ==
  [f EXCEPT ![t] = [closed |-> FALSE, generation |-> f[t].generation + 1, drain |-> d]]

is_closed(f, t) == f[t].closed

\* Slip: a caller that knows the generation of a closed fence is let in.
AdmitsByGeneration(f, t, g) == g = f[t].generation

\* May a caller that believes the generation is g bind a new obligation to t?
check_admission(f, t, g) == g = f[t].generation /\ ~f[t].closed
==============================================================================
