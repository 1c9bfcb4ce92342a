----------------------------- MODULE DrainTarget -----------------------------
(***************************************************************************)
(* Drain targets (identity.cpp).  A target is a resource, its kind and its *)
(* failure domain; target_order_less orders targets totally.  The model    *)
(* numbers them in that order, so that a smaller number is an earlier one. *)
(***************************************************************************)
EXTENDS Naturals

CONSTANT Targets

ASSUME TargetsAreNumbered == Targets \subseteq Nat

target_order_less(t, u) == t < u
==============================================================================
