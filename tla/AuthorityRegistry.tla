-------------------------- MODULE AuthorityRegistry --------------------------
(***************************************************************************)
(* The authority registry (authority.cpp): the live authority line (an     *)
(* incarnation and an epoch) and the tokens issued under it.  A token's id *)
(* is its place in `tokens', which only grows, as the code's high-water    *)
(* mark does.  An expiry of 0 means the token does not expire.             *)
(***************************************************************************)
EXTENDS Naturals, Sequences

CONSTANT Scopes          \* domains a token may be scoped to

VARIABLES incarnation,   \* 0 until a line is installed
          epoch,
          tokens,
          scope_generations

authorityVars == <<incarnation, epoch, tokens, scope_generations>>

AuthorityToken ==
  [scope : Scopes, generation : Nat, epoch : Nat, incarnation : Nat,
   expires_at : Nat, revoked : BOOLEAN]

AuthorityTypeOK ==
  /\ incarnation \in Nat
  /\ epoch \in Nat
  /\ tokens \in Seq(AuthorityToken)
  /\ scope_generations \in [Scopes -> Nat]

AuthorityInit ==
  /\ incarnation = 0
  /\ epoch = 1
  /\ tokens = <<>>
  /\ scope_generations = [s \in Scopes |-> 0]

revoke_all(toks) == [i \in DOMAIN toks |-> [toks[i] EXCEPT !.revoked = TRUE]]

\* Moves the incarnation alone: no token is revoked, though check rejects those of another.
install_incarnation(i) ==
  /\ i # 0
  /\ i > incarnation
  /\ incarnation' = i
  /\ UNCHANGED <<epoch, tokens, scope_generations>>

install_line(i, e) ==
  /\ i # 0
  /\ e # 0
  /\ incarnation # 0 => i > incarnation
  /\ e >= epoch
  /\ incarnation' = i
  /\ epoch' = e
  /\ tokens' = revoke_all(tokens)
  /\ UNCHANGED scope_generations

issue(scope, at, validity) ==
  /\ incarnation # 0
  /\ tokens' = Append(tokens,
                 [scope |-> scope, generation |-> scope_generations[scope],
                  epoch |-> epoch, incarnation |-> incarnation,
                  expires_at |-> IF validity = 0 THEN 0 ELSE at + validity,
                  revoked |-> FALSE])
  /\ UNCHANGED <<incarnation, epoch, scope_generations>>

advance_scope_generation(scope) ==
  /\ scope_generations' = [scope_generations EXCEPT ![scope] = @ + 1]
  /\ UNCHANGED <<incarnation, epoch, tokens>>

revoke(i) ==
  /\ i \in DOMAIN tokens
  /\ tokens' = [tokens EXCEPT ![i].revoked = TRUE]
  /\ UNCHANGED <<incarnation, epoch, scope_generations>>

\* Slip: the comparison is turned around.
NotYetValid(tok, at) == tok.expires_at # 0 /\ at < tok.expires_at

expired_at(tok, at) == tok.expires_at # 0 /\ at > tok.expires_at

\* AuthorityRegistry::check of a stored token: its result is None.
check(i, at) ==
  /\ i \in DOMAIN tokens
  /\ ~tokens[i].revoked
  /\ tokens[i].incarnation = incarnation
  /\ tokens[i].epoch = epoch
  /\ tokens[i].generation = scope_generations[tokens[i].scope]
  /\ ~expired_at(tokens[i], at)
==============================================================================
