---------------------------- MODULE MCJwksCache ----------------------------
(* Instances of JwksCache for TLC. *)
EXTENDS JwksCache, TLC

Callers == Permutations(Caller)

MCAlgOf == [x \in Key |-> IF x = "short" THEN "unsupported" ELSE "RS256"]

Jwt(kid, alg, signer, exp, forUs) ==
  [kid |-> kid, alg |-> alg, signer |-> signer, exp |-> exp, forUs |-> forUs]

\* A token to accept (until its exp), one without a kid, one of no allowed alg.
MCToken ==
  { Jwt("a", "RS256", "x", 6, TRUE), Jwt("", "RS256", "x", 9, FALSE),
    Jwt("a", "none", "x", 9, TRUE) }
=============================================================================
