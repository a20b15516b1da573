---- MODULE MCRateLimit ----
(***************************************************************************)
(* RateLimit for TLC: handlers are interchangeable.                        *)
(***************************************************************************)
EXTENDS RateLimit, TLC

Symmetry == Permutations(Handlers)

(* "should have expiration of second rate limit key with n": whatever its  *)
(* opening request cost, a second's counter lives for a second.            *)
SecKeyOneSecond ==
  \A a \in Accounts : Exists(secKey[a]) => secKey[a].ttl <= SEC
====
