---------------------------- MODULE MCRateLimiter ----------------------------
(* Instances of RateLimiter for TLC.                                        *)
EXTENDS RateLimiter, TLC

(* Workers are only compared, so they are interchangeable.                  *)
Symmetry == Permutations(Workers)
=============================================================================
