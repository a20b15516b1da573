---- MODULE MCRateLimitSecond ----
(***************************************************************************)
(* RateLimitSecond for TLC.                                                *)
(***************************************************************************)
EXTENDS RateLimitSecond, MCRateLimit
====
