---- MODULE RedisCounter ----
(***************************************************************************)
(* The Redis integer keys the gateway counts with, as pure operators.      *)
(* Redis is not part of the repository: what is written here is how the    *)
(* code uses INCRBY, DECRBY, EXPIRE and key expiry.                        *)
(*                                                                         *)
(* A key is a record of its value and of the ticks it still has to live.   *)
(* INCRBY of a missing key starts from 0 and leaves a key WITHOUT a time   *)
(* to live, and neither INCRBY nor DECRBY touches a time to live.          *)
(***************************************************************************)
EXTENDS Integers

NoTTL == -1                            \* the key lives until it is deleted

Counter == [val : Nat, ttl : Nat \cup {NoTTL}]

Absent == [val |-> 0, ttl |-> 0]       \* no such key

Exists(c) == c.ttl # 0

IncrBy(c, n) ==
  [val |-> c.val + n, ttl |-> IF Exists(c) THEN c.ttl ELSE NoTTL]

DecrBy(c, n) == IncrBy(c, -n)

Expire(c, d) == [val |-> c.val, ttl |-> IF Exists(c) THEN d ELSE c.ttl]

(* One tick of time: a key whose last tick this was is gone.               *)
Age(c) ==
  [val |-> IF c.ttl = 1 THEN 0 ELSE c.val,
   ttl |-> IF c.ttl > 0 THEN c.ttl - 1 ELSE c.ttl]
====
