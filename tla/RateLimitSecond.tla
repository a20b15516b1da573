---- MODULE RateLimitSecond ----
(***************************************************************************)
(* RateLimit with a history of the units let through in each of the last   *)
(* SEC ticks: what the upstream nodes see in any second, wherever the      *)
(* second is taken to begin.  The limiter itself is unchanged.             *)
(***************************************************************************)
EXTENDS RateLimit, Functions

VARIABLE recent    \* history: units let through, by account, i ticks ago

Ago == 0 .. SEC - 1

(* The units of an account in a ledger of the days.                        *)
Units(ledger, a) == SumFunctionOnSet(ledger[a], Slot)

InitRecent == Init /\ recent = [a \in Accounts |-> [i \in Ago |-> 0]]

(* Every tick moves the history by one; between two ticks it grows by what *)
(* the step let through.                                                   *)
Remember ==
  recent' = [a \in Accounts |-> [i \in Ago |->
    IF time' # time THEN (IF i = 0 THEN 0 ELSE recent[a][i - 1])
    ELSE IF i = 0 THEN recent[a][0] + Units(admitted', a) - Units(admitted, a)
    ELSE recent[a][i]]]

NextRecent == Next /\ Remember

SpecRecent == InitRecent /\ [][NextRecent]_<<vars, recent>>

(* The limit per second counts in windows that a request opens, so a       *)
(* second that straddles two windows may see two quotas, and never more.   *)
SlidingSecond ==
  \A a \in Accounts : \E q \in SecQuotas :
    SumFunctionOnSet(recent[a], Ago) <= 2 * q
====
