---- MODULE QuotaLedger ----
(***************************************************************************)
(* What the day limit promises to whoever pays for the upstream nodes: per *)
(* account and day a ledger of units, never spent beyond the quota the     *)
(* account has at that moment, and opened anew when a day begins.  No      *)
(* counters, no keys, no commands, no clock.                               *)
(***************************************************************************)
EXTENDS Integers

CONSTANTS Accounts, Days, Costs, Quotas, NoQuota

VARIABLES spent, quota

Init ==
  /\ spent = [a \in Accounts |-> [d \in Days |-> 0]]
  /\ quota = [a \in Accounts |-> NoQuota]

Spend(a, d, n) ==
  /\ quota[a] # NoQuota
  /\ spent[a][d] + n <= quota[a]
  /\ spent' = [spent EXCEPT ![a][d] = @ + n]
  /\ UNCHANGED quota

(* The promise is for plans that are never lowered.                        *)
Raise(a, q) ==
  /\ q >= quota[a]
  /\ quota' = [quota EXCEPT ![a] = q]
  /\ UNCHANGED spent

(* All days but one are over, or have not begun.                           *)
NewDay(kept) ==
  /\ spent' = [a \in Accounts |->
                [d \in Days |-> IF d = kept THEN spent[a][d] ELSE 0]]
  /\ UNCHANGED quota

Next ==
  \/ \E a \in Accounts, d \in Days, n \in Costs : Spend(a, d, n)
  \/ \E a \in Accounts, q \in Quotas : Raise(a, q)
  \/ \E kept \in Days : NewDay(kept)

Spec == Init /\ [][Next]_<<spent, quota>>
====
