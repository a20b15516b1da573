---- MODULE RateLimitProofs ----
(***************************************************************************)
(* Proofs about RateLimit and RateLimitSecond, for every set of accounts,  *)
(* finite set of handlers, cost, quota and length of a day, with and       *)
(* without faults.                                                         *)
(***************************************************************************)
EXTENDS RateLimitSecond, Sums, TLAPS

(* The counter of a key stays a counter under the commands of the code.    *)
LEMMA IncrByFacts ==
  ASSUME NEW c \in Counter, NEW n \in Nat
  PROVE  /\ IncrBy(c, n) \in Counter
         /\ IncrBy(c, n).val = c.val + n
         /\ IncrBy(c, n).ttl = IF c.ttl = 0 THEN NoTTL ELSE c.ttl
  BY DEF Counter, IncrBy, Exists, NoTTL

(* Charging creates a key with a time to live, or keeps the one it has.    *)
LEMMA ChargedFacts ==
  ASSUME NEW c \in Counter, NEW n \in Nat \ {0}, NEW t \in Nat \ {0},
         c.ttl = 0 => c.val = 0
  PROVE  /\ Charged(c, n, t) \in Counter
         /\ Charged(c, n, t).val = c.val + n
         /\ Charged(c, n, t).ttl = IF c.val = 0 THEN t ELSE c.ttl
         /\ Charged(c, n, t).ttl # 0
  BY IncrByFacts DEF Counter, Charged, IncrBy, Expire, Exists, NoTTL

(* Reverting a charge sets the counter to the quota, and no more.          *)
LEMMA DecrByFacts ==
  ASSUME NEW c \in Counter, NEW q \in Nat, c.val >= q, c.ttl # 0
  PROVE  /\ DecrBy(c, c.val - q) \in Counter
         /\ DecrBy(c, c.val - q).val = q
         /\ DecrBy(c, c.val - q).ttl = c.ttl
  BY DEF Counter, DecrBy, IncrBy, Exists, NoTTL

(* A tick shortens a time to live by one, and the value dies with the key. *)
LEMMA AgeFacts ==
  ASSUME NEW c \in Counter, c.ttl = 0 => c.val = 0
  PROVE  /\ Age(c) \in Counter
         /\ Age(c).ttl = IF c.ttl > 0 THEN c.ttl - 1 ELSE c.ttl
         /\ Age(c).val = IF c.ttl = 1 THEN 0 ELSE c.val
         /\ Age(c).ttl = 0 => Age(c).val = 0
  BY DEF Counter, Age, Absent, NoTTL

(* Twelve hours more than a day are at least one tick.                     *)
LEMMA DayTTLPositive == DayTTL \in Nat \ {0} /\ DAY + MaxLag <= DayTTL
  BY TimeAssumption, LagAssumption
----
Typed == TypeOK /\ AbsentIsZero

(* What a command in flight is about: an account, a positive cost, a slot. *)
LEMMA BusyFacts ==
  ASSUME TypeOK, NEW h \in Handlers, Busy(h)
  PROVE  /\ req[h] \in Requests
         /\ req[h].acc \in Accounts
         /\ req[h].n \in Nat \ {0}
         /\ req[h].n \in Costs
         /\ req[h].slot \in Slot
         /\ req[h].age \in 0 .. MaxLag
         /\ req[h].tries \in 0 .. MaxRetries
         /\ dayKey[req[h].acc][req[h].slot] \in Counter
         /\ secKey[req[h].acc] \in Counter
<1>1. req[h] \in Requests
  BY DEF TypeOK, Busy
<1>2. /\ req[h].acc \in Accounts /\ req[h].n \in Costs /\ req[h].slot \in Slot
      /\ req[h].age \in 0 .. MaxLag /\ req[h].tries \in 0 .. MaxRetries
  BY <1>1 DEF Requests
<1>3. req[h].n \in Nat \ {0}
  BY <1>2, CostsAssumption
<1>4. dayKey[req[h].acc][req[h].slot] \in Counter /\ secKey[req[h].acc] \in Counter
  BY <1>2 DEF TypeOK
<1> QED  BY <1>1, <1>2, <1>3, <1>4

LEMMA PcBusy ==
  ASSUME NEW h \in Handlers, req[h].pc # "idle"
  PROVE  Busy(h)
  BY DEF Busy, Idle

(* The counter of the day as any command of the code may leave it: what    *)
(* the key had to live or 36 hours or, for a moment, no limit; and no less *)
(* than it held unless it was set to the quota.                            *)
Touch(a, s) ==
  \E c \in Counter :
    /\ SetDay(a, s, c)
    /\ c.ttl \in {dayKey[a][s].ttl, DayTTL, NoTTL}
    /\ \/ dayKey[a][s].val <= c.val
       \/ dayQuota[a] # NoQuota /\ dayQuota[a] = c.val
    /\ c.ttl = 0 => c.val = 0

LEMMA SetDayFacts ==
  ASSUME TypeOK, NEW a \in Accounts, NEW s \in Slot, NEW c \in Counter, SetDay(a, s, c)
  PROVE  /\ dayKey' \in [Accounts -> [Slot -> Counter]]
         /\ dayKey'[a][s] = c
         /\ \A b \in Accounts, t \in Slot :
              b # a \/ t # s => dayKey'[b][t] = dayKey[b][t]
  BY DEF TypeOK, SetDay

LEMMA UnchangedTouch ==
  ASSUME Typed, NEW a \in Accounts, NEW s \in Slot, UNCHANGED dayKey
  PROVE  Touch(a, s)
<1>1. dayKey[a][s] \in Counter /\ (dayKey[a][s].ttl = 0 => dayKey[a][s].val = 0)
  BY DEF Typed, TypeOK, AbsentIsZero, Exists
<1>2. SetDay(a, s, dayKey[a][s])
  BY DEF Typed, TypeOK, SetDay
<1>3. dayKey[a][s].val <= dayKey[a][s].val
  BY <1>1 DEF Counter
<1> QED  BY <1>1, <1>2, <1>3 DEF Touch

(* The counter of the second under the script.                             *)
LEMMA ChargeSecondFacts ==
  ASSUME Typed, NEW a \in Accounts, NEW n \in Nat \ {0},
         secKey' = [secKey EXCEPT ![a] = ChargedSec(a, n)]
  PROVE  /\ secKey' \in [Accounts -> Counter]
         /\ \A b \in Accounts : ~Exists(secKey'[b]) => secKey'[b].val = 0
<1>1. secKey[a] \in Counter /\ (secKey[a].ttl = 0 => secKey[a].val = 0)
  BY DEF Typed, TypeOK, AbsentIsZero, Exists
<1>2. n * SEC \in Nat \ {0}
  BY TimeAssumption
<1>3. ChargedSec(a, n) \in Counter /\ ChargedSec(a, n).ttl # 0
  BY <1>1, <1>2, ChargedFacts DEF ChargedSec
<1> QED  BY <1>3 DEF Typed, TypeOK, AbsentIsZero, Exists

(* The counter of the day once the script charged it.                      *)
LEMMA ChargedDayFacts ==
  ASSUME Typed, NEW a \in Accounts, NEW s \in Slot, NEW n \in Nat \ {0}
  PROVE  /\ ChargedDay(a, s, n) \in Counter
         /\ ChargedDay(a, s, n).val = dayKey[a][s].val + n
         /\ ChargedDay(a, s, n).ttl # 0
         /\ ChargedDay(a, s, n).ttl \in {dayKey[a][s].ttl, DayTTL}
<1>1. dayKey[a][s] \in Counter /\ (dayKey[a][s].ttl = 0 => dayKey[a][s].val = 0)
  BY DEF Typed, TypeOK, AbsentIsZero, Exists
<1>2. DayTTL \in Nat \ {0}
  BY DayTTLPositive
<1> QED  BY <1>1, <1>2, ChargedFacts DEF ChargedDay

(* Whatever the script answers, this is what it does to the counters.      *)
ScriptRuns(a, s, n) == Refuse(a, s, n) \/ Accept(a, s, n)

LEMMA AcceptFacts ==
  ASSUME Typed, NEW a \in Accounts, NEW s \in Slot, NEW n \in Nat \ {0},
         Accept(a, s, n)
  PROVE  /\ Touch(a, s)
         /\ dayKey'[a][s].val = dayKey[a][s].val + n
         /\ dayQuota[a] # NoQuota
         /\ dayKey[a][s].val + n <= dayQuota[a]
<1> DEFINE c == ChargedDay(a, s, n)
<1>1. c \in Counter /\ c.val = dayKey[a][s].val + n /\ c.ttl # 0
      /\ c.ttl \in {dayKey[a][s].ttl, DayTTL}
  BY ChargedDayFacts
<1>2. SetDay(a, s, c) /\ dayQuota[a] # NoQuota /\ c.val <= dayQuota[a]
  BY DEF Accept
<1>3. dayKey'[a][s] = c
  BY <1>1, <1>2, SetDayFacts DEF Typed
<1>4. dayKey[a][s].val <= c.val
  <2>1. dayKey[a][s].val \in Nat
    BY DEF Typed, TypeOK, Counter
  <2> QED  BY <1>1, <2>1
<1>5. Touch(a, s)
  BY <1>1, <1>2, <1>4 DEF Touch
<1> QED  BY <1>1, <1>2, <1>3, <1>5

LEMMA OverDayTouch ==
  ASSUME Typed, NEW a \in Accounts, NEW s \in Slot, NEW n \in Nat \ {0},
         OverDay(a, s, n)
  PROVE  Touch(a, s)
<1> DEFINE c == ChargedDay(a, s, n)
           q == dayQuota[a]
           d == DecrBy(c, c.val - q)
<1>1. c \in Counter /\ c.ttl # 0 /\ c.ttl \in {dayKey[a][s].ttl, DayTTL}
  BY ChargedDayFacts
<1>2. q # NoQuota /\ c.val > q /\ SetDay(a, s, d)
  BY DEF OverDay
<1>3. q \in Nat
  BY <1>2, QuotasAssumption DEF Typed, TypeOK
<1>4. c.val >= q
  BY <1>1, <1>2, <1>3 DEF Counter
<1>5. d \in Counter /\ d.val = q /\ d.ttl = c.ttl
  BY <1>1, <1>3, <1>4, DecrByFacts
<1> HIDE DEF c, d
<1> QED  BY <1>1, <1>2, <1>5 DEF Touch

LEMMA ScriptFacts ==
  ASSUME Typed, NEW a \in Accounts, NEW s \in Slot, NEW n \in Nat \ {0},
         ScriptRuns(a, s, n)
  PROVE  /\ Touch(a, s)
         /\ secKey' \in [Accounts -> Counter]
         /\ \A b \in Accounts : ~Exists(secKey'[b]) => secKey'[b].val = 0
<1>1. CASE NoPlan(a, s, n)
  <2>1. UNCHANGED secKey /\ UNCHANGED dayKey
    BY <1>1 DEF NoPlan, redis
  <2> QED  BY <2>1, UnchangedTouch DEF Typed, TypeOK, AbsentIsZero
<1>2. ASSUME ChargeSecond(a, n), Touch(a, s)
      PROVE  /\ Touch(a, s)
             /\ secKey' \in [Accounts -> Counter]
             /\ \A b \in Accounts : ~Exists(secKey'[b]) => secKey'[b].val = 0
  BY <1>2, ChargeSecondFacts DEF ChargeSecond
<1>3. CASE OverSecond(a, s, n)
  BY <1>2, <1>3, UnchangedTouch DEF OverSecond
<1>4. CASE NoDayPlan(a, s, n)
  BY <1>2, <1>4, UnchangedTouch DEF NoDayPlan, PassSecond
<1>5. CASE OverDay(a, s, n)
  <2>1. ChargeSecond(a, n)
    BY <1>5 DEF OverDay, PassSecond
  <2> QED  BY <1>2, <1>5, <2>1, OverDayTouch
<1>6. CASE Accept(a, s, n)
  <2>1. ChargeSecond(a, n)
    BY <1>6 DEF Accept, PassSecond
  <2> QED  BY <1>2, <1>6, <2>1, AcceptFacts
<1> QED  BY <1>1, <1>3, <1>4, <1>5, <1>6 DEF ScriptRuns, Refuse

LEMMA TouchTyped ==
  ASSUME Typed, NEW a \in Accounts, NEW s \in Slot, Touch(a, s)
  PROVE  /\ dayKey' \in [Accounts -> [Slot -> Counter]]
         /\ \A b \in Accounts, t \in Slot : dayKey'[b][t].ttl = 0 => dayKey'[b][t].val = 0
<1>1. PICK c \in Counter : SetDay(a, s, c) /\ (c.ttl = 0 => c.val = 0)
  BY DEF Touch
<1>2. /\ dayKey' \in [Accounts -> [Slot -> Counter]]
      /\ dayKey'[a][s] = c
      /\ \A b \in Accounts, t \in Slot :
           b # a \/ t # s => dayKey'[b][t] = dayKey[b][t]
  BY <1>1, SetDayFacts DEF Typed
<1>3. ASSUME NEW b \in Accounts, NEW t \in Slot, dayKey'[b][t].ttl = 0
      PROVE  dayKey'[b][t].val = 0
  <2>1. CASE b = a /\ t = s
    BY <1>1, <1>2, <1>3, <2>1
  <2>2. CASE b # a \/ t # s
    <3>1. dayKey'[b][t] = dayKey[b][t]
      BY <1>2, <2>2
    <3> QED  BY <1>3, <3>1 DEF Typed, AbsentIsZero, Exists
  <2> QED  BY <2>1, <2>2
<1> QED  BY <1>2, <1>3

(* The handlers are about the same commands, or about fewer.               *)
LEMMA DoneTyped ==
  ASSUME TypeOK, NEW h \in Handlers, Done(h)
  PROVE  req' \in [Handlers -> Requests \cup {Idle}]
<1> DEFINE T == Requests \cup {Idle}
<1>1. req \in [Handlers -> T] /\ Idle \in T
  BY DEF TypeOK
<1> HIDE DEF T
<1>2. req' \in [Handlers -> T]
  BY <1>1 DEF Done
<1> QED  BY <1>2 DEF T

(* The commands a handler has Redis execute leave the other variables.     *)
Commands(h) == Script(h) \/ WhitelistIncr(h) \/ WhitelistExpire(h) \/ ReplyLost(h)

LEMMA WhitelistIncrTouch ==
  ASSUME Typed, NEW a \in Accounts, NEW s \in Slot, NEW n \in Nat \ {0},
         SetDay(a, s, IncrBy(dayKey[a][s], n))
  PROVE  Touch(a, s)
<1> DEFINE c == IncrBy(dayKey[a][s], n)
<1>1. dayKey[a][s] \in Counter
  BY DEF Typed, TypeOK
<1>2. /\ c \in Counter /\ c.val = dayKey[a][s].val + n
      /\ c.ttl = IF dayKey[a][s].ttl = 0 THEN NoTTL ELSE dayKey[a][s].ttl
  BY <1>1, IncrByFacts
<1>3. dayKey[a][s].val <= c.val /\ c.ttl # 0
  BY <1>1, <1>2 DEF Counter, NoTTL
<1> HIDE DEF c
<1> QED  BY <1>2, <1>3 DEF Touch, c

LEMMA WhitelistExpireTouch ==
  ASSUME Typed, NEW a \in Accounts, NEW s \in Slot,
         SetDay(a, s, Expire(dayKey[a][s], DayTTL))
  PROVE  Touch(a, s)
<1> DEFINE c == Expire(dayKey[a][s], DayTTL)
<1>1. dayKey[a][s] \in Counter /\ (dayKey[a][s].ttl = 0 => dayKey[a][s].val = 0)
  BY DEF Typed, TypeOK, AbsentIsZero, Exists
<1>2. /\ c \in Counter /\ c.val = dayKey[a][s].val
      /\ c.ttl \in {dayKey[a][s].ttl, DayTTL} /\ (c.ttl = 0 => c.val = 0)
  BY <1>1, DayTTLPositive DEF Expire, Exists, Counter
<1>3. dayKey[a][s].val <= c.val
  BY <1>1, <1>2 DEF Counter
<1> HIDE DEF c
<1> QED  BY <1>2, <1>3 DEF Touch, c

(* Every command of a handler touches the counter its request is about.    *)
LEMMA CommandFacts ==
  ASSUME Typed, NEW h \in Handlers, Commands(h)
  PROVE  /\ Busy(h)
         /\ Touch(req[h].acc, req[h].slot)
         /\ secKey' \in [Accounts -> Counter]
         /\ \A b \in Accounts : ~Exists(secKey'[b]) => secKey'[b].val = 0
         /\ UNCHANGED <<quotas, whitelist, time, asked>>
<1> DEFINE a == req[h].acc
           s == req[h].slot
           n == req[h].n
<1>1. Busy(h)
  BY PcBusy DEF Commands, Script, WhitelistIncr, WhitelistExpire, ReplyLost
<1>2. a \in Accounts /\ s \in Slot /\ n \in Nat \ {0}
  BY <1>1, BusyFacts DEF Typed
<1>3. UNCHANGED secKey => /\ secKey' \in [Accounts -> Counter]
                          /\ \A b \in Accounts : ~Exists(secKey'[b]) => secKey'[b].val = 0
  BY DEF Typed, TypeOK, AbsentIsZero
<1>4. CASE Script(h)
  <2>1. ScriptRuns(a, s, n) /\ UNCHANGED <<quotas, whitelist, time, asked>>
    BY <1>4 DEF Script, ScriptRuns
  <2> QED  BY <1>1, <1>2, <2>1, ScriptFacts
<1>5. CASE WhitelistIncr(h)
  BY <1>1, <1>2, <1>3, <1>5, WhitelistIncrTouch DEF WhitelistIncr
<1>6. CASE WhitelistExpire(h)
  BY <1>1, <1>2, <1>3, <1>6, WhitelistExpireTouch DEF WhitelistExpire
<1>7. CASE ReplyLost(h)
  <2>1. UNCHANGED <<quotas, whitelist, time, asked>>
    BY <1>7 DEF ReplyLost
  <2>2. CASE ScriptRuns(a, s, n)
    BY <1>1, <1>2, <2>1, <2>2, ScriptFacts
  <2>3. CASE SetDay(a, s, IncrBy(dayKey[a][s], n)) /\ UNCHANGED secKey
    BY <1>1, <1>2, <1>3, <2>1, <2>3, WhitelistIncrTouch
  <2> QED  BY <1>7, <2>2, <2>3 DEF ReplyLost, ScriptRuns
<1> QED  BY <1>4, <1>5, <1>6, <1>7 DEF Commands

(* A handler's next command, or its next attempt, is a command too.        *)
LEMMA PcTyped ==
  ASSUME TypeOK, NEW h \in Handlers, Busy(h),
         \/ req' = [req EXCEPT ![h].pc = "expire"]
         \/ req[h].tries < MaxRetries /\ req' = [req EXCEPT ![h].tries = @ + 1]
  PROVE  req' \in [Handlers -> Requests \cup {Idle}]
<1> DEFINE T == Requests \cup {Idle}
           r == req[h]
<1>1. r \in Requests
  BY BusyFacts
<1>2. [r EXCEPT !.pc = "expire"] \in Requests
  BY <1>1 DEF Requests
<1>3. r.tries < MaxRetries => [r EXCEPT !.tries = r.tries + 1] \in Requests
  BY <1>1, BoundAssumption DEF Requests
<1>4. req \in [Handlers -> T]
  BY DEF TypeOK
<1>5. \/ req' = [req EXCEPT ![h] = [r EXCEPT !.pc = "expire"]]
      \/ r.tries < MaxRetries /\ req' = [req EXCEPT ![h] = [r EXCEPT !.tries = r.tries + 1]]
  OBVIOUS
<1>6. [r EXCEPT !.pc = "expire"] \in T
  BY <1>2
<1>7. r.tries < MaxRetries => [r EXCEPT !.tries = r.tries + 1] \in T
  BY <1>3
<1> HIDE DEF T, r
<1>8. req' \in [Handlers -> T]
  BY <1>4, <1>5, <1>6, <1>7
<1> QED  BY <1>8 DEF T

LEMMA CommandTyped ==
  ASSUME Typed, NEW h \in Handlers, Commands(h)
  PROVE  Typed'
<1>1. /\ Busy(h)
      /\ Touch(req[h].acc, req[h].slot)
      /\ secKey' \in [Accounts -> Counter]
      /\ \A b \in Accounts : ~Exists(secKey'[b]) => secKey'[b].val = 0
      /\ UNCHANGED <<quotas, whitelist, time, asked>>
  BY CommandFacts
<1>2. req[h].acc \in Accounts /\ req[h].slot \in Slot /\ req[h].n \in Nat \ {0}
  BY <1>1, BusyFacts DEF Typed
<1>3. /\ dayKey' \in [Accounts -> [Slot -> Counter]]
      /\ \A b \in Accounts, t \in Slot : dayKey'[b][t].ttl = 0 => dayKey'[b][t].val = 0
  BY <1>1, <1>2, TouchTyped
<1>4. req' \in [Handlers -> Requests \cup {Idle}]
  <2>1. Done(h) => req' \in [Handlers -> Requests \cup {Idle}]
    BY DoneTyped DEF Typed
  <2> QED  BY <1>1, <2>1, PcTyped
           DEF Typed, Commands, Script, WhitelistIncr, WhitelistExpire, ReplyLost
<1>5. admitted' \in [Accounts -> [Slot -> Nat]]
  <2>1. CASE UNCHANGED admitted
    BY <2>1 DEF Typed, TypeOK
  <2>2. CASE admitted' = [admitted EXCEPT ![req[h].acc][req[h].slot] = @ + req[h].n]
    <3>1. admitted[req[h].acc][req[h].slot] + req[h].n \in Nat
      BY <1>2 DEF Typed, TypeOK
    <3> QED  BY <1>2, <2>2, <3>1 DEF Typed, TypeOK
  <2> QED  BY <2>1, <2>2 DEF Commands, Script, WhitelistIncr, WhitelistExpire, ReplyLost
<1> QED  BY <1>1, <1>3, <1>4, <1>5
         DEF Typed, TypeOK, AbsentIsZero, Exists, quotas, time

LEMMA BeginTyped ==
  ASSUME Typed, NEW h \in Handlers, NEW a \in Accounts, NEW n \in Costs, Begin(h, a, n)
  PROVE  Typed'
<1>1. asked' \in [Accounts -> [Slot -> Nat]]
  <2>1. asked[a][today] + n \in Nat
    BY CostsAssumption DEF Typed, TypeOK
  <2> QED  BY <2>1 DEF Typed, TypeOK, Begin
<1>2. req' \in [Handlers -> Requests \cup {Idle}]
  <2> DEFINE T == Requests \cup {Idle}
             r == Request(IF a \in whitelist THEN "incr" ELSE "script", a, n)
  <2>1. r \in T
    BY LagAssumption, BoundAssumption DEF Typed, TypeOK, Request, Requests
  <2>2. req \in [Handlers -> T] /\ req' = [req EXCEPT ![h] = r]
    BY DEF Typed, TypeOK, Begin
  <2> HIDE DEF T, r
  <2>3. req' \in [Handlers -> T]
    BY <2>1, <2>2
  <2> QED  BY <2>3 DEF T
<1>3. UNCHANGED <<redis, quotas, whitelist, time, admitted>>
  BY DEF Begin
<1> QED  BY <1>1, <1>2, <1>3
         DEF Typed, TypeOK, AbsentIsZero, Exists, redis, quotas, time

LEMMA CloseTyped ==
  ASSUME NEW ledger \in [Accounts -> [Slot -> Nat]]
  PROVE  Close(ledger) \in [Accounts -> [Slot -> Nat]]
  BY DEF Close

LEMMA SlotFacts ==
  ASSUME today \in Slot
  PROVE  /\ Tomorrow(today) \in Slot
         /\ Yesterday(today) \in Slot
         /\ Yesterday(Yesterday(today)) \in Slot
         /\ Yesterday(Tomorrow(today)) = today
         /\ Tomorrow(today) # today
         /\ Yesterday(today) # today
         /\ Yesterday(Yesterday(today)) # today
         /\ Yesterday(Yesterday(today)) # Yesterday(today)
         /\ Tomorrow(today) # Yesterday(today)
  BY SlotsAssumption DEF Tomorrow, Yesterday, Slot

LEMMA TickTyped ==
  ASSUME Typed, Tick
  PROVE  Typed'
<1>1. /\ secKey' \in [Accounts -> Counter]
      /\ \A a \in Accounts : ~Exists(secKey'[a]) => secKey'[a].val = 0
  <2>1. \A a \in Accounts : /\ Age(secKey[a]) \in Counter
                            /\ Age(secKey[a]).ttl = 0 => Age(secKey[a]).val = 0
    BY AgeFacts DEF Typed, TypeOK, AbsentIsZero, Exists
  <2>2. secKey' = [a \in Accounts |-> Age(secKey[a])]
    BY DEF Tick
  <2> QED  BY <2>1, <2>2 DEF Exists
<1>2. /\ dayKey' \in [Accounts -> [Slot -> Counter]]
      /\ \A a \in Accounts, s \in Slot : ~Exists(dayKey'[a][s]) => dayKey'[a][s].val = 0
  <2>1. \A a \in Accounts, s \in Slot :
          /\ Age(dayKey[a][s]) \in Counter
          /\ Age(dayKey[a][s]).ttl = 0 => Age(dayKey[a][s]).val = 0
    BY AgeFacts DEF Typed, TypeOK, AbsentIsZero, Exists
  <2>2. dayKey' = [a \in Accounts |-> [s \in Slot |-> Age(dayKey[a][s])]]
    BY DEF Tick
  <2> QED  BY <2>1, <2>2 DEF Exists
<1>3. req' \in [Handlers -> Requests \cup {Idle}]
  <2>1. ASSUME NEW h \in Handlers, Busy(h)
        PROVE  [req[h] EXCEPT !.age = req[h].age + 1] \in Requests
    <3>1. req[h] \in Requests /\ req[h].age \in 0 .. MaxLag
      BY <2>1, BusyFacts DEF Typed
    <3>2. req[h].age < MaxLag
      BY <2>1 DEF Tick
    <3>3. req[h].age + 1 \in 0 .. MaxLag
      BY <3>1, <3>2, LagAssumption
    <3> QED  BY <3>1, <3>3 DEF Requests
  <2>2. req' = [h \in Handlers |-> IF Busy(h) THEN [req[h] EXCEPT !.age = req[h].age + 1]
                                   ELSE Idle]
    BY DEF Tick
  <2> DEFINE T == Requests \cup {Idle}
  <2>3. \A h \in Handlers : (IF Busy(h) THEN [req[h] EXCEPT !.age = req[h].age + 1]
                             ELSE Idle) \in T
    BY <2>1
  <2> HIDE DEF T
  <2>4. req' \in [Handlers -> T]
    BY <2>2, <2>3
  <2> QED  BY <2>4 DEF T
<1>4. clock' \in 0 .. DAY - 1 /\ today' \in Slot
  BY SlotFacts, TimeAssumption DEF Typed, TypeOK, Tick
<1>5. admitted' \in [Accounts -> [Slot -> Nat]] /\ asked' \in [Accounts -> [Slot -> Nat]]
  BY CloseTyped DEF Typed, TypeOK, Tick
<1>6. UNCHANGED <<quotas, whitelist>>
  BY DEF Tick
<1> QED  BY <1>1, <1>2, <1>3, <1>4, <1>5, <1>6 DEF Typed, TypeOK, AbsentIsZero, quotas

LEMMA InitTyped == Init => Typed
  BY TimeAssumption, SlotsAssumption
     DEF Init, Typed, TypeOK, AbsentIsZero, Exists, Absent, Counter, Slot

LEMMA NextTyped == Typed /\ [Next]_vars => Typed'
<1> SUFFICES ASSUME Typed, [Next]_vars PROVE Typed'
  OBVIOUS
<1>1. ASSUME NEW h \in Handlers, NEW a \in Accounts, NEW n \in Costs, Begin(h, a, n)
      PROVE  Typed'
  BY <1>1, BeginTyped
<1>2. ASSUME NEW h \in Handlers, Step(h) \/ ReplyLost(h)
      PROVE  Typed'
  BY <1>2, CommandTyped DEF Step, Commands
<1>3. ASSUME NEW h \in Handlers, Abandon(h)
      PROVE  Typed'
  BY <1>3, DoneTyped DEF Typed, TypeOK, AbsentIsZero, Exists, Abandon, redis, quotas, time
<1>4. ASSUME NEW w \in Whitelists, Restart(w)
      PROVE  Typed'
  <2>1. req' \in [Handlers -> Requests \cup {Idle}]
    BY <1>4 DEF Restart
  <2> QED  BY <1>4, <2>1 DEF Typed, TypeOK, AbsentIsZero, Exists, Restart, redis, quotas, time
<1>5. ASSUME NEW a \in Accounts, NEW q \in SecQuotas, SetSecQuota(a, q)
      PROVE  Typed'
  BY <1>5 DEF Typed, TypeOK, AbsentIsZero, Exists, SetSecQuota, redis, time
<1>6. ASSUME NEW a \in Accounts, NEW q \in DayQuotas, SetDayQuota(a, q)
      PROVE  Typed'
  BY <1>6 DEF Typed, TypeOK, AbsentIsZero, Exists, SetDayQuota, redis, time
<1>7. CASE Tick
  BY <1>7, TickTyped
<1>8. CASE UNCHANGED vars
  BY <1>8 DEF vars, redis, quotas, time, Typed, TypeOK, AbsentIsZero, Exists
<1> QED  BY <1>1, <1>2, <1>3, <1>4, <1>5, <1>6, <1>7, <1>8 DEF Next

LEMMA TypedInvariant == Spec => []Typed
<1> QED  BY InitTyped, NextTyped, PTL DEF Spec

(* The counters, quotas and requests have their types whatever happens.    *)
THEOREM TypeCorrect == Spec => []TypeOK
<1>1. Typed => TypeOK
  BY DEF Typed
<1> QED  BY <1>1, TypedInvariant, PTL

----
(***************************************************************************)
(* Lifetimes: whatever fails, a command finds the counter of its own day.  *)
(***************************************************************************)
Lives == Typed /\ Lifetimes

LEMMA InFlightOpen ==
  ASSUME Lives, NEW h \in Handlers, Busy(h)
  PROVE  Open(req[h].slot)
<1>1. req[h].age \in 0 .. MaxLag /\ clock \in Nat
  BY BusyFacts, TimeAssumption DEF Lives, Typed, TypeOK
<1> QED  BY <1>1, LagAssumption DEF Lives, Lifetimes, InFlight, Open

(* A counter that has 36 hours to live, or no limit, outlives its day and  *)
(* is gone, or stays for good, when the day comes round.                   *)
LEMMA TouchedCounter ==
  ASSUME Lives, NEW s \in Slot, Open(s), NEW t \in {DayTTL, NoTTL}
  PROVE  Outlives(s, t) /\ Dies(s, t)
<1>1. clock \in Nat
  BY TimeAssumption DEF Lives, Typed, TypeOK
<1>2. CASE t = NoTTL
  BY <1>2 DEF Outlives, Dies, NoTTL
<1>3. CASE t = DayTTL
  BY <1>1, <1>3, DayTTLPositive, TimeAssumption, LagAssumption DEF Open, Outlives, Dies
<1> QED  BY <1>2, <1>3

(* A command leaves every request about the slot and of the age it had.    *)
LEMMA CommandInFlight ==
  ASSUME Lives, NEW h \in Handlers,
         \/ Done(h)
         \/ req' = [req EXCEPT ![h].pc = "expire"]
         \/ req' = [req EXCEPT ![h].tries = @ + 1],
         Busy(h), UNCHANGED time
  PROVE  InFlight'
<1> SUFFICES ASSUME NEW g \in Handlers, Busy(g)'
             PROVE  \/ (req[g].slot = today /\ req[g].age <= clock)'
                    \/ (req[g].slot = Yesterday(today) /\ req[g].age > clock)'
  BY DEF InFlight
<1>1. req \in [Handlers -> Requests \cup {Idle}]
  BY DEF Lives, Typed, TypeOK
<1>2. req'[g].slot = req[g].slot /\ req'[g].age = req[g].age /\ Busy(g)
  <2>1. CASE g # h
    BY <1>1, <2>1 DEF Done, Busy
  <2>2. CASE g = h
    <3>1. req[h] \in Requests
      BY BusyFacts DEF Lives, Typed
    <3>2. ~Done(h)
      BY <1>1, <2>2 DEF Busy, Done
    <3>3. CASE req' = [req EXCEPT ![h].pc = "expire"]
      BY <1>1, <2>2, <3>1, <3>3 DEF Requests
    <3>4. CASE req' = [req EXCEPT ![h].tries = @ + 1]
      BY <1>1, <2>2, <3>1, <3>4 DEF Requests
    <3> QED  BY <2>2, <3>2, <3>3, <3>4
  <2> QED  BY <2>1, <2>2
<1> QED  BY <1>2 DEF Lives, Lifetimes, InFlight, time, Yesterday

LEMMA TouchKeepsCounters ==
  ASSUME Lives, NEW a \in Accounts, NEW s \in Slot, Open(s), Touch(a, s), UNCHANGED time
  PROVE  OpenCountersLast' /\ CountersDie'
<1>1. PICK c \in Counter : SetDay(a, s, c) /\ c.ttl \in {dayKey[a][s].ttl, DayTTL, NoTTL}
  BY DEF Touch
<1>2. /\ dayKey'[a][s] = c
      /\ \A b \in Accounts, t \in Slot : b # a \/ t # s => dayKey'[b][t] = dayKey[b][t]
  BY <1>1, SetDayFacts DEF Lives, Typed
<1>3. ASSUME NEW b \in Accounts, NEW t \in Slot
      PROVE  /\ Open(t) /\ Exists(dayKey'[b][t]) => Outlives(t, dayKey'[b][t].ttl)
             /\ Dies(t, dayKey'[b][t].ttl)
  <2>1. CASE dayKey'[b][t].ttl = dayKey[b][t].ttl
    BY <2>1 DEF Lives, Lifetimes, OpenCountersLast, CountersDie, Exists
  <2>2. CASE b = a /\ t = s /\ c.ttl \in {DayTTL, NoTTL}
    BY <1>2, <2>2, TouchedCounter
  <2> QED  BY <1>1, <1>2, <2>1, <2>2
<1>4. \A t, ttl : /\ Open(t)' <=> Open(t)
                  /\ Outlives(t, ttl)' <=> Outlives(t, ttl)
                  /\ Dies(t, ttl)' <=> Dies(t, ttl)
  BY DEF Open, Outlives, Dies, Yesterday, time
<1> QED  BY <1>3, <1>4 DEF OpenCountersLast, CountersDie

LEMMA CommandLives ==
  ASSUME Lives, NEW h \in Handlers, Commands(h)
  PROVE  Lifetimes'
<1> DEFINE a == req[h].acc
           s == req[h].slot
<1>1. Busy(h) /\ Touch(a, s) /\ UNCHANGED time
  BY CommandFacts DEF Lives
<1>2. a \in Accounts /\ s \in Slot /\ Open(s)
  BY <1>1, BusyFacts, InFlightOpen DEF Lives, Typed
<1>3. InFlight'
  BY <1>1, CommandInFlight DEF Commands, Script, WhitelistIncr, WhitelistExpire, ReplyLost
<1>4. OpenCountersLast' /\ CountersDie'
  BY <1>1, <1>2, TouchKeepsCounters
<1> QED  BY <1>3, <1>4 DEF Lifetimes

(* Time: what closes a day, and what a day finds when it begins.           *)
LEMMA TickInFlight ==
  ASSUME Lives, Tick
  PROVE  InFlight'
<1> SUFFICES ASSUME NEW h \in Handlers, Busy(h)'
             PROVE  \/ (req[h].slot = today /\ req[h].age <= clock)'
                    \/ (req[h].slot = Yesterday(today) /\ req[h].age > clock)'
  BY DEF InFlight
<1>1. Busy(h) /\ req'[h] = [req[h] EXCEPT !.age = req[h].age + 1]
  <2>1. req' = [g \in Handlers |-> IF Busy(g) THEN [req[g] EXCEPT !.age = req[g].age + 1]
                                   ELSE Idle]
    BY DEF Tick
  <2>2. req'[h] = IF Busy(h) THEN [req[h] EXCEPT !.age = req[h].age + 1] ELSE Idle
    BY <2>1
  <2>3. Busy(h)
    BY <2>2 DEF Busy
  <2> QED  BY <2>2, <2>3
<1>2. req[h] \in Requests /\ req[h].age \in 0 .. MaxLag
  BY <1>1, BusyFacts DEF Lives, Typed
<1>3. req'[h].slot = req[h].slot /\ req'[h].age = req[h].age + 1
  BY <1>1, <1>2 DEF Requests
<1>4. req[h].age \in Nat /\ req[h].age < MaxLag /\ clock \in 0 .. DAY - 1
      /\ 2 * MaxLag <= DAY /\ MaxLag \in Nat /\ DAY \in Nat \ {0}
  BY <1>1, <1>2, LagAssumption, TimeAssumption DEF Tick, Lives, Typed, TypeOK
<1>5. \/ req[h].slot = today /\ req[h].age <= clock
      \/ req[h].slot = Yesterday(today) /\ req[h].age > clock
  BY <1>1 DEF Lives, Lifetimes, InFlight
<1>6. CASE clock + 1 < DAY
  <2>1. clock' = clock + 1 /\ today' = today
    BY <1>6 DEF Tick
  <2> QED  BY <1>3, <1>4, <1>5, <2>1 DEF Yesterday
<1>7. CASE ~(clock + 1 < DAY)
  <2>1. clock' = 0 /\ today' = Tomorrow(today)
    BY <1>7 DEF Tick
  <2>2. req[h].slot = today
    BY <1>4, <1>5, <1>7
  <2>3. Yesterday(Tomorrow(today)) = today
    BY SlotFacts DEF Lives, Typed, TypeOK
  <2>4. Yesterday(today)' = today
    BY <2>1, <2>3 DEF Yesterday
  <2> QED  BY <1>3, <1>4, <2>1, <2>2, <2>4
<1> QED  BY <1>6, <1>7

LEMMA TickKey ==
  ASSUME Lives, Tick, NEW a \in Accounts, NEW s \in Slot
  PROVE  /\ dayKey[a][s].ttl \in Int /\ dayKey[a][s].ttl >= -1
         /\ dayKey'[a][s].ttl = IF dayKey[a][s].ttl > 0 THEN dayKey[a][s].ttl - 1
                                ELSE dayKey[a][s].ttl
         /\ dayKey'[a][s].val = IF dayKey[a][s].ttl = 1 THEN 0 ELSE dayKey[a][s].val
<1>1. dayKey[a][s] \in Counter /\ (dayKey[a][s].ttl = 0 => dayKey[a][s].val = 0)
  BY DEF Lives, Typed, TypeOK, AbsentIsZero, Exists
<1>2. dayKey'[a][s] = Age(dayKey[a][s])
  BY DEF Tick
<1> QED  BY <1>1, <1>2, AgeFacts DEF Counter, NoTTL

LEMMA TickSameDay ==
  ASSUME Lives, Tick, clock + 1 < DAY
  PROVE  OpenCountersLast' /\ CountersDie'
<1>1. clock' = clock + 1 /\ today' = today
  BY DEF Tick
<1>2. clock \in Nat /\ DAY \in Nat /\ MaxLag \in Nat /\ DayTTL \in Nat
  BY TimeAssumption, LagAssumption DEF Lives, Typed, TypeOK
<1>3. ASSUME NEW a \in Accounts, NEW s \in Slot
      PROVE  /\ Open(s)' /\ Exists(dayKey[a][s])' => Outlives(s, dayKey[a][s].ttl)'
             /\ Dies(s, dayKey[a][s].ttl)'
  <2>0. PICK t \in Int, u \in Int : t = dayKey[a][s].ttl /\ u = dayKey'[a][s].ttl
    BY TickKey
  <2>1. t \in Int /\ t >= -1 /\ u = (IF t > 0 THEN t - 1 ELSE t)
    BY <2>0, TickKey
  <2>2. /\ Open(s) /\ t # 0 => Outlives(s, t)
        /\ Dies(s, t)
    BY <2>0 DEF Lives, Lifetimes, OpenCountersLast, CountersDie, Exists
  <2>3. Open(s)' => Open(s) /\ (s = today \/ clock + 1 < MaxLag)
    BY <1>1, <1>2 DEF Open, Yesterday
  <2>4. Open(s)' /\ u # 0 => Outlives(s, u)'
    BY <1>1, <1>2, <2>1, <2>2, <2>3 DEF Outlives, NoTTL
  <2>5. Dies(s, u)'
    BY <1>1, <1>2, <2>1, <2>2 DEF Dies, Yesterday
  <2> QED  BY <2>0, <2>4, <2>5 DEF Exists, Outlives, Dies
<1> QED  BY <1>3 DEF OpenCountersLast, CountersDie

(* Midnight: what is today afterwards was neither today nor yesterday.     *)
LEMMA MidnightFacts ==
  ASSUME Lives, Tick, ~(clock + 1 < DAY)
  PROVE  /\ clock' = 0 /\ today' = Tomorrow(today) /\ admitted' = Close(admitted)
         /\ asked' = Close(asked)
         /\ clock = DAY - 1 /\ DAY \in Nat \ {0} /\ MaxLag \in Nat /\ DayTTL \in Nat
         /\ 2 * DayTTL = 3 * DAY /\ 2 * MaxLag <= DAY
         /\ today' \in Slot /\ today' # today /\ today' # Yesterday(today)
         /\ Yesterday(today)' = today
         /\ Yesterday(Yesterday(today))' = Yesterday(today)
         /\ \A s \in Slot : Open(s)' <=> s = today' \/ (s = today /\ MaxLag > 0)
<1>1. /\ clock' = 0 /\ today' = Tomorrow(today) /\ admitted' = Close(admitted)
      /\ asked' = Close(asked)
  BY DEF Tick
<1>2. /\ clock = DAY - 1 /\ DAY \in Nat \ {0} /\ MaxLag \in Nat /\ DayTTL \in Nat
      /\ 2 * DayTTL = 3 * DAY /\ 2 * MaxLag <= DAY
  BY TimeAssumption, LagAssumption DEF Lives, Typed, TypeOK
<1>3. /\ today' \in Slot /\ today' # today /\ today' # Yesterday(today)
      /\ Yesterday(today)' = today
      /\ Yesterday(Yesterday(today))' = Yesterday(today)
  <2>1. today \in Slot
    BY DEF Lives, Typed, TypeOK
  <2> QED  BY <1>1, <2>1, SlotFacts DEF Yesterday
<1>4. \A s \in Slot : Open(s)' <=> s = today' \/ (s = today /\ MaxLag > 0)
  BY <1>1, <1>2, <1>3 DEF Open
<1> QED  BY <1>1, <1>2, <1>3, <1>4

(* No counter with a time to live is left for the day that begins.         *)
LEMMA MidnightKey ==
  ASSUME Lives, Tick, ~(clock + 1 < DAY), NEW a \in Accounts, NEW s \in Slot,
         s # today, s # Yesterday(today)
  PROVE  dayKey'[a][s].ttl \in {0, NoTTL}
<1>1. PICK t \in Int, u \in Int : t = dayKey[a][s].ttl /\ u = dayKey'[a][s].ttl
  BY TickKey
<1>2. t >= -1 /\ u = (IF t > 0 THEN t - 1 ELSE t)
  BY <1>1, TickKey
<1>3. Dies(s, t)
  BY <1>1 DEF Lives, Lifetimes, CountersDie
<1>4. u \in {0, NoTTL}
  BY <1>2, <1>3, MidnightFacts DEF Dies, NoTTL
<1> QED  BY <1>1, <1>4

LEMMA TickMidnight ==
  ASSUME Lives, Tick, ~(clock + 1 < DAY)
  PROVE  OpenCountersLast' /\ CountersDie'
<1>1. clock' = 0 /\ today' = Tomorrow(today)
  BY DEF Tick
<1>2. /\ clock = DAY - 1 /\ DAY \in Nat \ {0} /\ MaxLag \in Nat /\ DayTTL \in Nat
      /\ 2 * DayTTL = 3 * DAY /\ 2 * MaxLag <= DAY
  BY MidnightFacts
<1>3. /\ today' \in Slot /\ today' # today /\ today' # Yesterday(today)
      /\ Yesterday(today)' = today
      /\ Yesterday(Yesterday(today))' = Yesterday(today)
      /\ \A s \in Slot : Open(s)' <=> s = today' \/ (s = today /\ MaxLag > 0)
  BY MidnightFacts
<1>4. ASSUME NEW a \in Accounts, NEW s \in Slot
      PROVE  /\ Open(s)' /\ Exists(dayKey[a][s])' => Outlives(s, dayKey[a][s].ttl)'
             /\ Dies(s, dayKey[a][s].ttl)'
  <2>0. PICK t \in Int, u \in Int : t = dayKey[a][s].ttl /\ u = dayKey'[a][s].ttl
    BY TickKey
  <2>1. t \in Int /\ t >= -1 /\ u = (IF t > 0 THEN t - 1 ELSE t)
    BY <2>0, TickKey
  <2>2. /\ Open(s) /\ t # 0 => Outlives(s, t)
        /\ Dies(s, t)
    BY <2>0 DEF Lives, Lifetimes, OpenCountersLast, CountersDie, Exists
  <2>3. s # today /\ s # Yesterday(today) => u \in {0, NoTTL}
    BY <2>0, MidnightKey
  <2>4. s = today => Open(s)
    BY DEF Open
  <2>5. Open(s)' /\ u # 0 => Outlives(s, u)'
    <3>1. CASE s = today'
      BY <1>3, <2>3, <3>1 DEF Outlives
    <3>2. CASE s = today
      BY <1>1, <1>2, <1>3, <2>1, <2>2, <2>4, <3>2 DEF Outlives, NoTTL
    <3> QED  BY <1>3, <3>1, <3>2
  <2>6. Dies(s, u)'
    <3>1. CASE s = today
      BY <1>1, <1>2, <1>3, <2>1, <2>2, <3>1 DEF Dies
    <3>2. CASE s = Yesterday(today)
      BY <1>1, <1>2, <1>3, <2>1, <2>2, <3>2 DEF Dies
    <3>3. CASE s # today /\ s # Yesterday(today)
      BY <2>3, <3>3 DEF Dies, NoTTL
    <3> QED  BY <3>1, <3>2, <3>3
  <2> QED  BY <2>0, <2>5, <2>6 DEF Exists, Outlives, Dies
<1> QED  BY <1>4 DEF OpenCountersLast, CountersDie

(* A counter of a day that is still open does not lose its value.          *)
LEMMA TickOpenKey ==
  ASSUME Lives, Tick, NEW a \in Accounts, NEW s \in Slot, Open(s), Open(s)'
  PROVE  dayKey'[a][s].val = dayKey[a][s].val
<1>1. PICK t \in Int : t = dayKey[a][s].ttl
  BY TickKey
<1>2. t # 0 => Outlives(s, t)
  BY <1>1 DEF Lives, Lifetimes, OpenCountersLast, Exists
<1>3. clock \in 0 .. DAY - 1 /\ DAY \in Nat /\ MaxLag \in Nat
  BY TimeAssumption, LagAssumption DEF Lives, Typed, TypeOK
<1>4. t # 1
  <2>1. CASE clock + 1 < DAY
    <3>1. s = today \/ clock + 1 < MaxLag
      BY <1>3, <2>1 DEF Tick, Open, Yesterday
    <3> QED  BY <1>2, <1>3, <2>1, <3>1 DEF Outlives, NoTTL
  <2>2. CASE ~(clock + 1 < DAY)
    <3>1. s = today /\ MaxLag > 0
      BY <2>2, MidnightFacts DEF Open
    <3> QED  BY <1>2, <1>3, <2>2, <3>1 DEF Outlives, NoTTL
  <2> QED  BY <2>1, <2>2
<1> QED  BY <1>1, <1>4, TickKey

(* An action that leaves the counters and the time alone, and drops        *)
(* requests or takes one of today, keeps the lifetimes.                    *)
LEMMA QuietLives ==
  ASSUME Lives, UNCHANGED <<dayKey, time>>,
         \A h \in Handlers : \/ req'[h] = req[h]
                             \/ req'[h] = Idle
                             \/ req'[h].slot = today /\ req'[h].age = 0
  PROVE  Lifetimes'
<1>1. InFlight'
  <2> SUFFICES ASSUME NEW h \in Handlers, Busy(h)'
               PROVE  \/ (req[h].slot = today /\ req[h].age <= clock)'
                      \/ (req[h].slot = Yesterday(today) /\ req[h].age > clock)'
    BY DEF InFlight
  <2>1. clock \in Nat /\ UNCHANGED <<clock, today>>
    BY TimeAssumption DEF Lives, Typed, TypeOK, time
  <2>2. CASE req'[h] = req[h]
    BY <2>1, <2>2 DEF Lives, Lifetimes, InFlight, Busy, Yesterday
  <2>3. CASE req'[h].slot = today /\ req'[h].age = 0
    BY <2>1, <2>3
  <2>4. CASE req'[h] = Idle
    BY <2>4 DEF Busy
  <2> QED  BY <2>2, <2>3, <2>4
<1> QED  BY <1>1
         DEF Lives, Lifetimes, OpenCountersLast, CountersDie, Open, Outlives, Dies, Yesterday, time

LEMMA InitLives == Init => Lives
<1> SUFFICES ASSUME Init PROVE Lifetimes
  BY InitTyped DEF Lives
<1> QED  BY DayTTLPositive, TimeAssumption
         DEF Init, Lifetimes, InFlight, OpenCountersLast, CountersDie, Busy, Exists, Absent, Dies

LEMMA NextLives == Lives /\ [Next]_vars => Lives'
<1> SUFFICES ASSUME Lives, [Next]_vars PROVE Lifetimes'
  BY NextTyped DEF Lives
<1>0. req \in [Handlers -> Requests \cup {Idle}]
  BY DEF Lives, Typed, TypeOK
<1>1. ASSUME NEW h \in Handlers, NEW a \in Accounts, NEW n \in Costs, Begin(h, a, n)
      PROVE  Lifetimes'
  <2>1. UNCHANGED <<dayKey, time>>
    BY <1>1 DEF Begin, redis
  <2>2. \A g \in Handlers : \/ req'[g] = req[g]
                            \/ req'[g].slot = today /\ req'[g].age = 0
    BY <1>0, <1>1 DEF Begin, Request
  <2> QED  BY <2>1, <2>2, QuietLives
<1>2. ASSUME NEW h \in Handlers, Step(h) \/ ReplyLost(h)
      PROVE  Lifetimes'
  BY <1>2, CommandLives DEF Step, Commands
<1>3. ASSUME NEW h \in Handlers, Abandon(h)
      PROVE  Lifetimes'
  <2>1. UNCHANGED <<dayKey, time>>
    BY <1>3 DEF Abandon, redis
  <2>2. \A g \in Handlers : req'[g] = req[g] \/ req'[g] = Idle
    BY <1>0, <1>3 DEF Abandon, Done
  <2> QED  BY <2>1, <2>2, QuietLives
<1>4. ASSUME NEW w \in Whitelists, Restart(w)
      PROVE  Lifetimes'
  <2>1. UNCHANGED <<dayKey, time>> /\ \A g \in Handlers : req'[g] = Idle
    BY <1>4 DEF Restart, redis
  <2> QED  BY <2>1, QuietLives
<1>5. ASSUME UNCHANGED <<dayKey, time, req>>
      PROVE  Lifetimes'
  BY <1>5, QuietLives
<1>6. CASE Tick
  BY <1>6, TickInFlight, TickSameDay, TickMidnight DEF Lifetimes
<1> QED  BY <1>1, <1>2, <1>3, <1>4, <1>5, <1>6
         DEF Next, SetSecQuota, SetDayQuota, vars, redis

LEMMA LivesInvariant == Spec => []Lives
<1> QED  BY InitLives, NextLives, PTL DEF Spec

(* Whatever fails, a command is executed for today or for yesterday, and   *)
(* the counter it finds is the one of that day, whole: it does not die     *)
(* while the day may still be charged, and with a time to live it is gone  *)
(* when its day of the month comes round.                                  *)
THEOREM LifetimesHold == Spec => []Lifetimes
<1>1. Lives => Lifetimes
  BY DEF Lives
<1> QED  BY <1>1, LivesInvariant, PTL

----
(***************************************************************************)
(* The day budget.  A plan is taken never to be lowered: the theorem is    *)
(* about the limiter, not about what a lowered quota ought to mean for the *)
(* units of the day that are already spent.                                *)
(***************************************************************************)
Inv == Typed /\ DayBudgetInv

LEMMA InvLives == Inv => Lives
  BY DEF Inv, DayBudgetInv, Lives

LEMMA QuotaFacts ==
  ASSUME NEW q \in DayQuotas \cup {NoQuota}
  PROVE  q \in Int /\ (q # NoQuota => q \in Nat)
<1>1. CASE q \in DayQuotas
  <2>1. q \in Nat
    BY <1>1, QuotasAssumption
  <2> QED  BY <2>1
<1>2. CASE q = NoQuota
  BY <1>2 DEF NoQuota
<1> QED  BY <1>1, <1>2

LEMMA CommandBudget ==
  ASSUME Inv, NEW h \in Handlers, Commands(h)
  PROVE  AdmittedIsCharged' /\ DayBudget'
<1> DEFINE a == req[h].acc
           s == req[h].slot
           n == req[h].n
<1>1. Busy(h) /\ Touch(a, s) /\ UNCHANGED <<quotas, time>>
  BY CommandFacts DEF Inv
<1>2. a \in Accounts /\ s \in Slot /\ n \in Nat \ {0} /\ Open(s)
  BY <1>1, BusyFacts, InFlightOpen, InvLives DEF Inv, Typed
<1>3. PICK c \in Counter : /\ SetDay(a, s, c)
                           /\ \/ dayKey[a][s].val <= c.val
                              \/ dayQuota[a] # NoQuota /\ dayQuota[a] = c.val
  BY <1>1 DEF Touch
<1>4. /\ dayKey'[a][s] = c
      /\ \A b \in Accounts, t \in Slot : b # a \/ t # s => dayKey'[b][t] = dayKey[b][t]
  BY <1>2, <1>3, SetDayFacts DEF Inv, Typed
<1>5. /\ \A b \in Accounts, t \in Slot :
           /\ admitted[b][t] \in Nat
           /\ dayKey[b][t].val \in Nat
           /\ Open(t) => admitted[b][t] <= dayKey[b][t].val
           /\ admitted[b][t] # 0 => admitted[b][t] <= dayQuota[b]
      /\ dayQuota[a] \in Int /\ c.val \in Nat
  <2>1. \A b \in Accounts, t \in Slot : admitted[b][t] \in Nat /\ dayKey[b][t] \in Counter
    BY DEF Inv, Typed, TypeOK
  <2>2. \A b \in Accounts, t \in Slot : dayKey[b][t].val \in Nat
    BY <2>1 DEF Counter
  <2>3. dayQuota[a] \in Int
    <3>1. dayQuota[a] \in DayQuotas \cup {NoQuota}
      BY <1>2 DEF Inv, Typed, TypeOK
    <3> QED  BY <3>1, QuotaFacts
  <2>4. c.val \in Nat
    BY DEF Counter
  <2> QED  BY <2>1, <2>2, <2>3, <2>4 DEF Inv, DayBudgetInv, AdmittedIsCharged, DayBudget
<1>6. \A t : Open(t)' <=> Open(t)
  BY <1>1 DEF Open, Yesterday, time
<1>7. CASE UNCHANGED admitted
  <2>1. ASSUME NEW b \in Accounts, NEW t \in Slot, Open(t)
        PROVE  admitted[b][t] <= dayKey'[b][t].val
    BY <1>3, <1>4, <1>5, <2>1
  <2> QED  BY <1>1, <1>5, <1>6, <1>7, <2>1 DEF AdmittedIsCharged, DayBudget, quotas
<1>8. CASE Accept(a, s, n) /\ admitted' = [admitted EXCEPT ![a][s] = @ + n]
  <2>1. /\ dayKey'[a][s].val = dayKey[a][s].val + n
        /\ dayKey[a][s].val + n <= dayQuota[a]
    BY <1>2, <1>8, AcceptFacts DEF Inv
  <2>2. /\ admitted'[a][s] = admitted[a][s] + n
        /\ \A b \in Accounts, t \in Slot : b # a \/ t # s => admitted'[b][t] = admitted[b][t]
    BY <1>2, <1>8 DEF Inv, Typed, TypeOK
  <2>3. admitted'[a][s] <= dayKey'[a][s].val /\ admitted'[a][s] <= dayQuota[a]
    BY <1>2, <1>5, <2>1, <2>2
  <2>4. ASSUME NEW b \in Accounts, NEW t \in Slot
        PROVE  /\ Open(t) => admitted'[b][t] <= dayKey'[b][t].val
               /\ admitted'[b][t] # 0 => admitted'[b][t] <= dayQuota[b]
    <3>1. CASE b = a /\ t = s
      BY <2>3, <3>1
    <3>2. CASE b # a \/ t # s
      <4>1. admitted'[b][t] = admitted[b][t] /\ dayKey'[b][t] = dayKey[b][t]
        BY <1>4, <2>2, <3>2
      <4> QED  BY <1>5, <4>1
    <3> QED  BY <3>1, <3>2
  <2> QED  BY <1>1, <1>6, <2>4 DEF AdmittedIsCharged, DayBudget, quotas
<1> QED  BY <1>7, <1>8 DEF Commands, Script, WhitelistIncr, WhitelistExpire, ReplyLost

LEMMA TickBudget ==
  ASSUME Inv, Tick
  PROVE  AdmittedIsCharged' /\ DayBudget'
<1>1. /\ \A a \in Accounts, s \in Slot :
           admitted'[a][s] # 0 => /\ admitted'[a][s] = admitted[a][s]
                                  /\ Open(s)' => Open(s)
      /\ UNCHANGED quotas
  <2>1. UNCHANGED quotas
    BY DEF Tick
  <2>2. clock \in Nat /\ MaxLag \in Nat
    BY TimeAssumption, LagAssumption DEF Inv, Typed, TypeOK
  <2>3. CASE clock + 1 < DAY
    BY <2>1, <2>2, <2>3 DEF Tick, Open, Yesterday
  <2>4. CASE ~(clock + 1 < DAY)
    <3>1. admitted' = Close(admitted)
      BY <2>4 DEF Tick
    <3>2. \A a \in Accounts, s \in Slot :
            admitted'[a][s] # 0 => s = today /\ admitted'[a][s] = admitted[a][s]
      BY <3>1 DEF Close
    <3> QED  BY <2>1, <3>2 DEF Open
  <2> QED  BY <2>3, <2>4
<1>2. ASSUME NEW a \in Accounts, NEW s \in Slot, Open(s)'
      PROVE  admitted'[a][s] <= dayKey'[a][s].val
  <2>1. Typed'
    BY NextTyped DEF Inv, Next
  <2>2. dayKey'[a][s] \in Counter
    BY <2>1 DEF Typed, TypeOK
  <2>3. CASE admitted'[a][s] = 0
    BY <2>2, <2>3 DEF Counter
  <2>4. CASE admitted'[a][s] # 0
    <3>1. admitted'[a][s] = admitted[a][s] /\ Open(s)
      BY <1>1, <1>2, <2>4
    <3>2. admitted[a][s] <= dayKey[a][s].val
      BY <3>1 DEF Inv, DayBudgetInv, AdmittedIsCharged
    <3>3. dayKey'[a][s].val = dayKey[a][s].val
      BY <1>2, <3>1, TickOpenKey, InvLives
    <3> QED  BY <3>1, <3>2, <3>3
  <2> QED  BY <2>3, <2>4
<1> QED  BY <1>1, <1>2 DEF AdmittedIsCharged, DayBudget, Inv, DayBudgetInv, quotas

(* An action that leaves the counters, the time and the ledger alone, and  *)
(* lowers no quota, keeps the budget.                                      *)
LEMMA QuietBudget ==
  ASSUME Inv, UNCHANGED <<dayKey, time, admitted>>,
         \A b \in Accounts : dayQuota[b] <= dayQuota'[b] /\ dayQuota'[b] \in Int
  PROVE  AdmittedIsCharged' /\ DayBudget'
<1>1. AdmittedIsCharged'
  BY DEF Inv, DayBudgetInv, AdmittedIsCharged, Open, Yesterday, time
<1>2. ASSUME NEW b \in Accounts, NEW s \in Slot, admitted[b][s] # 0
      PROVE  admitted[b][s] <= dayQuota'[b]
  <2>1. dayQuota[b] \in Int
    BY QuotaFacts DEF Inv, Typed, TypeOK
  <2>2. admitted[b][s] \in Nat /\ admitted[b][s] <= dayQuota[b]
    BY <1>2 DEF Inv, DayBudgetInv, DayBudget, Typed, TypeOK
  <2> QED  BY <2>1, <2>2
<1> QED  BY <1>1, <1>2 DEF DayBudget

LEMMA InitBudget == Init => Inv
<1> SUFFICES ASSUME Init PROVE AdmittedIsCharged /\ DayBudget
  BY InitLives DEF Inv, DayBudgetInv, Lives
<1> QED  BY DEF Init, AdmittedIsCharged, DayBudget, Absent

LEMMA NextBudget == ~Downgrades /\ Inv /\ [Next]_vars => Inv'
<1> SUFFICES ASSUME ~Downgrades, Inv, [Next]_vars PROVE AdmittedIsCharged' /\ DayBudget'
  BY InvLives, NextLives DEF Inv, DayBudgetInv, Lives
<1>1. ASSUME NEW h \in Handlers, Step(h) \/ ReplyLost(h)
      PROVE  AdmittedIsCharged' /\ DayBudget'
  BY <1>1, CommandBudget DEF Step, Commands
<1>2. CASE Tick
  BY <1>2, TickBudget
<1>3. \A b \in Accounts : dayQuota[b] \in Int
  BY QuotaFacts DEF Inv, Typed, TypeOK
<1>4. CASE UNCHANGED <<dayKey, dayQuota, time, admitted>>
  BY <1>3, <1>4, QuietBudget
<1>5. ASSUME NEW a \in Accounts, NEW q \in DayQuotas, SetDayQuota(a, q)
      PROVE  AdmittedIsCharged' /\ DayBudget'
  <2>1. /\ UNCHANGED <<dayKey, time, admitted>>
        /\ q >= dayQuota[a]
        /\ dayQuota' = [dayQuota EXCEPT ![a] = q]
    BY <1>5 DEF SetDayQuota, redis
  <2>2. q \in Int
    BY QuotaFacts
  <2>3. \A b \in Accounts : dayQuota[b] <= dayQuota'[b] /\ dayQuota'[b] \in Int
    <3>1. \A b \in Accounts : dayQuota'[b] = IF b = a THEN q ELSE dayQuota[b]
      BY <2>1 DEF Inv, Typed, TypeOK
    <3> QED  BY <1>3, <2>1, <2>2, <3>1
  <2> QED  BY <2>1, <2>3, QuietBudget
<1> QED  BY <1>1, <1>2, <1>4, <1>5
         DEF Next, Begin, Abandon, Restart, SetSecQuota, vars, redis, quotas

LEMMA BudgetInvariant ==
  ASSUME ~Downgrades
  PROVE  Spec => []Inv
<1>1. Inv /\ [Next]_vars => Inv'
  BY NextBudget
<1> QED  BY <1>1, InitBudget, PTL DEF Spec

(* With plans that are never lowered, no account is let through for more   *)
(* than its quota of a day: any number of handlers, any cost, any delay    *)
(* of Redis up to half a day, lost replies, retries and crashes included.  *)
THEOREM DayBudgetHolds ==
  ASSUME ~Downgrades
  PROVE  Spec => []DayBudget
<1>1. Inv => DayBudget
  BY DEF Inv, DayBudgetInv
<1> QED  BY <1>1, BudgetInvariant, PTL

----
(* Every step of the limiter is a step of the ledger, or none.             *)
LEMMA LedgerStep ==
  ASSUME ~Downgrades, Inv, [Next]_vars
  PROVE  [Ledger!Next]_<<admitted, dayQuota>>
<1>0. SUFFICES ASSUME ~UNCHANGED <<admitted, dayQuota>>
               PROVE  Ledger!Next
  OBVIOUS
<1>1. ASSUME NEW h \in Handlers, Script(h)
      PROVE  Ledger!Next
  <2> DEFINE a == req[h].acc
             s == req[h].slot
             n == req[h].n
  <2>1. Accept(a, s, n) /\ admitted' = [admitted EXCEPT ![a][s] = @ + n] /\ UNCHANGED quotas
    BY <1>0, <1>1 DEF Script, quotas
  <2>2. Busy(h)
    BY <1>1, PcBusy DEF Script
  <2>3. a \in Accounts /\ s \in Slot /\ n \in Costs /\ n \in Nat \ {0} /\ Open(s)
    BY <2>2, BusyFacts, InFlightOpen, InvLives DEF Inv, Typed
  <2>4. dayQuota[a] # NoQuota /\ dayKey[a][s].val + n <= dayQuota[a]
    BY <2>1, <2>3, AcceptFacts DEF Inv
  <2>5. admitted[a][s] <= dayKey[a][s].val
    BY <2>3 DEF Inv, DayBudgetInv, AdmittedIsCharged
  <2>6. dayQuota[a] \in Int /\ admitted[a][s] \in Nat /\ dayKey[a][s].val \in Nat
    <3>1. dayQuota[a] \in DayQuotas \cup {NoQuota} /\ admitted[a][s] \in Nat
          /\ dayKey[a][s] \in Counter
      BY <2>3 DEF Inv, Typed, TypeOK
    <3> QED  BY <3>1, QuotaFacts DEF Counter
  <2>7. admitted[a][s] + n <= dayQuota[a]
    BY <2>3, <2>4, <2>5, <2>6
  <2>8. Ledger!Spend(a, s, n)
    BY <2>1, <2>4, <2>7 DEF Ledger!Spend, quotas
  <2> QED  BY <2>3, <2>8 DEF Ledger!Next
<1>2. ASSUME NEW a \in Accounts, NEW q \in DayQuotas, SetDayQuota(a, q)
      PROVE  Ledger!Next
  BY <1>2 DEF SetDayQuota, Ledger!Next, Ledger!Raise
<1>3. CASE Tick
  <2>1. admitted' = Close(admitted) /\ UNCHANGED dayQuota
    BY <1>0, <1>3 DEF Tick, quotas
  <2>2. today \in Slot
    BY DEF Inv, Typed, TypeOK
  <2> QED  BY <2>1, <2>2 DEF Close, Ledger!Next, Ledger!NewDay
<1> QED  BY <1>0, <1>1, <1>2, <1>3
         DEF Next, Step, vars, quotas, Begin, WhitelistIncr, WhitelistExpire, Abandon,
             ReplyLost, Restart, SetSecQuota

(* The limiter implements the ledger of units per day.                     *)
THEOREM LedgerImplemented ==
  ASSUME ~Downgrades
  PROVE  Spec => LedgerSpec
<1>1. Init => Ledger!Init
  BY DEF Init, Ledger!Init
<1>2. Inv /\ [Next]_vars => [Ledger!Next]_<<admitted, dayQuota>>
  BY LedgerStep
<1> QED  BY <1>1, <1>2, BudgetInvariant, PTL DEF Spec, LedgerSpec, Ledger!Spec

----
(* The counter of the second: who opens it pays for how long it lives.     *)
LEMMA ChargeSecondBounded ==
  ASSUME Typed, SecKeyBounded, NEW a \in Accounts, NEW n \in Costs,
         secKey' = [secKey EXCEPT ![a] = ChargedSec(a, n)]
  PROVE  SecKeyBounded'
<1>1. secKey[a] \in Counter /\ (secKey[a].ttl = 0 => secKey[a].val = 0)
  BY DEF Typed, TypeOK, AbsentIsZero, Exists
<1>2. n \in Nat \ {0} /\ n * SEC \in Nat \ {0}
  <2>1. n \in Nat \ {0}
    BY CostsAssumption
  <2> QED  BY <2>1, TimeAssumption
<1>3. ChargedSec(a, n).ttl = IF secKey[a].val = 0 THEN n * SEC ELSE secKey[a].ttl
  BY <1>1, <1>2, ChargedFacts DEF ChargedSec
<1>4. ASSUME NEW b \in Accounts, Exists(secKey'[b])
      PROVE  \E m \in Costs : secKey'[b].ttl \in 1 .. m * SEC
  <2>1. CASE secKey'[b].ttl = secKey[b].ttl
    BY <1>4, <2>1 DEF SecKeyBounded, Exists
  <2>2. CASE b = a /\ secKey'[b].ttl = n * SEC
    <3>1. n * SEC \in 1 .. n * SEC
      BY <1>2
    <3> QED  BY <2>2, <3>1
  <2> QED  BY <1>3, <2>1, <2>2 DEF Typed, TypeOK
<1> QED  BY <1>4 DEF SecKeyBounded

LEMMA TickSecBounded ==
  ASSUME Typed, SecKeyBounded, Tick
  PROVE  SecKeyBounded'
<1>1. ASSUME NEW a \in Accounts, Exists(secKey'[a])
      PROVE  \E m \in Costs : secKey'[a].ttl \in 1 .. m * SEC
  <2>1. secKey[a] \in Counter /\ (secKey[a].ttl = 0 => secKey[a].val = 0)
        /\ secKey'[a] = Age(secKey[a])
    BY DEF Typed, TypeOK, AbsentIsZero, Exists, Tick
  <2>2. secKey'[a].ttl = IF secKey[a].ttl > 0 THEN secKey[a].ttl - 1 ELSE secKey[a].ttl
    BY <2>1, AgeFacts
  <2>3. secKey[a].ttl \in Nat \cup {NoTTL}
    BY <2>1 DEF Counter
  <2>4. Exists(secKey[a])
    BY <1>1, <2>2, <2>3 DEF Exists, NoTTL
  <2>5. PICK m \in Costs : secKey[a].ttl \in 1 .. m * SEC
    BY <2>4 DEF SecKeyBounded
  <2>6. m * SEC \in Nat
    <3>1. m \in Nat
      BY CostsAssumption
    <3> QED  BY <3>1, TimeAssumption
  <2>7. secKey'[a].ttl \in 1 .. m * SEC
    BY <1>1, <2>2, <2>5, <2>6 DEF Exists
  <2> QED  BY <2>7
<1> QED  BY <1>1 DEF SecKeyBounded

LEMMA NextSecBounded == Typed /\ SecKeyBounded /\ [Next]_vars => SecKeyBounded'
<1> SUFFICES ASSUME Typed, SecKeyBounded, [Next]_vars PROVE SecKeyBounded'
  OBVIOUS
<1>1. ASSUME NEW h \in Handlers, req[h].pc = "script",
             ScriptRuns(req[h].acc, req[h].slot, req[h].n)
      PROVE  SecKeyBounded'
  <2>1. req[h].acc \in Accounts /\ req[h].n \in Costs
    BY <1>1, PcBusy, BusyFacts DEF Typed
  <2>2. CASE UNCHANGED secKey
    BY <2>2 DEF SecKeyBounded, Exists
  <2>3. CASE ChargeSecond(req[h].acc, req[h].n)
    BY <2>1, <2>3, ChargeSecondBounded DEF ChargeSecond
  <2> QED  BY <1>1, <2>2, <2>3
           DEF ScriptRuns, Refuse, Accept, NoPlan, OverSecond, NoDayPlan, OverDay, PassSecond,
               redis
<1>2. CASE UNCHANGED secKey
  BY <1>2 DEF SecKeyBounded, Exists
<1>3. CASE Tick
  BY <1>3, TickSecBounded
<1> QED  BY <1>1, <1>2, <1>3
         DEF Next, vars, redis, Step, Begin, WhitelistIncr, WhitelistExpire, Script, ScriptRuns,
             Abandon, ReplyLost, Restart, SetSecQuota, SetDayQuota

(* However many requests a second's counter takes, it dies within the      *)
(* seconds its first one cost.                                             *)
THEOREM SecKeyBoundedHolds == Spec => []SecKeyBounded
<1>1. Init => SecKeyBounded
  BY DEF Init, SecKeyBounded, Exists, Absent
<1> QED  BY <1>1, TypedInvariant, NextSecBounded, PTL DEF Spec

----
(* A counter of a second that is there holds something: the script takes   *)
(* it for new, and gives it a time to live, exactly when it is.            *)
Holding == \A a \in Accounts : Exists(secKey[a]) => secKey[a].val > 0

NotRenewed ==
  \A a \in Accounts :
    Exists(secKey[a]) /\ Exists(secKey[a])' => secKey[a].ttl' <= secKey[a].ttl

LEMMA ChargeSecondKeeps ==
  ASSUME Typed, Holding, NEW a \in Accounts, NEW n \in Costs,
         secKey' = [secKey EXCEPT ![a] = ChargedSec(a, n)]
  PROVE  Holding' /\ NotRenewed
<1>1. /\ secKey \in [Accounts -> Counter]
      /\ \A b \in Accounts : secKey[b] \in Counter /\ (secKey[b].ttl = 0 => secKey[b].val = 0)
  BY DEF Typed, TypeOK, AbsentIsZero, Exists
<1>2. n \in Nat \ {0} /\ n * SEC \in Nat \ {0}
  <2>1. n \in Nat \ {0}
    BY CostsAssumption
  <2> QED  BY <2>1, TimeAssumption
<1>3. /\ ChargedSec(a, n).val = secKey[a].val + n
      /\ ChargedSec(a, n).ttl = IF secKey[a].val = 0 THEN n * SEC ELSE secKey[a].ttl
  BY <1>1, <1>2, ChargedFacts DEF ChargedSec
<1>4. secKey'[a].val > 0
  BY <1>1, <1>2, <1>3 DEF Counter
<1>5. Exists(secKey[a]) => secKey'[a].ttl = secKey[a].ttl
  BY <1>1, <1>3 DEF Holding, Counter
<1>6. \A b \in Accounts : b # a => secKey'[b] = secKey[b]
  BY <1>1
<1>7. Holding'
  BY <1>4, <1>6 DEF Holding, Exists
<1>8. ASSUME NEW b \in Accounts, Exists(secKey[b]) PROVE secKey'[b].ttl <= secKey[b].ttl
  <2>1. secKey'[b].ttl = secKey[b].ttl
    BY <1>5, <1>6, <1>8
  <2> QED  BY <1>1, <2>1 DEF Counter, NoTTL
<1> QED  BY <1>7, <1>8 DEF NotRenewed

LEMMA TickKeeps ==
  ASSUME Typed, Holding, Tick
  PROVE  Holding' /\ NotRenewed
<1>1. ASSUME NEW a \in Accounts
      PROVE  /\ Exists(secKey'[a]) => secKey'[a].val > 0
             /\ secKey'[a].ttl <= secKey[a].ttl
  <2>1. secKey[a] \in Counter /\ (secKey[a].ttl = 0 => secKey[a].val = 0)
        /\ secKey'[a] = Age(secKey[a])
    BY DEF Typed, TypeOK, AbsentIsZero, Exists, Tick
  <2>2. /\ secKey'[a].ttl = IF secKey[a].ttl > 0 THEN secKey[a].ttl - 1 ELSE secKey[a].ttl
        /\ secKey'[a].val = IF secKey[a].ttl = 1 THEN 0 ELSE secKey[a].val
    BY <2>1, AgeFacts
  <2>3. secKey[a].ttl \in Nat \cup {NoTTL} /\ secKey[a].val \in Nat
    BY <2>1 DEF Counter
  <2>4. Exists(secKey[a]) => secKey[a].val > 0
    BY DEF Holding
  <2> QED  BY <2>2, <2>3, <2>4 DEF Exists, NoTTL
<1> QED  BY <1>1 DEF Holding, NotRenewed

LEMMA UnchangedKeeps ==
  ASSUME Typed, Holding, UNCHANGED secKey
  PROVE  Holding' /\ NotRenewed
<1>1. \A a \in Accounts : secKey[a].ttl \in Int
  BY DEF Typed, TypeOK, Counter, NoTTL
<1> QED  BY <1>1 DEF Holding, NotRenewed, Exists

LEMMA NextKeeps ==
  ASSUME Typed, Holding, [Next]_vars
  PROVE  Holding' /\ NotRenewed
<1>1. ASSUME NEW h \in Handlers, req[h].pc = "script",
             ScriptRuns(req[h].acc, req[h].slot, req[h].n)
      PROVE  Holding' /\ NotRenewed
  <2>1. req[h].acc \in Accounts /\ req[h].n \in Costs
    BY <1>1, PcBusy, BusyFacts DEF Typed
  <2>2. CASE UNCHANGED secKey
    BY <2>2, UnchangedKeeps
  <2>3. CASE ChargeSecond(req[h].acc, req[h].n)
    BY <2>1, <2>3, ChargeSecondKeeps DEF ChargeSecond
  <2> QED  BY <1>1, <2>2, <2>3
           DEF ScriptRuns, Refuse, Accept, NoPlan, OverSecond, NoDayPlan, OverDay, PassSecond,
               redis
<1>2. CASE UNCHANGED secKey
  BY <1>2, UnchangedKeeps
<1>3. CASE Tick
  BY <1>3, TickKeeps
<1> QED  BY <1>1, <1>2, <1>3
         DEF Next, vars, redis, Step, Begin, WhitelistIncr, WhitelistExpire, Script, ScriptRuns,
             Abandon, ReplyLost, Restart, SetSecQuota, SetDayQuota

(* No request puts off the end of the second's counter it is charged to,   *)
(* however it is answered, repeated or lost: who is refused for the second *)
(* and keeps asking is not kept out by asking.                             *)
THEOREM SecKeyNotRenewedHolds == Spec => SecKeyNotRenewed
<1>1. Init => Holding
  BY DEF Init, Holding, Exists, Absent
<1>2. Typed /\ Holding /\ [Next]_vars => Holding'
  BY NextKeeps
<1>3. Spec => []Holding
  BY <1>1, <1>2, TypedInvariant, PTL DEF Spec
<1>4. Typed /\ Holding /\ [Next]_vars =>
        [\A a \in Accounts :
           Exists(secKey[a]) /\ Exists(secKey[a])' => secKey[a].ttl' <= secKey[a].ttl]_vars
  BY NextKeeps DEF NotRenewed
<1> QED  BY <1>3, <1>4, TypedInvariant, PTL DEF Spec, SecKeyNotRenewed

----
(* The time to live of the day counters, as long as nothing fails between  *)
(* the two commands of a whitelisted request.                              *)
Expiring(h, a, s) == req[h].pc = "expire" /\ req[h].acc = a /\ req[h].slot = s

LEMMA ScriptSetsTTL ==
  ASSUME Typed, NEW a \in Accounts, NEW s \in Slot, NEW n \in Nat \ {0}, ScriptRuns(a, s, n),
         NEW b \in Accounts, NEW t \in Slot, dayKey'[b][t].ttl = NoTTL
  PROVE  dayKey[b][t].ttl = NoTTL
<1> DEFINE c == ChargedDay(a, s, n)
           d == DecrBy(c, c.val - dayQuota[a])
<1>1. c \in Counter /\ c.ttl # 0 /\ c.ttl \in {dayKey[a][s].ttl, DayTTL} /\ DayTTL # NoTTL
  BY ChargedDayFacts, DayTTLPositive DEF NoTTL
<1>2. CASE UNCHANGED dayKey
  BY <1>2
<1>3. CASE SetDay(a, s, c)
  BY <1>1, <1>3, SetDayFacts DEF Typed
<1>4. CASE OverDay(a, s, n)
  <2>1. SetDay(a, s, d) /\ dayQuota[a] # NoQuota /\ c.val > dayQuota[a]
    BY <1>4 DEF OverDay
  <2>2. dayQuota[a] \in Nat
    <3>1. dayQuota[a] \in DayQuotas \cup {NoQuota}
      BY DEF Typed, TypeOK
    <3> QED  BY <2>1, <3>1, QuotaFacts
  <2>3. c.val >= dayQuota[a]
    BY <1>1, <2>1, <2>2 DEF Counter
  <2>4. d \in Counter /\ d.ttl = c.ttl
    BY <1>1, <2>2, <2>3, DecrByFacts
  <2> HIDE DEF c, d
  <2> QED  BY <1>1, <2>1, <2>4, SetDayFacts DEF Typed
<1> QED  BY <1>2, <1>3, <1>4
         DEF ScriptRuns, Refuse, Accept, NoPlan, OverSecond, NoDayPlan, redis

LEMMA NextDayKeyExpires ==
  ASSUME ~Faults, Typed, DayKeyExpires, [Next]_vars
  PROVE  DayKeyExpires'
<1> SUFFICES ASSUME NEW b \in Accounts, NEW t \in Slot, dayKey'[b][t].ttl = NoTTL
             PROVE  \E h \in Handlers : Expiring(h, b, t)'
  BY DEF DayKeyExpires, Expiring
<1>0. req \in [Handlers -> Requests \cup {Idle}]
  BY DEF Typed, TypeOK
<1>1. dayKey[b][t].ttl = NoTTL => \E h \in Handlers : Expiring(h, b, t)
  BY DEF DayKeyExpires, Expiring
<1>2. ASSUME NEW g \in Handlers, dayKey[b][t].ttl = NoTTL,
             \A h \in Handlers \ {g} : req'[h] = req[h],
             req[g].pc # "expire" \/ req[g].acc # b \/ req[g].slot # t
      PROVE  \E h \in Handlers : Expiring(h, b, t)'
  BY <1>1, <1>2 DEF Expiring
<1>3. ASSUME NEW g \in Handlers, Done(g)
      PROVE  \A h \in Handlers \ {g} : req'[h] = req[h]
  BY <1>0, <1>3 DEF Done
<1>4. ASSUME NEW g \in Handlers, Script(g)
      PROVE  \E h \in Handlers : Expiring(h, b, t)'
  <2>1. /\ req[g].acc \in Accounts /\ req[g].slot \in Slot /\ req[g].n \in Nat \ {0}
        /\ ScriptRuns(req[g].acc, req[g].slot, req[g].n)
    BY <1>4, PcBusy, BusyFacts DEF Typed, Script, ScriptRuns
  <2>2. dayKey[b][t].ttl = NoTTL
    BY <2>1, ScriptSetsTTL
  <2> QED  BY <1>2, <1>3, <1>4, <2>2 DEF Script
<1>5. ASSUME NEW g \in Handlers, WhitelistIncr(g)
      PROVE  \E h \in Handlers : Expiring(h, b, t)'
  <2> DEFINE a == req[g].acc
             s == req[g].slot
             n == req[g].n
             c == IncrBy(dayKey[a][s], n)
  <2>1. /\ a \in Accounts /\ s \in Slot /\ n \in Nat \ {0}
        /\ dayKey[a][s] \in Counter /\ req[g] \in Requests
    BY <1>5, PcBusy, BusyFacts DEF Typed, WhitelistIncr
  <2>2. /\ c \in Counter /\ c.val = dayKey[a][s].val + n
        /\ c.ttl = IF dayKey[a][s].ttl = 0 THEN NoTTL ELSE dayKey[a][s].ttl
    BY <2>1, IncrByFacts
  <2>3. SetDay(a, s, c)
    BY <1>5 DEF WhitelistIncr
  <2>4. CASE dayKey[b][t].ttl = NoTTL
    <3>1. \A h \in Handlers \ {g} : req'[h] = req[h]
      BY <1>0, <1>3, <1>5 DEF WhitelistIncr
    <3> QED  BY <1>2, <1>5, <2>4, <3>1 DEF WhitelistIncr
  <2>5. CASE dayKey[b][t].ttl # NoTTL
    <3>1. b = a /\ t = s /\ dayKey[a][s].ttl = 0
      BY <2>1, <2>2, <2>3, <2>5, SetDayFacts DEF Typed
    <3>2. c.val = n
      BY <2>1, <2>2, <3>1 DEF Typed, AbsentIsZero, Exists
    <3>3. req' = [req EXCEPT ![g].pc = "expire"]
      BY <1>5, <3>2 DEF WhitelistIncr
    <3>4. req'[g].pc = "expire" /\ req'[g].acc = a /\ req'[g].slot = s
      BY <1>0, <2>1, <3>3 DEF Requests
    <3> QED  BY <3>1, <3>4 DEF Expiring
  <2> QED  BY <2>4, <2>5
<1>6. ASSUME NEW g \in Handlers, WhitelistExpire(g)
      PROVE  \E h \in Handlers : Expiring(h, b, t)'
  <2> DEFINE a == req[g].acc
             s == req[g].slot
             c == Expire(dayKey[a][s], DayTTL)
  <2>1. a \in Accounts /\ s \in Slot /\ dayKey[a][s] \in Counter
    BY <1>6, PcBusy, BusyFacts DEF Typed, WhitelistExpire
  <2>2. c \in Counter /\ c.ttl # NoTTL
    BY <2>1, DayTTLPositive DEF Counter, Expire, Exists, NoTTL
  <2>3. SetDay(a, s, c)
    BY <1>6 DEF WhitelistExpire
  <2>4. (b # a \/ t # s) /\ dayKey[b][t].ttl = NoTTL
    BY <2>1, <2>2, <2>3, SetDayFacts DEF Typed
  <2> QED  BY <1>2, <1>3, <1>6, <2>4 DEF WhitelistExpire
<1>7. ASSUME NEW g \in Handlers, NEW a \in Accounts, NEW n \in Costs, Begin(g, a, n)
      PROVE  \E h \in Handlers : Expiring(h, b, t)'
  <2>1. dayKey[b][t].ttl = NoTTL /\ req[g].pc # "expire"
    BY <1>7 DEF Begin, redis, Busy, Idle
  <2>2. \A h \in Handlers \ {g} : req'[h] = req[h]
    BY <1>0, <1>7 DEF Begin
  <2> QED  BY <1>2, <2>1, <2>2
<1>8. CASE Tick
  <2>1. dayKey[b][t].ttl = NoTTL
    <3>1. dayKey[b][t] \in Counter /\ (dayKey[b][t].ttl = 0 => dayKey[b][t].val = 0)
          /\ dayKey'[b][t] = Age(dayKey[b][t])
      BY <1>8 DEF Typed, TypeOK, AbsentIsZero, Exists, Tick
    <3> QED  BY <3>1, AgeFacts DEF Counter, NoTTL
  <2>2. PICK h \in Handlers : Expiring(h, b, t)
    BY <1>1, <2>1
  <2>3. Busy(h)
    BY <2>2, PcBusy DEF Expiring
  <2>4. req'[h] = [req[h] EXCEPT !.age = req[h].age + 1] /\ req[h] \in Requests
    BY <1>8, <2>3, BusyFacts DEF Tick, Typed
  <2>5. req'[h].pc = req[h].pc /\ req'[h].acc = req[h].acc /\ req'[h].slot = req[h].slot
    BY <2>4 DEF Requests
  <2> QED  BY <2>2, <2>5 DEF Expiring
<1>9. ASSUME NEW w \in Whitelists, Restart(w)
      PROVE  \E h \in Handlers : Expiring(h, b, t)'
  <2>1. dayKey[b][t].ttl = NoTTL /\ \A h \in Handlers : req[h].pc = "idle"
    BY <1>9 DEF Restart, redis, Busy, Idle
  <2> QED  BY <1>1, <2>1 DEF Expiring
<1>10. CASE UNCHANGED <<dayKey, req>>
  BY <1>1, <1>10 DEF Expiring
<1> QED  BY <1>4, <1>5, <1>6, <1>7, <1>8, <1>9, <1>10
         DEF Next, Step, Abandon, ReplyLost, SetSecQuota, SetDayQuota, vars, redis

(* Without faults every day counter gets its 36 hours to live: only the    *)
(* whitelisted request that created it may still be about to set them.     *)
THEOREM DayKeyExpiresHolds ==
  ASSUME ~Faults
  PROVE  Spec => []DayKeyExpires
<1>1. Init => DayKeyExpires
  BY DEF Init, DayKeyExpires, Absent, NoTTL
<1>2. Typed /\ DayKeyExpires /\ [Next]_vars => DayKeyExpires'
  BY NextDayKeyExpires
<1> QED  BY <1>1, <1>2, TypedInvariant, PTL DEF Spec

----
(***************************************************************************)
(* Nobody is billed for what was not asked for.  Between the moment it is  *)
(* asked for and the moment it is charged, a unit is in a request under    *)
(* way: the counter of a day and the requests that may still add to it are *)
(* together within what was asked for that day.                            *)
(***************************************************************************)
Coming(h, a, s) ==
  IF req[h].pc \in {"script", "incr"} /\ req[h].acc = a /\ req[h].slot = s
  THEN req[h].n ELSE 0

Pending(a, s) == SumFunctionOnSet([h \in Handlers |-> Coming(h, a, s)], Handlers)

Covered ==
  \A a \in Accounts, s \in Slot :
    Open(s) => dayKey[a][s].val + Pending(a, s) <= asked[a][s]

DemandInv == Lives /\ DayKeyExpires /\ Covered

Terms ==
  \A a \in Accounts, s \in Slot :
    /\ dayKey[a][s].val \in Nat /\ asked[a][s] \in Nat
    /\ \A h \in Handlers : Coming(h, a, s) \in Nat

LEMMA TermsTyped == Typed => Terms
<1> SUFFICES ASSUME Typed, NEW a \in Accounts, NEW s \in Slot
             PROVE  /\ dayKey[a][s].val \in Nat /\ asked[a][s] \in Nat
                    /\ \A h \in Handlers : Coming(h, a, s) \in Nat
  BY DEF Terms
<1>1. dayKey[a][s].val \in Nat /\ asked[a][s] \in Nat
  BY DEF Typed, TypeOK, Counter
<1>2. ASSUME NEW h \in Handlers PROVE Coming(h, a, s) \in Nat
  <2>1. CASE Busy(h)
    BY <2>1, BusyFacts DEF Typed, Coming
  <2>2. CASE ~Busy(h)
    BY <2>2 DEF Busy, Idle, Coming
  <2> QED  BY <2>1, <2>2
<1> QED  BY <1>1, <1>2

LEMMA TermsTypedNext == Typed' => Terms'
  BY TermsTyped, PTL

LEMMA PendingType ==
  ASSUME Typed, NEW a \in Accounts, NEW s \in Slot
  PROVE  Pending(a, s) \in Nat
<1> DEFINE f == [h \in Handlers |-> Coming(h, a, s)]
<1>1. \A h \in Handlers : f[h] \in Nat
  BY TermsTyped DEF Terms
<1> HIDE DEF f
<1>2. SumFunctionOnSet(f, Handlers) \in Nat
  BY <1>1, HandlersAssumption, SumNat
<1> QED  BY <1>2 DEF Pending, f

LEMMA PendingZero ==
  ASSUME NEW a, NEW s, \A h \in Handlers : Coming(h, a, s) = 0
  PROVE  Pending(a, s) = 0
<1> DEFINE f == [h \in Handlers |-> Coming(h, a, s)]
<1>1. \A h \in Handlers : f[h] = 0
  OBVIOUS
<1> HIDE DEF f
<1>2. SumFunctionOnSet(f, Handlers) = 0
  BY <1>1, HandlersAssumption, SumZero
<1> QED  BY <1>2 DEF Pending, f

(* One handler moves, and the sum with it.                                 *)
LEMMA PendingChange ==
  ASSUME Typed, Typed', NEW h \in Handlers,
         \A g \in Handlers \ {h} : req'[g] = req[g],
         NEW a \in Accounts, NEW s \in Slot
  PROVE  Pending(a, s)' = Pending(a, s) - Coming(h, a, s) + Coming(h, a, s)'
<1> DEFINE f == [g \in Handlers |-> Coming(g, a, s)]
<1>1. PICK k : k = [g \in Handlers |-> Coming(g, a, s)']
  OBVIOUS
<1>2. Pending(a, s)' = SumFunctionOnSet(k, Handlers)
  BY <1>1 DEF Pending
<1>3. \A g \in Handlers : f[g] = Coming(g, a, s) /\ k[g] = Coming(g, a, s)'
  BY <1>1
<1>4. \A g \in Handlers : f[g] \in Int /\ k[g] \in Int
  <2>1. \A g \in Handlers : Coming(g, a, s) \in Nat /\ Coming(g, a, s)' \in Nat
    BY TermsTyped, TermsTypedNext DEF Terms
  <2> QED  BY <1>3, <2>1
<1>5. \A g \in Handlers \ {h} : f[g] = k[g]
  BY <1>3 DEF Coming
<1> HIDE DEF f
<1>6. SumFunctionOnSet(k, Handlers) = SumFunctionOnSet(f, Handlers) - f[h] + k[h]
  BY <1>4, <1>5, HandlersAssumption, SumChange
<1> QED  BY <1>2, <1>3, <1>6 DEF Pending, f

(* A handler's step, with what it takes from the units under way and adds  *)
(* to the counter and to the demand.                                       *)
LEMMA HandlerCovered ==
  ASSUME Typed, Typed', Covered, UNCHANGED time, NEW h \in Handlers,
         \A g \in Handlers \ {h} : req'[g] = req[g],
         \A a \in Accounts, s \in Slot :
           dayKey'[a][s].val + Coming(h, a, s)' + asked[a][s]
             <= dayKey[a][s].val + Coming(h, a, s) + asked'[a][s]
  PROVE  Covered'
<1> SUFFICES ASSUME NEW a \in Accounts, NEW s \in Slot, Open(s)'
             PROVE  dayKey'[a][s].val + Pending(a, s)' <= asked'[a][s]
  BY DEF Covered
<1>1. dayKey[a][s].val + Pending(a, s) <= asked[a][s]
  BY DEF Covered, Open, Yesterday, time
<1>2. Pending(a, s)' = Pending(a, s) - Coming(h, a, s) + Coming(h, a, s)'
  BY PendingChange
<1>3. /\ dayKey[a][s].val \in Nat /\ asked[a][s] \in Nat
      /\ Pending(a, s) \in Nat /\ Coming(h, a, s) \in Nat
  BY TermsTyped, PendingType DEF Terms
<1>4. dayKey'[a][s].val \in Nat /\ asked'[a][s] \in Nat /\ Coming(h, a, s)' \in Nat
  BY TermsTypedNext DEF Terms
<1>5. /\ dayKey'[a][s].val + Coming(h, a, s)' + asked[a][s]
           <= dayKey[a][s].val + Coming(h, a, s) + asked'[a][s]
  OBVIOUS
<1> QED  BY <1>1, <1>2, <1>3, <1>4, <1>5

(* The script charges what the request is for, or less.                    *)
LEMMA ScriptCharges ==
  ASSUME Typed, NEW a \in Accounts, NEW s \in Slot, NEW n \in Nat \ {0}, ScriptRuns(a, s, n)
  PROVE  /\ dayKey'[a][s].val <= dayKey[a][s].val + n
         /\ \A b \in Accounts, t \in Slot : b # a \/ t # s => dayKey'[b][t] = dayKey[b][t]
<1> DEFINE c == ChargedDay(a, s, n)
           q == dayQuota[a]
           d == DecrBy(c, c.val - q)
<1>1. c \in Counter /\ c.val = dayKey[a][s].val + n /\ c.ttl # 0
  BY ChargedDayFacts
<1>2. dayKey[a][s].val \in Nat
  BY TermsTyped DEF Terms
<1>3. CASE UNCHANGED dayKey
  BY <1>2, <1>3
<1>4. CASE SetDay(a, s, c)
  <2>1. /\ dayKey'[a][s] = c
        /\ \A b \in Accounts, t \in Slot : b # a \/ t # s => dayKey'[b][t] = dayKey[b][t]
    BY <1>1, <1>4, SetDayFacts DEF Typed
  <2> QED  BY <1>1, <1>2, <2>1
<1>5. CASE OverDay(a, s, n)
  <2>1. q # NoQuota /\ c.val > q /\ SetDay(a, s, d)
    BY <1>5 DEF OverDay
  <2>2. q \in Nat
    BY <2>1, QuotaFacts DEF Typed, TypeOK
  <2>3. d \in Counter /\ d.val = q
    <3>1. c.val >= q
      BY <1>1, <1>2, <2>1, <2>2
    <3> QED  BY <1>1, <2>2, <3>1, DecrByFacts
  <2> HIDE DEF d
  <2>4. /\ dayKey'[a][s] = d
        /\ \A b \in Accounts, t \in Slot : b # a \/ t # s => dayKey'[b][t] = dayKey[b][t]
    BY <2>1, <2>3, SetDayFacts DEF Typed
  <2> QED  BY <1>1, <1>2, <2>1, <2>2, <2>3, <2>4
<1> QED  BY <1>3, <1>4, <1>5
         DEF ScriptRuns, Refuse, Accept, NoPlan, OverSecond, NoDayPlan, redis

LEMMA StepCovered ==
  ASSUME Typed, Typed', Covered, NEW h \in Handlers, Step(h)
  PROVE  Covered'
<1> DEFINE a == req[h].acc
           s == req[h].slot
           n == req[h].n
<1>1. Commands(h)
  BY DEF Step, Commands
<1>2. Busy(h) /\ UNCHANGED time /\ asked' = asked
  BY <1>1, CommandFacts
<1>3. /\ a \in Accounts /\ s \in Slot /\ n \in Nat \ {0}
      /\ req[h] \in Requests /\ dayKey[a][s] \in Counter
  BY <1>2, BusyFacts DEF Typed
<1>4. req \in [Handlers -> Requests \cup {Idle}]
  BY DEF Typed, TypeOK
<1>5. Done(h) \/ req' = [req EXCEPT ![h].pc = "expire"]
  BY DEF Step, Script, WhitelistIncr, WhitelistExpire
<1>6. (\A g \in Handlers \ {h} : req'[g] = req[g]) /\ req'[h].pc \in {"idle", "expire"}
  <2>1. CASE Done(h)
    BY <1>4, <2>1 DEF Done, Idle
  <2>2. CASE req' = [req EXCEPT ![h].pc = "expire"]
    BY <1>3, <1>4, <2>2 DEF Requests
  <2> QED  BY <1>5, <2>1, <2>2
<1>7. \A b \in Accounts, t \in Slot : Coming(h, b, t)' = 0
  BY <1>6 DEF Coming
<1>8. /\ dayKey'[a][s].val <= dayKey[a][s].val + Coming(h, a, s)
      /\ \A b \in Accounts, t \in Slot : b # a \/ t # s => dayKey'[b][t] = dayKey[b][t]
  <2>1. CASE Script(h)
    <3>1. Coming(h, a, s) = n /\ ScriptRuns(a, s, n)
      BY <2>1 DEF Script, Coming, ScriptRuns
    <3> QED  BY <1>3, <3>1, ScriptCharges
  <2>2. CASE WhitelistIncr(h)
    <3> DEFINE c == IncrBy(dayKey[a][s], n)
    <3>1. Coming(h, a, s) = n /\ SetDay(a, s, c)
      BY <2>2 DEF WhitelistIncr, Coming
    <3>2. c \in Counter /\ c.val = dayKey[a][s].val + n
      BY <1>3, IncrByFacts
    <3> HIDE DEF c
    <3>3. /\ dayKey'[a][s] = c
          /\ \A b \in Accounts, t \in Slot : b # a \/ t # s => dayKey'[b][t] = dayKey[b][t]
      BY <1>3, <3>1, <3>2, SetDayFacts DEF Typed
    <3> QED  BY <1>3, <3>1, <3>2, <3>3 DEF Counter
  <2>3. CASE WhitelistExpire(h)
    <3> DEFINE c == Expire(dayKey[a][s], DayTTL)
    <3>1. Coming(h, a, s) = 0 /\ SetDay(a, s, c)
      BY <2>3 DEF WhitelistExpire, Coming
    <3>2. c \in Counter /\ c.val = dayKey[a][s].val
      BY <1>3, DayTTLPositive DEF Counter, Expire, Exists
    <3> HIDE DEF c
    <3>3. /\ dayKey'[a][s] = c
          /\ \A b \in Accounts, t \in Slot : b # a \/ t # s => dayKey'[b][t] = dayKey[b][t]
      BY <1>3, <3>1, <3>2, SetDayFacts DEF Typed
    <3> QED  BY <1>3, <3>1, <3>2, <3>3 DEF Counter
  <2> QED  BY <2>1, <2>2, <2>3 DEF Step
<1>9. ASSUME NEW b \in Accounts, NEW t \in Slot
      PROVE  dayKey'[b][t].val + Coming(h, b, t)' + asked[b][t]
               <= dayKey[b][t].val + Coming(h, b, t) + asked'[b][t]
  <2>1. /\ dayKey[b][t].val \in Nat /\ asked[b][t] \in Nat /\ Coming(h, b, t) \in Nat
        /\ asked'[b][t] = asked[b][t]
    BY <1>2, TermsTyped DEF Terms
  <2>2. dayKey'[b][t].val \in Nat
    BY TermsTypedNext DEF Terms
  <2>3. dayKey'[b][t].val <= dayKey[b][t].val + Coming(h, b, t)
    <3>1. CASE b = a /\ t = s
      BY <1>8, <3>1
    <3>2. CASE b # a \/ t # s
      BY <1>8, <2>1, <3>2
    <3> QED  BY <3>1, <3>2
  <2> QED  BY <1>7, <2>1, <2>2, <2>3
<1> QED  BY <1>2, <1>6, <1>9, HandlerCovered

LEMMA BeginCovered ==
  ASSUME Typed, Typed', Covered, NEW h \in Handlers, NEW a \in Accounts, NEW n \in Costs,
         Begin(h, a, n)
  PROVE  Covered'
<1>1. /\ UNCHANGED <<dayKey, time>> /\ ~Busy(h)
      /\ asked' = [asked EXCEPT ![a][today] = @ + n]
      /\ req' = [req EXCEPT ![h] =
                   Request(IF a \in whitelist THEN "incr" ELSE "script", a, n)]
  BY DEF Begin, redis
<1>2. /\ req \in [Handlers -> Requests \cup {Idle}] /\ today \in Slot
      /\ asked \in [Accounts -> [Slot -> Nat]] /\ n \in Nat
  BY CostsAssumption DEF Typed, TypeOK
<1>3. \A g \in Handlers \ {h} : req'[g] = req[g]
  BY <1>1, <1>2
<1>4. /\ req'[h].pc \in {"script", "incr"} /\ req'[h].acc = a /\ req'[h].slot = today
      /\ req'[h].n = n
  BY <1>1, <1>2 DEF Request
<1>5. ASSUME NEW b \in Accounts, NEW t \in Slot
      PROVE  dayKey'[b][t].val + Coming(h, b, t)' + asked[b][t]
               <= dayKey[b][t].val + Coming(h, b, t) + asked'[b][t]
  <2>1. Coming(h, b, t) = 0
    BY <1>1 DEF Busy, Idle, Coming
  <2>2. dayKey'[b][t] = dayKey[b][t] /\ dayKey[b][t].val \in Nat /\ asked[b][t] \in Nat
    BY <1>1, TermsTyped DEF Terms
  <2>3. CASE b = a /\ t = today
    <3>1. Coming(h, b, t)' = n
      BY <1>4, <2>3 DEF Coming
    <3>2. asked'[b][t] = asked[b][t] + n
      BY <1>1, <1>2, <2>3
    <3> QED  BY <1>2, <2>1, <2>2, <3>1, <3>2
  <2>4. CASE b # a \/ t # today
    <3>1. Coming(h, b, t)' = 0
      BY <1>4, <2>4 DEF Coming
    <3>2. asked'[b][t] = asked[b][t]
      BY <1>1, <1>2, <2>4
    <3> QED  BY <2>1, <2>2, <3>1, <3>2
  <2> QED  BY <2>3, <2>4
<1> QED  BY <1>1, <1>3, <1>5, HandlerCovered

(* Midnight: the day that begins finds no counter and no request under way.*)
LEMMA TickCovered ==
  ASSUME ~Faults, DemandInv, Lives', DayKeyExpires', Tick
  PROVE  Covered'
<1> SUFFICES ASSUME NEW a \in Accounts, NEW s \in Slot, Open(s)'
             PROVE  dayKey'[a][s].val + Pending(a, s)' <= asked'[a][s]
  BY DEF Covered
<1>1. /\ Typed /\ Typed' /\ Lives /\ DayKeyExpires /\ Covered
  BY DEF DemandInv, Lives
<1>2. Pending(a, s)' = Pending(a, s)
  <2>1. ASSUME NEW h \in Handlers PROVE Coming(h, a, s)' = Coming(h, a, s)
    <3>1. req'[h] = IF Busy(h) THEN [req[h] EXCEPT !.age = req[h].age + 1] ELSE Idle
      BY DEF Tick
    <3>2. CASE Busy(h)
      <4>1. req[h] \in Requests
        BY <1>1, <3>2, BusyFacts DEF Typed
      <4> QED  BY <3>1, <3>2, <4>1 DEF Requests, Coming
    <3>3. CASE ~Busy(h)
      BY <3>1, <3>3 DEF Busy, Coming
    <3> QED  BY <3>2, <3>3
  <2>2. [h \in Handlers |-> Coming(h, a, s)'] = [h \in Handlers |-> Coming(h, a, s)]
    BY <2>1
  <2> QED  BY <2>2 DEF Pending
<1>3. /\ dayKey[a][s].val \in Nat /\ dayKey'[a][s].val \in Nat
      /\ asked[a][s] \in Nat /\ asked'[a][s] \in Nat /\ Pending(a, s) \in Nat
  <2>1. dayKey'[a][s].val \in Nat /\ asked'[a][s] \in Nat
    BY <1>1, TermsTypedNext DEF Terms
  <2> QED  BY <1>1, <2>1, TermsTyped, PendingType DEF Terms
<1>4. ASSUME Open(s), asked'[a][s] = asked[a][s]
      PROVE  dayKey'[a][s].val + Pending(a, s)' <= asked'[a][s]
  <2>1. dayKey'[a][s].val <= dayKey[a][s].val
    BY <1>1, <1>3, TickKey
  <2>2. dayKey[a][s].val + Pending(a, s) <= asked[a][s]
    BY <1>1, <1>4 DEF Covered
  <2> QED  BY <1>2, <1>3, <1>4, <2>1, <2>2
<1>5. CASE clock + 1 < DAY
  <2>1. clock' = clock + 1 /\ today' = today /\ asked' = asked
    BY <1>5 DEF Tick
  <2>2. clock \in Nat /\ MaxLag \in Nat
    BY <1>1, LagAssumption, TimeAssumption DEF Typed, TypeOK
  <2>3. Open(s)
    BY <2>1, <2>2 DEF Open, Yesterday
  <2> QED  BY <1>4, <2>1, <2>3
<1>6. CASE ~(clock + 1 < DAY)
  <2>1. /\ asked' = Close(asked) /\ today' # today /\ today' # Yesterday(today)
        /\ s = today' \/ s = today
    BY <1>1, <1>6, MidnightFacts
  <2>2. CASE s = today
    <3>1. asked'[a][s] = asked[a][s]
      BY <2>1, <2>2 DEF Close
    <3> QED  BY <1>4, <2>2, <3>1 DEF Open
  <2>3. CASE s = today'
    <3>1. \A h \in Handlers : Busy(h) => req[h].slot # s
      BY <1>1, <2>1, <2>3 DEF Lives, Lifetimes, InFlight
    <3>2. Pending(a, s) = 0
      <4>1. \A h \in Handlers : Coming(h, a, s) = 0
        BY <3>1, PcBusy DEF Coming
      <4> QED  BY <4>1, PendingZero
    <3>3. dayKey'[a][s].ttl # NoTTL
      <4> SUFFICES ASSUME dayKey'[a][s].ttl = NoTTL PROVE FALSE
        OBVIOUS
      <4>1. dayKey[a][s].ttl = NoTTL
        BY <1>1, TickKey DEF NoTTL
      <4>2. PICK h \in Handlers : req[h].pc = "expire" /\ req[h].slot = s
        BY <1>1, <4>1 DEF DayKeyExpires
      <4> QED  BY <3>1, <4>2, PcBusy
    <3>4. dayKey'[a][s].ttl = 0
      BY <1>1, <1>6, <2>1, <2>3, <3>3, MidnightKey
    <3>5. dayKey'[a][s].val = 0
      BY <1>1, <3>4 DEF Typed, AbsentIsZero, Exists
    <3> QED  BY <1>2, <1>3, <3>2, <3>5
  <2> QED  BY <2>1, <2>2, <2>3
<1> QED  BY <1>5, <1>6

LEMMA NextDemand == ~Faults /\ DemandInv /\ [Next]_vars => DemandInv'
<1> SUFFICES ASSUME ~Faults, DemandInv, [Next]_vars PROVE DemandInv'
  OBVIOUS
<1>1. Lives' /\ DayKeyExpires' /\ Typed' /\ Typed
  BY NextLives, NextDayKeyExpires DEF DemandInv, Lives
<1> SUFFICES Covered'
  BY <1>1 DEF DemandInv
<1>2. ASSUME NEW h \in Handlers, NEW a \in Accounts, NEW n \in Costs, Begin(h, a, n)
      PROVE  Covered'
  BY <1>1, <1>2, BeginCovered DEF DemandInv
<1>3. ASSUME NEW h \in Handlers, Step(h) PROVE Covered'
  BY <1>1, <1>3, StepCovered DEF DemandInv
<1>4. CASE Tick
  BY <1>1, <1>4, TickCovered
<1>5. ASSUME UNCHANGED <<dayKey, time, asked>>,
             \A h \in Handlers : req'[h] = req[h] \/ (~Busy(h) /\ req'[h] = Idle)
      PROVE  Covered'
  <2>1. \A h \in Handlers : req'[h] = req[h]
    BY <1>5 DEF Busy
  <2>2. ASSUME NEW a \in Accounts, NEW s \in Slot PROVE Pending(a, s)' = Pending(a, s)
    <3>1. [h \in Handlers |-> Coming(h, a, s)'] = [h \in Handlers |-> Coming(h, a, s)]
      BY <2>1 DEF Coming
    <3> QED  BY <3>1 DEF Pending
  <2> QED  BY <1>5, <2>2 DEF DemandInv, Covered, Open, Yesterday, time
<1>6. ASSUME NEW w \in Whitelists, Restart(w) PROVE Covered'
  BY <1>5, <1>6 DEF Restart, redis
<1> QED  BY <1>2, <1>3, <1>4, <1>5, <1>6
         DEF Next, Abandon, ReplyLost, SetSecQuota, SetDayQuota, vars, redis

LEMMA InitDemand == Init => DemandInv
<1> SUFFICES ASSUME Init PROVE DemandInv
  OBVIOUS
<1>1. DayKeyExpires
  BY DEF Init, DayKeyExpires, Absent, NoTTL
<1>2. \A a \in Accounts, s \in Slot : Pending(a, s) = 0
  BY PendingZero DEF Init, Coming, Idle
<1>3. Covered
  BY <1>2 DEF Init, Covered, Absent
<1> QED  BY <1>1, <1>3, InitLives DEF DemandInv

(* Without faults the counter of a day never holds more than the units     *)
(* asked for that day, whichever handlers served them and whenever Redis   *)
(* executed their commands; a day that begins starts from nothing.         *)
THEOREM ChargedWithinDemandHolds ==
  ASSUME ~Faults
  PROVE  Spec => []ChargedWithinDemand
<1>1. DemandInv => ChargedWithinDemand
  <2> SUFFICES ASSUME DemandInv, NEW a \in Accounts, NEW s \in Slot, Open(s)
               PROVE  dayKey[a][s].val <= asked[a][s]
    BY DEF ChargedWithinDemand
  <2>1. dayKey[a][s].val + Pending(a, s) <= asked[a][s] /\ Typed
    BY DEF DemandInv, Covered, Lives
  <2>2. dayKey[a][s].val \in Nat /\ asked[a][s] \in Nat /\ Pending(a, s) \in Nat
    BY <2>1, TermsTyped, PendingType DEF Terms
  <2> QED  BY <2>1, <2>2
<1>2. DemandInv /\ [Next]_vars => DemandInv'
  BY NextDemand
<1> QED  BY <1>1, <1>2, InitDemand, PTL DEF Spec

----
(***************************************************************************)
(* The limit per second, as the upstream nodes see it.  A window is opened *)
(* by the request that creates the counter, and lasts until the counter    *)
(* dies, at least a second later: a second reaches back into one window    *)
(* before the running one, at most, and neither let more through than a    *)
(* quota of its time.                                                      *)
(***************************************************************************)
Since(f, w)  == SumFunctionOnSet(f, {i \in Ago : i <= w})
Before(f, w) == SumFunctionOnSet(f, {i \in Ago : i > w})

(* The counter c of a window opened w ticks ago, and the history f.        *)
Window(c, f, w) ==
  /\ c.val > 0
  /\ \E n \in Costs : c.ttl + w = n * SEC /\ w < n * SEC
  /\ Since(f, w) <= c.val
  /\ \E q \in SecQuotas : Since(f, w) <= q
  /\ \E q \in SecQuotas : Before(f, w) <= q

Within(c, f) ==
  \/ Exists(c) /\ \E w \in Nat : Window(c, f, w)
  \/ ~Exists(c) /\ f[0] = 0 /\ \E q \in SecQuotas : SumFunctionOnSet(f, Ago) <= q

RecentInv ==
  /\ recent \in [Accounts -> [Ago -> Nat]]
  /\ \A a \in Accounts : Within(secKey[a], recent[a])

LEMMA AgoFacts == IsFiniteSet(Ago) /\ 0 \in Ago /\ Ago \subseteq Nat
<1>1. IsFiniteSet(0 .. SEC - 1)
  BY TimeAssumption, FS_Interval
<1> QED  BY <1>1, TimeAssumption DEF Ago

LEMMA CostFacts ==
  ASSUME NEW n \in Costs
  PROVE  n \in Nat \ {0} /\ n * SEC \in Nat /\ n * SEC >= SEC
<1>1. n \in Nat \ {0}
  BY CostsAssumption
<1>2. \A k \in Nat \ {0} : k * SEC = SEC + (k - 1) * SEC /\ (k - 1) * SEC \in Nat
  BY TimeAssumption
<1> QED  BY <1>1, <1>2, TimeAssumption

(* Parts of a history are naturals, each no more than a greater part.      *)
LEMMA PartFacts ==
  ASSUME NEW f \in [Ago -> Nat], NEW T \in SUBSET Ago, NEW U \in SUBSET T
  PROVE  /\ SumFunctionOnSet(f, T) \in Nat /\ SumFunctionOnSet(f, U) \in Nat
         /\ SumFunctionOnSet(f, U) <= SumFunctionOnSet(f, T)
<1>1. IsFiniteSet(T) /\ IsFiniteSet(U) /\ (\A i \in T : f[i] \in Nat) /\ (\A i \in U : f[i] \in Nat)
  BY AgoFacts, FS_Subset
<1>2. SumFunctionOnSet(f, T) \in Nat /\ SumFunctionOnSet(f, U) \in Nat
  BY <1>1, SumNat
<1> QED  BY <1>1, <1>2, SumSubset

(* A tick moves the history by one.                                        *)
Shifted(f) == [i \in Ago |-> IF i = 0 THEN 0 ELSE f[i - 1]]

LEMMA ShiftedType == ASSUME NEW f \in [Ago -> Nat] PROVE Shifted(f) \in [Ago -> Nat]
<1>1. \A i \in Ago : i # 0 => i - 1 \in Ago
  BY TimeAssumption DEF Ago
<1> QED  BY <1>1 DEF Shifted

LEMMA ShiftedSum ==
  ASSUME NEW f \in [Ago -> Nat], NEW T \in SUBSET Ago, NEW U \in SUBSET Ago,
         \A i \in T : i # 0 => i - 1 \in U
  PROVE  SumFunctionOnSet(Shifted(f), T) <= SumFunctionOnSet(f, U)
<1> DEFINE g == Shifted(f)
           R == T \ {0}
           m == [i \in R |-> i - 1]
           V == {m[i] : i \in R}
<1>1. /\ g \in [Ago -> Nat] /\ g[0] = 0
      /\ \A i \in Ago : i # 0 => g[i] = f[i - 1]
  BY ShiftedType, AgoFacts DEF Shifted
<1>2. IsFiniteSet(T) /\ IsFiniteSet(R) /\ R \subseteq Ago /\ R \subseteq Nat
  BY AgoFacts, FS_Subset
<1>3. SumFunctionOnSet(g, T) = SumFunctionOnSet(g, R)
  <2> HIDE DEF g
  <2>1. CASE 0 \in T
    <3>1. \A i \in T : g[i] \in Int
      BY <1>1
    <3>2. SumFunctionOnSet(g, T) = g[0] + SumFunctionOnSet(g, R)
      BY <1>2, <2>1, <3>1, SumPick
    <3>3. SumFunctionOnSet(g, R) \in Nat
      BY <1>1, <1>2, PartFacts
    <3> QED  BY <1>1, <3>2, <3>3
  <2>2. CASE 0 \notin T
    <3>1. R = T
      BY <2>2
    <3> QED  BY <3>1
  <2> QED  BY <2>1, <2>2
<1>4. SumFunctionOnSet(f, V) = SumFunctionOnSet(g, R)
  <2>1. \A i \in R : g[i] \in Int /\ f[m[i]] = g[i]
    <3> HIDE DEF g
    <3> QED  BY <1>1, <1>2
  <2>2. \A i, j \in R : m[i] = m[j] => i = j
    BY <1>2
  <2>3. Renames(m, R, V, g, f)
    BY <2>1, <2>2 DEF Renames
  <2> HIDE DEF g, R, m, V
  <2> QED  BY <1>2, <2>3, SumRename
<1>5. V \subseteq U
  OBVIOUS
<1> HIDE DEF V, R, g
<1>6. SumFunctionOnSet(f, V) <= SumFunctionOnSet(f, U)
  BY <1>5, PartFacts
<1> QED  BY <1>3, <1>4, <1>6 DEF g

LEMMA WithinTick ==
  ASSUME NEW c \in Counter, NEW f \in [Ago -> Nat], c.ttl = 0 => c.val = 0, Within(c, f)
  PROVE  Within(Age(c), Shifted(f))
<1> DEFINE g == Shifted(f)
           k == Age(c)
<1>1. /\ k.ttl = (IF c.ttl > 0 THEN c.ttl - 1 ELSE c.ttl)
      /\ k.val = (IF c.ttl = 1 THEN 0 ELSE c.val)
      /\ c.ttl \in Nat \cup {NoTTL}
  BY AgeFacts DEF Counter
<1>2. g \in [Ago -> Nat] /\ g[0] = 0
  BY ShiftedType, AgoFacts DEF Shifted
<1>3. ASSUME NEW q \in SecQuotas, NEW U \in SUBSET Ago, SumFunctionOnSet(f, U) <= q,
             NEW T \in SUBSET Ago, \A i \in T : i # 0 => i - 1 \in U
      PROVE  SumFunctionOnSet(g, T) <= q
  <2>1. SumFunctionOnSet(g, T) <= SumFunctionOnSet(f, U)
    BY <1>3, ShiftedSum
  <2>2. SumFunctionOnSet(g, T) \in Nat /\ SumFunctionOnSet(f, U) \in Nat /\ q \in Nat
    <3>1. SumFunctionOnSet(g, T) \in Nat
      BY <1>2, PartFacts
    <3>2. SumFunctionOnSet(f, U) \in Nat
      BY PartFacts
    <3> QED  BY <3>1, <3>2, QuotasAssumption
  <2> QED  BY <1>3, <2>1, <2>2
<1>4. \A i \in Ago : i # 0 => i - 1 \in Ago
  BY TimeAssumption DEF Ago
<1> HIDE DEF g, k
<1>5. CASE ~Exists(c)
  <2>1. PICK q \in SecQuotas : SumFunctionOnSet(f, Ago) <= q
    BY <1>5 DEF Within
  <2>2. SumFunctionOnSet(g, Ago) <= q
    BY <1>3, <1>4, <2>1
  <2>3. ~Exists(k)
    BY <1>1, <1>5 DEF Exists
  <2> QED  BY <1>2, <2>2, <2>3 DEF Within, g, k
<1>6. CASE Exists(c)
  <2>1. PICK w \in Nat : Window(c, f, w)
    BY <1>6 DEF Within
  <2>2. PICK n \in Costs : c.ttl + w = n * SEC /\ w < n * SEC
    BY <2>1 DEF Window
  <2>3. n * SEC \in Nat /\ n * SEC >= SEC /\ SEC \in Nat
    BY CostFacts, TimeAssumption
  <2>4. c.ttl \in Nat /\ c.ttl > 0
    BY <1>1, <2>2, <2>3 DEF NoTTL
  <2>5. PICK q1 \in SecQuotas : Since(f, w) <= q1
    BY <2>1 DEF Window
  <2>6. PICK q2 \in SecQuotas : Before(f, w) <= q2
    BY <2>1 DEF Window
  <2>7. CASE c.ttl = 1
    <3>1. ~Exists(k)
      BY <1>1, <2>7 DEF Exists
    <3>2. {i \in Ago : i <= w} = Ago
      BY <2>2, <2>3, <2>7 DEF Ago
    <3>3. SumFunctionOnSet(f, Ago) <= q1
      BY <2>5, <3>2 DEF Since
    <3>4. SumFunctionOnSet(g, Ago) <= q1
      BY <1>3, <1>4, <3>3
    <3> QED  BY <1>2, <3>1, <3>4 DEF Within, g, k
  <2>8. CASE c.ttl > 1
    <3>1. Exists(k) /\ k.ttl + (w + 1) = n * SEC /\ w + 1 < n * SEC /\ k.val = c.val
      <4>1. PICK p \in Nat : p = n * SEC
        BY <2>3
      <4>2. c.ttl + w = p /\ k.ttl = c.ttl - 1 /\ k.val = c.val /\ c.ttl \in Nat
        BY <1>1, <2>2, <2>4, <2>8, <4>1
      <4>3. k.ttl + (w + 1) = p /\ w + 1 < p /\ k.ttl # 0
        BY <2>8, <4>2
      <4> QED  BY <4>1, <4>2, <4>3 DEF Exists
    <3> DEFINE T == {i \in Ago : i <= w + 1}
               U == {i \in Ago : i <= w}
    <3>2. \A i \in T : i # 0 => i - 1 \in U
      BY <1>4, AgoFacts
    <3>3. Since(g, w + 1) <= q1
      BY <1>3, <2>5, <3>2 DEF Since
    <3>4. Since(g, w + 1) <= k.val
      <4>1. SumFunctionOnSet(g, T) <= SumFunctionOnSet(f, U)
        BY <3>2, ShiftedSum DEF g
      <4>2. SumFunctionOnSet(g, T) \in Nat
        BY <1>2, PartFacts
      <4>3. SumFunctionOnSet(f, U) \in Nat
        BY PartFacts
      <4>4. SumFunctionOnSet(f, U) <= c.val /\ c.val \in Nat
        BY <2>1 DEF Window, Since, Counter
      <4> HIDE DEF T, U
      <4>5. SumFunctionOnSet(g, T) <= c.val
        BY <4>1, <4>2, <4>3, <4>4
      <4> QED  BY <3>1, <4>5 DEF Since, T
    <3>5. Before(g, w + 1) <= q2
      <4> DEFINE T2 == {i \in Ago : i > w + 1}
                 U2 == {i \in Ago : i > w}
      <4>1. \A i \in T2 : i # 0 => i - 1 \in U2
        BY <1>4, AgoFacts
      <4>2. SumFunctionOnSet(f, U2) <= q2
        BY <2>6 DEF Before
      <4>3. SumFunctionOnSet(g, T2) <= q2
        BY <1>3, <4>1, <4>2
      <4> QED  BY <4>3 DEF Before
    <3>6. k.val > 0
      BY <2>1, <3>1 DEF Window
    <3>7. Window(k, g, w + 1)
      BY <3>1, <3>3, <3>4, <3>5, <3>6 DEF Window
    <3> QED  BY <3>1, <3>7 DEF Within, g, k
  <2> QED  BY <2>4, <2>7, <2>8
<1> QED  BY <1>5, <1>6

(* A charge, of which the units d were let through.                        *)
LEMMA WithinCharge ==
  ASSUME NEW c \in Counter, NEW f \in [Ago -> Nat], c.ttl = 0 => c.val = 0, Within(c, f),
         NEW n \in Costs, NEW d \in Nat,
         \/ d = 0
         \/ d = n /\ \E q \in SecQuotas : c.val + n <= q
  PROVE  Within(Charged(c, n, n * SEC), [f EXCEPT ![0] = @ + d])
<1> DEFINE g == [f EXCEPT ![0] = @ + d]
           k == Charged(c, n, n * SEC)
<1>1. n \in Nat \ {0} /\ n * SEC \in Nat \ {0} /\ c.val \in Nat
  BY CostFacts, TimeAssumption DEF Counter
<1>2. /\ k.val = c.val + n
      /\ k.ttl = (IF c.val = 0 THEN n * SEC ELSE c.ttl)
      /\ k.ttl # 0
  BY <1>1, ChargedFacts
<1>3. /\ g \in [Ago -> Nat] /\ g[0] = f[0] + d /\ f[0] \in Nat
      /\ \A i \in Ago : i # 0 => g[i] = f[i]
  BY AgoFacts
<1>4. Exists(k)
  BY <1>2 DEF Exists
<1> HIDE DEF g, k
<1>5. ASSUME NEW T \in SUBSET Ago
      PROVE  SumFunctionOnSet(g, T) = SumFunctionOnSet(f, T) + (IF 0 \in T THEN d ELSE 0)
  <2>1. IsFiniteSet(T) /\ SumFunctionOnSet(f, T) \in Nat
        /\ \A i \in T : f[i] \in Int /\ g[i] \in Int
    <3>1. IsFiniteSet(T)
      BY AgoFacts, FS_Subset
    <3>2. SumFunctionOnSet(f, T) \in Nat
      BY PartFacts
    <3> QED  BY <1>3, <3>1, <3>2
  <2>2. CASE 0 \in T
    <3>1. \A i \in T \ {0} : f[i] = g[i]
      BY <1>3
    <3>2. SumFunctionOnSet(g, T) = SumFunctionOnSet(f, T) - f[0] + g[0]
      BY <2>1, <2>2, <3>1, SumChange
    <3> QED  BY <1>3, <2>1, <2>2, <3>2
  <2>3. CASE 0 \notin T
    <3>1. \A i \in T : f[i] \in Int /\ f[i] = g[i]
      BY <1>3, <2>1, <2>3
    <3>2. SumFunctionOnSet(f, T) = SumFunctionOnSet(g, T)
      BY <2>1, <3>1, SumSame
    <3> QED  BY <2>1, <2>3, <3>2
  <2> QED  BY <2>2, <2>3
<1>6. ASSUME NEW w \in Nat
      PROVE  /\ Since(g, w) = Since(f, w) + d
             /\ Before(g, w) = Before(f, w)
             /\ Since(f, w) \in Nat /\ Before(f, w) \in Nat
  <2> DEFINE T == {i \in Ago : i <= w}
             U == {i \in Ago : i > w}
  <2>1. 0 \in T /\ 0 \notin U
    BY AgoFacts
  <2>2. SumFunctionOnSet(f, T) \in Nat
    BY PartFacts
  <2>3. SumFunctionOnSet(f, U) \in Nat
    BY PartFacts
  <2>4. SumFunctionOnSet(g, T) = SumFunctionOnSet(f, T) + d
    BY <1>5, <2>1
  <2>5. SumFunctionOnSet(g, U) = SumFunctionOnSet(f, U)
    BY <1>5, <2>1, <2>3
  <2> QED  BY <2>2, <2>3, <2>4, <2>5 DEF Since, Before
<1>7. CASE Exists(c)
  <2>1. PICK w \in Nat : Window(c, f, w)
    BY <1>7 DEF Within
  <2>2. k.ttl = c.ttl /\ k.val > 0
    BY <1>1, <1>2, <2>1 DEF Window
  <2>3. Since(f, w) <= c.val /\ \E q \in SecQuotas : Since(f, w) <= q
    BY <2>1 DEF Window
  <2>4. Since(g, w) <= k.val
    BY <1>1, <1>2, <1>6, <2>3
  <2>5. \E q \in SecQuotas : Since(g, w) <= q
    <3>1. CASE d = 0
      BY <1>6, <2>3, <3>1
    <3>2. CASE d = n /\ \E q \in SecQuotas : c.val + n <= q
      <4>1. PICK q \in SecQuotas : c.val + n <= q
        BY <3>2
      <4>2. q \in Nat
        BY QuotasAssumption
      <4> QED  BY <1>1, <1>6, <2>3, <3>2, <4>1, <4>2
    <3> QED  BY <3>1, <3>2
  <2>6. Window(k, g, w)
    BY <1>6, <2>1, <2>2, <2>4, <2>5 DEF Window
  <2> QED  BY <1>4, <2>6 DEF Within, g, k
<1>8. CASE ~Exists(c)
  <2>1. c.val = 0 /\ f[0] = 0
    BY <1>8 DEF Exists, Within
  <2>2. PICK q \in SecQuotas : SumFunctionOnSet(f, Ago) <= q
    BY <1>8 DEF Within
  <2>3. Since(f, 0) = 0
    <3>1. \A i \in {i \in Ago : i <= 0} : f[i] = 0
      BY <2>1, AgoFacts
    <3>2. IsFiniteSet({i \in Ago : i <= 0})
      BY AgoFacts, FS_Subset
    <3> QED  BY <3>1, <3>2, SumZero DEF Since
  <2>4. Before(f, 0) <= q /\ q \in Nat
    <3>1. q \in Nat
      BY QuotasAssumption
    <3> DEFINE U == {i \in Ago : i > 0}
    <3>2. /\ SumFunctionOnSet(f, U) <= SumFunctionOnSet(f, Ago)
          /\ SumFunctionOnSet(f, U) \in Nat /\ SumFunctionOnSet(f, Ago) \in Nat
      BY PartFacts
    <3> QED  BY <2>2, <3>1, <3>2 DEF Before
  <2>5. Since(g, 0) = d /\ Before(g, 0) <= q
    BY <1>6, <2>3, <2>4
  <2>6. d <= k.val /\ \E r \in SecQuotas : d <= r
    BY <1>1, <1>2, <2>1, <2>4
  <2>7. k.val > 0 /\ k.ttl + 0 = n * SEC /\ 0 < n * SEC
    BY <1>1, <1>2, <2>1
  <2>8. Window(k, g, 0)
    BY <2>5, <2>6, <2>7 DEF Window
  <2> QED  BY <1>4, <2>8 DEF Within, g, k
<1> QED  BY <1>7, <1>8

(* A step within a tick: what it charges to the second of an account, and  *)
(* the units d it lets through.                                            *)
Charges(a, d) ==
  \/ d = 0 /\ secKey'[a] = secKey[a]
  \/ \E n \in Costs :
       /\ secKey'[a] = Charged(secKey[a], n, n * SEC)
       /\ d = 0 \/ (d = n /\ \E q \in SecQuotas : secKey[a].val + n <= q)

LEMMA SecKeyFacts ==
  ASSUME Typed, NEW a \in Accounts
  PROVE  secKey[a] \in Counter /\ (secKey[a].ttl = 0 => secKey[a].val = 0)
  BY DEF Typed, TypeOK, AbsentIsZero, Exists

LEMMA StepRecent ==
  ASSUME Typed, RecentInv, Remember, UNCHANGED time, NEW a \in Accounts, NEW d \in Nat,
         Units(admitted', a) = Units(admitted, a) + d, Units(admitted, a) \in Nat,
         Charges(a, d)
  PROVE  recent'[a] \in [Ago -> Nat] /\ Within(secKey'[a], recent'[a])
<1> DEFINE f == recent[a]
           g == [f EXCEPT ![0] = @ + d]
<1>1. f \in [Ago -> Nat] /\ Within(secKey[a], f)
  BY DEF RecentInv
<1>2. recent'[a] = g
  <2>1. \A i \in Ago : recent'[a][i] = IF i = 0 THEN f[0] + d ELSE f[i]
    <3>1. f[0] \in Nat
      BY <1>1, AgoFacts
    <3>2. f[0] + Units(admitted', a) - Units(admitted, a) = f[0] + d
      BY <3>1
    <3> QED  BY <3>2 DEF Remember
  <2>2. recent'[a] = [i \in Ago |-> recent'[a][i]]
    BY DEF Remember
  <2>3. g = [i \in Ago |-> IF i = 0 THEN f[0] + d ELSE f[i]]
    BY <1>1
  <2> QED  BY <2>1, <2>2, <2>3
<1>3. g \in [Ago -> Nat]
  BY <1>1, AgoFacts
<1>4. CASE d = 0 /\ secKey'[a] = secKey[a]
  <2>1. g = f
    BY <1>1, <1>4, AgoFacts
  <2> QED  BY <1>1, <1>2, <1>4, <2>1
<1>5. ASSUME NEW n \in Costs,
             secKey'[a] = Charged(secKey[a], n, n * SEC),
             d = 0 \/ (d = n /\ \E q \in SecQuotas : secKey[a].val + n <= q)
      PROVE  Within(secKey'[a], g)
  BY <1>1, <1>5, SecKeyFacts, WithinCharge
<1> HIDE DEF g
<1> QED  BY <1>2, <1>3, <1>4, <1>5 DEF Charges

LEMMA UnitsType ==
  ASSUME Typed, NEW a \in Accounts
  PROVE  /\ IsFiniteSet(Slot) /\ Units(admitted, a) \in Nat
         /\ admitted[a] \in [Slot -> Nat]
<1>1. IsFiniteSet(0 .. Slots - 1)
  BY SlotsAssumption, FS_Interval
<1>2. admitted[a] \in [Slot -> Nat] /\ \A s \in Slot : admitted[a][s] \in Nat
  BY DEF Typed, TypeOK
<1> QED  BY <1>1, <1>2, SumNat DEF Units, Slot

LEMMA UnitsAdmitted ==
  ASSUME Typed, NEW a \in Accounts, NEW s \in Slot, NEW n \in Nat,
         admitted' = [admitted EXCEPT ![a][s] = @ + n]
  PROVE  /\ Units(admitted', a) = Units(admitted, a) + n
         /\ \A b \in Accounts : b # a => Units(admitted', b) = Units(admitted, b)
<1> DEFINE f == admitted[a]
<1>1. IsFiniteSet(Slot) /\ Units(admitted, a) \in Nat /\ f \in [Slot -> Nat]
  BY UnitsType
<1>2. PICK g : g = admitted'[a]
  OBVIOUS
<1>3. g[s] = f[s] + n /\ \A t \in Slot \ {s} : f[t] = g[t]
  BY <1>2 DEF Typed, TypeOK
<1>4. \A t \in Slot : f[t] \in Int /\ g[t] \in Int
  BY <1>1, <1>3
<1> HIDE DEF f
<1>5. SumFunctionOnSet(g, Slot) = SumFunctionOnSet(f, Slot) - f[s] + g[s]
  BY <1>1, <1>3, <1>4, SumChange
<1>6. Units(admitted', a) = Units(admitted, a) + n
  <2>1. SumFunctionOnSet(f, Slot) \in Nat /\ f[s] \in Nat
    BY <1>1 DEF Units, f
  <2>2. SumFunctionOnSet(g, Slot) = SumFunctionOnSet(f, Slot) + n
    BY <1>3, <1>5, <2>1
  <2> QED  BY <1>2, <2>2 DEF Units, f
<1>7. ASSUME NEW b \in Accounts, b # a PROVE Units(admitted', b) = Units(admitted, b)
  <2>1. admitted'[b] = admitted[b]
    BY <1>7 DEF Typed, TypeOK
  <2> QED  BY <2>1 DEF Units
<1> QED  BY <1>6, <1>7

(* The script charges the second of the account it runs for, or nothing;   *)
(* what it accepts is within the quota of the second.                      *)
LEMMA ScriptCharge ==
  ASSUME Typed, NEW a \in Accounts, NEW s \in Slot, NEW n \in Costs, ScriptRuns(a, s, n)
  PROVE  /\ \A b \in Accounts : Charges(b, 0)
         /\ Accept(a, s, n) => Charges(a, n)
<1>1. secKey \in [Accounts -> Counter]
  BY DEF Typed, TypeOK
<1>2. ASSUME Accept(a, s, n) PROVE Charges(a, n)
  <2>1. ChargeSecond(a, n) /\ ChargedSec(a, n).val <= secQuota[a] /\ secQuota[a] \in SecQuotas
    BY <1>2 DEF Accept, PassSecond, ChargeSecond, Typed, TypeOK
  <2>2. ChargedSec(a, n).val = secKey[a].val + n
    BY CostFacts, SecKeyFacts, ChargedFacts, TimeAssumption DEF ChargedSec
  <2>3. Charges(a, n)
    BY <1>1, <2>1, <2>2 DEF ChargeSecond, ChargedSec, Charges
  <2> QED  BY <2>3
<1>3. CASE UNCHANGED redis
  <2>1. ASSUME NEW b \in Accounts PROVE Charges(b, 0)
    BY <1>3 DEF Charges, redis
  <2> QED  BY <1>2, <2>1
<1>4. CASE ChargeSecond(a, n)
  <2>1. secKey'[a] = Charged(secKey[a], n, n * SEC)
    BY <1>1, <1>4 DEF ChargeSecond, ChargedSec
  <2>2. \A b \in Accounts : b # a => secKey'[b] = secKey[b]
    BY <1>1, <1>4 DEF ChargeSecond
  <2>3. ASSUME NEW b \in Accounts PROVE Charges(b, 0)
    BY <2>1, <2>2 DEF Charges
  <2> QED  BY <1>2, <2>3
<1>5. UNCHANGED redis \/ ChargeSecond(a, n)
  BY DEF ScriptRuns, Refuse, Accept, NoPlan, OverSecond, NoDayPlan, OverDay, PassSecond
<1> QED  BY <1>3, <1>4, <1>5

LEMMA TickRecent ==
  ASSUME Typed, RecentInv, Tick, Remember
  PROVE  RecentInv'
<1>1. time' # time
  BY SlotFacts, TimeAssumption DEF Typed, TypeOK, Tick, time
<1>2. ASSUME NEW a \in Accounts
      PROVE  recent'[a] \in [Ago -> Nat] /\ Within(secKey'[a], recent'[a])
  <2>1. recent'[a] = Shifted(recent[a])
    BY <1>1 DEF Remember, Shifted
  <2>2. recent[a] \in [Ago -> Nat] /\ Within(secKey[a], recent[a])
    BY DEF RecentInv
  <2>3. secKey'[a] = Age(secKey[a])
    BY DEF Tick
  <2> QED  BY <2>1, <2>2, <2>3, SecKeyFacts, ShiftedType, WithinTick
<1>3. recent' = [a \in Accounts |-> recent'[a]]
  BY DEF Remember
<1>4. recent' \in [Accounts -> [Ago -> Nat]]
  BY <1>2, <1>3
<1> QED  BY <1>2, <1>4 DEF RecentInv, Within, Window, Since, Before

LEMMA NextRecentInv ==
  ASSUME Typed, RecentInv, [NextRecent]_<<vars, recent>>
  PROVE  RecentInv'
<1>1. CASE UNCHANGED <<vars, recent>>
  BY <1>1 DEF RecentInv, Within, Window, Since, Before, vars, redis
<1>2. ASSUME Remember, UNCHANGED time,
             \A a \in Accounts : \E d \in Nat :
               /\ Units(admitted', a) = Units(admitted, a) + d
               /\ Charges(a, d)
      PROVE  RecentInv'
  <2>1. ASSUME NEW a \in Accounts
        PROVE  recent'[a] \in [Ago -> Nat] /\ Within(secKey'[a], recent'[a])
    BY <1>2, StepRecent, UnitsType
  <2>2. recent' = [a \in Accounts |-> recent'[a]]
    BY <1>2 DEF Remember
  <2>3. recent' \in [Accounts -> [Ago -> Nat]]
    BY <2>1, <2>2
  <2> QED  BY <2>1, <2>3 DEF RecentInv, Within, Window, Since, Before
<1>3. \A a \in Accounts : Units(admitted, a) \in Nat
  BY UnitsType
<1>4. ASSUME Remember, UNCHANGED <<time, admitted>>, \A a \in Accounts : Charges(a, 0)
      PROVE  RecentInv'
  <2>1. \A a \in Accounts : Units(admitted', a) = Units(admitted, a) + 0
    BY <1>3, <1>4
  <2> QED  BY <1>2, <1>4, <2>1
<1>5. ASSUME Remember, UNCHANGED <<time, admitted, secKey>>
      PROVE  RecentInv'
  BY <1>4, <1>5 DEF Charges
<1>6. ASSUME Remember, NEW h \in Handlers, Script(h) PROVE RecentInv'
  <2> DEFINE a == req[h].acc
             s == req[h].slot
             n == req[h].n
  <2>1. a \in Accounts /\ s \in Slot /\ n \in Costs /\ n \in Nat
    BY <1>6, PcBusy, BusyFacts DEF Typed, Script
  <2>2. ScriptRuns(a, s, n) /\ UNCHANGED time
    BY <1>6 DEF Script, ScriptRuns
  <2>3. (\A b \in Accounts : Charges(b, 0)) /\ (Accept(a, s, n) => Charges(a, n))
    BY <2>1, <2>2, ScriptCharge
  <2>4. CASE UNCHANGED admitted
    BY <1>4, <1>6, <2>2, <2>3, <2>4
  <2>5. CASE Accept(a, s, n) /\ admitted' = [admitted EXCEPT ![a][s] = @ + n]
    <3>1. /\ Units(admitted', a) = Units(admitted, a) + n
          /\ \A b \in Accounts : b # a => Units(admitted', b) = Units(admitted, b)
      BY <2>1, <2>5, UnitsAdmitted
    <3>2. ASSUME NEW b \in Accounts
          PROVE  \E d \in Nat : Units(admitted', b) = Units(admitted, b) + d /\ Charges(b, d)
      <4>1. CASE b = a
        BY <2>1, <2>3, <2>5, <3>1, <4>1
      <4>2. CASE b # a
        <5>1. Units(admitted', b) = Units(admitted, b) + 0
          BY <1>3, <3>1, <4>2
        <5> QED  BY <2>3, <5>1
      <4> QED  BY <4>1, <4>2
    <3> QED  BY <1>2, <1>6, <2>2, <3>2
  <2> QED  BY <1>6, <2>4, <2>5 DEF Script
<1>7. ASSUME Remember, NEW h \in Handlers, ReplyLost(h) PROVE RecentInv'
  <2>1. UNCHANGED <<time, admitted>>
    BY <1>7 DEF ReplyLost
  <2>2. CASE UNCHANGED secKey
    BY <1>5, <1>7, <2>1, <2>2
  <2>3. CASE req[h].pc = "script" /\ ScriptRuns(req[h].acc, req[h].slot, req[h].n)
    <3>1. req[h].acc \in Accounts /\ req[h].slot \in Slot /\ req[h].n \in Costs
      BY <2>3, PcBusy, BusyFacts DEF Typed
    <3>2. \A b \in Accounts : Charges(b, 0)
      BY <2>3, <3>1, ScriptCharge
    <3> QED  BY <1>4, <1>7, <2>1, <3>2
  <2> QED  BY <1>7, <2>2, <2>3 DEF ReplyLost, ScriptRuns
<1>8. CASE NextRecent
  <2>1. Next /\ Remember
    BY <1>8 DEF NextRecent
  <2> QED  BY <1>5, <1>6, <1>7, <2>1, TickRecent
           DEF Next, Step, Begin, WhitelistIncr, WhitelistExpire, Abandon, Restart,
               SetSecQuota, SetDayQuota, redis
<1> QED  BY <1>1, <1>8

LEMMA RecentSpec == SpecRecent => Spec
<1>1. InitRecent => Init
  BY DEF InitRecent
<1>2. [NextRecent]_<<vars, recent>> => [Next]_vars
  BY DEF NextRecent
<1> QED  BY <1>1, <1>2, PTL DEF SpecRecent, Spec

LEMMA InitRecentInv ==
  ASSUME SecQuotas # {}, InitRecent
  PROVE  RecentInv
<1>1. recent = [a \in Accounts |-> [i \in Ago |-> 0]] /\ recent \in [Accounts -> [Ago -> Nat]]
  BY DEF InitRecent
<1>2. PICK q \in SecQuotas : q \in Nat
  BY QuotasAssumption
<1>3. ASSUME NEW a \in Accounts PROVE Within(secKey[a], recent[a])
  <2>1. \A i \in Ago : recent[a][i] = 0
    BY <1>1
  <2>2. SumFunctionOnSet(recent[a], Ago) = 0
    BY <2>1, AgoFacts, SumZero
  <2>3. ~Exists(secKey[a])
    BY DEF InitRecent, Init, Exists, Absent
  <2> QED  BY <1>2, <2>1, <2>2, <2>3, AgoFacts DEF Within
<1> QED  BY <1>1, <1>3 DEF RecentInv

LEMMA RecentSliding ==
  ASSUME RecentInv
  PROVE  SlidingSecond
<1> SUFFICES ASSUME NEW a \in Accounts
             PROVE  \E q \in SecQuotas : SumFunctionOnSet(recent[a], Ago) <= 2 * q
  BY DEF SlidingSecond
<1> DEFINE f == recent[a]
<1>1. f \in [Ago -> Nat] /\ Within(secKey[a], f)
  BY DEF RecentInv
<1> HIDE DEF f
<1>2. SumFunctionOnSet(f, Ago) \in Nat
  BY <1>1, PartFacts
<1>3. CASE ~Exists(secKey[a])
  <2>1. PICK q \in SecQuotas : SumFunctionOnSet(f, Ago) <= q
    BY <1>1, <1>3 DEF Within
  <2>2. q \in Nat
    BY QuotasAssumption
  <2>3. SumFunctionOnSet(f, Ago) <= 2 * q
    BY <1>2, <2>1, <2>2
  <2> QED  BY <2>3 DEF f
<1>4. CASE Exists(secKey[a])
  <2>1. PICK w \in Nat : Window(secKey[a], f, w)
    BY <1>1, <1>4 DEF Within
  <2>2. PICK q1 \in SecQuotas : Since(f, w) <= q1
    BY <2>1 DEF Window
  <2>3. PICK q2 \in SecQuotas : Before(f, w) <= q2
    BY <2>1 DEF Window
  <2> DEFINE T == {i \in Ago : i <= w}
             U == {i \in Ago : i > w}
  <2>4. SumFunctionOnSet(f, Ago) = SumFunctionOnSet(f, T) + SumFunctionOnSet(f, U)
    <3>1. T \cup U = Ago /\ T \cap U = {}
      <4>1. \A i \in Ago : (i <= w \/ i > w) /\ ~(i <= w /\ i > w)
        BY AgoFacts
      <4> QED  BY <4>1
    <3>2. IsFiniteSet(T) /\ IsFiniteSet(U)
      BY AgoFacts, FS_Subset
    <3>3. \A i \in Ago : f[i] \in Int
      BY <1>1
    <3> HIDE DEF T, U
    <3> QED  BY <3>1, <3>2, <3>3, SumUnion
  <2>5. SumFunctionOnSet(f, T) \in Nat
    BY <1>1, PartFacts
  <2>6. SumFunctionOnSet(f, U) \in Nat
    BY <1>1, PartFacts
  <2>7. SumFunctionOnSet(f, Ago) <= q1 + q2 /\ q1 \in Nat /\ q2 \in Nat
    <3>1. q1 \in Nat /\ q2 \in Nat
      BY QuotasAssumption
    <3> QED  BY <2>2, <2>3, <2>4, <2>5, <2>6, <3>1 DEF Since, Before
  <2>8. CASE q1 <= q2
    <3>1. SumFunctionOnSet(f, Ago) <= 2 * q2
      BY <1>2, <2>7, <2>8
    <3> QED  BY <3>1 DEF f
  <2>9. CASE ~(q1 <= q2)
    <3>1. SumFunctionOnSet(f, Ago) <= 2 * q1
      BY <1>2, <2>7, <2>9
    <3> QED  BY <3>1 DEF f
  <2> QED  BY <2>8, <2>9
<1> QED  BY <1>3, <1>4

(* In any second, wherever it is taken to begin, no account gets more than *)
(* twice a quota per second through: whatever its requests cost, however   *)
(* late, repeated or lost their scripts are, and whenever its quota is     *)
(* changed.                                                                *)
THEOREM SlidingSecondHolds ==
  ASSUME SecQuotas # {}
  PROVE  SpecRecent => []SlidingSecond
<1>1. InitRecent => RecentInv
  BY InitRecentInv
<1>2. Typed /\ RecentInv /\ [NextRecent]_<<vars, recent>> => RecentInv'
  BY NextRecentInv
<1>3. RecentInv => SlidingSecond
  BY RecentSliding
<1>4. SpecRecent => []Typed
  BY RecentSpec, TypedInvariant, PTL
<1> QED  BY <1>1, <1>2, <1>3, <1>4, PTL DEF SpecRecent
====
