---- MODULE RateLimit ----
(***************************************************************************)
(* The rate limiter every gateway handler calls before it forwards a       *)
(* request: RateLimiter.Allow (ratelimit/v1/ratelimit.go), RedisAllow      *)
(* (lua.go) and the Lua script both rest on (lua/ratelimit.lua).           *)
(*                                                                         *)
(* Requests are served by concurrent handlers (goroutines, in one gateway  *)
(* process or in several) that share the counters kept in Redis.  An       *)
(* account is a pair of chain and API key: the two appear together in      *)
(* every key.  The day counter carries the day of the month in its name,   *)
(* so its slot comes round again; the slot is computed by the handler,     *)
(* while the counter is charged when Redis executes the command, up to     *)
(* MaxLag ticks later and possibly after midnight.                         *)
(*                                                                         *)
(* Time is counted in ticks; SEC ticks make a second and DAY ticks a day.  *)
(***************************************************************************)
EXTENDS RedisCounter, FiniteSets

CONSTANTS
  Accounts,    \* pairs of chain and API key
  Handlers,    \* goroutines that may be serving a request at the same time
  Costs,       \* what a request may cost: 1, or the length of its batch
  SecQuotas,   \* the quotas per second that plans offer
  DayQuotas,   \* the quotas per day that plans offer
  Whitelists,  \* the whitelists of accounts a process may start with
  SEC,         \* ticks in a second
  DAY,         \* ticks in a day
  DayTTL,      \* ticks a day counter is given to live: 36 hours
  Slots,       \* days of the month
  MaxLag,      \* ticks Redis may take to execute a command, at most
  MaxRetries,  \* times the Redis client sends a command again
  MaxAsked,    \* bound of the model: units asked for per account and day,
               \* and in the counter of the day when a request begins
  Downgrades,  \* TRUE: a day quota may also be lowered
  Faults       \* TRUE: Redis errors, lost replies, cancelled requests, crashes

ASSUME CostsAssumption  == Costs \subseteq Nat \ {0}
ASSUME QuotasAssumption == SecQuotas \subseteq Nat /\ DayQuotas \subseteq Nat
ASSUME HandlersAssumption == IsFiniteSet(Handlers)
ASSUME WhitelistsAssumption == Whitelists \subseteq SUBSET Accounts
ASSUME TimeAssumption   == /\ SEC \in Nat \ {0}
                           /\ DAY \in Nat \ {0}
                           /\ DayTTL \in Nat
                           /\ 2 * DayTTL = 3 * DAY
ASSUME SlotsAssumption  == Slots \in Nat /\ Slots >= 3
ASSUME LagAssumption    == MaxLag \in Nat /\ 2 * MaxLag <= DAY
ASSUME BoundAssumption  == MaxRetries \in Nat /\ MaxAsked \in Nat
ASSUME SwitchAssumption == Downgrades \in BOOLEAN /\ Faults \in BOOLEAN

NoQuota == -1          \* the quota key does not exist

Slot == 0 .. Slots - 1

VARIABLES
  secKey,     \* s:<chain>:{<key>}, the counter of the running second
  dayKey,     \* d:<chain>:{<key>}:<day of month>, the counters of the days
  secQuota,   \* q:s:<chain>:{<key>}
  dayQuota,   \* q:d:<chain>:{<key>}
  whitelist,  \* the accounts never refused, loaded when the process starts
  clock,      \* the tick of the day
  today,      \* the day of the month
  req,        \* what each handler is doing
  admitted,   \* history: units the script let through, by account and day
  asked       \* history: units asked for, by account and day

redis == <<secKey, dayKey>>
quotas == <<secQuota, dayQuota>>
time  == <<clock, today>>
vars  == <<redis, quotas, whitelist, time, req, admitted, asked>>

Idle == [pc |-> "idle"]

(* A handler inside Allow: the command it has sent and waits for, the      *)
(* account, the cost, the day of the month it computed, the ticks since and *)
(* the times the command was sent again.                                   *)
Request(pc, a, n) ==
  [pc |-> pc, acc |-> a, n |-> n, slot |-> today, age |-> 0, tries |-> 0]

Requests ==
  [pc : {"script", "incr", "expire"}, acc : Accounts, n : Costs,
   slot : Slot, age : 0 .. MaxLag, tries : 0 .. MaxRetries]

Busy(h) == req[h] # Idle

(* A day later, and a day earlier. _NoWrap: a slip that never starts a new *)
(* month.  Here and below an operator whose name ends in an underscore and *)
(* a word is a slip this code could have had; it is used by no definition. *)
Tomorrow_NoWrap(s) == s + 1
Tomorrow(s)  == IF s = Slots - 1 THEN 0 ELSE s + 1
Yesterday(s) == IF s = 0 THEN Slots - 1 ELSE s - 1
----
Init ==
  /\ secKey = [a \in Accounts |-> Absent]
  /\ dayKey = [a \in Accounts |-> [s \in Slot |-> Absent]]
  /\ secQuota = [a \in Accounts |-> NoQuota]
  /\ dayQuota = [a \in Accounts |-> NoQuota]
  /\ whitelist \in Whitelists
  /\ clock = 0
  /\ today = 0
  /\ req = [h \in Handlers |-> Idle]
  /\ admitted = [a \in Accounts |-> [s \in Slot |-> 0]]
  /\ asked = [a \in Accounts |-> [s \in Slot |-> 0]]

(* Allow is entered.  The day of the month is read from the clock; a       *)
(* whitelisted account is only counted, any other goes to the script.      *)
Begin(h, a, n) ==
  /\ ~Busy(h)
  /\ asked[a][today] + n <= MaxAsked /\ dayKey[a][today].val <= MaxAsked
  /\ asked' = [asked EXCEPT ![a][today] = @ + n]
  /\ req' = [req EXCEPT ![h] =
               Request(IF a \in whitelist THEN "incr" ELSE "script", a, n)]
  /\ UNCHANGED <<redis, quotas, whitelist, time, admitted>>

Done(h) == req' = [req EXCEPT ![h] = Idle]

SetDay(a, s, c) == dayKey' = [dayKey EXCEPT ![a][s] = c]

(* A slip: a counter is taken for new when it holds 1.                     *)
WhitelistIncr_One(h) ==
  LET r == req[h]
      c == IncrBy(dayKey[r.acc][r.slot], r.n)
  IN /\ r.pc = "incr"
     /\ SetDay(r.acc, r.slot, c)
     /\ IF c.val = 1 THEN req' = [req EXCEPT ![h].pc = "expire"] ELSE Done(h)
     /\ UNCHANGED <<secKey, quotas, whitelist, time, admitted, asked>>

(* allowWhitelist, first command: IncrBy.  Only the request that created   *)
(* the counter goes on to give it a time to live.                          *)
WhitelistIncr(h) ==
  LET r == req[h]
      c == IncrBy(dayKey[r.acc][r.slot], r.n)
  IN /\ r.pc = "incr"
     /\ SetDay(r.acc, r.slot, c)
     /\ IF c.val = r.n THEN req' = [req EXCEPT ![h].pc = "expire"] ELSE Done(h)
     /\ UNCHANGED <<secKey, quotas, whitelist, time, admitted, asked>>

(* allowWhitelist, second command: Expire.                                 *)
WhitelistExpire(h) ==
  LET r == req[h] IN
  /\ r.pc = "expire"
  /\ SetDay(r.acc, r.slot, Expire(dayKey[r.acc][r.slot], DayTTL))
  /\ Done(h)
  /\ UNCHANGED <<secKey, quotas, whitelist, time, admitted, asked>>
----
(* The script.  Redis runs it as one step; its guards, in their order.     *)

Charged_Always(c, n, ttl) == Expire(IncrBy(c, n), ttl)  \* a slip

(* A counter after INCRBY, and after the EXPIRE of a counter that was 0.   *)
Charged(c, n, ttl) ==
  LET i == IncrBy(c, n) IN IF i.val = n THEN Expire(i, ttl) ELSE i

(* The counters of the second and of the day once the script charged them. *)
ChargedSec(a, n)    == Charged(secKey[a], n, n * SEC)
ChargedDay(a, s, n) == Charged(dayKey[a][s], n, DayTTL)

(* -1: the account has no plan.                                            *)
NoPlan(a, s, n) == secQuota[a] = NoQuota /\ UNCHANGED redis

(* The units are charged to the second, whatever comes next.               *)
ChargeSecond(a, n) ==
  secQuota[a] # NoQuota /\ secKey' = [secKey EXCEPT ![a] = ChargedSec(a, n)]

(* -2: too many units in this second.                                      *)
OverSecond(a, s, n) ==
  /\ ChargeSecond(a, n)
  /\ ChargedSec(a, n).val > secQuota[a]
  /\ UNCHANGED dayKey

(* A slip: the quota is compared with the counter before the charge.       *)
PassSecond_Before(a, n) == ChargeSecond(a, n) /\ secKey[a].val <= secQuota[a]

PassSecond(a, n) == ChargeSecond(a, n) /\ ChargedSec(a, n).val <= secQuota[a]

(* -1 again: a quota per second but none per day.                          *)
NoDayPlan(a, s, n) ==
  PassSecond(a, n) /\ dayQuota[a] = NoQuota /\ UNCHANGED dayKey

(* Slips: the revert has its operands swapped; it empties the counter.     *)
OverDay_Swapped(a, s, n) ==
  LET c == ChargedDay(a, s, n) IN
  /\ PassSecond(a, n)
  /\ dayQuota[a] # NoQuota
  /\ c.val > dayQuota[a]
  /\ SetDay(a, s, DecrBy(c, dayQuota[a] - c.val))

OverDay_Emptied(a, s, n) ==
  LET c == ChargedDay(a, s, n) IN
  /\ PassSecond(a, n)
  /\ dayQuota[a] # NoQuota
  /\ c.val > dayQuota[a]
  /\ SetDay(a, s, DecrBy(c, c.val))

(* -3: the day is used up.  Allow always asks for the charge to be         *)
(* reverted, which sets the counter to the quota.                          *)
OverDay(a, s, n) ==
  LET c == ChargedDay(a, s, n) IN
  /\ PassSecond(a, n)
  /\ dayQuota[a] # NoQuota
  /\ c.val > dayQuota[a]
  /\ SetDay(a, s, DecrBy(c, c.val - dayQuota[a]))

(* A slip: the quota is compared with the counter before the charge.       *)
Accept_Before(a, s, n) ==
  /\ PassSecond(a, n)
  /\ dayQuota[a] # NoQuota
  /\ dayKey[a][s].val <= dayQuota[a]
  /\ SetDay(a, s, ChargedDay(a, s, n))

(* 1: let through.                                                         *)
Accept(a, s, n) ==
  /\ PassSecond(a, n)
  /\ dayQuota[a] # NoQuota
  /\ ChargedDay(a, s, n).val <= dayQuota[a]
  /\ SetDay(a, s, ChargedDay(a, s, n))

Refuse(a, s, n) ==
  NoPlan(a, s, n) \/ OverSecond(a, s, n) \/ NoDayPlan(a, s, n) \/ OverDay(a, s, n)

(* Allow runs the script and hands its answer to the caller.  It also adds *)
(* what was let through to the usage statistics, keys of their own that no *)
(* decision reads; they are left out here.                                 *)
Script(h) ==
  LET r == req[h] IN
  /\ r.pc = "script"
  /\ \/ Refuse(r.acc, r.slot, r.n) /\ UNCHANGED admitted
     \/ /\ Accept(r.acc, r.slot, r.n)
        /\ admitted' = [admitted EXCEPT ![r.acc][r.slot] = @ + r.n]
  /\ Done(h)
  /\ UNCHANGED <<quotas, whitelist, time, asked>>
----
(* What goes wrong around the commands.                                    *)

(* The handler gets an error for its command, its client goes away or its  *)
(* process dies: the command was not executed and none follows it.         *)
Abandon(h) ==
  /\ Faults
  /\ Busy(h)
  /\ Done(h)
  /\ UNCHANGED <<redis, quotas, whitelist, time, admitted, asked>>

(* Redis executed the command but its reply is lost: the client library    *)
(* sends the command again, or gives up (then Abandon follows).  A reply   *)
(* that said "admitted" reached nobody.                                    *)
ReplyLost(h) ==
  LET r == req[h] IN
  /\ Faults
  /\ Busy(h)
  /\ r.tries < MaxRetries
  /\ req' = [req EXCEPT ![h].tries = @ + 1]
  /\ \/ /\ r.pc = "script"
        /\ Refuse(r.acc, r.slot, r.n) \/ Accept(r.acc, r.slot, r.n)
     \/ /\ r.pc = "incr"
        /\ SetDay(r.acc, r.slot, IncrBy(dayKey[r.acc][r.slot], r.n))
        /\ UNCHANGED secKey
  /\ UNCHANGED <<quotas, whitelist, time, admitted, asked>>

(* A deployment, or a crash: the whitelist is read again.                  *)
Restart(w) ==
  /\ Faults \/ \A h \in Handlers : ~Busy(h)
  /\ whitelist' = w
  /\ req' = [h \in Handlers |-> Idle]
  /\ UNCHANGED <<redis, quotas, time, admitted, asked>>
----
(* The account's plan is written by the billing system, key by key.        *)
SetSecQuota(a, q) ==
  /\ secQuota' = [secQuota EXCEPT ![a] = q]
  /\ UNCHANGED <<redis, dayQuota, whitelist, time, req, admitted, asked>>

SetDayQuota(a, q) ==
  /\ Downgrades \/ q >= dayQuota[a]
  /\ dayQuota' = [dayQuota EXCEPT ![a] = q]
  /\ UNCHANGED <<redis, secQuota, whitelist, time, req, admitted, asked>>

(* At midnight the history keeps the day that ends and forgets the others. *)
Close(ledger) ==
  [a \in Accounts |-> [s \in Slot |-> IF s = today THEN ledger[a][s] ELSE 0]]

(* Time passes, no further than the commands in flight allow.              *)
Tick ==
  /\ \A h \in Handlers : Busy(h) => req[h].age < MaxLag
  /\ secKey' = [a \in Accounts |-> Age(secKey[a])]
  /\ dayKey' = [a \in Accounts |-> [s \in Slot |-> Age(dayKey[a][s])]]
  /\ req' = [h \in Handlers |->
               IF Busy(h) THEN [req[h] EXCEPT !.age = @ + 1] ELSE Idle]
  /\ IF clock + 1 < DAY
     THEN /\ clock' = clock + 1
          /\ UNCHANGED <<today, admitted, asked>>
     ELSE /\ clock' = 0
          /\ today' = Tomorrow(today)
          /\ admitted' = Close(admitted)
          /\ asked' = Close(asked)
  /\ UNCHANGED <<quotas, whitelist>>

Step(h) == WhitelistIncr(h) \/ WhitelistExpire(h) \/ Script(h)

Next ==
  \/ \E h \in Handlers :
       \/ \E a \in Accounts, n \in Costs : Begin(h, a, n)
       \/ Step(h)
       \/ Abandon(h)
       \/ ReplyLost(h)
  \/ \E w \in Whitelists : Restart(w)
  \/ \E a \in Accounts : \/ \E q \in SecQuotas : SetSecQuota(a, q)
                         \/ \E q \in DayQuotas : SetDayQuota(a, q)
  \/ Tick

Spec == Init /\ [][Next]_vars

----
TypeOK ==
  /\ secKey \in [Accounts -> Counter]
  /\ dayKey \in [Accounts -> [Slot -> Counter]]
  /\ secQuota \in [Accounts -> SecQuotas \cup {NoQuota}]
  /\ dayQuota \in [Accounts -> DayQuotas \cup {NoQuota}]
  /\ whitelist \in Whitelists
  /\ clock \in 0 .. DAY - 1
  /\ today \in Slot
  /\ req \in [Handlers -> Requests \cup {Idle}]
  /\ admitted \in [Accounts -> [Slot -> Nat]]
  /\ asked \in [Accounts -> [Slot -> Nat]]

(* An account is never let through for more units in a day than its quota  *)
(* of the day, whichever handlers it was served by, however late Redis     *)
(* executed their scripts, whatever reply was lost and script run again.   *)
DayBudget ==
  \A a \in Accounts, s \in Slot :
    admitted[a][s] # 0 => admitted[a][s] <= dayQuota[a]

(* A slot that handlers may still charge: today's and, until the last of   *)
(* yesterday's requests is executed, yesterday's.                          *)
Open(s) == s = today \/ (s = Yesterday(today) /\ clock < MaxLag)

(* Nobody is billed for what was not asked for: a day's counter holds no   *)
(* more than the units asked for that day, in particular nothing that was  *)
(* left by the same day of an earlier month.                               *)
ChargedWithinDemand ==
  \A a \in Accounts, s \in Slot : Open(s) => dayKey[a][s].val <= asked[a][s]

(* "day_rate_limit_key expire in 1.5 days": a day counter without a time   *)
(* to live is one whose creator is between IncrBy and Expire.              *)
DayKeyExpires ==
  \A a \in Accounts, s \in Slot :
    dayKey[a][s].ttl = NoTTL =>
      \E h \in Handlers : /\ req[h].pc = "expire"
                          /\ req[h].acc = a
                          /\ req[h].slot = s

(* A second's counter dies within as many seconds as its opening request   *)
(* cost units, however many requests it counts: it is never left without a *)
(* time to live.  (That it dies within ONE second, as the tests have it,   *)
(* does not hold: see SecKeyOneSecond.)                                    *)
SecKeyBounded ==
  \A a \in Accounts :
    Exists(secKey[a]) => \E n \in Costs : secKey[a].ttl \in 1 .. n * SEC

(* An account refused for the second gets its quota back, though it keeps  *)
(* asking and being charged for what is refused: no request puts off the   *)
(* end of the counter it fills.                                            *)
SecKeyNotRenewed ==
  [][\A a \in Accounts :
       Exists(secKey[a]) /\ Exists(secKey[a])' => secKey[a].ttl' <= secKey[a].ttl]_vars
----
(* What the script relies on, without a line of it saying so: why the day  *)
(* counter it reads, named after a day of the month computed some time     *)
(* ago, is the counter of that day, whole.                                 *)

(* A command in flight belongs to today, or to yesterday while it is still *)
(* on its way.                                                             *)
InFlight ==
  \A h \in Handlers : Busy(h) =>
    \/ req[h].slot = today /\ req[h].age <= clock
    \/ req[h].slot = Yesterday(today) /\ req[h].age > clock

(* The counter of an open day lives until the day can no longer be charged.*)
Outlives(s, ttl) ==
  \/ ttl = NoTTL
  \/ s = today /\ ttl >= DAY - clock + MaxLag
  \/ s # today /\ ttl >= MaxLag - clock

OpenCountersLast ==
  \A a \in Accounts, s \in Slot :
    Open(s) /\ Exists(dayKey[a][s]) => Outlives(s, dayKey[a][s].ttl)

(* A counter with a time to live is gone when its day of the month begins  *)
(* again: the longest it can still live, by the age of its day.            *)
Dies(s, ttl) ==
  \/ s = today /\ ttl <= DayTTL
  \/ s = Yesterday(today) /\ ttl <= DayTTL /\ ttl + clock < DayTTL + MaxLag
  \/ s = Yesterday(Yesterday(today)) /\ ttl + DAY + clock < DayTTL + MaxLag
  \/ ttl <= 0

CountersDie == \A a \in Accounts, s \in Slot : Dies(s, dayKey[a][s].ttl)

(* Every unit let through is in the counter of its day.                    *)
AdmittedIsCharged ==
  \A a \in Accounts, s \in Slot :
    Open(s) => admitted[a][s] <= dayKey[a][s].val

AbsentIsZero ==
  \A a \in Accounts :
    /\ ~Exists(secKey[a]) => secKey[a].val = 0
    /\ \A s \in Slot : ~Exists(dayKey[a][s]) => dayKey[a][s].val = 0

(* The lifetimes of commands and of counters fit the days they are about.  *)
Lifetimes == InFlight /\ OpenCountersLast /\ CountersDie

DayBudgetInv == Lifetimes /\ AdmittedIsCharged /\ DayBudget
----
(* The rate limiter keeps the promise of the ledger.                       *)
Ledger == INSTANCE QuotaLedger WITH
            spent <- admitted, quota <- dayQuota,
            Days <- Slot, Quotas <- DayQuotas

LedgerSpec == Ledger!Spec
====
