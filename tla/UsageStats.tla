---- MODULE UsageStats ----
(***************************************************************************)
(* The usage statistics: IncreaseAndSetExpire (pkg/utils/cache.go) as      *)
(* RateLimiter.Allow calls it for what it let through, for a chain and for *)
(* all chains, by hour and by day, and as BandwidthHook calls it for the   *)
(* bytes a user moved in a day.                                            *)
(*                                                                         *)
(* A key is counted up by one command and given a time to live by another, *)
(* which only the caller that found it at 0 sends; the four keys of Allow  *)
(* are brought up one after the other.  All keys are named after the time  *)
(* Allow read first, an hour or a day that may be over when Redis executes *)
(* the last of the commands.  An error is logged and the next command sent.*)
(*                                                                         *)
(* An operator whose name ends in an underscore and a word is a slip this  *)
(* code could have had; it is used by no definition.                       *)
(***************************************************************************)
EXTENDS RedisCounter, FiniteSets, Sequences, Functions

CONSTANTS
  Chains,      \* the chains Allow counts for
  Users,       \* the users BandwidthHook counts for, in one direction
  Handlers,    \* goroutines that may be counting at the same time
  Costs,       \* units of a request
  Sizes,       \* bytes of a transfer; what is pinned counts as 0
  Period,      \* ticks in an hour and in a day
  Life,        \* ticks a key is given: 90 minutes, 36 hours
  Slots,       \* hours, and days, with a name of their own
  MaxLag,      \* ticks from the reading of the time to the last command
  MaxRetries,  \* times the Redis client sends a command again
  MaxJobs,     \* bound of the model: requests and transfers counted
  MaxFaults    \* bound of the model: commands that fail, replies that are
               \* lost and goroutines that die

Windows == {"hour", "day"}
Total == "total"
Owners == Chains \cup Users \cup {Total}

ASSUME OwnersAssumption == Total \notin Chains \cup Users /\ Chains \cap Users = {}
ASSUME StatHandlersAssumption == IsFiniteSet(Handlers)
ASSUME UnitsAssumption == Costs \subseteq Nat \ {0} /\ Sizes \subseteq Nat
ASSUME PeriodAssumption ==
  /\ Period \in [Windows -> Nat \ {0}]
  /\ Life \in [Windows -> Nat]
  /\ \A w \in Windows : 2 * Life[w] = 3 * Period[w]
ASSUME StatSlotsAssumption == Slots \in Nat /\ Slots >= 3
ASSUME StatLagAssumption ==
  MaxLag \in Nat /\ \A w \in Windows : 2 * MaxLag <= Period[w]
ASSUME StatBoundAssumption ==
  MaxRetries \in Nat /\ MaxJobs \in Nat /\ MaxFaults \in Nat

Slot == 0 .. Slots - 1
Following_NoWrap(s) == s + 1           \* a slip
Following(s) == IF s = Slots - 1 THEN 0 ELSE s + 1
Previous(s) == IF s = 0 THEN Slots - 1 ELSE s - 1

VARIABLES
  stat,     \* the keys: of a window, a slot and an owner
  clock,    \* ticks since the hour, and the day, began
  now,      \* the hour, and the day
  job,      \* what each handler is doing
  jobs,     \* what was counted so far, in goroutines
  counted,  \* history: what is to be counted under each key
  faults,   \* faults so far
  flawed    \* history: the keys a fault has struck

time == <<clock, now>>
history == <<jobs, counted>>
damage == <<faults, flawed>>
vars == <<stat, time, job, history, damage>>

Idle == [pc |-> "idle"]
Busy(h) == job[h] # Idle

(* What Allow brings up for a request on chain c, in this order, and what  *)
(* BandwidthHook does for a user.                                          *)
KeysOfChain(c) ==
  << <<"hour", c>>, <<"day", c>>, <<"hour", Total>>, <<"day", Total>> >>
KeysOfUser(u) == << <<"day", u>> >>

(* A goroutine with the time it read, its unfinished keys, and the ticks   *)
(* since; the first of todo is the key it is at.                           *)
Job(todo, n) ==
  [pc |-> "incr", todo |-> todo, n |-> n, slot |-> now, age |-> 0, tries |-> 0]

Jobs ==
  [pc : {"incr", "expire"}, todo : Seq(Windows \X Owners),
   n : Costs \cup Sizes, slot : [Windows -> Slot],
   age : 0 .. MaxLag, tries : 0 .. MaxRetries]

Keys == Windows \X Slot \X Owners

(* The key a job is at, and those it has still to bring up or to end.      *)
At(j) == <<j.todo[1][1], j.slot[j.todo[1][1]], j.todo[1][2]>>
Unfinished(j) == {<<j.todo[i][1], j.slot[j.todo[i][1]], j.todo[i][2]>> : i \in DOMAIN j.todo}

Key(k) == stat[k[1]][k[2]][k[3]]
Put(k, c) == stat' = [stat EXCEPT ![k[1]][k[2]][k[3]] = c]

(* A goroutine has something to count.                                     *)
Start(h, j) ==
  /\ ~Busy(h)
  /\ jobs < MaxJobs
  /\ jobs' = jobs + 1
  /\ job' = [job EXCEPT ![h] = j]
  /\ counted' = [k \in Keys |-> IF k \in Unfinished(j) THEN counted[k] + j.n ELSE counted[k]]
  /\ UNCHANGED <<stat, time, damage>>
----
Init ==
  /\ stat = [w \in Windows |-> [s \in Slot |-> [o \in Owners |-> Absent]]]
  /\ clock = [w \in Windows |-> 0]
  /\ now = [w \in Windows |-> 0]
  /\ job = [h \in Handlers |-> Idle]
  /\ jobs = 0
  /\ counted = [k \in Keys |-> 0]
  /\ faults = 0
  /\ flawed = {}

(* The script has let through a request of which Allow read the time.  (A  *)
(* refused one is not counted, nor is one of a whitelisted account.)       *)
Allow(h, c, n) == Start(h, Job(KeysOfChain(c), n))

(* BandwidthHook, for an account that is not whitelisted.                  *)
BandwidthHook(h, u, n) == Start(h, Job(KeysOfUser(u), n))
----
(* IncreaseAndSetExpire returns, and the next key's turn comes.            *)
Later(j) ==
  IF Len(j.todo) = 1 THEN Idle
  ELSE [pc |-> "incr", todo |-> Tail(j.todo), n |-> j.n, slot |-> j.slot,
        age |-> j.age, tries |-> 0]

Advance(h) == job' = [job EXCEPT ![h] = Later(job[h])]

(* A slip: a key is taken for new when it holds 1.                         *)
Incr_One(h) ==
  LET j == job[h]
      c == IncrBy(Key(At(j)), j.n)
  IN /\ j.pc = "incr"
     /\ Put(At(j), c)
     /\ IF c.val = 1 THEN job' = [job EXCEPT ![h].pc = "expire", ![h].tries = 0]
        ELSE Advance(h)
     /\ UNCHANGED <<time, history, damage>>

(* IncrBy: the caller whose units are all there is goes on to Expire.      *)
Incr(h) ==
  LET j == job[h]
      c == IncrBy(Key(At(j)), j.n)
  IN /\ j.pc = "incr"
     /\ Put(At(j), c)
     /\ IF c.val = j.n THEN job' = [job EXCEPT ![h].pc = "expire", ![h].tries = 0]
        ELSE Advance(h)
     /\ UNCHANGED <<time, history, damage>>

(* A slip: the same 90 minutes for the keys of a day.                      *)
Lifetime_Hour(w) == Life["hour"]
Lifetime(w) == Life[w]

SetExpire(h) ==
  LET k == At(job[h]) IN
  /\ job[h].pc = "expire"
  /\ Put(k, Expire(Key(k), Lifetime(k[1])))
  /\ Advance(h)
  /\ UNCHANGED <<time, history, damage>>
----
Fault(h, ks) ==
  /\ Busy(h)
  /\ faults < MaxFaults
  /\ faults' = faults + 1
  /\ flawed' = flawed \cup ks

(* The command is not executed, or the client library gives up: the error  *)
(* is logged, the next key's turn comes.  When the request's context is    *)
(* cancelled this happens to all that are left.                            *)
CommandFails(h) ==
  /\ Fault(h, {At(job[h])})
  /\ Advance(h)
  /\ UNCHANGED <<stat, time, history>>

(* The command is executed, its reply is lost, and it is sent again.       *)
ReplyLost(h) ==
  LET j == job[h]
      k == At(j)
  IN /\ Fault(h, {k})
     /\ j.tries < MaxRetries
     /\ Put(k, IF j.pc = "incr" THEN IncrBy(Key(k), j.n) ELSE Expire(Key(k), Lifetime(k[1])))
     /\ job' = [job EXCEPT ![h].tries = @ + 1]
     /\ UNCHANGED <<time, history>>

(* The process dies.                                                       *)
Crash(h) ==
  /\ Fault(h, Unfinished(job[h]))
  /\ job' = [job EXCEPT ![h] = Idle]
  /\ UNCHANGED <<stat, time, history>>
----
(* Time passes.  The history of an hour or day is kept until the next has  *)
(* ended; what a fault left of a key is remembered while the key is there. *)
Ends(w) == clock[w] + 1 = Period[w]

Tick ==
  /\ \A h \in Handlers : Busy(h) => job[h].age < MaxLag
  /\ stat' = [w \in Windows |-> [s \in Slot |-> [o \in Owners |-> Age(stat[w][s][o])]]]
  /\ job' = [h \in Handlers |-> IF Busy(h) THEN [job[h] EXCEPT !.age = @ + 1] ELSE Idle]
  /\ clock' = [w \in Windows |-> IF Ends(w) THEN 0 ELSE clock[w] + 1]
  /\ now' = [w \in Windows |-> IF Ends(w) THEN Following(now[w]) ELSE now[w]]
  /\ counted' = [k \in Keys |->
       IF Ends(k[1]) /\ k[2] # now[k[1]] THEN 0 ELSE counted[k]]
  /\ flawed' = {k \in flawed :
       Ends(k[1]) /\ k[2] = Following(now[k[1]]) => Exists(Age(Key(k)))}
  /\ UNCHANGED <<jobs, faults>>

Step(h) == Incr(h) \/ SetExpire(h)

Next ==
  \/ \E h \in Handlers :
       \/ \E c \in Chains, n \in Costs : Allow(h, c, n)
       \/ \E u \in Users, n \in Sizes : BandwidthHook(h, u, n)
       \/ Step(h)
       \/ CommandFails(h)
       \/ ReplyLost(h)
       \/ Crash(h)
  \/ Tick

Spec == Init /\ [][Next]_vars
----
TypeOK ==
  /\ stat \in [Windows -> [Slot -> [Owners -> Counter]]]
  /\ \A w \in Windows : clock[w] \in 0 .. Period[w] - 1
  /\ now \in [Windows -> Slot]
  /\ job \in [Handlers -> Jobs \cup {Idle}]
  /\ jobs \in 0 .. MaxJobs
  /\ counted \in [Keys -> Nat]
  /\ faults \in 0 .. MaxFaults
  /\ flawed \subseteq Keys

(* An hour or a day that may still be counted: the running one and, until  *)
(* the last command that read the time before its end, the one before.     *)
Open(w, s) == s = now[w] \/ (s = Previous(now[w]) /\ clock[w] < MaxLag)

(* The units a handler, and all handlers, have still to bring up under a   *)
(* key.                                                                    *)
Left(j, k) ==
  IF j # Idle /\ k \in Unfinished(j) /\ (j.pc = "expire" => k # At(j)) THEN j.n ELSE 0

ToCome(k) == SumFunctionOnSet([h \in Handlers |-> Left(job[h], k)], Handlers)

(* Whatever the order of the handlers' commands, what was let through in   *)
(* an hour or a day and is not under way is counted once, for the chain    *)
(* and in the total, under keys that hold nothing of an earlier month and  *)
(* do not go away before the last command of their hour or day: the totals *)
(* agree with the chains.  Keys struck by a fault are excepted.            *)
CountedOnce ==
  \A k \in Keys \ flawed :
    Open(k[1], k[2]) => Key(k).val + ToCome(k) = counted[k]

(* A key without a time to live is one whose creator is about to set it,   *)
(* or was kept from it by a fault.                                         *)
KeysExpire ==
  \A k \in Keys \ flawed :
    Key(k).ttl = NoTTL => \E h \in Handlers : job[h].pc = "expire" /\ At(job[h]) = k
====
