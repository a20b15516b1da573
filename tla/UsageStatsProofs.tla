---- MODULE UsageStatsProofs ----
(***************************************************************************)
(* Proofs about UsageStats, for every set of chains, users and handlers,   *)
(* every cost and size, every length of an hour and a day, and any number  *)
(* of faults.                                                              *)
(***************************************************************************)
EXTENDS UsageStats, SequenceTheorems, Sums, TLAPS

(* A key that is not there holds nothing, and a goroutine that is counting *)
(* has a key it is at.                                                     *)
AbsentIsZero == \A k \in Keys : Key(k).ttl = 0 => Key(k).val = 0
Working == \A h \in Handlers : Busy(h) => job[h].todo # <<>>

Typed == TypeOK /\ AbsentIsZero /\ Working

(* The commands, on a counter.                                             *)
LEMMA IncrByFacts ==
  ASSUME NEW c \in Counter, NEW n \in Nat, c.ttl = 0 => c.val = 0
  PROVE  /\ IncrBy(c, n) \in Counter
         /\ IncrBy(c, n).val = c.val + n
         /\ IncrBy(c, n).ttl # 0
         /\ c.ttl = 0 => IncrBy(c, n).val = n
         /\ IncrBy(c, n).ttl = NoTTL => c.ttl \in {0, NoTTL}
  BY DEF Counter, IncrBy, Exists, NoTTL

LEMMA ExpireFacts ==
  ASSUME NEW c \in Counter, NEW d \in Nat \ {0}, c.ttl = 0 => c.val = 0
  PROVE  /\ Expire(c, d) \in Counter
         /\ Expire(c, d).ttl = 0 => Expire(c, d).val = 0
         /\ Expire(c, d).ttl # NoTTL
  BY DEF Counter, Expire, Exists, NoTTL

LEMMA AgeFacts ==
  ASSUME NEW c \in Counter, c.ttl = 0 => c.val = 0
  PROVE  /\ Age(c) \in Counter
         /\ Age(c).ttl = 0 => Age(c).val = 0
         /\ Age(c).ttl = NoTTL => c.ttl = NoTTL
  BY DEF Counter, Age, NoTTL

LEMMA LifePositive == \A w \in Windows : Life[w] \in Nat \ {0}
<1>1. ASSUME NEW w \in Windows PROVE Life[w] \in Nat \ {0}
  <2>1. Period[w] \in Nat \ {0} /\ Life[w] \in Nat /\ 2 * Life[w] = 3 * Period[w]
    BY PeriodAssumption
  <2> QED  BY <2>1
<1> QED  BY <1>1

LEMMA KeyTyped ==
  ASSUME Typed, NEW k \in Keys
  PROVE  Key(k) \in Counter /\ (Key(k).ttl = 0 => Key(k).val = 0)
<1>1. k[1] \in Windows /\ k[2] \in Slot /\ k[3] \in Owners
  BY DEF Keys
<1>2. stat \in [Windows -> [Slot -> [Owners -> Counter]]]
  BY DEF Typed, TypeOK
<1>3. Key(k) \in Counter
  BY <1>1, <1>2 DEF Key
<1> QED  BY <1>3 DEF Typed, AbsentIsZero

(* Writing one key leaves the others as they are.                          *)
LEMMA PutFacts ==
  ASSUME Typed, NEW k \in Keys, NEW c \in Counter, Put(k, c)
  PROVE  /\ stat' \in [Windows -> [Slot -> [Owners -> Counter]]]
         /\ Key(k)' = c
         /\ \A m \in Keys \ {k} : Key(m)' = Key(m)
<1>1. k \in Windows \X Slot \X Owners
  BY DEF Keys
<1>2. stat \in [Windows -> [Slot -> [Owners -> Counter]]]
  BY DEF Typed, TypeOK
<1>3. stat' = [stat EXCEPT ![k[1]][k[2]][k[3]] = c]
  BY DEF Put
<1>4. stat' \in [Windows -> [Slot -> [Owners -> Counter]]]
  BY <1>1, <1>2, <1>3
<1>5. Key(k)' = c
  BY <1>1, <1>2, <1>3 DEF Key
<1>6. ASSUME NEW m \in Keys \ {k} PROVE Key(m)' = Key(m)
  <2>1. m \in Windows \X Slot \X Owners
    BY <1>6 DEF Keys
  <2>2. m[1] # k[1] \/ m[2] # k[2] \/ m[3] # k[3]
    BY <1>1, <1>6, <2>1
  <2> QED  BY <1>1, <1>2, <1>3, <2>1, <2>2 DEF Key
<1> QED  BY <1>4, <1>5, <1>6
----
(* What a goroutine that is counting is at.                                *)
LEMMA JobFacts ==
  ASSUME Typed, NEW h \in Handlers, Busy(h)
  PROVE  /\ job[h] \in Jobs
         /\ job[h].pc \in {"incr", "expire"}
         /\ job[h].todo \in Seq(Windows \X Owners)
         /\ job[h].todo # <<>>
         /\ job[h].n \in Costs \cup Sizes
         /\ job[h].n \in Nat
         /\ job[h].slot \in [Windows -> Slot]
         /\ job[h].age \in 0 .. MaxLag
         /\ job[h].tries \in 0 .. MaxRetries
         /\ At(job[h]) \in Keys
         /\ At(job[h]) \in Unfinished(job[h])
         /\ Unfinished(job[h]) \subseteq Keys
<1>1. job[h] \in Jobs /\ job[h].todo # <<>>
  BY DEF Typed, TypeOK, Working, Busy
<1>2. /\ job[h].pc \in {"incr", "expire"}
      /\ job[h].todo \in Seq(Windows \X Owners)
      /\ job[h].n \in Costs \cup Sizes
      /\ job[h].slot \in [Windows -> Slot]
      /\ job[h].age \in 0 .. MaxLag
      /\ job[h].tries \in 0 .. MaxRetries
  BY <1>1 DEF Jobs
<1>3. job[h].n \in Nat
  BY <1>2, UnitsAssumption
<1>4. 1 \in DOMAIN job[h].todo
  BY <1>1, <1>2
<1>5. ASSUME NEW i \in DOMAIN job[h].todo
      PROVE  <<job[h].todo[i][1], job[h].slot[job[h].todo[i][1]], job[h].todo[i][2]>> \in Keys
  <2>1. job[h].todo[i] \in Windows \X Owners
    BY <1>2, <1>5
  <2> QED  BY <1>2, <2>1 DEF Keys
<1> QED  BY <1>1, <1>2, <1>3, <1>4, <1>5 DEF At, Unfinished

LEMMA PcBusy ==
  ASSUME NEW h \in Handlers, job[h].pc # "idle"
  PROVE  Busy(h)
  BY DEF Busy, Idle

(* The handlers after one of them has moved on, and all that it changes.   *)
LEMMA JobPut ==
  ASSUME Typed, NEW h \in Handlers, NEW j \in Jobs \cup {Idle},
         j # Idle => j.todo # <<>>, job' = [job EXCEPT ![h] = j]
  PROVE  job' \in [Handlers -> Jobs \cup {Idle}] /\ Working'
<1>1. job \in [Handlers -> Jobs \cup {Idle}]
  BY DEF Typed, TypeOK
<1>2. job' \in [Handlers -> Jobs \cup {Idle}]
  BY <1>1
<1>3. \A g \in Handlers : job'[g] = IF g = h THEN j ELSE job[g]
  BY <1>1
<1> QED  BY <1>2, <1>3 DEF Typed, Working, Busy

LEMMA AdvanceTyped ==
  ASSUME Typed, NEW h \in Handlers, Busy(h), Advance(h)
  PROVE  job' \in [Handlers -> Jobs \cup {Idle}] /\ Working'
<1> DEFINE j == job[h]
<1>1. j \in Jobs /\ j.todo \in Seq(Windows \X Owners) /\ j.todo # <<>>
  BY JobFacts
<1>2. CASE Len(j.todo) = 1
  <2>1. job' = [job EXCEPT ![h] = Idle]
    BY <1>2 DEF Advance, Later
  <2> QED  BY <2>1, JobPut
<1>3. CASE Len(j.todo) # 1
  <2> DEFINE i == [pc |-> "incr", todo |-> Tail(j.todo), n |-> j.n, slot |-> j.slot,
                   age |-> j.age, tries |-> 0]
  <2>1. Tail(j.todo) \in Seq(Windows \X Owners) /\ Len(Tail(j.todo)) = Len(j.todo) - 1
    BY <1>1
  <2>2. Tail(j.todo) # <<>>
    <3>1. Len(Tail(j.todo)) # 0
      BY <1>1, <1>3, <2>1
    <3> QED  BY <2>1, <3>1, EmptySeq
  <2>3. 0 \in 0 .. MaxRetries
    BY StatBoundAssumption
  <2>4. i \in Jobs /\ i.todo # <<>>
    BY <1>1, <2>1, <2>2, <2>3 DEF Jobs
  <2>5. job' = [job EXCEPT ![h] = i]
    BY <1>3 DEF Advance, Later
  <2> HIDE DEF i
  <2> QED  BY <2>4, <2>5, JobPut
<1> QED  BY <1>2, <1>3

(* The next state of the handler at the same key, in its next command or   *)
(* its next attempt.                                                       *)
LEMMA StayTyped ==
  ASSUME Typed, NEW h \in Handlers, Busy(h),
         \/ job' = [job EXCEPT ![h].pc = "expire", ![h].tries = 0]
         \/ job' = [job EXCEPT ![h].tries = @ + 1] /\ job[h].tries < MaxRetries
  PROVE  job' \in [Handlers -> Jobs \cup {Idle}] /\ Working'
<1>1. job \in [Handlers -> Jobs \cup {Idle}] /\ job[h] \in Jobs /\ job[h].todo # <<>>
  BY JobFacts DEF Typed, TypeOK
<1>2. 0 \in 0 .. MaxRetries
  BY StatBoundAssumption
<1>3. CASE job' = [job EXCEPT ![h].pc = "expire", ![h].tries = 0]
  <2> DEFINE j == [[job[h] EXCEPT !.pc = "expire"] EXCEPT !.tries = 0]
  <2>1. j \in Jobs /\ j.todo = job[h].todo
    BY <1>1, <1>2 DEF Jobs
  <2>2. job' = [job EXCEPT ![h] = j]
    BY <1>1, <1>3
  <2> HIDE DEF j
  <2> QED  BY <1>1, <2>1, <2>2, JobPut
<1>4. CASE job' = [job EXCEPT ![h].tries = @ + 1] /\ job[h].tries < MaxRetries
  <2> DEFINE j == [job[h] EXCEPT !.tries = @ + 1]
  <2>1. job[h].tries + 1 \in 0 .. MaxRetries
    BY <1>1, <1>4, StatBoundAssumption DEF Jobs
  <2>2. j \in Jobs /\ j.todo = job[h].todo
    BY <1>1, <2>1 DEF Jobs
  <2>3. job' = [job EXCEPT ![h] = j]
    BY <1>1, <1>4
  <2> HIDE DEF j
  <2> QED  BY <1>1, <2>2, <2>3, JobPut
<1> QED  BY <1>3, <1>4
----
(* What a step of a handler may do: write the key the handler is at, with  *)
(* the result of a command, and move on.                                   *)
LEMMA IncrTyped ==
  ASSUME Typed, NEW h \in Handlers, Incr(h)
  PROVE  Typed'
<1> DEFINE k == At(job[h])
           c == IncrBy(Key(k), job[h].n)
<1>1. Busy(h) /\ Put(k, c) /\ UNCHANGED <<time, history, damage>>
  BY PcBusy DEF Incr
<1>2. k \in Keys /\ job[h].n \in Nat
  BY <1>1, JobFacts
<1>3. c \in Counter /\ c.ttl # 0
  BY <1>2, KeyTyped, IncrByFacts
<1>4. job' \in [Handlers -> Jobs \cup {Idle}] /\ Working'
  BY <1>1, StayTyped, AdvanceTyped DEF Incr
<1>5. /\ stat' \in [Windows -> [Slot -> [Owners -> Counter]]]
      /\ \A m \in Keys : Key(m)'.ttl = 0 => Key(m)'.val = 0
  <2> HIDE DEF c, k
  <2> QED  BY <1>1, <1>2, <1>3, PutFacts, KeyTyped
<1> QED  BY <1>1, <1>4, <1>5 DEF Typed, TypeOK, AbsentIsZero, time, history, damage

LEMMA SetExpireTyped ==
  ASSUME Typed, NEW h \in Handlers, SetExpire(h)
  PROVE  Typed'
<1> DEFINE k == At(job[h])
           c == Expire(Key(k), Lifetime(k[1]))
<1>1. Busy(h) /\ Put(k, c) /\ Advance(h) /\ UNCHANGED <<time, history, damage>>
  BY PcBusy DEF SetExpire
<1>2. k \in Keys /\ Lifetime(k[1]) \in Nat \ {0}
  BY <1>1, JobFacts, LifePositive DEF Keys, Lifetime
<1>3. c \in Counter /\ (c.ttl = 0 => c.val = 0)
  BY <1>2, KeyTyped, ExpireFacts
<1>4. job' \in [Handlers -> Jobs \cup {Idle}] /\ Working'
  BY <1>1, AdvanceTyped
<1>5. /\ stat' \in [Windows -> [Slot -> [Owners -> Counter]]]
      /\ \A m \in Keys : Key(m)'.ttl = 0 => Key(m)'.val = 0
  <2> HIDE DEF c, k
  <2> QED  BY <1>1, <1>2, <1>3, PutFacts, KeyTyped
<1> QED  BY <1>1, <1>4, <1>5 DEF Typed, TypeOK, AbsentIsZero, time, history, damage

(* One more fault, about keys that exist by name.                          *)
LEMMA FaultTyped ==
  ASSUME Typed, NEW h \in Handlers, NEW ks, ks \subseteq Keys, Fault(h, ks)
  PROVE  faults' \in 0 .. MaxFaults /\ flawed' \subseteq Keys
<1>1. faults \in 0 .. MaxFaults /\ flawed \subseteq Keys
  BY DEF Typed, TypeOK
<1> QED  BY <1>1, StatBoundAssumption DEF Fault

LEMMA CommandFailsTyped ==
  ASSUME Typed, NEW h \in Handlers, CommandFails(h)
  PROVE  Typed'
<1>1. Fault(h, {At(job[h])}) /\ Advance(h) /\ UNCHANGED <<stat, time, history>>
  BY DEF CommandFails
<1>2. Busy(h)
  BY <1>1 DEF Fault
<1>3. {At(job[h])} \subseteq Keys
  BY <1>2, JobFacts
<1>4. faults' \in 0 .. MaxFaults /\ flawed' \subseteq Keys
  BY <1>1, <1>3, FaultTyped
<1>5. job' \in [Handlers -> Jobs \cup {Idle}] /\ Working'
  BY <1>1, <1>2, AdvanceTyped
<1> QED  BY <1>1, <1>4, <1>5 DEF Typed, TypeOK, AbsentIsZero, Key, time, history

LEMMA CrashTyped ==
  ASSUME Typed, NEW h \in Handlers, Crash(h)
  PROVE  Typed'
<1>1. /\ Fault(h, Unfinished(job[h])) /\ job' = [job EXCEPT ![h] = Idle]
      /\ UNCHANGED <<stat, time, history>>
  BY DEF Crash
<1>2. Unfinished(job[h]) \subseteq Keys
  BY <1>1, JobFacts DEF Fault
<1>3. faults' \in 0 .. MaxFaults /\ flawed' \subseteq Keys
  BY <1>1, <1>2, FaultTyped
<1>4. job' \in [Handlers -> Jobs \cup {Idle}] /\ Working'
  BY <1>1, JobPut
<1> QED  BY <1>1, <1>3, <1>4 DEF Typed, TypeOK, AbsentIsZero, Key, time, history

LEMMA ReplyLostTyped ==
  ASSUME Typed, NEW h \in Handlers, ReplyLost(h)
  PROVE  Typed'
<1> DEFINE k == At(job[h])
           c == IF job[h].pc = "incr" THEN IncrBy(Key(k), job[h].n)
                ELSE Expire(Key(k), Lifetime(k[1]))
<1>1. /\ Fault(h, {k}) /\ Put(k, c) /\ job[h].tries < MaxRetries
      /\ job' = [job EXCEPT ![h].tries = @ + 1]
      /\ UNCHANGED <<time, history>>
  BY DEF ReplyLost
<1>2. Busy(h)
  BY <1>1 DEF Fault
<1>3. k \in Keys /\ job[h].n \in Nat
  BY <1>2, JobFacts
<1>4. Lifetime(k[1]) \in Nat \ {0}
  BY <1>3, LifePositive DEF Keys, Lifetime
<1>5. c \in Counter /\ (c.ttl = 0 => c.val = 0)
  <2>1. CASE job[h].pc = "incr"
    BY <1>3, <2>1, KeyTyped, IncrByFacts
  <2>2. CASE job[h].pc # "incr"
    BY <1>3, <1>4, <2>2, KeyTyped, ExpireFacts
  <2> QED  BY <2>1, <2>2
<1>6. faults' \in 0 .. MaxFaults /\ flawed' \subseteq Keys
  BY <1>1, <1>3, FaultTyped
<1>7. job' \in [Handlers -> Jobs \cup {Idle}] /\ Working'
  BY <1>1, <1>2, StayTyped
<1>8. /\ stat' \in [Windows -> [Slot -> [Owners -> Counter]]]
      /\ \A m \in Keys : Key(m)'.ttl = 0 => Key(m)'.val = 0
  <2> HIDE DEF c, k
  <2> QED  BY <1>1, <1>3, <1>5, PutFacts, KeyTyped
<1> QED  BY <1>1, <1>6, <1>7, <1>8 DEF Typed, TypeOK, AbsentIsZero, time, history
----
LEMMA StartTyped ==
  ASSUME Typed, NEW h \in Handlers, NEW j \in Jobs, j.todo # <<>>, Start(h, j)
  PROVE  Typed'
<1>1. /\ jobs < MaxJobs /\ jobs' = jobs + 1 /\ job' = [job EXCEPT ![h] = j]
      /\ counted' = [k \in Keys |-> IF k \in Unfinished(j) THEN counted[k] + j.n ELSE counted[k]]
      /\ UNCHANGED <<stat, time, damage>>
  BY DEF Start
<1>2. job' \in [Handlers -> Jobs \cup {Idle}] /\ Working'
  BY <1>1, JobPut
<1>3. j.n \in Nat
  BY UnitsAssumption DEF Jobs
<1>4. counted' \in [Keys -> Nat]
  BY <1>1, <1>3 DEF Typed, TypeOK
<1>5. jobs' \in 0 .. MaxJobs
  BY <1>1, StatBoundAssumption DEF Typed, TypeOK
<1> QED  BY <1>1, <1>2, <1>4, <1>5 DEF Typed, TypeOK, AbsentIsZero, Key, time, damage

(* What a goroutine has read and is to bring up when it begins: the time   *)
(* it is, and every key once.                                              *)
EachOnce(todo) == \A i, k \in DOMAIN todo : todo[i] = todo[k] => i = k
Fresh(j) ==
  j.pc = "incr" /\ j.slot = now /\ j.age = 0 /\ j.todo # <<>> /\ EachOnce(j.todo)

LEMMA JobTyped ==
  ASSUME Typed, NEW todo \in Seq(Windows \X Owners), NEW n \in Costs \cup Sizes,
         todo # <<>>, EachOnce(todo)
  PROVE  Job(todo, n) \in Jobs /\ Fresh(Job(todo, n))
<1>1. 0 \in 0 .. MaxLag /\ 0 \in 0 .. MaxRetries
  BY StatLagAssumption, StatBoundAssumption
<1> QED  BY <1>1 DEF Job, Jobs, Typed, TypeOK, Fresh

LEMMA BeginTyped ==
  ASSUME Typed, NEW h \in Handlers,
         \/ \E c \in Chains, n \in Costs : Allow(h, c, n)
         \/ \E u \in Users, n \in Sizes : BandwidthHook(h, u, n)
  PROVE  /\ Typed'
         /\ \E j \in Jobs : Fresh(j) /\ Start(h, j)
<1>1. ASSUME NEW c \in Chains, NEW n \in Costs, Allow(h, c, n)
      PROVE  \E j \in Jobs : Fresh(j) /\ Start(h, j)
  <2> DEFINE todo == KeysOfChain(c)
  <2>1. todo \in Seq(Windows \X Owners) /\ todo # <<>>
    BY DEF KeysOfChain, Windows, Owners
  <2>2. EachOnce(todo)
    <3>1. c # Total /\ "hour" # "day"
      BY OwnersAssumption
    <3>2. /\ DOMAIN todo = 1 .. 4
          /\ todo[1] = <<"hour", c>> /\ todo[2] = <<"day", c>>
          /\ todo[3] = <<"hour", Total>> /\ todo[4] = <<"day", Total>>
      BY DEF KeysOfChain
    <3>3. /\ todo[1] # todo[2] /\ todo[1] # todo[3] /\ todo[1] # todo[4]
          /\ todo[2] # todo[3] /\ todo[2] # todo[4] /\ todo[3] # todo[4]
      BY <3>1, <3>2
    <3>4. \A i \in DOMAIN todo : i \in {1, 2, 3, 4}
      BY <3>2
    <3> HIDE DEF todo
    <3> QED  BY <3>3, <3>4 DEF EachOnce
  <2>3. Job(todo, n) \in Jobs /\ Fresh(Job(todo, n))
    <3> HIDE DEF todo
    <3> QED  BY <2>1, <2>2, JobTyped
  <2> QED  BY <1>1, <2>3 DEF Allow
<1>2. ASSUME NEW u \in Users, NEW n \in Sizes, BandwidthHook(h, u, n)
      PROVE  \E j \in Jobs : Fresh(j) /\ Start(h, j)
  <2>1. KeysOfUser(u) \in Seq(Windows \X Owners) /\ KeysOfUser(u) # <<>>
    BY DEF KeysOfUser, Windows, Owners
  <2>2. EachOnce(KeysOfUser(u))
    BY DEF KeysOfUser, EachOnce
  <2> QED  BY <1>2, <2>1, <2>2, JobTyped DEF BandwidthHook
<1>3. PICK j \in Jobs : Fresh(j) /\ Start(h, j)
  BY <1>1, <1>2
<1> QED  BY <1>3, StartTyped DEF Fresh

LEMMA TickTyped ==
  ASSUME Typed, Tick
  PROVE  Typed'
<1>1. ASSUME NEW w \in Windows, NEW s \in Slot, NEW o \in Owners
      PROVE  /\ stat'[w][s][o] = Age(stat[w][s][o])
             /\ stat'[w][s][o] \in Counter
             /\ stat'[w][s][o].ttl = 0 => stat'[w][s][o].val = 0
  <2>1. <<w, s, o>> \in Keys
    BY DEF Keys
  <2>2. stat[w][s][o] \in Counter /\ (stat[w][s][o].ttl = 0 => stat[w][s][o].val = 0)
    BY <2>1, KeyTyped DEF Key
  <2>3. stat'[w][s][o] = Age(stat[w][s][o])
    BY DEF Tick
  <2> QED  BY <2>2, <2>3, AgeFacts
<1>2. stat' \in [Windows -> [Slot -> [Owners -> Counter]]]
  BY <1>1 DEF Tick
<1>3. AbsentIsZero'
  BY <1>1 DEF AbsentIsZero, Key, Keys
<1>4. ASSUME NEW h \in Handlers
      PROVE  job'[h] \in Jobs \cup {Idle} /\ (job'[h] # Idle => job'[h].todo # <<>>)
  <2>1. CASE Busy(h)
    <3>1. job[h] \in Jobs /\ job[h].age \in 0 .. MaxLag /\ job[h].age < MaxLag
          /\ job[h].todo # <<>>
      BY <2>1, JobFacts DEF Tick
    <3>2. job[h].age + 1 \in 0 .. MaxLag
      BY <3>1, StatLagAssumption
    <3>3. job'[h] = [job[h] EXCEPT !.age = @ + 1]
      BY <2>1 DEF Tick
    <3> QED  BY <3>1, <3>2, <3>3 DEF Jobs
  <2>2. CASE ~Busy(h)
    BY <2>2 DEF Tick
  <2> QED  BY <2>1, <2>2
<1>5. job' \in [Handlers -> Jobs \cup {Idle}] /\ Working'
  BY <1>4 DEF Working, Busy, Tick
<1>6. ASSUME NEW w \in Windows
      PROVE  clock'[w] \in 0 .. Period[w] - 1 /\ now'[w] \in Slot
  <2>1. clock[w] \in 0 .. Period[w] - 1 /\ now[w] \in Slot
    BY DEF Typed, TypeOK
  <2>2. Period[w] \in Nat \ {0}
    BY PeriodAssumption
  <2>3. clock'[w] = IF clock[w] + 1 = Period[w] THEN 0 ELSE clock[w] + 1
    BY DEF Tick, Ends
  <2>4. clock'[w] \in 0 .. Period[w] - 1
    BY <2>1, <2>2, <2>3
  <2>5. Following(now[w]) \in Slot
    BY <2>1, StatSlotsAssumption DEF Following, Slot
  <2> QED  BY <2>1, <2>4, <2>5 DEF Tick
<1>7. now' \in [Windows -> Slot]
  BY <1>6 DEF Tick
<1>8. counted' \in [Keys -> Nat]
  BY DEF Tick, Typed, TypeOK
<1>9. flawed' \subseteq Keys
  BY DEF Tick, Typed, TypeOK
<1> QED  BY <1>2, <1>3, <1>5, <1>6, <1>7, <1>8, <1>9 DEF Typed, TypeOK, Tick

LEMMA InitTyped == Init => Typed
<1> SUFFICES ASSUME Init PROVE Typed
  OBVIOUS
<1>1. Absent \in Counter
  BY DEF Absent, Counter
<1>2. stat \in [Windows -> [Slot -> [Owners -> Counter]]]
  BY <1>1 DEF Init
<1>3. \A k \in Keys : Key(k) = Absent
  BY DEF Init, Key, Keys
<1>4. AbsentIsZero
  BY <1>3 DEF AbsentIsZero, Absent
<1>5. \A w \in Windows : clock[w] \in 0 .. Period[w] - 1
  <2>1. \A w \in Windows : clock[w] = 0 /\ Period[w] \in Nat \ {0}
    BY PeriodAssumption DEF Init
  <2> QED  BY <2>1
<1>6. now \in [Windows -> Slot]
  BY StatSlotsAssumption DEF Init, Slot
<1>7. counted \in [Keys -> Nat]
  BY DEF Init
<1>8. job \in [Handlers -> Jobs \cup {Idle}] /\ Working
  BY DEF Init, Working, Busy
<1>9. jobs \in 0 .. MaxJobs /\ faults \in 0 .. MaxFaults /\ flawed \subseteq Keys
  BY StatBoundAssumption DEF Init
<1> QED  BY <1>2, <1>4, <1>5, <1>6, <1>7, <1>8, <1>9 DEF Typed, TypeOK

LEMMA NextTyped == Typed /\ [Next]_vars => Typed'
<1> SUFFICES ASSUME Typed, [Next]_vars PROVE Typed'
  OBVIOUS
<1>1. ASSUME NEW h \in Handlers,
             \/ \E c \in Chains, n \in Costs : Allow(h, c, n)
             \/ \E u \in Users, n \in Sizes : BandwidthHook(h, u, n)
      PROVE  Typed'
  BY <1>1, BeginTyped
<1>2. ASSUME NEW h \in Handlers, Step(h) PROVE Typed'
  BY <1>2, IncrTyped, SetExpireTyped DEF Step
<1>3. ASSUME NEW h \in Handlers, CommandFails(h) \/ ReplyLost(h) \/ Crash(h) PROVE Typed'
  BY <1>3, CommandFailsTyped, ReplyLostTyped, CrashTyped
<1>4. CASE UNCHANGED vars
  BY <1>4 DEF vars, time, history, damage, Typed, TypeOK, AbsentIsZero, Working, Busy, Key
<1> QED  BY <1>1, <1>2, <1>3, <1>4, TickTyped DEF Next

LEMMA TypedInvariant == Spec => []Typed
  BY InitTyped, NextTyped, PTL DEF Spec

(* The counters of the statistics keep their types, over the ends of hours *)
(* and days and whatever happens to a command or a process.                *)
THEOREM TypeCorrect == Spec => []TypeOK
<1>1. Typed => TypeOK
  BY DEF Typed
<1> QED  BY <1>1, TypedInvariant, PTL
----
(* Somebody is about to give a key its time to live.                       *)
Ending(k) == \E h \in Handlers : job[h].pc = "expire" /\ At(job[h]) = k

(* KeysExpire, key by key.                                                 *)
Covered(k) == k \notin flawed /\ Key(k).ttl = NoTTL => Ending(k)

(* The other keys, when a handler writes one and moves on: who was about   *)
(* to end one of them still is.                                            *)
LEMMA OthersCovered ==
  ASSUME Typed, KeysExpire, NEW h \in Handlers, NEW k \in Keys, NEW m \in Keys \ {k},
         job[h].pc = "expire" => At(job[h]) = k,
         \A g \in Handlers \ {h} : job'[g] = job[g],
         Key(m)' = Key(m), flawed \subseteq flawed'
  PROVE  Covered(m)'
<1> SUFFICES ASSUME m \notin flawed', Key(m)'.ttl = NoTTL PROVE Ending(m)'
  BY DEF Covered
<1>1. m \in Keys \ flawed /\ Key(m).ttl = NoTTL
  OBVIOUS
<1>2. PICK g \in Handlers : job[g].pc = "expire" /\ At(job[g]) = m
  BY <1>1 DEF KeysExpire
<1>3. g # h
  BY <1>2
<1> QED  BY <1>2, <1>3 DEF Ending, At

LEMMA IncrCovers ==
  ASSUME Typed, KeysExpire, NEW h \in Handlers, Incr(h), NEW m \in Keys
  PROVE  Covered(m)'
<1>1. /\ Busy(h) /\ job[h].pc = "incr" /\ UNCHANGED <<time, history, damage>>
      /\ Put(At(job[h]), IncrBy(Key(At(job[h])), job[h].n))
  BY PcBusy DEF Incr
<1>2. /\ job[h].n \in Nat /\ job \in [Handlers -> Jobs \cup {Idle}] /\ job[h] \in Jobs
      /\ At(job[h]) \in Keys
  BY <1>1, JobFacts DEF Typed, TypeOK
<1> PICK k \in Keys : k = At(job[h])
  BY <1>2
<1> PICK c : c = IncrBy(Key(k), job[h].n)
  OBVIOUS
<1>3. Key(k) \in Counter /\ (Key(k).ttl = 0 => Key(k).val = 0)
  BY <1>2, KeyTyped
<1>4. /\ c \in Counter
      /\ Key(k).ttl = 0 => c.val = job[h].n
      /\ c.ttl = NoTTL => Key(k).ttl \in {0, NoTTL}
  BY <1>2, <1>3, IncrByFacts
<1>5. Key(k)' = c /\ \A n \in Keys \ {k} : Key(n)' = Key(n)
  BY <1>1, <1>4, PutFacts
<1>6. \A g \in Handlers \ {h} : job'[g] = job[g]
  BY <1>2 DEF Incr, Advance
<1>7. flawed' = flawed
  BY <1>1 DEF damage
<1>8. CASE m # k
  BY <1>1, <1>2, <1>5, <1>6, <1>7, <1>8, OthersCovered
<1>9. CASE m = k
  <2> SUFFICES ASSUME k \notin flawed', Key(k)'.ttl = NoTTL PROVE Ending(k)'
    BY <1>9 DEF Covered
  <2>1. Key(k).ttl \in {0, NoTTL}
    BY <1>4, <1>5
  <2>2. CASE Key(k).ttl = 0
    <3>1. job' = [job EXCEPT ![h].pc = "expire", ![h].tries = 0]
      BY <1>4, <2>2 DEF Incr
    <3>2. /\ job'[h].pc = "expire" /\ job'[h].todo = job[h].todo
          /\ job'[h].slot = job[h].slot
      BY <1>2, <3>1 DEF Jobs
    <3>3. At(job'[h]) = k
      BY <3>2 DEF At
    <3> QED  BY <3>2, <3>3 DEF Ending
  <2>3. CASE Key(k).ttl = NoTTL
    <3>1. PICK g \in Handlers : job[g].pc = "expire" /\ At(job[g]) = k
      BY <1>2, <1>7, <2>3 DEF KeysExpire
    <3>2. job'[g] = job[g]
      BY <1>1, <1>6, <3>1
    <3> QED  BY <3>1, <3>2 DEF Ending
  <2> QED  BY <2>1, <2>2, <2>3
<1> QED  BY <1>8, <1>9

LEMMA SetExpireCovers ==
  ASSUME Typed, KeysExpire, NEW h \in Handlers, SetExpire(h), NEW m \in Keys
  PROVE  Covered(m)'
<1>1. /\ Busy(h) /\ Advance(h) /\ UNCHANGED <<time, history, damage>>
      /\ Put(At(job[h]), Expire(Key(At(job[h])), Lifetime(At(job[h])[1])))
  BY PcBusy DEF SetExpire
<1>2. At(job[h]) \in Keys /\ job \in [Handlers -> Jobs \cup {Idle}]
  BY <1>1, JobFacts DEF Typed, TypeOK
<1> PICK k \in Keys : k = At(job[h])
  BY <1>2
<1> PICK c : c = Expire(Key(k), Lifetime(k[1]))
  OBVIOUS
<1>3. Lifetime(k[1]) \in Nat \ {0}
  BY LifePositive DEF Keys, Lifetime
<1>4. c \in Counter /\ c.ttl # NoTTL
  BY <1>3, KeyTyped, ExpireFacts
<1>5. Key(k)' = c /\ \A n \in Keys \ {k} : Key(n)' = Key(n)
  BY <1>1, <1>4, PutFacts
<1>6. \A g \in Handlers \ {h} : job'[g] = job[g]
  BY <1>1, <1>2 DEF Advance
<1>7. flawed' = flawed
  BY <1>1 DEF damage
<1>8. CASE m # k
  BY <1>2, <1>5, <1>6, <1>7, <1>8, OthersCovered
<1>9. CASE m = k
  BY <1>4, <1>5, <1>9 DEF Covered
<1> QED  BY <1>8, <1>9

(* A fault excepts the key its handler was at, and moves nobody else.      *)
LEMMA FaultCovers ==
  ASSUME Typed, KeysExpire, NEW h \in Handlers, Busy(h), NEW m \in Keys,
         CommandFails(h) \/ ReplyLost(h) \/ Crash(h)
  PROVE  Covered(m)'
<1>1. /\ At(job[h]) \in Keys /\ At(job[h]) \in Unfinished(job[h])
      /\ job \in [Handlers -> Jobs \cup {Idle}] /\ job[h].n \in Nat
  BY JobFacts DEF Typed, TypeOK
<1> PICK k \in Keys : k = At(job[h])
  BY <1>1
<1>2. \A g \in Handlers \ {h} : job'[g] = job[g]
  BY <1>1 DEF CommandFails, ReplyLost, Crash, Advance
<1>3. flawed \subseteq flawed' /\ k \in flawed'
  BY <1>1 DEF CommandFails, ReplyLost, Crash, Fault
<1>4. \A n \in Keys \ {k} : Key(n)' = Key(n)
  <2>1. CASE UNCHANGED stat
    BY <2>1 DEF Key
  <2>2. CASE ReplyLost(h)
    <3>1. Put(k, IF job[h].pc = "incr" THEN IncrBy(Key(k), job[h].n)
                 ELSE Expire(Key(k), Lifetime(k[1])))
      BY <2>2 DEF ReplyLost
    <3>2. Lifetime(k[1]) \in Nat \ {0}
      BY LifePositive DEF Keys, Lifetime
    <3>3. /\ IncrBy(Key(k), job[h].n) \in Counter
          /\ Expire(Key(k), Lifetime(k[1])) \in Counter
      BY <1>1, <3>2, KeyTyped, IncrByFacts, ExpireFacts
    <3> QED  BY <3>1, <3>3, PutFacts
  <2> QED  BY <2>1, <2>2 DEF CommandFails, Crash
<1>5. CASE m # k
  BY <1>2, <1>3, <1>4, <1>5, OthersCovered
<1>6. CASE m = k
  BY <1>3, <1>6 DEF Covered
<1> QED  BY <1>5, <1>6

LEMMA StartCovers ==
  ASSUME Typed, KeysExpire, NEW h \in Handlers, NEW j \in Jobs, Start(h, j), NEW m \in Keys
  PROVE  Covered(m)'
<1>1. /\ ~Busy(h) /\ job' = [job EXCEPT ![h] = j] /\ UNCHANGED <<stat, time, damage>>
      /\ job \in [Handlers -> Jobs \cup {Idle}]
  BY DEF Start, Typed, TypeOK
<1> SUFFICES ASSUME m \notin flawed', Key(m)'.ttl = NoTTL PROVE Ending(m)'
  BY DEF Covered
<1>2. m \in Keys \ flawed /\ Key(m).ttl = NoTTL
  BY <1>1 DEF Key, damage
<1>3. PICK g \in Handlers : job[g].pc = "expire" /\ At(job[g]) = m
  BY <1>2 DEF KeysExpire
<1>4. job[h].pc # "expire"
  BY <1>1 DEF Busy, Idle
<1>5. job'[g] = job[g]
  BY <1>1, <1>3, <1>4
<1> QED  BY <1>3, <1>5 DEF Ending

(* A key loses its history of faults only when it is gone.                 *)
LEMMA TickCovers ==
  ASSUME Typed, KeysExpire, Tick, NEW m \in Keys
  PROVE  Covered(m)'
<1> SUFFICES ASSUME m \notin flawed', Key(m)'.ttl = NoTTL PROVE Ending(m)'
  BY DEF Covered
<1>1. m[1] \in Windows /\ m[2] \in Slot /\ m[3] \in Owners
  BY DEF Keys
<1>2. Key(m)' = Age(Key(m))
  BY <1>1 DEF Tick, Key
<1>3. Key(m).ttl = NoTTL
  BY <1>2, KeyTyped, AgeFacts
<1>4. Exists(Age(Key(m)))
  BY <1>2 DEF Exists, NoTTL
<1>5. m \notin flawed
  BY <1>4 DEF Tick
<1>6. PICK g \in Handlers : job[g].pc = "expire" /\ At(job[g]) = m
  BY <1>3, <1>5 DEF KeysExpire
<1>7. Busy(g)
  BY <1>6, PcBusy
<1>8. job'[g] = [job[g] EXCEPT !.age = @ + 1] /\ job[g] \in Jobs
  BY <1>7, JobFacts DEF Tick
<1>9. job'[g].pc = job[g].pc /\ job'[g].todo = job[g].todo /\ job'[g].slot = job[g].slot
  BY <1>8 DEF Jobs
<1>10. At(job'[g]) = m
  BY <1>6, <1>9 DEF At
<1> QED  BY <1>6, <1>9, <1>10 DEF Ending

LEMMA NextKeysExpire == Typed /\ KeysExpire /\ [Next]_vars => KeysExpire'
<1> SUFFICES ASSUME Typed, KeysExpire, [Next]_vars PROVE KeysExpire'
  OBVIOUS
<1>1. ASSUME NEW m \in Keys PROVE Covered(m)'
  <2>1. ASSUME NEW h \in Handlers,
               \/ \E c \in Chains, n \in Costs : Allow(h, c, n)
               \/ \E u \in Users, n \in Sizes : BandwidthHook(h, u, n)
        PROVE  Covered(m)'
    BY <2>1, BeginTyped, StartCovers
  <2>2. ASSUME NEW h \in Handlers, Step(h) PROVE Covered(m)'
    BY <2>2, IncrCovers, SetExpireCovers DEF Step
  <2>3. ASSUME NEW h \in Handlers, CommandFails(h) \/ ReplyLost(h) \/ Crash(h)
        PROVE  Covered(m)'
    <3>1. Busy(h)
      BY <2>3 DEF CommandFails, ReplyLost, Crash, Fault
    <3> QED  BY <2>3, <3>1, FaultCovers
  <2>4. CASE UNCHANGED vars
    <3> SUFFICES ASSUME m \notin flawed', Key(m)'.ttl = NoTTL PROVE Ending(m)'
      BY DEF Covered
    <3>1. m \notin flawed /\ Key(m).ttl = NoTTL /\ job' = job
      BY <2>4 DEF vars, damage, Key
    <3> QED  BY <3>1 DEF KeysExpire, Ending
  <2> QED  BY <2>1, <2>2, <2>3, <2>4, TickCovers DEF Next
<1> QED  BY <1>1 DEF KeysExpire, Covered, Ending

(* However the commands of the handlers interleave, at the ends of hours   *)
(* and days too, the one that created a key is about to give it a time to  *)
(* live, unless a fault has struck it.                                     *)
THEOREM KeysExpireHolds == Spec => []KeysExpire
<1>1. Init => KeysExpire
  BY DEF Init, KeysExpire, Key, Keys, Absent, NoTTL
<1> QED  BY <1>1, TypedInvariant, NextKeysExpire, PTL DEF Spec
----
(* The goroutines that are counting: each has still to bring up a key at   *)
(* most once, and the hour and the day it read are running or have just    *)
(* ended, which one its age tells.                                         *)
TodoOnce == \A h \in Handlers : Busy(h) => EachOnce(job[h].todo)

SlotRead(s, age, c, t) == s = IF age <= c THEN t ELSE Previous(t)

ReadInTime(j, c, t) == \A w \in Windows : SlotRead(j.slot[w], j.age, c[w], t[w])

InFlight == \A h \in Handlers : Busy(h) => ReadInTime(job[h], clock, now)

Reading == Typed /\ TodoOnce /\ InFlight

LEMMA LaterFacts ==
  ASSUME NEW j \in Jobs, j.todo # <<>>, EachOnce(j.todo), NEW l, l = Later(j)
  PROVE  /\ l = Idle => Unfinished(j) = {At(j)}
         /\ l # Idle => /\ l.pc = "incr" /\ l.n = j.n /\ l.slot = j.slot /\ l.age = j.age
                        /\ EachOnce(l.todo)
                        /\ Unfinished(l) = Unfinished(j) \ {At(j)}
<1>1. j.todo \in Seq(Windows \X Owners) /\ j.slot \in [Windows -> Slot]
  BY DEF Jobs
<1> DEFINE K(i) == <<j.todo[i][1], j.slot[j.todo[i][1]], j.todo[i][2]>>
<1>2. \A i \in DOMAIN j.todo : j.todo[i] \in Windows \X Owners
  BY <1>1
<1>3. \A i, k \in DOMAIN j.todo : K(i) = K(k) => i = k
  <2> TAKE i, k \in DOMAIN j.todo
  <2> HAVE K(i) = K(k)
  <2>1. j.todo[i] = j.todo[k]
    BY <1>2
  <2> QED  BY <2>1 DEF EachOnce
<1>4. At(j) = K(1) /\ Unfinished(j) = {K(i) : i \in DOMAIN j.todo}
  BY DEF At, Unfinished
<1>5. DOMAIN j.todo = 1 .. Len(j.todo) /\ Len(j.todo) \in Nat \ {0}
  BY <1>1, EmptySeq
<1>6. CASE Len(j.todo) = 1
  <2>1. l = Idle
    BY <1>6 DEF Later
  <2>2. DOMAIN j.todo = {1}
    BY <1>5, <1>6
  <2> HIDE DEF K
  <2> QED  BY <1>4, <2>1, <2>2
<1>7. CASE Len(j.todo) # 1
  <2>1. l = [pc |-> "incr", todo |-> Tail(j.todo), n |-> j.n, slot |-> j.slot,
             age |-> j.age, tries |-> 0]
    BY <1>7 DEF Later
  <2>2. l # Idle
    BY <2>1 DEF Idle
  <2>3. /\ DOMAIN l.todo = 1 .. Len(j.todo) - 1
        /\ \A i \in DOMAIN l.todo : i + 1 \in DOMAIN j.todo /\ l.todo[i] = j.todo[i + 1]
    BY <1>1, <1>5, <1>7, <2>1
  <2>4. EachOnce(l.todo)
    <3> SUFFICES ASSUME NEW i \in DOMAIN l.todo, NEW k \in DOMAIN l.todo, l.todo[i] = l.todo[k]
                 PROVE  i = k
      BY DEF EachOnce
    <3>1. i + 1 = k + 1
      BY <2>3 DEF EachOnce
    <3> QED  BY <2>3, <3>1
  <2>5. Unfinished(l) = {K(i + 1) : i \in DOMAIN l.todo}
    BY <2>1, <2>3 DEF Unfinished
  <2>6. \A i \in DOMAIN l.todo : i + 1 \in DOMAIN j.todo \ {1}
    BY <2>3
  <2>7. \A i \in DOMAIN j.todo \ {1} : i - 1 \in DOMAIN l.todo /\ (i - 1) + 1 = i
    BY <1>5, <2>3
  <2>8. {K(i + 1) : i \in DOMAIN l.todo} = {K(i) : i \in DOMAIN j.todo} \ {K(1)}
    <3>1. 1 \in DOMAIN j.todo
      BY <1>5
    <3>2. ASSUME NEW i \in DOMAIN l.todo
          PROVE  K(i + 1) \in {K(m) : m \in DOMAIN j.todo} /\ K(i + 1) # K(1)
      BY <1>3, <2>6, <3>1
    <3>3. ASSUME NEW i \in DOMAIN j.todo, K(i) # K(1)
          PROVE  K(i) \in {K(m + 1) : m \in DOMAIN l.todo}
      <4>1. i # 1
        BY <3>3
      <4>2. PICK m \in DOMAIN l.todo : m + 1 = i
        BY <2>7, <4>1
      <4> HIDE DEF K
      <4> QED  BY <4>2
    <3> HIDE DEF K
    <3> QED  BY <3>2, <3>3
  <2> HIDE DEF K
  <2>9. Unfinished(l) = Unfinished(j) \ {At(j)}
    BY <1>4, <2>5, <2>8
  <2>10. l.pc = "incr" /\ l.n = j.n /\ l.slot = j.slot /\ l.age = j.age
    BY <2>1
  <2> QED  BY <2>2, <2>4, <2>9, <2>10
<1> QED  BY <1>6, <1>7

(* What becomes of a handler in a step of it that is not the beginning:    *)
(* the same key again, the next one, or nothing.                           *)
Same(j, l) ==
  l # Idle /\ l.todo = j.todo /\ l.n = j.n /\ l.slot = j.slot /\ l.age = j.age

LEMMA MoveFacts ==
  ASSUME Typed, NEW h \in Handlers, Step(h) \/ CommandFails(h) \/ ReplyLost(h) \/ Crash(h)
  PROVE  /\ Busy(h) /\ job[h] \in Jobs /\ job[h].todo # <<>>
         /\ job'[h] = Idle \/ job'[h] = Later(job[h]) \/ Same(job[h], job'[h])
         /\ \A g \in Handlers \ {h} : job'[g] = job[g]
         /\ UNCHANGED <<time, history>>
<1>1. Busy(h)
  BY PcBusy DEF Step, Incr, SetExpire, CommandFails, ReplyLost, Crash, Fault
<1>2. job[h] \in Jobs /\ job[h].todo # <<>> /\ job \in [Handlers -> Jobs \cup {Idle}]
  BY <1>1, JobFacts DEF Typed, TypeOK
<1>3. ASSUME NEW l \in {[[job[h] EXCEPT !.pc = "expire"] EXCEPT !.tries = 0],
                        [job[h] EXCEPT !.tries = @ + 1]}
      PROVE  Same(job[h], l)
  BY <1>2, <1>3 DEF Jobs, Same, Idle
<1>4. job' = [job EXCEPT ![h].pc = "expire", ![h].tries = 0] => Same(job[h], job'[h])
  BY <1>2, <1>3
<1>5. job' = [job EXCEPT ![h].tries = @ + 1] => Same(job[h], job'[h])
  BY <1>2, <1>3
<1>6. Advance(h) => job'[h] = Later(job[h])
  BY <1>2 DEF Advance
<1>7. /\ Same(job[h], job'[h]) \/ job'[h] = Later(job[h]) \/ job'[h] = Idle
      /\ \A g \in Handlers \ {h} : job'[g] = job[g]
  <2>1. CASE Incr(h)
    BY <1>2, <1>4, <1>6, <2>1 DEF Incr, Advance
  <2>2. CASE SetExpire(h)
    BY <1>2, <1>6, <2>2 DEF SetExpire, Advance
  <2>3. CASE CommandFails(h)
    BY <1>2, <1>6, <2>3 DEF CommandFails, Advance
  <2>4. CASE ReplyLost(h)
    BY <1>2, <1>5, <2>4 DEF ReplyLost
  <2>5. CASE Crash(h)
    BY <1>2, <2>5 DEF Crash
  <2> QED  BY <2>1, <2>2, <2>3, <2>4, <2>5 DEF Step
<1>8. UNCHANGED <<time, history>>
  BY DEF Step, Incr, SetExpire, CommandFails, ReplyLost, Crash
<1> QED  BY <1>1, <1>2, <1>7, <1>8

(* What the handlers read, while time stands still.                        *)
LEMMA OtherReads ==
  ASSUME Reading, UNCHANGED time, NEW g \in Handlers, job'[g] # Idle,
         job'[g] # job[g] => Same(job[g], job'[g]) /\ Busy(g)
  PROVE  EachOnce(job'[g].todo) /\ ReadInTime(job'[g], clock', now')
<1>1. /\ Busy(g) /\ job'[g].todo = job[g].todo /\ job'[g].slot = job[g].slot
      /\ job'[g].age = job[g].age /\ clock' = clock /\ now' = now
  BY DEF Busy, Same, time
<1>2. EachOnce(job[g].todo) /\ ReadInTime(job[g], clock, now)
  BY <1>1 DEF Reading, TodoOnce, InFlight
<1> QED  BY <1>1, <1>2 DEF ReadInTime

LEMMA MoveReads ==
  ASSUME Reading, NEW h \in Handlers, Step(h) \/ CommandFails(h) \/ ReplyLost(h) \/ Crash(h)
  PROVE  TodoOnce' /\ InFlight'
<1>1. Typed
  BY DEF Reading
<1>2. /\ Busy(h) /\ job[h] \in Jobs /\ job[h].todo # <<>>
      /\ job'[h] = Idle \/ job'[h] = Later(job[h]) \/ Same(job[h], job'[h])
      /\ \A g \in Handlers \ {h} : job'[g] = job[g]
      /\ UNCHANGED time
  BY <1>1, MoveFacts
<1>3. ASSUME NEW g \in Handlers, job'[g] # Idle
      PROVE  EachOnce(job'[g].todo) /\ ReadInTime(job'[g], clock', now')
  <2>1. CASE g # h \/ Same(job[h], job'[h])
    <3>1. job'[g] # job[g] => Same(job[g], job'[g]) /\ Busy(g)
      BY <1>2, <2>1
    <3> QED  BY <1>2, <1>3, <3>1, OtherReads
  <2>2. CASE g = h /\ job'[h] = Later(job[h])
    <3>1. EachOnce(job[h].todo) /\ ReadInTime(job[h], clock, now)
      BY <1>2 DEF Reading, TodoOnce, InFlight
    <3>2. /\ EachOnce(job'[h].todo)
          /\ job'[h].slot = job[h].slot /\ job'[h].age = job[h].age
      BY <1>2, <1>3, <2>2, <3>1, LaterFacts
    <3> QED  BY <1>2, <2>2, <3>1, <3>2 DEF ReadInTime, time
  <2> QED  BY <1>2, <1>3, <2>1, <2>2
<1> QED  BY <1>3 DEF TodoOnce, InFlight, Busy

LEMMA StartReads ==
  ASSUME Reading, NEW h \in Handlers, NEW j \in Jobs, Fresh(j), Start(h, j)
  PROVE  TodoOnce' /\ InFlight'
<1>1. /\ job' = [job EXCEPT ![h] = j] /\ UNCHANGED time
      /\ job \in [Handlers -> Jobs \cup {Idle}]
  BY DEF Start, Reading, Typed, TypeOK
<1>2. ASSUME NEW g \in Handlers, job'[g] # Idle
      PROVE  EachOnce(job'[g].todo) /\ ReadInTime(job'[g], clock', now')
  <2>1. CASE g # h
    <3>1. job'[g] = job[g]
      BY <1>1, <2>1
    <3> QED  BY <1>1, <1>2, <3>1, OtherReads
  <2>2. CASE g = h
    <3>1. job'[g] = j /\ now' = now /\ clock' = clock
      BY <1>1, <2>2 DEF time
    <3>2. \A w \in Windows : clock[w] >= 0
      BY DEF Reading, Typed, TypeOK
    <3> QED  BY <3>1, <3>2 DEF Fresh, ReadInTime, SlotRead
  <2> QED  BY <2>1, <2>2
<1> QED  BY <1>2 DEF TodoOnce, InFlight, Busy

(* The names of the hours and days go round.                               *)
LEMMA SlotFacts ==
  ASSUME NEW s \in Slot
  PROVE  /\ Following(s) \in Slot /\ Previous(s) \in Slot
         /\ Following(s) # s /\ Previous(s) # s /\ Following(s) # Previous(s)
         /\ Previous(Following(s)) = s
  BY StatSlotsAssumption DEF Slot, Following, Previous

(* The clock, over a tick.                                                 *)
LEMMA ClockFacts ==
  ASSUME Typed, Tick, NEW w \in Windows
  PROVE  /\ Period[w] \in Nat \ {0} /\ Life[w] \in Nat /\ 2 * Life[w] = 3 * Period[w]
         /\ MaxLag \in Nat /\ 2 * MaxLag <= Period[w]
         /\ clock[w] \in 0 .. Period[w] - 1 /\ now[w] \in Slot
         /\ ~Ends(w) => /\ clock'[w] = clock[w] + 1 /\ now'[w] = now[w]
                        /\ clock[w] < Period[w] - 1
         /\ Ends(w) => /\ clock'[w] = 0 /\ now'[w] = Following(now[w])
                       /\ clock[w] = Period[w] - 1
<1>1. /\ Period[w] \in Nat \ {0} /\ Life[w] \in Nat /\ 2 * Life[w] = 3 * Period[w]
      /\ MaxLag \in Nat /\ 2 * MaxLag <= Period[w]
  BY PeriodAssumption, StatLagAssumption
<1>2. clock[w] \in 0 .. Period[w] - 1 /\ now[w] \in Slot
  BY DEF Typed, TypeOK
<1>3. /\ clock'[w] = IF Ends(w) THEN 0 ELSE clock[w] + 1
      /\ now'[w] = IF Ends(w) THEN Following(now[w]) ELSE now[w]
  BY DEF Tick
<1>4. (Ends(w) => clock[w] = Period[w] - 1) /\ (~Ends(w) => clock[w] < Period[w] - 1)
  BY <1>1, <1>2 DEF Ends
<1> QED  BY <1>1, <1>2, <1>3, <1>4

(* The handlers a tick older.                                              *)
LEMMA OlderFacts ==
  ASSUME Typed, Tick, NEW h \in Handlers
  PROVE  /\ ~Busy(h) => job'[h] = Idle
         /\ Busy(h) => /\ job'[h] # Idle /\ job'[h].todo = job[h].todo
                       /\ job'[h].slot = job[h].slot /\ job'[h].pc = job[h].pc
                       /\ job'[h].n = job[h].n /\ job'[h].age = job[h].age + 1
                       /\ job[h].age \in Nat /\ job[h].age < MaxLag
<1>1. CASE Busy(h)
  <2>1. job[h] \in Jobs /\ job[h].age \in 0 .. MaxLag /\ job[h].age < MaxLag
    BY <1>1, JobFacts DEF Tick
  <2>2. job'[h] = [job[h] EXCEPT !.age = @ + 1]
    BY <1>1 DEF Tick
  <2> QED  BY <1>1, <2>1, <2>2 DEF Jobs, Idle
<1>2. CASE ~Busy(h)
  BY <1>2 DEF Tick
<1> QED  BY <1>1, <1>2

LEMMA TickReads ==
  ASSUME Reading, Tick
  PROVE  TodoOnce' /\ InFlight'
<1>1. ASSUME NEW g \in Handlers, job'[g] # Idle
      PROVE  EachOnce(job'[g].todo) /\ ReadInTime(job'[g], clock', now')
  <2>1. /\ Busy(g) /\ job'[g].todo = job[g].todo /\ job'[g].slot = job[g].slot
        /\ job'[g].age = job[g].age + 1 /\ job[g].age \in Nat /\ job[g].age < MaxLag
    BY <1>1, OlderFacts DEF Reading
  <2>2. EachOnce(job[g].todo) /\ ReadInTime(job[g], clock, now)
    BY <2>1 DEF Reading, TodoOnce, InFlight
  <2>3. ASSUME NEW w \in Windows
        PROVE  SlotRead(job'[g].slot[w], job'[g].age, clock'[w], now'[w])
    <3>1. /\ Period[w] \in Nat \ {0} /\ MaxLag \in Nat /\ 2 * MaxLag <= Period[w]
          /\ clock[w] \in 0 .. Period[w] - 1 /\ now[w] \in Slot
          /\ ~Ends(w) => clock'[w] = clock[w] + 1 /\ now'[w] = now[w]
          /\ Ends(w) => /\ clock'[w] = 0 /\ now'[w] = Following(now[w])
                        /\ clock[w] = Period[w] - 1
      BY ClockFacts DEF Reading
    <3>2. SlotRead(job[g].slot[w], job[g].age, clock[w], now[w])
      BY <2>2 DEF ReadInTime
    <3>3. CASE Ends(w)
      <4>1. job[g].age <= clock[w]
        BY <2>1, <3>1, <3>3
      <4>2. job'[g].slot[w] = Previous(now'[w])
        BY <2>1, <3>1, <3>2, <3>3, <4>1, SlotFacts DEF SlotRead
      <4> QED  BY <2>1, <3>1, <3>3, <4>2 DEF SlotRead
    <3>4. CASE ~Ends(w)
      BY <2>1, <3>1, <3>2, <3>4 DEF SlotRead
    <3> QED  BY <3>3, <3>4
  <2> QED  BY <2>1, <2>2, <2>3 DEF ReadInTime
<1> QED  BY <1>1 DEF TodoOnce, InFlight, Busy

LEMMA InitReading == Init => Reading
<1> SUFFICES ASSUME Init PROVE Reading
  OBVIOUS
<1>1. \A h \in Handlers : ~Busy(h)
  BY DEF Init, Busy
<1> QED  BY <1>1, InitTyped DEF Reading, TodoOnce, InFlight

LEMMA NextReading == Reading /\ [Next]_vars => Reading'
<1> SUFFICES ASSUME Reading, [Next]_vars PROVE Reading'
  OBVIOUS
<1>1. Typed'
  BY NextTyped DEF Reading
<1>2. TodoOnce' /\ InFlight'
  <2>1. ASSUME NEW h \in Handlers,
               \/ \E c \in Chains, n \in Costs : Allow(h, c, n)
               \/ \E u \in Users, n \in Sizes : BandwidthHook(h, u, n)
        PROVE  TodoOnce' /\ InFlight'
    BY <2>1, BeginTyped, StartReads DEF Reading
  <2>2. ASSUME NEW h \in Handlers, Step(h) \/ CommandFails(h) \/ ReplyLost(h) \/ Crash(h)
        PROVE  TodoOnce' /\ InFlight'
    BY <2>2, MoveReads
  <2>3. CASE UNCHANGED vars
    BY <2>3 DEF vars, time, Reading, TodoOnce, InFlight, Busy
  <2> QED  BY <2>1, <2>2, <2>3, TickReads DEF Next
<1> QED  BY <1>1, <1>2 DEF Reading
----
(* How long a key has to live, in the window w under the slot s, with the  *)
(* clock at c in the slot t: longer than its slot is open, and no longer   *)
(* than till the slot after the next has ended.                            *)
OutlivesAt(ttl, w, s, c, t) ==
  ttl > 0 =>
    /\ s = t => ttl + c >= Life[w]
    /\ s = Previous(t) /\ c < MaxLag => ttl + c + Period[w] >= Life[w]

DiesAt(ttl, w, s, c, t) ==
  /\ ttl <= Life[w]
  /\ s = Previous(t) => ttl + c < Life[w] + MaxLag
  /\ s \notin {t, Previous(t)} => ttl = 0 \/ (ttl > 0 /\ ttl + c < Period[w])

LifeSpan(ttl, w, s, c, t) == OutlivesAt(ttl, w, s, c, t) /\ DiesAt(ttl, w, s, c, t)

(* No key that a fault has not struck goes away while handlers still count *)
(* under it, and none is left when its name is used again.                 *)
LifeSpans ==
  \A k \in Keys \ flawed : LifeSpan(Key(k).ttl, k[1], k[2], clock[k[1]], now[k[1]])

Living == Reading /\ KeysExpire /\ LifeSpans

(* A handler writes the key it is at, and no other that a fault has not    *)
(* struck.                                                                 *)
LEMMA MoveWrites ==
  ASSUME Typed, NEW h \in Handlers, Step(h) \/ CommandFails(h) \/ ReplyLost(h) \/ Crash(h)
  PROVE  /\ flawed \subseteq flawed'
         /\ \A m \in Keys \ flawed' :
              Key(m)' # Key(m) =>
                /\ m = At(job[h])
                /\ Incr(h) => Key(m)' = IncrBy(Key(m), job[h].n)
                /\ ~Incr(h) => SetExpire(h) /\ Key(m)' = Expire(Key(m), Life[m[1]])
<1>1. Busy(h) /\ At(job[h]) \in Keys /\ job[h].n \in Nat
  BY MoveFacts, JobFacts
<1> PICK k \in Keys : k = At(job[h])
  BY <1>1
<1> PICK e : e = Expire(Key(k), Life[k[1]])
  OBVIOUS
<1> PICK i : i = IncrBy(Key(k), job[h].n)
  OBVIOUS
<1>2. Life[k[1]] \in Nat \ {0}
  BY LifePositive DEF Keys
<1>3. i \in Counter /\ e \in Counter
  BY <1>1, <1>2, KeyTyped, IncrByFacts, ExpireFacts
<1>4. CASE Incr(h)
  <2>1. Put(k, i) /\ flawed' = flawed
    BY <1>4 DEF Incr, damage
  <2>2. Key(k)' = i /\ \A m \in Keys \ {k} : Key(m)' = Key(m)
    BY <1>3, <2>1, PutFacts
  <2> QED  BY <1>4, <2>1, <2>2
<1>5. CASE SetExpire(h)
  <2>1. Put(k, e) /\ flawed' = flawed
    BY <1>5 DEF SetExpire, Lifetime, damage
  <2>2. Key(k)' = e /\ \A m \in Keys \ {k} : Key(m)' = Key(m)
    BY <1>3, <2>1, PutFacts
  <2>3. ~Incr(h)
    BY <1>5 DEF Incr, SetExpire
  <2> QED  BY <1>5, <2>1, <2>2, <2>3
<1>6. CASE CommandFails(h) \/ Crash(h)
  <2>1. flawed \subseteq flawed' /\ stat' = stat
    BY <1>6 DEF CommandFails, Crash, Fault
  <2>2. \A m \in Keys : Key(m)' = Key(m)
    BY <2>1 DEF Key
  <2> QED  BY <2>1, <2>2
<1>7. CASE ReplyLost(h)
  <2>1. flawed \subseteq flawed' /\ k \in flawed' /\ (Put(k, i) \/ Put(k, e))
    BY <1>7 DEF ReplyLost, Fault, Lifetime
  <2>2. \A m \in Keys \ {k} : Key(m)' = Key(m)
    BY <1>3, <2>1, PutFacts
  <2> QED  BY <2>1, <2>2
<1> QED  BY <1>4, <1>5, <1>6, <1>7 DEF Step

(* The slot of the key a handler is at is open.                            *)
LEMMA AtOpen ==
  ASSUME Reading, NEW h \in Handlers, Busy(h), NEW k \in Unfinished(job[h])
  PROVE  /\ k \in Keys /\ now[k[1]] \in Slot
         /\ clock[k[1]] \in 0 .. Period[k[1]] - 1
         /\ k[2] # now[k[1]] => /\ k[2] = Previous(now[k[1]])
                                /\ clock[k[1]] < job[h].age /\ job[h].age <= MaxLag
         /\ job[h].age <= clock[k[1]] => k[2] = now[k[1]]
<1>1. /\ Unfinished(job[h]) \subseteq Keys /\ job[h].age \in 0 .. MaxLag
      /\ job[h].todo \in Seq(Windows \X Owners)
      /\ ReadInTime(job[h], clock, now)
  BY JobFacts DEF Reading, InFlight
<1>2. k[1] \in Windows
  BY <1>1 DEF Keys
<1>3. k[2] = job[h].slot[k[1]]
  BY <1>1 DEF Unfinished
<1>4. SlotRead(k[2], job[h].age, clock[k[1]], now[k[1]])
  BY <1>1, <1>2, <1>3 DEF ReadInTime
<1>5. clock[k[1]] \in 0 .. Period[k[1]] - 1 /\ now[k[1]] \in Slot /\ Period[k[1]] \in Nat
  BY <1>2, PeriodAssumption DEF Reading, Typed, TypeOK
<1>6. MaxLag \in Nat
  BY StatLagAssumption
<1> QED  BY <1>1, <1>4, <1>5, <1>6 DEF SlotRead

LEMMA MoveLives ==
  ASSUME Living, NEW h \in Handlers, Step(h) \/ CommandFails(h) \/ ReplyLost(h) \/ Crash(h)
  PROVE  LifeSpans'
<1>1. Typed /\ Busy(h) /\ clock' = clock /\ now' = now
  BY MoveFacts DEF Living, Reading, time
<1>2. ASSUME NEW m \in Keys \ flawed'
      PROVE  LifeSpan(Key(m)'.ttl, m[1], m[2], clock[m[1]], now[m[1]])
  <2>1. LifeSpan(Key(m).ttl, m[1], m[2], clock[m[1]], now[m[1]])
    BY <1>1, <1>2, MoveWrites DEF Living, LifeSpans
  <2>2. CASE Key(m)' = Key(m)
    BY <2>1, <2>2
  <2>3. CASE Key(m)' # Key(m)
    <3>1. /\ m = At(job[h])
          /\ Incr(h) => Key(m)' = IncrBy(Key(m), job[h].n)
          /\ ~Incr(h) => Key(m)' = Expire(Key(m), Life[m[1]])
      BY <1>1, <1>2, <2>3, MoveWrites
    <3>2. /\ now[m[1]] \in Slot /\ clock[m[1]] \in 0 .. Period[m[1]] - 1
          /\ m[2] # now[m[1]] => m[2] = Previous(now[m[1]]) /\ clock[m[1]] < MaxLag
      <4>1. m \in Unfinished(job[h]) /\ Reading
        BY <1>1, <3>1, JobFacts DEF Living
      <4>2. job[h].age \in 0 .. MaxLag
        BY <1>1, JobFacts
      <4>3. now[m[1]] \in Slot /\ clock[m[1]] \in 0 .. Period[m[1]] - 1
        BY <1>1, <4>1, AtOpen
      <4>4. m[2] # now[m[1]] => /\ m[2] = Previous(now[m[1]])
                               /\ clock[m[1]] < job[h].age /\ job[h].age <= MaxLag
        BY <1>1, <4>1, AtOpen
      <4>5. MaxLag \in Nat /\ Period[m[1]] \in Nat
        BY StatLagAssumption, PeriodAssumption DEF Keys
      <4> QED  BY <4>2, <4>3, <4>4, <4>5
    <3>3. Previous(now[m[1]]) # now[m[1]]
      BY <3>2, SlotFacts
    <3>4. /\ Life[m[1]] \in Nat /\ Period[m[1]] \in Nat /\ MaxLag \in Nat
          /\ 2 * Life[m[1]] = 3 * Period[m[1]]
      BY PeriodAssumption, StatLagAssumption DEF Keys
    <3>5. Key(m) \in Counter
      BY <1>1, KeyTyped
    <3>6. Key(m)'.ttl \in {Key(m).ttl, NoTTL, 0, Life[m[1]]}
      BY <3>1 DEF IncrBy, Expire
    <3>7. Key(m).ttl \in Nat \cup {-1}
      BY <3>5 DEF Counter, NoTTL
    <3> PICK w \in Windows : w = m[1]
      BY DEF Keys
    <3> PICK n : n = Key(m)'.ttl
      OBVIOUS
    <3>8. n \in {Key(m).ttl, -1, 0, Life[w]}
      BY <3>6 DEF NoTTL
    <3>9. CASE n = Key(m).ttl
      BY <2>1, <3>9
    <3>10. CASE n = -1 \/ n = 0
      BY <3>2, <3>3, <3>4, <3>10 DEF LifeSpan, OutlivesAt, DiesAt
    <3>11. CASE n = Life[w]
      BY <3>2, <3>3, <3>4, <3>11 DEF LifeSpan, OutlivesAt, DiesAt
    <3> QED  BY <3>8, <3>9, <3>10, <3>11
  <2> QED  BY <2>2, <2>3
<1> QED  BY <1>1, <1>2 DEF LifeSpans

(* A key without a time to live is of an open slot.                        *)
LEMMA EndlessOpen ==
  ASSUME Living, NEW k \in Keys \ flawed, Key(k).ttl = NoTTL
  PROVE  \E h \in Handlers : Busy(h) /\ k \in Unfinished(job[h])
<1>1. PICK h \in Handlers : job[h].pc = "expire" /\ At(job[h]) = k
  BY DEF Living, KeysExpire
<1>2. Busy(h) /\ Typed
  BY <1>1, PcBusy DEF Living, Reading
<1> QED  BY <1>1, <1>2, JobFacts

(* A key over a tick: it is gone when its slot's name comes round again,   *)
(* and keeps its value while its slot is open.                             *)
LEMMA TickKey ==
  ASSUME Living, Tick, NEW k \in Keys \ flawed'
  PROVE  /\ LifeSpan(Key(k)'.ttl, k[1], k[2], clock'[k[1]], now'[k[1]])
         /\ Ends(k[1]) /\ k[2] = now'[k[1]] => Key(k)'.val = 0
         /\ Open(k[1], k[2])' /\ ~(Ends(k[1]) /\ k[2] = now'[k[1]]) =>
              k \notin flawed /\ Open(k[1], k[2]) /\ Key(k)'.val = Key(k).val
<1> PICK w \in Windows, s \in Slot : w = k[1] /\ s = k[2]
  BY DEF Keys
<1>1. Typed /\ Key(k)' = Age(Key(k))
  BY DEF Living, Reading, Tick, Key, Keys
<1>2. Key(k) \in Counter /\ (Key(k).ttl = 0 => Key(k).val = 0)
  BY <1>1, KeyTyped
<1> PICK n \in Nat \cup {-1} : n = Key(k).ttl
  BY <1>2 DEF Counter, NoTTL
<1>3. /\ Key(k)'.ttl = IF n > 0 THEN n - 1 ELSE n
      /\ n # 1 => Key(k)'.val = Key(k).val
      /\ n = 1 \/ n = 0 => Key(k)'.val = 0
  BY <1>1, <1>2 DEF Age
<1>4. /\ Period[w] \in Nat \ {0} /\ Life[w] \in Nat /\ 2 * Life[w] = 3 * Period[w]
      /\ MaxLag \in Nat /\ 2 * MaxLag <= Period[w]
      /\ clock[w] \in 0 .. Period[w] - 1 /\ now[w] \in Slot
      /\ ~Ends(w) => clock'[w] = clock[w] + 1 /\ now'[w] = now[w]
      /\ Ends(w) => /\ clock'[w] = 0 /\ now'[w] = Following(now[w])
                    /\ clock[w] = Period[w] - 1
  BY <1>1, ClockFacts
<1>5. /\ Following(now[w]) \in Slot /\ Previous(now[w]) \in Slot
      /\ Following(now[w]) # now[w] /\ Previous(now[w]) # now[w]
      /\ Following(now[w]) # Previous(now[w]) /\ Previous(Following(now[w])) = now[w]
  BY <1>4, SlotFacts
<1>6. CASE k \in flawed
  <2>1. Ends(w) /\ s = Following(now[w]) /\ ~Exists(Age(Key(k)))
    BY <1>6 DEF Tick
  <2>2. Key(k)'.ttl = 0
    BY <1>1, <2>1 DEF Exists
  <2>3. n = 0 \/ n = 1
    BY <1>3, <2>2
  <2>4. now'[w] = s /\ clock'[w] = 0
    BY <1>4, <2>1
  <2>5. LifeSpan(0, w, s, 0, s)
    BY <1>4, <1>5, <2>1 DEF LifeSpan, OutlivesAt, DiesAt
  <2> QED  BY <1>3, <2>1, <2>2, <2>3, <2>4, <2>5
<1>7. CASE k \notin flawed
  <2>1. LifeSpan(n, w, s, clock[w], now[w])
    BY <1>7 DEF Living, LifeSpans
  <2>2. /\ n > 0 => /\ s = now[w] => n + clock[w] >= Life[w]
                    /\ s = Previous(now[w]) /\ clock[w] < MaxLag =>
                         n + clock[w] + Period[w] >= Life[w]
        /\ n <= Life[w]
        /\ s = Previous(now[w]) => n + clock[w] < Life[w] + MaxLag
        /\ s \notin {now[w], Previous(now[w])} => n = 0 \/ (n > 0 /\ n + clock[w] < Period[w])
    BY <2>1 DEF LifeSpan, OutlivesAt, DiesAt
  <2>3. Ends(w) /\ n = -1 => s = now[w]
    <3> SUFFICES ASSUME Ends(w), n = -1 PROVE s = now[w]
      OBVIOUS
    <3>1. PICK h \in Handlers : Busy(h) /\ k \in Unfinished(job[h])
      BY <1>7, EndlessOpen DEF NoTTL
    <3>2. job[h].age \in Nat /\ job[h].age < MaxLag
      BY <1>1, <3>1, OlderFacts
    <3>3. job[h].age <= clock[w]
      BY <1>4, <3>2
    <3> QED  BY <3>1, <3>3, AtOpen DEF Living
  <2>4. CASE Ends(w)
    <3>1. /\ clock'[w] = 0 /\ now'[w] = Following(now[w])
          /\ clock[w] = Period[w] - 1
      BY <1>4, <2>4
    <3>2. CASE s = now[w]
      <4>1. n # 1
        BY <1>4, <2>2, <3>1, <3>2
      <4>2. LifeSpan(Key(k)'.ttl, w, s, 0, Following(now[w]))
        BY <1>3, <1>4, <1>5, <2>2, <3>1, <3>2 DEF LifeSpan, OutlivesAt, DiesAt
      <4>3. Open(w, s)
        BY <3>2 DEF Open
      <4> QED  BY <1>3, <1>5, <1>7, <3>1, <3>2, <4>1, <4>2, <4>3
    <3>3. CASE s = Previous(now[w])
      <4>1. n >= 0 /\ n < Period[w] + 1
        BY <1>4, <1>5, <2>2, <2>3, <2>4, <3>1, <3>3
      <4>2. LifeSpan(Key(k)'.ttl, w, s, 0, Following(now[w]))
        BY <1>3, <1>4, <1>5, <3>1, <3>3, <4>1 DEF LifeSpan, OutlivesAt, DiesAt
      <4>3. s # now'[w] /\ s # Previous(now'[w])
        BY <1>5, <3>1, <3>3
      <4>4. ~Open(w, s)'
        BY <4>3 DEF Open
      <4> QED  BY <3>1, <4>2, <4>3, <4>4
    <3>4. CASE s # now[w] /\ s # Previous(now[w])
      <4>1. n = 0
        BY <1>4, <2>2, <3>1, <3>4
      <4>2. LifeSpan(Key(k)'.ttl, w, s, 0, Following(now[w])) /\ Key(k)'.val = 0
        BY <1>3, <1>4, <1>5, <3>4, <4>1 DEF LifeSpan, OutlivesAt, DiesAt
      <4>3. s # now'[w] => ~Open(w, s)'
        BY <1>5, <3>1, <3>4 DEF Open
      <4> QED  BY <2>4, <3>1, <4>2, <4>3
    <3> QED  BY <3>2, <3>3, <3>4
  <2>5. CASE ~Ends(w)
    <3>1. clock'[w] = clock[w] + 1 /\ now'[w] = now[w]
      BY <1>4, <2>5
    <3>2. LifeSpan(Key(k)'.ttl, w, s, clock[w] + 1, now[w])
      <4>1. OutlivesAt(Key(k)'.ttl, w, s, clock[w] + 1, now[w])
        BY <1>3, <1>4, <2>2 DEF OutlivesAt
      <4>2. DiesAt(Key(k)'.ttl, w, s, clock[w] + 1, now[w])
        <5>1. clock[w] + 1 < Period[w]
          BY <1>4, <2>5 DEF Ends
        <5> QED  BY <1>3, <1>4, <2>2, <5>1 DEF DiesAt
      <4> QED  BY <4>1, <4>2 DEF LifeSpan
    <3>3. ASSUME Open(w, s)' PROVE Open(w, s) /\ n # 1
      <4>1. s = now[w] \/ (s = Previous(now[w]) /\ clock[w] + 1 < MaxLag)
        BY <3>1, <3>3 DEF Open
      <4>2. Open(w, s)
        BY <1>4, <4>1 DEF Open
      <4>3. clock[w] + 1 < Period[w]
        BY <1>4, <2>5 DEF Ends
      <4> QED  BY <1>4, <1>5, <2>2, <4>1, <4>2, <4>3
    <3> QED  BY <1>3, <1>7, <2>5, <3>1, <3>2, <3>3
  <2> QED  BY <2>4, <2>5
<1> QED  BY <1>6, <1>7

LEMMA InitLiving == Init => Living
<1> SUFFICES ASSUME Init PROVE Living
  OBVIOUS
<1>1. KeysExpire
  BY DEF Init, KeysExpire, Key, Keys, Absent, NoTTL
<1>2. ASSUME NEW k \in Keys \ flawed
      PROVE  LifeSpan(Key(k).ttl, k[1], k[2], clock[k[1]], now[k[1]])
  <2>1. Key(k).ttl = 0 /\ k[1] \in Windows /\ clock[k[1]] = 0
    BY DEF Init, Key, Keys, Absent
  <2>2. Life[k[1]] \in Nat \ {0} /\ Period[k[1]] \in Nat \ {0} /\ MaxLag \in Nat
    BY <2>1, LifePositive, PeriodAssumption, StatLagAssumption
  <2> QED  BY <2>1, <2>2 DEF LifeSpan, OutlivesAt, DiesAt
<1> QED  BY <1>1, <1>2, InitReading DEF Living, LifeSpans

LEMMA NextLiving == Living /\ [Next]_vars => Living'
<1> SUFFICES ASSUME Living, [Next]_vars PROVE Living'
  OBVIOUS
<1>1. Reading' /\ KeysExpire'
  BY NextReading, NextKeysExpire DEF Living, Reading
<1>2. LifeSpans'
  <2>1. CASE UNCHANGED <<stat, time, damage>>
    <3>1. flawed' = flawed /\ clock' = clock /\ now' = now /\ \A k \in Keys : Key(k)' = Key(k)
      BY <2>1 DEF time, damage, Key
    <3> QED  BY <3>1 DEF Living, LifeSpans
  <2>2. ASSUME NEW h \in Handlers,
               \/ \E c \in Chains, n \in Costs : Allow(h, c, n)
               \/ \E u \in Users, n \in Sizes : BandwidthHook(h, u, n)
        PROVE  LifeSpans'
    BY <2>1, <2>2 DEF Allow, BandwidthHook, Start
  <2>3. ASSUME NEW h \in Handlers, Step(h) \/ CommandFails(h) \/ ReplyLost(h) \/ Crash(h)
        PROVE  LifeSpans'
    BY <2>3, MoveLives
  <2>4. CASE Tick
    BY <2>4, TickKey DEF LifeSpans
  <2>5. CASE UNCHANGED vars
    BY <2>1, <2>5 DEF vars
  <2> QED  BY <2>2, <2>3, <2>4, <2>5 DEF Next
<1> QED  BY <1>1, <1>2 DEF Living
----
(* The units under way: what one handler's step changes of their sum.      *)
LEMMA LeftNat == Typed => \A g \in Handlers, m \in Keys : Left(job[g], m) \in Nat
<1> SUFFICES ASSUME Typed, NEW g \in Handlers, NEW m \in Keys PROVE Left(job[g], m) \in Nat
  OBVIOUS
<1>1. Busy(g) => job[g].n \in Nat
  BY JobFacts
<1> QED  BY <1>1 DEF Left, Busy

LEMMA ToComeFacts ==
  ASSUME Typed, Typed', NEW k \in Keys, NEW h \in Handlers,
         \A g \in Handlers \ {h} : Left(job'[g], k) = Left(job[g], k)
  PROVE  /\ ToCome(k) \in Nat
         /\ Left(job[h], k) \in Nat /\ Left(job'[h], k) \in Nat
         /\ ToCome(k)' = ToCome(k) - Left(job[h], k) + Left(job'[h], k)
<1> PICK a : a = [g \in Handlers |-> Left(job[g], k)]
  OBVIOUS
<1> PICK b : b = [g \in Handlers |-> Left(job'[g], k)]
  OBVIOUS
<1>1. Typed' => (\A g \in Handlers, m \in Keys : Left(job[g], m) \in Nat)'
  BY LeftNat, PTL
<1>2. \A g \in Handlers : a[g] \in Nat /\ b[g] \in Nat
  BY <1>1, LeftNat
<1>3. \A g \in Handlers \ {h} : a[g] = b[g]
  OBVIOUS
<1>4. IsFiniteSet(Handlers)
  BY StatHandlersAssumption
<1>5. SumFunctionOnSet(a, Handlers) \in Nat
  BY <1>2, <1>4, SumNat
<1>6. SumFunctionOnSet(b, Handlers) = SumFunctionOnSet(a, Handlers) - a[h] + b[h]
  BY <1>2, <1>3, <1>4, SumChange
<1>7. ToCome(k) = SumFunctionOnSet(a, Handlers) /\ ToCome(k)' = SumFunctionOnSet(b, Handlers)
  BY DEF ToCome
<1> QED  BY <1>2, <1>5, <1>6, <1>7

LEMMA ToComeSame ==
  ASSUME Typed, NEW k \in Keys, \A g \in Handlers : Left(job'[g], k) = Left(job[g], k)
  PROVE  ToCome(k)' = ToCome(k)
<1> PICK a : a = [g \in Handlers |-> Left(job[g], k)]
  OBVIOUS
<1> PICK b : b = [g \in Handlers |-> Left(job'[g], k)]
  OBVIOUS
<1>1. a = b
  <2>1. \A g \in Handlers : a[g] = b[g]
    OBVIOUS
  <2> QED  BY <2>1
<1>2. ToCome(k) = SumFunctionOnSet(a, Handlers) /\ ToCome(k)' = SumFunctionOnSet(b, Handlers)
  BY DEF ToCome
<1> QED  BY <1>1, <1>2

LEMMA ToComeNone ==
  ASSUME NEW k \in Keys, \A g \in Handlers : Left(job'[g], k) = 0
  PROVE  ToCome(k)' = 0
<1> PICK b : b = [g \in Handlers |-> Left(job'[g], k)]
  OBVIOUS
<1>1. SumFunctionOnSet(b, Handlers) = 0
  BY StatHandlersAssumption, SumZero
<1> QED  BY <1>1 DEF ToCome

(* When a handler goes on, it has nothing left for the key it was at, and  *)
(* for the others as much as before.                                       *)
LEMMA LeftLater ==
  ASSUME NEW j \in Jobs, j.todo # <<>>, EachOnce(j.todo), NEW k
  PROVE  Left(Later(j), k) = IF k = At(j) THEN 0 ELSE Left(j, k)
<1> PICK l : l = Later(j)
  OBVIOUS
<1>1. j # Idle
  BY DEF Jobs, Idle
<1>2. CASE l = Idle
  <2>1. Unfinished(j) = {At(j)}
    BY <1>2, LaterFacts
  <2> QED  BY <1>2, <2>1 DEF Left
<1>3. CASE l # Idle
  <2>1. l.pc = "incr" /\ l.n = j.n /\ Unfinished(l) = Unfinished(j) \ {At(j)}
    BY <1>3, LaterFacts
  <2> QED  BY <1>1, <1>3, <2>1 DEF Left
<1> QED  BY <1>2, <1>3

(* What is counted under a key, and what is to come.                       *)
CountsAt(k) == Open(k[1], k[2]) => Key(k).val + ToCome(k) = counted[k]

LEMMA StartCounts ==
  ASSUME Living, Living', CountedOnce, NEW h \in Handlers, NEW j \in Jobs, Fresh(j), Start(h, j),
         NEW k \in Keys \ flawed'
  PROVE  CountsAt(k)'
<1>1. /\ ~Busy(h) /\ job' = [job EXCEPT ![h] = j]
      /\ counted' = [m \in Keys |-> IF m \in Unfinished(j) THEN counted[m] + j.n ELSE counted[m]]
      /\ stat' = stat /\ clock' = clock /\ now' = now /\ flawed' = flawed
      /\ Typed /\ Typed' /\ job \in [Handlers -> Jobs \cup {Idle}]
  BY DEF Start, Living, Reading, Typed, TypeOK, time, damage
<1> SUFFICES ASSUME Open(k[1], k[2])' PROVE Key(k)'.val + ToCome(k)' = counted'[k]
  BY DEF CountsAt
<1>2. Open(k[1], k[2])
  BY <1>1 DEF Open
<1>3. Key(k).val + ToCome(k) = counted[k] /\ Key(k)' = Key(k)
  BY <1>1, <1>2 DEF CountedOnce, Key
<1>4. Left(job[h], k) = 0
  BY <1>1 DEF Left, Busy
<1>5. j # Idle
  BY DEF Fresh, Idle
<1>6. Left(job'[h], k) = IF k \in Unfinished(j) THEN j.n ELSE 0
  BY <1>1, <1>5 DEF Left, Fresh
<1>7. /\ ToCome(k) \in Nat
      /\ ToCome(k)' = ToCome(k) - Left(job[h], k) + Left(job'[h], k)
  <2>1. \A g \in Handlers \ {h} : Left(job'[g], k) = Left(job[g], k)
    BY <1>1
  <2> QED  BY <1>1, <2>1, ToComeFacts
<1>8. Key(k).val \in Nat /\ j.n \in Nat
  <2>1. j.n \in Nat
    BY UnitsAssumption DEF Jobs
  <2> QED  BY <1>1, <2>1, KeyTyped DEF Counter
<1> QED  BY <1>1, <1>3, <1>4, <1>5, <1>6, <1>7, <1>8

LEMMA MoveCounts ==
  ASSUME Living, Living', CountedOnce, NEW h \in Handlers,
         Step(h) \/ CommandFails(h) \/ ReplyLost(h) \/ Crash(h), NEW k \in Keys \ flawed'
  PROVE  CountsAt(k)'
<1>1. /\ Typed /\ Typed' /\ Busy(h) /\ job[h] \in Jobs /\ job[h].todo # <<>>
      /\ \A g \in Handlers \ {h} : job'[g] = job[g]
      /\ clock' = clock /\ now' = now /\ counted' = counted
      /\ flawed \subseteq flawed'
      /\ job \in [Handlers -> Jobs \cup {Idle}]
  BY MoveFacts, MoveWrites DEF Living, Reading, time, history, Typed, TypeOK
<1>2. EachOnce(job[h].todo)
  BY <1>1 DEF Living, Reading, TodoOnce
<1> SUFFICES ASSUME Open(k[1], k[2])' PROVE Key(k)'.val + ToCome(k)' = counted'[k]
  BY DEF CountsAt
<1>3. Key(k).val + ToCome(k) = counted[k]
  BY <1>1 DEF CountedOnce, Open
<1>4. /\ ToCome(k) \in Nat /\ Left(job[h], k) \in Nat /\ Left(job'[h], k) \in Nat
      /\ ToCome(k)' = ToCome(k) - Left(job[h], k) + Left(job'[h], k)
  <2>1. \A g \in Handlers \ {h} : Left(job'[g], k) = Left(job[g], k)
    BY <1>1
  <2> QED  BY <1>1, <2>1, ToComeFacts
<1>5. Key(k) \in Counter /\ Key(k).val \in Nat /\ (Key(k).ttl = 0 => Key(k).val = 0)
  BY <1>1, KeyTyped DEF Counter
<1>6. At(job[h]) \in Unfinished(job[h]) /\ job[h].n \in Nat /\ job[h].pc \in {"incr", "expire"}
  BY <1>1, JobFacts
<1>7. Left(Later(job[h]), k) = IF k = At(job[h]) THEN 0 ELSE Left(job[h], k)
  BY <1>1, <1>2, LeftLater
<1>8. CASE Incr(h)
  <2>1. job[h].pc = "incr" /\ Put(At(job[h]), IncrBy(Key(At(job[h])), job[h].n))
    BY <1>8 DEF Incr
  <2>2. Left(job'[h], k) = IF k = At(job[h]) THEN 0 ELSE Left(job[h], k)
    <3>1. CASE job' = [job EXCEPT ![h].pc = "expire", ![h].tries = 0]
      <4>1. /\ job'[h].pc = "expire" /\ job'[h].todo = job[h].todo /\ job'[h].n = job[h].n
            /\ job'[h].slot = job[h].slot /\ job'[h] # Idle
        BY <1>1, <3>1 DEF Jobs, Idle
      <4> QED  BY <1>1, <2>1, <4>1 DEF Left, At, Unfinished, Busy
    <3>2. CASE Advance(h)
      <4>1. job'[h] = Later(job[h])
        BY <1>1, <3>2 DEF Advance
      <4> QED  BY <1>7, <4>1
    <3> QED  BY <1>8, <3>1, <3>2 DEF Incr
  <2>3. Key(k)'.val = IF k = At(job[h]) THEN Key(k).val + job[h].n ELSE Key(k).val
    <3>1. At(job[h]) \in Keys
      BY <1>1, JobFacts
    <3> PICK m \in Keys : m = At(job[h])
      BY <3>1
    <3> PICK c : c = IncrBy(Key(m), job[h].n)
      OBVIOUS
    <3>2. c \in Counter /\ c.val = Key(m).val + job[h].n
      BY <1>1, <1>6, KeyTyped, IncrByFacts
    <3>3. Key(m)' = c /\ \A n \in Keys \ {m} : Key(n)' = Key(n)
      BY <1>1, <2>1, <3>2, PutFacts
    <3> QED  BY <3>2, <3>3
  <2>4. k = At(job[h]) => Left(job[h], k) = job[h].n
    BY <1>1, <1>6, <2>1 DEF Left, Busy
  <2> QED  BY <1>1, <1>3, <1>4, <1>5, <1>6, <2>2, <2>3, <2>4
<1>9. CASE ~Incr(h)
  <2>1. Key(k)'.val = Key(k).val
    <3>1. CASE Key(k)' = Key(k)
      BY <3>1
    <3>2. CASE Key(k)' # Key(k)
      BY <1>1, <1>9, <3>2, MoveWrites DEF Expire
    <3> QED  BY <3>1, <3>2
  <2>2. Left(job'[h], k) = Left(job[h], k)
    <3>1. CASE SetExpire(h)
      <4>1. job[h].pc = "expire" /\ job'[h] = Later(job[h])
        BY <1>1, <3>1 DEF SetExpire, Advance
      <4> QED  BY <1>7, <4>1 DEF Left
    <3>2. CASE CommandFails(h)
      <4>1. k # At(job[h]) /\ job'[h] = Later(job[h])
        BY <1>1, <3>2 DEF CommandFails, Fault, Advance
      <4> QED  BY <1>7, <4>1
    <3>3. CASE ReplyLost(h)
      <4>1. job' = [job EXCEPT ![h].tries = @ + 1]
        BY <3>3 DEF ReplyLost
      <4>2. /\ job'[h].pc = job[h].pc /\ job'[h].todo = job[h].todo /\ job'[h].n = job[h].n
            /\ job'[h].slot = job[h].slot /\ job'[h] # Idle
        BY <1>1, <4>1 DEF Jobs, Idle
      <4> QED  BY <1>1, <4>2 DEF Left, At, Unfinished, Busy
    <3>4. CASE Crash(h)
      <4>1. k \notin Unfinished(job[h]) /\ job'[h] = Idle
        BY <1>1, <3>4 DEF Crash, Fault
      <4> QED  BY <4>1 DEF Left
    <3> QED  BY <1>9, <3>1, <3>2, <3>3, <3>4 DEF Step
  <2> QED  BY <1>1, <1>3, <1>4, <1>5, <2>1, <2>2
<1> QED  BY <1>8, <1>9

LEMMA TickCounts ==
  ASSUME Living, CountedOnce, Tick, NEW k \in Keys \ flawed'
  PROVE  CountsAt(k)'
<1> SUFFICES ASSUME Open(k[1], k[2])' PROVE Key(k)'.val + ToCome(k)' = counted'[k]
  BY DEF CountsAt
<1>1. Typed /\ Reading /\ k[1] \in Windows /\ k[2] \in Slot
  BY DEF Living, Reading, Keys
<1>2. counted'[k] = IF Ends(k[1]) /\ k[2] # now[k[1]] THEN 0 ELSE counted[k]
  BY DEF Tick
<1>3. ASSUME NEW g \in Handlers
      PROVE  Left(job'[g], k) = Left(job[g], k)
  <2>1. CASE ~Busy(g)
    BY <1>1, <2>1, OlderFacts DEF Left, Busy
  <2>2. CASE Busy(g)
    <3>1. /\ job'[g] # Idle /\ job'[g].todo = job[g].todo /\ job'[g].slot = job[g].slot
          /\ job'[g].pc = job[g].pc /\ job'[g].n = job[g].n
      BY <1>1, <2>2, OlderFacts
    <3> QED  BY <2>2, <3>1 DEF Left, At, Unfinished, Busy
  <2> QED  BY <2>1, <2>2
<1>4. CASE Ends(k[1]) /\ k[2] = now'[k[1]]
  <2>1. now'[k[1]] = Following(now[k[1]]) /\ now[k[1]] \in Slot /\ clock[k[1]] = Period[k[1]] - 1
    BY <1>1, <1>4, ClockFacts
  <2>2. k[2] # now[k[1]]
    BY <1>4, <2>1, SlotFacts
  <2>3. Key(k)'.val = 0
    BY <1>4, TickKey
  <2>4. ASSUME NEW g \in Handlers PROVE Left(job'[g], k) = 0
    <3> SUFFICES ASSUME Busy(g), k \in Unfinished(job[g]) PROVE FALSE
      BY <1>3 DEF Left, Busy
    <3>1. job[g].age \in Nat /\ job[g].age < MaxLag
      BY <1>1, OlderFacts
    <3>2. job[g].age <= clock[k[1]]
      <4>1. /\ 2 * MaxLag <= Period[k[1]] /\ MaxLag \in Nat /\ Period[k[1]] \in Nat \ {0}
        BY <1>1, ClockFacts
      <4> QED  BY <2>1, <3>1, <4>1
    <3>3. k[2] = now[k[1]]
      BY <1>1, <3>2, AtOpen
    <3> QED  BY <2>2, <3>3
  <2>5. ToCome(k)' = 0
    BY <2>4, ToComeNone
  <2> QED  BY <1>2, <1>4, <2>2, <2>3, <2>5
<1>5. CASE ~(Ends(k[1]) /\ k[2] = now'[k[1]])
  <2>1. k \notin flawed /\ Open(k[1], k[2]) /\ Key(k)'.val = Key(k).val
    BY <1>5, TickKey
  <2>2. Key(k).val + ToCome(k) = counted[k]
    BY <2>1 DEF CountedOnce
  <2>3. ToCome(k)' = ToCome(k)
    BY <1>1, <1>3, ToComeSame
  <2>4. Ends(k[1]) => k[2] = now[k[1]]
    <3> SUFFICES ASSUME Ends(k[1]) PROVE k[2] = now[k[1]]
      OBVIOUS
    <3>1. now'[k[1]] = Following(now[k[1]]) /\ now[k[1]] \in Slot
      BY <1>1, ClockFacts
    <3>2. k[2] = Previous(now'[k[1]])
      BY <1>5 DEF Open
    <3> QED  BY <3>1, <3>2, SlotFacts
  <2> QED  BY <1>2, <2>1, <2>2, <2>3, <2>4
<1> QED  BY <1>4, <1>5

LEMMA NextCounts == Living /\ Living' /\ CountedOnce /\ [Next]_vars => CountedOnce'
<1> SUFFICES ASSUME Living, Living', CountedOnce, [Next]_vars PROVE CountedOnce'
  OBVIOUS
<1>1. ASSUME NEW k \in Keys \ flawed' PROVE CountsAt(k)'
  <2>1. ASSUME NEW h \in Handlers,
               \/ \E c \in Chains, n \in Costs : Allow(h, c, n)
               \/ \E u \in Users, n \in Sizes : BandwidthHook(h, u, n)
        PROVE  CountsAt(k)'
    BY <2>1, BeginTyped, StartCounts DEF Living, Reading
  <2>2. ASSUME NEW h \in Handlers, Step(h) \/ CommandFails(h) \/ ReplyLost(h) \/ Crash(h)
        PROVE  CountsAt(k)'
    BY <2>2, MoveCounts
  <2>3. CASE UNCHANGED vars
    <3>1. /\ stat' = stat /\ clock' = clock /\ now' = now /\ job' = job /\ counted' = counted
          /\ flawed' = flawed
      BY <2>3 DEF vars, time, history, damage
    <3>2. ToCome(k)' = ToCome(k) /\ Key(k)' = Key(k) /\ (Open(k[1], k[2])' => Open(k[1], k[2]))
      BY <3>1 DEF ToCome, Key, Open
    <3> QED  BY <3>1, <3>2 DEF CountedOnce, CountsAt
  <2> QED  BY <2>1, <2>2, <2>3, TickCounts DEF Next
<1> QED  BY <1>1 DEF CountedOnce, CountsAt

(* Whatever the number of handlers, of chains and of users, and however    *)
(* their commands interleave, over the ends of hours and days and with any *)
(* number of faults: what was let through in an hour or a day that may     *)
(* still be counted is either under its key or to be brought up, once,     *)
(* except under the keys that a fault has struck.                          *)
THEOREM CountedOnceHolds == Spec => []CountedOnce
<1>1. Init => CountedOnce
  <2> SUFFICES ASSUME Init, NEW k \in Keys PROVE Key(k).val + ToCome(k) = counted[k]
    BY DEF CountedOnce
  <2> PICK a : a = [h \in Handlers |-> Left(job[h], k)]
    OBVIOUS
  <2>1. \A h \in Handlers : a[h] = 0
    BY DEF Init, Left
  <2>2. ToCome(k) = 0
    BY <2>1, StatHandlersAssumption, SumZero DEF ToCome
  <2>3. Key(k).val = 0 /\ counted[k] = 0
    BY DEF Init, Key, Keys, Absent
  <2> QED  BY <2>2, <2>3
<1>2. Spec => []Living
  BY InitLiving, NextLiving, PTL DEF Spec
<1> QED  BY <1>1, <1>2, NextCounts, PTL DEF Spec
====
