---- MODULE IpfsGatewayProofs ----
(***************************************************************************)
(* Proofs about IpfsGateway, for every set of users, objects, requests and *)
(* handlers, and any number of failures: what somebody has pinned is kept, *)
(* the types of the state, the upload limit up to the requests in flight,  *)
(* and storage that is counted no later than it is used.                   *)
(***************************************************************************)
EXTENDS IpfsGateway, Sums, SequenceTheorems, TLAPS

Stages == {"idle", "check", "forward", "hook", "unpin", "ask", "repin", "charge", "done"}
JobStages == {"none", "resolve", "select", "count", "create"}
Statuses == {"none", "pin", "unpin"}
JobRecords ==
  [pc : JobStages, user : Owners, list : Seq(Cids), at : Nat, sum : Nat,
   wrap : BOOLEAN, status : {"pin", "unpin"}]

(* The part of the types the argument needs.                               *)
Typed ==
  /\ pins \subseteq Cids /\ tainted \subseteq Cids
  /\ rows \in [Owners -> [Cids -> Statuses]]
  /\ pc \in [Handlers -> Stages]
  /\ req \in [Handlers -> Requests \cup {NoRequest}]
  /\ who \in [Handlers -> Owners]
  /\ fresh \in [Handlers -> BOOLEAN]
  /\ job \in [Handlers -> JobRecords]

(* A handler that is not idle has a request, and what it records is what   *)
(* the request is about.                                                   *)
Serving ==
  \A h \in Handlers :
    /\ pc[h] = "idle" <=> req[h] = NoRequest
    /\ pc[h] \in {"idle", "check", "forward"} => job[h].pc = "none"
    /\ job[h].pc # "none" => Range(job[h].list) \subseteq Range(req[h].cids)
    /\ job[h].pc = "resolve" => job[h].at = 1
    /\ job[h].pc = "select" => job[h].at \in DOMAIN job[h].list

(* An object that two requests at a time are about is tainted.             *)
Once ==
  \A c \in Cids \ tainted, g, h \in Handlers :
    c \in Scope(g) /\ c \in Scope(h) => g = h

(* What is about to be recorded as pinned is pinned.                       *)
Recording(h) ==
  (IF job[h].pc # "none" /\ job[h].status = "pin" THEN Range(job[h].list) ELSE {})
    \cup (IF pc[h] = "hook" THEN {New(h)} ELSE {})
Firm == \A h \in Handlers : \A c \in Recording(h) \ tainted : Holds(c)

(* What a handler has unpinned at the node and will ask about.             *)
Loose(h) ==
  IF /\ Old(h) \notin req[h].odd
     /\ \/ pc[h] \in {"unpin", "ask", "repin"}
        \/ pc[h] = "hook" /\ req[h].op = "pin/update" /\ req[h].unpin = "true"
  THEN With(Old(h)) ELSE {}

Wants(c) == \E o \in Owners : rows[o][c] = "pin"

(* What somebody wants pinned is, or a handler is about to see to it.      *)
Kept ==
  \A c \in Cids \ tainted :
    Wants(c) => Holds(c) \/ \E h \in Handlers : c \in Loose(h)

Inv == Typed /\ Serving /\ Once /\ Firm /\ Kept
----
(* What a request is about.                                                *)
LEMMA RequestFacts ==
  ASSUME NEW r \in Requests
  PROVE  /\ r.op \in Ops
         /\ r.cids \in Seq(Cids) /\ r.cids # << >>
         /\ Range(r.cids) \subseteq Cids
         /\ r.cids[1] \in Range(r.cids) /\ Subject(r) \in Range(r.cids)
         /\ r.op = "pin/update" => Subject(r) = r.cids[2]
         /\ r # NoRequest
         /\ r.wrap \in BOOLEAN
         /\ r.keep \subseteq Range(r.cids)
         /\ r.told \in Seq(Cids) /\ Range(r.told) \subseteq Range(r.cids)
<1>1. /\ r.op \in Ops /\ r.cids \in Seq(Cids) /\ r.cids # << >>
      /\ r.op = "pin/update" => Len(r.cids) = 2
      /\ r.wrap \in BOOLEAN
      /\ r.keep \subseteq Range(r.cids)
      /\ r.told \in Seq(Range(r.cids))
  BY RequestsAssumption
<1>2. Len(r.cids) \in Nat /\ Len(r.cids) # 0
  BY <1>1, EmptySeq
<1>3. 1 \in DOMAIN r.cids /\ (r.op = "pin/update" => 2 \in DOMAIN r.cids)
  BY <1>1, <1>2
<1>4. r # NoRequest
  BY <1>1 DEF NoRequest
<1>5. Range(r.cids) \subseteq Cids
  BY <1>1 DEF Range
<1>6. r.told \in Seq(Cids) /\ Range(r.told) \subseteq Range(r.cids)
  <2> DEFINE R == Range(r.cids)
  <2>1. \A i \in DOMAIN r.told : r.told[i] \in R
    BY <1>1
  <2>2. r.told \in Seq(R) /\ R \subseteq Cids
    BY <1>1, <1>5
  <2> HIDE DEF R
  <2>3. r.told \in Seq(Cids)
    BY <2>2
  <2>4. Range(r.told) \subseteq R
    BY <2>1 DEF Range
  <2> QED  BY <2>3, <2>4 DEF R
<1>7. r.cids[1] \in Range(r.cids) /\ Subject(r) \in Range(r.cids)
  BY <1>3 DEF Range, Subject
<1> QED  BY <1>1, <1>4, <1>5, <1>6, <1>7 DEF Subject

LEMMA Objects ==
  ASSUME NEW c \in Cids
  PROVE  With(c) \subseteq Cids /\ c \in With(c) /\ Inside[c] \subseteq With(c)
BY ObjectsAssumption DEF With

(* A handler that is not idle.                                             *)
LEMMA ServingFacts ==
  ASSUME Typed, Serving, NEW h \in Handlers, pc[h] # "idle"
  PROVE  /\ req[h] \in Requests
         /\ Range(req[h].cids) \subseteq Cids
         /\ New(h) \in Cids /\ Old(h) \in Cids
         /\ New(h) \in Range(req[h].cids) /\ Old(h) \in Range(req[h].cids)
         /\ With(New(h)) \subseteq Scope(h) /\ With(Old(h)) \subseteq Scope(h)
         /\ Range(req[h].cids) \subseteq Scope(h)
         /\ Scope(h) \subseteq Cids
<1>1. req[h] \in Requests
  BY DEF Typed, Serving
<1>2. /\ Range(req[h].cids) \subseteq Cids
      /\ req[h].cids[1] \in Range(req[h].cids)
      /\ Subject(req[h]) \in Range(req[h].cids)
  BY <1>1, RequestFacts
<1>3. \A c \in Range(req[h].cids) : With(c) \subseteq Cids /\ c \in With(c)
  BY <1>2, Objects
<1> QED  BY <1>1, <1>2, <1>3 DEF New, Old, Scope

LEMMA IdleScope ==
  ASSUME Typed, Serving, NEW h \in Handlers, pc[h] = "idle"
  PROVE  Scope(h) = {}
<1>1. req[h].cids = << >>
  BY DEF Serving, NoRequest
<1> QED  BY <1>1 DEF Scope, Range

LEMMA LooseScope ==
  ASSUME Typed, Serving, NEW h \in Handlers
  PROVE  Loose(h) \subseteq Scope(h)
BY ServingFacts DEF Loose

(* What is being recorded is in the request's scope.                       *)
LEMMA RecordingScope ==
  ASSUME Typed, Serving, NEW h \in Handlers
  PROVE  Recording(h) \subseteq Scope(h)
<1>1. CASE pc[h] = "idle"
  BY <1>1 DEF Recording, Serving
<1>2. CASE pc[h] # "idle"
  BY <1>2, ServingFacts DEF Recording, Serving
<1> QED  BY <1>1, <1>2
----
(* Types, and what each handler serves.                                    *)
LEMMA InitInv == Init => Inv
<1> SUFFICES ASSUME Init PROVE Inv
  OBVIOUS
<1>1. NoJob \in JobRecords
  BY EmptySeq DEF NoJob, JobRecords, JobStages, Owners
<1>2. Typed
  BY <1>1 DEF Init, Typed, handler, redis, Owners, Stages, Statuses
<1>3. Serving
  BY DEF Init, Serving, NoJob
<1>4. \A h \in Handlers : Scope(h) = {} /\ Recording(h) = {}
  BY <1>2, <1>3, IdleScope, RecordingScope DEF Init
<1>5. Once /\ Firm
  BY <1>4 DEF Once, Firm
<1>6. Kept
  BY DEF Init, Kept, Wants
<1> QED  BY <1>2, <1>3, <1>5, <1>6 DEF Inv

(* A step of what is recorded on behalf of a handler.                      *)
JobStep(h) == JobResolve(h) \/ JobSelect(h) \/ JobCount(h) \/ JobCreate(h)
JobMoves(h) ==
  /\ UNCHANGED <<pins, handler, tainted>>
  /\ job[h].pc # "none" /\ job' \in [Handlers -> JobRecords]
  /\ \A g \in Handlers \ {h} : job'[g] = job[g]
  /\ job'[h].pc # "none" =>
       /\ job'[h].list = job[h].list /\ job'[h].status = job[h].status
       /\ job'[h].wrap = job[h].wrap
       /\ job'[h].pc # "resolve"
       /\ job'[h].pc = "select" => job'[h].at \in DOMAIN job'[h].list

LEMMA JobStepMoves ==
  ASSUME Typed, Serving, NEW h \in Handlers, JobStep(h)
  PROVE  JobMoves(h)
<1> USE DEF OnlyTheJob, handler, Job
<1>1. job[h] \in JobRecords /\ job \in [Handlers -> JobRecords]
  BY DEF Typed
<1>2. CASE JobResolve(h)
  <2> DEFINE p == IF job[h].list = << >> THEN "count" ELSE "select"
  <2>1. PICK o \in Ids(h) : job' = [job EXCEPT ![h].user = o, ![h].pc = p]
    BY <1>2 DEF JobResolve
  <2>2. o \in Owners
    BY <2>1 DEF Ids, Typed, Owners
  <2>3. job[h].pc = "resolve" /\ job[h].at = 1
    BY <1>2 DEF JobResolve, Serving
  <2>4. p = "select" => 1 \in DOMAIN job[h].list
    BY <1>1, EmptySeq DEF JobRecords
  <2>5. p \in {"select", "count"}
    OBVIOUS
  <2> HIDE DEF p
  <2>6. job'[h] = [job[h] EXCEPT !.user = o, !.pc = p]
    BY <2>1, <1>1
  <2>7. job'[h] \in JobRecords
    BY <2>6, <2>2, <2>5, <1>1 DEF JobRecords, JobStages
  <2>8. /\ job'[h].pc = p /\ job'[h].at = 1 /\ job'[h].wrap = job[h].wrap
        /\ job'[h].list = job[h].list /\ job'[h].status = job[h].status
    BY <2>3, <2>6, <1>1 DEF JobRecords
  <2>9. /\ job' \in [Handlers -> JobRecords]
        /\ \A g \in Handlers \ {h} : job'[g] = job[g]
    BY <2>1, <2>7, <1>1
  <2> QED  BY <2>3, <2>4, <2>5, <2>8, <2>9, <1>2 DEF JobResolve, JobMoves
<1>3. CASE JobSelect(h)
  <2> DEFINE c == job[h].list[job[h].at]
  <2>1. PICK n \in Nat :
          job' = [job EXCEPT ![h].pc = After(job[h]), ![h].at = @ + 1, ![h].sum = n]
    <3>1. job[h].at \in DOMAIN job[h].list
      BY <1>3 DEF JobSelect, Serving
    <3>2. c \in Cids
      BY <3>1, <1>1 DEF JobRecords
    <3>3. Size[c] \in Nat
      BY <3>2, ObjectsAssumption
    <3>4. CASE job' = [job EXCEPT ![h].pc = After(job[h]), ![h].at = @ + 1,
                        ![h].sum = @ + (IF rows[job[h].user][c] = "none" THEN Size[c] ELSE 0)]
      <4>1. job[h].sum + (IF rows[job[h].user][c] = "none" THEN Size[c] ELSE 0) \in Nat
        BY <3>3, <1>1 DEF JobRecords
      <4> QED  BY <3>4, <4>1
    <3>5. CASE job' = [job EXCEPT ![h].pc = After(job[h]), ![h].at = @ + 1,
                        ![h].sum = @ + Size[c]]
      <4>1. job[h].sum + Size[c] \in Nat
        BY <3>3, <1>1 DEF JobRecords
      <4> QED  BY <3>5, <4>1
    <3> QED  BY <1>3, <3>4, <3>5 DEF JobSelect
  <2>2. After(job[h]) \in {"select", "count"}
    BY DEF After
  <2>3. job[h].pc = "select" /\ job[h].at \in DOMAIN job[h].list
    BY <1>3 DEF JobSelect, Serving
  <2>4. job'[h] = [job[h] EXCEPT !.pc = After(job[h]), !.at = @ + 1, !.sum = n]
    BY <2>1, <1>1
  <2>5. job'[h] \in JobRecords
    <3>1. After(job[h]) \in JobStages /\ job[h].at + 1 \in Nat
      BY <2>2, <1>1 DEF JobRecords, JobStages
    <3>2. [job[h] EXCEPT !.pc = After(job[h])] \in JobRecords
      BY <3>1, <1>1 DEF JobRecords
    <3> QED  BY <2>4, <3>1, <3>2, <1>1 DEF JobRecords
  <2>6. After(job[h]) = "select" => job[h].at + 1 \in DOMAIN job[h].list
    BY <2>3, <1>1 DEF After, JobRecords
  <2>7. /\ job'[h].pc = After(job[h]) /\ job'[h].at = job[h].at + 1
        /\ job'[h].list = job[h].list /\ job'[h].status = job[h].status
        /\ job'[h].wrap = job[h].wrap
    <3>1. job[h].at + 1 \in Nat
      BY <1>1 DEF JobRecords
    <3> QED  BY <2>4, <3>1, <1>1 DEF JobRecords
  <2>8. /\ job' \in [Handlers -> JobRecords]
        /\ \A g \in Handlers \ {h} : job'[g] = job[g]
    BY <2>1, <2>5, <1>1
  <2> QED  BY <2>2, <2>3, <2>6, <2>7, <2>8, <1>3 DEF JobSelect, JobMoves
<1>4. CASE JobCount(h)
  <2>1. job[h].pc = "count" /\ (job' = [job EXCEPT ![h].pc = "create"] \/ UNCHANGED job)
    BY <1>4 DEF JobCount, JobGoes
  <2>2. CASE job' = [job EXCEPT ![h].pc = "create"]
    <3>1. job'[h] = [job[h] EXCEPT !.pc = "create"]
      BY <2>2, <1>1
    <3>2. job'[h] \in JobRecords
      BY <3>1, <1>1 DEF JobRecords, JobStages
    <3> QED  BY <2>1, <2>2, <3>1, <3>2, <1>1, <1>4 DEF JobCount, JobMoves, JobRecords
  <2>3. CASE UNCHANGED job
    BY <2>1, <2>3, <1>1, <1>4 DEF JobCount, JobMoves
  <2> QED  BY <2>1, <2>2, <2>3
<1>5. CASE JobCreate(h)
  <2>1. job' = [job EXCEPT ![h] = NoJob] /\ job[h].pc = "create"
    BY <1>5 DEF JobCreate
  <2>2. NoJob \in JobRecords /\ NoJob.pc = "none"
    BY EmptySeq DEF NoJob, JobRecords, JobStages, Owners
  <2> QED  BY <2>1, <2>2, <1>1, <1>5 DEF JobCreate, JobMoves
<1> QED  BY <1>2, <1>3, <1>4, <1>5 DEF JobStep
----
(* What the parts of a step change.                                        *)

(* An object the node does not let go of stays held.                       *)
LEMMA HoldsKept ==
  ASSUME NEW os, NEW c, pins \ pins' \subseteq os, \A o \in os : c \notin With(o), Holds(c)
  PROVE  Holds(c)'
BY DEF Holds, With

LEMMA HoldsGrow ==
  ASSUME NEW c, pins \subseteq pins', Holds(c)
  PROVE  Holds(c)'
BY DEF Holds

(* What the node does is about the arguments.                              *)
LEMMA EffectFacts ==
  ASSUME NEW r \in Requests
  PROVE  /\ PinnedBy(r) \subseteq Range(r.cids) /\ UnpinnedBy(r) \subseteq Range(r.cids)
         /\ Unasked(r) \subseteq Cids
<1>1. /\ Range(r.cids) \subseteq Cids /\ r.keep \subseteq Range(r.cids)
      /\ r.cids[1] \in Range(r.cids) /\ Subject(r) \in Range(r.cids)
      /\ r.op = "pin/update" => Subject(r) = r.cids[2]
      /\ Range(r.told) \subseteq Range(r.cids)
  BY RequestFacts
<1>2. PinnedBy(r) \subseteq Range(r.cids)
  BY <1>1 DEF PinnedBy
<1>3. UnpinnedBy(r) \subseteq Range(r.cids)
  BY <1>1 DEF UnpinnedBy
<1>4. \A c \in Cids : With(c) \subseteq Cids
  BY Objects
<1>5. Unasked(r) \subseteq Cids
  BY <1>1, <1>4 DEF Unasked
<1> QED  BY <1>2, <1>3, <1>5

LEMMA NodeFacts ==
  ASSUME Typed, Serving, NEW h \in Handlers, pc[h] # "idle",
         NEW out \in SUBSET UnpinnedBy(req[h]), NEW in \in SUBSET PinnedBy(req[h]),
         NodeDoes(out, in)
  PROVE  /\ pins' \subseteq Cids /\ in \subseteq pins'
         /\ pins \ pins' \subseteq UnpinnedBy(req[h])
<1>1. req[h] \in Requests /\ Range(req[h].cids) \subseteq Cids
  BY ServingFacts
<1>2. PinnedBy(req[h]) \subseteq Cids
  BY <1>1, EffectFacts
<1> QED  BY <1>2 DEF NodeDoes, Typed

(* What the node has pinned of a request that is answered: what is to be   *)
(* pinned, and of an add all that is listed, but for what is Unasked.      *)
LEMMA ForwardPins ==
  ASSUME Typed, Serving, NEW h \in Handlers, Forward(h)
  PROVE  /\ pc[h] = "forward" /\ req[h] \in Requests
         /\ pins' \subseteq Cids /\ pins \ pins' \subseteq UnpinnedBy(req[h])
         /\ tainted' = tainted \cup Unasked(req[h])
         /\ IsPin(h) => New(h) \in pins'
         /\ req[h].op = "add" /\ req[h].pin =>
              \A c \in Range(req[h].told) \ tainted' : Holds(c)'
<1>1. pc[h] = "forward" /\ req[h] \in Requests
  BY ServingFacts DEF Forward
<1>2. /\ NodeDoes(UnpinnedBy(req[h]), PinnedBy(req[h]))
      /\ tainted' = tainted \cup Unasked(req[h])
  BY DEF Forward, Taint
<1>3. /\ pins' \subseteq Cids /\ PinnedBy(req[h]) \subseteq pins'
      /\ pins \ pins' \subseteq UnpinnedBy(req[h])
  BY <1>1, <1>2, NodeFacts
<1>4. IsPin(h) => New(h) \in pins'
  <2>1. Subject(req[h]) \in Range(req[h].cids)
        /\ (req[h].op = "pin/update" => Subject(req[h]) = req[h].cids[2])
    BY <1>1, RequestFacts
  <2> QED  BY <1>3, <2>1 DEF IsPin, New, PinnedBy
<1>5. ASSUME req[h].op = "add", req[h].pin, NEW c \in Range(req[h].told) \ tainted'
      PROVE  Holds(c)'
  <2>1. PICK k \in req[h].keep : c \in With(k)
    BY <1>2, <1>5 DEF Unasked
  <2>2. k \in pins'
    BY <1>3, <1>5 DEF PinnedBy
  <2> QED  BY <2>1, <2>2 DEF With, Holds
<1> QED  BY <1>1, <1>2, <1>3, <1>4, <1>5

LEMMA StatusFacts ==
  ASSUME Typed, NEW h \in Handlers, NEW c \in Cids, NEW status \in {"pin", "unpin"},
         SetStatus(h, c, status)
  PROVE  /\ rows' \in [Owners -> [Cids -> Statuses]]
         /\ \A o \in Owners, x \in Cids :
              rows'[o][x] = rows[o][x] \/ (x = c /\ rows'[o][x] = status)
<1>1. rows \in [Owners -> [Cids -> Statuses]]
  BY DEF Typed
<1>2. CASE UNCHANGED rows
  BY <1>1, <1>2
<1>3. ASSUME NEW o \in Ids(h),
             rows' = [rows EXCEPT ![o][c] =
                        IF @ = "none" \/ c \in req[h].odd THEN @ ELSE status]
      PROVE  /\ rows' \in [Owners -> [Cids -> Statuses]]
             /\ \A x \in Owners, y \in Cids :
                  rows'[x][y] = rows[x][y] \/ (y = c /\ rows'[x][y] = status)
  <2>1. o \in Owners
    BY DEF Ids, Typed, Owners
  <2>2. PICK v \in Statuses : (v = rows[o][c] \/ v = status) /\ rows' = [rows EXCEPT ![o][c] = v]
    BY <1>1, <1>3, <2>1 DEF Statuses
  <2> QED  BY <1>1, <2>1, <2>2
<1> QED  BY <1>2, <1>3 DEF SetStatus

LEMMA CreateFacts ==
  ASSUME Typed, NEW h \in Handlers, JobCreate(h)
  PROVE  /\ rows' \in [Owners -> [Cids -> Statuses]]
         /\ \A o \in Owners, x \in Cids :
              \/ rows'[o][x] = rows[o][x]
              \/ x \in Range(job[h].list) /\ rows'[o][x] = job[h].status
<1>1. rows \in [Owners -> [Cids -> Statuses]] /\ job[h] \in JobRecords
  BY DEF Typed
<1>2. CASE UNCHANGED rows
  BY <1>1, <1>2
<1>3. CASE rows' = [rows EXCEPT ![job[h].user] = [c \in Cids |->
               IF c \in Range(job[h].list) /\ @[c] = "none" THEN job[h].status ELSE @[c]]]
  <2>1. job[h].user \in Owners /\ job[h].status \in Statuses
    BY <1>1 DEF JobRecords, Statuses
  <2> DEFINE r == rows[job[h].user]
             n == [c \in Cids |->
                     IF c \in Range(job[h].list) /\ r[c] = "none" THEN job[h].status ELSE r[c]]
  <2>2. n \in [Cids -> Statuses]
    BY <1>1, <2>1
  <2>3. rows' = [rows EXCEPT ![job[h].user] = n]
    BY <1>3
  <2> QED  BY <1>1, <2>1, <2>2, <2>3
<1> QED  BY <1>2, <1>3 DEF JobCreate

LEMMA StartFacts ==
  ASSUME Typed, NEW h \in Handlers, NEW list \in Seq(Cids),
         NEW wrap \in BOOLEAN, NEW status \in {"pin", "unpin"},
         StartJob(h, list, wrap, status)
  PROVE  /\ job' \in [Handlers -> JobRecords]
         /\ \A g \in Handlers \ {h} : job'[g] = job[g]
         /\ job'[h].pc = "resolve" /\ job'[h].at = 1 /\ job'[h].sum = 0
         /\ job'[h].list = list /\ job'[h].wrap = wrap /\ job'[h].status = status
<1> DEFINE j == [pc |-> "resolve", user |-> Nobody, list |-> list, at |-> 1, sum |-> 0,
                 wrap |-> wrap, status |-> status]
<1>1. job' = [job EXCEPT ![h] = j]
  BY DEF StartJob
<1>2. j \in JobRecords
  BY DEF JobRecords, JobStages, Owners
<1> QED  BY <1>1, <1>2 DEF Typed

(* What a forwarded request leaves to be recorded.                         *)
LEMMA ForwardFacts ==
  ASSUME Typed, Serving, NEW h \in Handlers, Forward(h)
  PROVE  /\ pc' = [pc EXCEPT ![h] =
              CASE IsPin(h) -> "hook" [] req[h].op = "pin/rm" -> "unpin" [] OTHER -> "charge"]
         /\ job' \in [Handlers -> JobRecords]
         /\ \A g \in Handlers \ {h} : job'[g] = job[g]
         /\ job'[h].pc # "none" =>
              /\ job'[h].pc = "resolve" /\ job'[h].at = 1
              /\ Range(job'[h].list) \subseteq Range(req[h].cids)
              /\ job'[h].status = "pin" =>
                   \/ /\ req[h].op = "add" /\ req[h].pin
                      /\ Range(job'[h].list) = Range(req[h].told)
                   \/ IsPin(h) /\ Range(job'[h].list) = {New(h)}
<1>1. /\ pc[h] = "forward" /\ job[h].pc = "none"
      /\ req[h] \in Requests /\ New(h) \in Cids /\ New(h) \in Range(req[h].cids)
  BY ServingFacts DEF Forward, Serving
<1>2. pc' = [pc EXCEPT ![h] =
        CASE IsPin(h) -> "hook" [] req[h].op = "pin/rm" -> "unpin" [] OTHER -> "charge"]
  BY DEF Forward, Goto
<1>3. CASE req[h].op = "add"
  <2>1. StartJob(h, req[h].told, req[h].wrap, IF req[h].pin THEN "pin" ELSE "unpin")
    BY <1>3 DEF Forward, IsPin
  <2>2. /\ req[h].told \in Seq(Cids) /\ Range(req[h].told) \subseteq Range(req[h].cids)
        /\ req[h].wrap \in BOOLEAN
        /\ (IF req[h].pin THEN "pin" ELSE "unpin") \in {"pin", "unpin"}
    BY <1>1, RequestFacts
  <2>3. /\ job' \in [Handlers -> JobRecords]
        /\ \A g \in Handlers \ {h} : job'[g] = job[g]
        /\ job'[h].pc = "resolve" /\ job'[h].at = 1
        /\ job'[h].list = req[h].told
        /\ job'[h].status = IF req[h].pin THEN "pin" ELSE "unpin"
    BY <2>1, <2>2, StartFacts
  <2> QED  BY <2>2, <2>3, <1>2, <1>3
<1>4. CASE req[h].op # "add" /\ IsPin(h) /\ fresh[h]
  <2>1. StartJob(h, <<New(h)>>, FALSE, "pin")
    BY <1>4 DEF Forward
  <2>2. <<New(h)>> \in Seq(Cids)
    BY <1>1
  <2>3. /\ job' \in [Handlers -> JobRecords]
        /\ \A g \in Handlers \ {h} : job'[g] = job[g]
        /\ job'[h].pc = "resolve" /\ job'[h].at = 1
        /\ job'[h].list = <<New(h)>> /\ job'[h].status = "pin"
    BY <2>1, <2>2, StartFacts
  <2>4. Range(<<New(h)>>) = {New(h)}
    BY DEF Range
  <2> QED  BY <1>1, <1>2, <1>4, <2>2, <2>3, <2>4
<1>5. CASE req[h].op # "add" /\ ~(IsPin(h) /\ fresh[h])
  <2>1. UNCHANGED job
    BY <1>5 DEF Forward
  <2> QED  BY <1>1, <1>2, <2>1 DEF Typed
<1> QED  BY <1>3, <1>4, <1>5
----
(* Types and what is served are preserved.                                 *)

LEMMA ArriveTyped ==
  ASSUME Typed, Serving, NEW h \in Handlers, NEW u \in Users, NEW r \in Requests,
         Arrive(h, u, r)
  PROVE  Typed' /\ Serving'
<1>1. /\ r # NoRequest /\ UNION {With(c) : c \in Range(r.cids)} \subseteq Cids
  BY RequestFacts, Objects
<1>2. tainted' \subseteq Cids
  BY <1>1 DEF Typed, Arrive, Taint
<1>3. Typed'
  BY <1>2 DEF Typed, Arrive, Owners, Stages
<1>4. job[h].pc = "none"
  BY DEF Serving, Arrive
<1>5. Serving'
  BY <1>1, <1>4 DEF Serving, Arrive, Typed
<1> QED  BY <1>3, <1>5

LEMMA LeaveTyped ==
  ASSUME Typed, Serving, NEW h \in Handlers, Leave(h)
  PROVE  Typed' /\ Serving'
<1>1. Typed'
  BY DEF Typed, Leave, Owners, Stages
<1>2. Serving'
  BY DEF Serving, Leave, Typed, Job
<1> QED  BY <1>1, <1>2

(* The steps of a handler between the two.                                 *)
HandlerStep(h) ==
  \/ Check(h) \/ Refuse(h) \/ Forward(h) \/ ForwardFails(h) \/ ForwardLost(h)
  \/ Hook(h) \/ Unpin(h) \/ Ask(h) \/ Repin(h) \/ Charge(h)

(* They keep the request, and leave alone what another handler records.    *)
LEMMA HandlerMoves ==
  ASSUME Typed, Serving, NEW h \in Handlers, HandlerStep(h)
  PROVE  /\ UNCHANGED <<req, who>> /\ fresh' \in [Handlers -> BOOLEAN]
         /\ pc[h] # "idle" /\ pc' = [pc EXCEPT ![h] = pc'[h]] /\ pc'[h] \in Stages \ {"idle"}
         /\ Forward(h) \/ UNCHANGED job
         /\ pc'[h] = "forward" => pc[h] = "check"
<1>1. pc \in [Handlers -> Stages] /\ fresh \in [Handlers -> BOOLEAN]
  BY DEF Typed
<1>2. CASE Check(h)
  <2>1. PICK b \in BOOLEAN : fresh' = fresh \/ fresh' = [fresh EXCEPT ![h] = b]
    BY <1>2 DEF Check, IsNew
  <2> QED  BY <1>1, <1>2, <2>1 DEF Check, Stages
<1>3. CASE Forward(h)
  <2>1. UNCHANGED <<req, who, fresh>> /\ pc[h] = "forward"
    BY <1>3 DEF Forward, Goto
  <2> QED  BY <1>1, <1>3, <2>1, ForwardFacts DEF Stages
<1>4. CASE Refuse(h) \/ ForwardFails(h) \/ ForwardLost(h)
  BY <1>1, <1>4 DEF Refuse, ForwardFails, ForwardLost, Goto, Stages
<1>5. CASE Hook(h)
  BY <1>1, <1>5 DEF Hook, Goto, Stages
<1>6. CASE Unpin(h) \/ Ask(h)
  BY <1>1, <1>6 DEF Unpin, Ask, Goto, Stages
<1>7. CASE Repin(h) \/ Charge(h)
  BY <1>1, <1>7 DEF Repin, Charge, Goto, Stages, handler
<1> QED  BY <1>2, <1>3, <1>4, <1>5, <1>6, <1>7 DEF HandlerStep

(* What they do to the node, the database and the taint.                   *)
LEMMA HandlerWrites ==
  ASSUME Typed, Serving, NEW h \in Handlers, HandlerStep(h)
  PROVE  /\ pins' \subseteq Cids
         /\ tainted' \subseteq Cids /\ tainted \subseteq tainted'
         /\ rows' \in [Owners -> [Cids -> Statuses]]
         /\ Forward(h) \/ ForwardLost(h) \/ pins \subseteq pins'
<1>1. /\ pins \subseteq Cids /\ tainted \subseteq Cids
      /\ rows \in [Owners -> [Cids -> Statuses]] /\ pc[h] # "idle"
  BY HandlerMoves DEF Typed
<1>2. /\ New(h) \in Cids /\ Old(h) \in Cids /\ Scope(h) \subseteq Cids
      /\ With(Old(h)) \subseteq Cids /\ Inside[Old(h)] \subseteq Cids
  BY <1>1, ServingFacts, Objects DEF With
<1>3. CASE Forward(h) \/ ForwardLost(h)
  <2>1. CASE Forward(h)
    <3>1. pins' \subseteq Cids /\ tainted' = tainted \cup Unasked(req[h]) /\ UNCHANGED rows
      BY <2>1, ForwardPins DEF Forward
    <3>2. Unasked(req[h]) \subseteq Cids
      BY <1>1, ServingFacts, EffectFacts
    <3> QED  BY <1>1, <2>1, <3>1, <3>2
  <2>2. CASE ForwardLost(h)
    <3>1. PICK out \in SUBSET UnpinnedBy(req[h]), in \in SUBSET PinnedBy(req[h]) :
            NodeDoes(out, in)
      BY <2>2 DEF ForwardLost
    <3>2. pins' \subseteq Cids
      BY <1>1, <3>1, NodeFacts
    <3> QED  BY <1>1, <1>2, <2>2, <3>2 DEF ForwardLost, Taint
  <2> QED  BY <1>3, <2>1, <2>2
<1>4. CASE Check(h) \/ Refuse(h) \/ ForwardFails(h) \/ Charge(h)
  BY <1>1, <1>4 DEF Check, Refuse, ForwardFails, Charge
<1>5. CASE Hook(h)
  <2>1. rows' \in [Owners -> [Cids -> Statuses]]
    BY <1>1, <1>2, <1>5, StatusFacts DEF Hook
  <2> QED  BY <1>1, <1>5, <2>1 DEF Hook
<1>6. CASE Unpin(h)
  <2>1. rows' \in [Owners -> [Cids -> Statuses]]
    BY <1>1, <1>2, <1>6, StatusFacts DEF Unpin
  <2> QED  BY <1>1, <1>6, <2>1 DEF Unpin
<1>7. CASE Ask(h)
  BY <1>1, <1>2, <1>7 DEF Ask, Taint
<1>8. CASE Repin(h)
  BY <1>1, <1>2, <1>8 DEF Repin, Taint
<1> QED  BY <1>3, <1>4, <1>5, <1>6, <1>7, <1>8 DEF HandlerStep

LEMMA HandlerTyped ==
  ASSUME Typed, Serving, NEW h \in Handlers, HandlerStep(h)
  PROVE  Typed' /\ Serving'
<1>1. /\ UNCHANGED <<req, who>> /\ fresh' \in [Handlers -> BOOLEAN]
      /\ pc[h] # "idle" /\ pc' = [pc EXCEPT ![h] = pc'[h]] /\ pc'[h] \in Stages \ {"idle"}
      /\ Forward(h) \/ UNCHANGED job
      /\ pc'[h] = "forward" => pc[h] = "check"
  BY HandlerMoves
<1>2. /\ job' \in [Handlers -> JobRecords]
      /\ \A g \in Handlers \ {h} : job'[g] = job[g]
  BY <1>1, ForwardFacts DEF Typed
<1>3. Typed'
  BY <1>1, <1>2, HandlerWrites DEF Typed
<1>4. \A g \in Handlers \ {h} : pc'[g] = pc[g]
  BY <1>1 DEF Typed
<1>5. ASSUME NEW g \in Handlers
      PROVE  /\ pc'[g] = "idle" <=> req'[g] = NoRequest
             /\ pc'[g] \in {"idle", "check", "forward"} => job'[g].pc = "none"
             /\ job'[g].pc # "none" => Range(job'[g].list) \subseteq Range(req'[g].cids)
             /\ job'[g].pc = "resolve" => job'[g].at = 1
             /\ job'[g].pc = "select" => job'[g].at \in DOMAIN job'[g].list
  <2>1. CASE g # h
    BY <2>1, <1>1, <1>2, <1>4 DEF Serving
  <2>2. CASE g = h /\ Forward(h)
    <3>1. pc'[h] \in {"hook", "unpin", "charge"}
      BY <2>2, ForwardFacts DEF Typed
    <3> QED  BY <2>2, <3>1, <1>1, ForwardFacts DEF Serving
  <2>3. CASE g = h /\ ~Forward(h)
    <3>1. pc'[h] \in {"check", "forward"} => pc[h] \in {"check", "forward"}
      <4>1. pc'[h] # "check"
        BY <2>3 DEF HandlerStep, Check, Refuse, ForwardFails, ForwardLost, Hook, Unpin,
                    Ask, Repin, Charge, Goto, Typed, handler
      <4> QED  BY <4>1, <1>1
    <3> QED  BY <2>3, <3>1, <1>1 DEF Serving
  <2> QED  BY <2>1, <2>2, <2>3
<1> QED  BY <1>3, <1>5 DEF Serving

LEMMA JobTyped ==
  ASSUME Typed, Serving, NEW h \in Handlers, JobStep(h)
  PROVE  Typed' /\ Serving'
<1>1. JobMoves(h)
  BY JobStepMoves
<1>2. rows' \in [Owners -> [Cids -> Statuses]]
  BY CreateFacts DEF JobStep, JobResolve, JobSelect, JobCount, Typed
<1>3. Typed'
  BY <1>1, <1>2 DEF JobMoves, Typed, handler
<1>4. Serving'
  BY <1>1 DEF JobMoves, Serving, handler
<1> QED  BY <1>3, <1>4
----
(* Two requests at a time about an object taint it.                        *)
LEMMA ScopeSame ==
  ASSUME UNCHANGED req
  PROVE  \A h \in Handlers : Scope(h)' = Scope(h)
BY DEF Scope

LEMMA OnceKept ==
  ASSUME Typed, Serving, Once, UNCHANGED req, tainted \subseteq tainted'
  PROVE  Once'
BY ScopeSame DEF Once

LEMMA ArriveOnce ==
  ASSUME Typed, Serving, Once,
         NEW i \in Handlers, NEW u \in Users, NEW r \in Requests, Arrive(i, u, r)
  PROVE  Once'
<1>1. \A g \in Handlers \ {i} : Scope(g)' = Scope(g)
  BY DEF Arrive, Scope, Typed
<1>2. Scope(i)' = UNION {With(c) : c \in Range(r.cids)}
  BY DEF Arrive, Scope, Typed
<1>3. tainted' = tainted \cup ((UNION {Scope(g) : g \in Handlers}) \cap Scope(i)')
  BY <1>2 DEF Arrive, Taint
<1>4. ASSUME NEW c \in Cids \ tainted', NEW g \in Handlers, NEW h \in Handlers,
             c \in Scope(g)', c \in Scope(h)', g # h
      PROVE  FALSE
  <2>1. CASE g # i /\ h # i
    BY <2>1, <1>1, <1>3, <1>4 DEF Once
  <2>2. CASE g = i
    BY <2>2, <1>1, <1>3, <1>4
  <2>3. CASE h = i
    BY <2>3, <1>1, <1>3, <1>4
  <2> QED  BY <2>1, <2>2, <2>3
<1> QED  BY <1>4 DEF Once

LEMMA LeaveOnce ==
  ASSUME Typed, Serving, Once, NEW i \in Handlers, Leave(i)
  PROVE  Once'
<1>1. \A g \in Handlers \ {i} : Scope(g)' = Scope(g)
  BY DEF Leave, Scope, Typed
<1>2. Scope(i)' = {}
  BY LeaveTyped, IdleScope DEF Leave, Typed, Scope, NoRequest, Range
<1> QED  BY <1>1, <1>2 DEF Once, Leave
----
(* What is about to be recorded as pinned stays pinned.                    *)

(* A handler's step lets go of nothing its request is not about.           *)
LEMMA HoldsAway ==
  ASSUME Typed, Serving, NEW i \in Handlers, HandlerStep(i),
         NEW c \in Cids, c \notin Scope(i), Holds(c)
  PROVE  Holds(c)'
<1>1. pc[i] # "idle" /\ req[i] \in Requests
  BY HandlerMoves, ServingFacts
<1>2. CASE Forward(i) \/ ForwardLost(i)
  <2>1. pins \ pins' \subseteq UnpinnedBy(req[i])
    BY <1>1, <1>2, ForwardPins, NodeFacts DEF ForwardLost
  <2>2. UnpinnedBy(req[i]) \subseteq Range(req[i].cids)
    BY <1>1, EffectFacts
  <2>3. \A o \in UnpinnedBy(req[i]) : c \notin With(o)
    BY <2>2 DEF Scope
  <2> QED  BY <2>1, <2>3, HoldsKept
<1>3. CASE pins \subseteq pins'
  BY <1>3, HoldsGrow
<1> QED  BY <1>2, <1>3, HandlerWrites

LEMMA HandlerFirm ==
  ASSUME Typed, Serving, Once, Firm, NEW i \in Handlers, HandlerStep(i)
  PROVE  Firm'
<1> SUFFICES ASSUME NEW h \in Handlers, NEW c \in Recording(h)', c \notin tainted'
             PROVE  Holds(c)'
  BY DEF Firm
<1>1. /\ UNCHANGED req /\ pc' = [pc EXCEPT ![i] = pc'[i]] /\ pc[i] # "idle"
      /\ Forward(i) \/ UNCHANGED job
  BY HandlerMoves
<1>2. c \notin tainted
  BY HandlerWrites
<1>3. CASE h # i
  <2>1. pc'[h] = pc[h] /\ job'[h] = job[h] /\ New(h)' = New(h)
    BY <1>1, <1>3, ForwardFacts DEF Typed, New
  <2>2. c \in Recording(h)
    BY <2>1 DEF Recording
  <2>3. c \in Scope(h) /\ c \in Cids
    <3>1. c \in Scope(h)
      BY <2>2, RecordingScope
    <3> QED  BY <3>1, IdleScope, ServingFacts
  <2>4. c \notin Scope(i)
    BY <2>3, <1>2, <1>3 DEF Once
  <2> QED  BY <2>2, <2>3, <2>4, <1>2, HoldsAway DEF Firm
<1>4. CASE h = i /\ Forward(i)
  <2>1. New(i)' = New(i)
    BY <1>1 DEF New
  <2>2. /\ IsPin(i) => New(i) \in pins'
        /\ req[i].op = "add" /\ req[i].pin =>
             \A x \in Range(req[i].told) \ tainted' : Holds(x)'
    BY <1>4, ForwardPins
  <2>3. CASE c \in Range(job'[i].list) /\ job'[i].pc # "none" /\ job'[i].status = "pin"
    <3>1. \/ req[i].op = "add" /\ req[i].pin /\ c \in Range(req[i].told)
          \/ IsPin(i) /\ c = New(i)
      BY <1>4, <2>3, ForwardFacts
    <3> QED  BY <3>1, <2>2 DEF Holds
  <2>4. CASE c = New(i) /\ pc'[i] = "hook"
    <3>1. IsPin(i)
      <4>1. pc'[i] = CASE IsPin(i) -> "hook" [] req[i].op = "pin/rm" -> "unpin"
                       [] OTHER -> "charge"
        BY <1>4, ForwardFacts DEF Typed
      <4> QED  BY <4>1, <2>4
    <3> QED  BY <3>1, <2>2, <2>4 DEF Holds
  <2> QED  BY <1>4, <2>1, <2>3, <2>4 DEF Recording
<1>5. CASE h = i /\ ~Forward(i)
  <2>1. pc'[i] # "hook"
    BY <1>5 DEF HandlerStep, Check, Refuse, ForwardFails, ForwardLost, Hook, Unpin,
                Ask, Repin, Charge, Goto, Typed, handler
  <2>2. c \in Recording(i) /\ job[i].pc # "none"
    BY <1>1, <1>5, <2>1 DEF Recording
  <2>3. ~ForwardLost(i)
    BY <2>2 DEF ForwardLost, Serving
  <2>4. pins \subseteq pins'
    BY <1>5, <2>3, HandlerWrites
  <2> QED  BY <1>2, <2>2, <2>4, HoldsGrow DEF Firm
<1> QED  BY <1>3, <1>4, <1>5

(* A step that records no more, and lets go of nothing.                    *)
LEMMA FirmStays ==
  ASSUME Firm, UNCHANGED pins, tainted \subseteq tainted',
         \A h \in Handlers : Recording(h)' \subseteq Recording(h)
  PROVE  Firm'
BY DEF Firm, Holds

LEMMA JobFirm ==
  ASSUME Typed, Serving, Firm, NEW i \in Handlers, JobStep(i)
  PROVE  Firm'
<1>1. JobMoves(i)
  BY JobStepMoves
<1>2. \A h \in Handlers : Recording(h)' \subseteq Recording(h)
  BY <1>1 DEF JobMoves, Recording, handler, New
<1> QED  BY <1>1, <1>2, FirmStays DEF JobMoves

LEMMA ArriveFirm ==
  ASSUME Typed, Serving, Firm,
         NEW i \in Handlers, NEW u \in Users, NEW r \in Requests, Arrive(i, u, r)
  PROVE  Firm'
<1>1. job[i].pc = "none"
  BY DEF Arrive, Serving
<1>2. \A h \in Handlers : Recording(h)' \subseteq Recording(h)
  BY <1>1 DEF Arrive, Recording, New, Typed
<1> QED  BY <1>2, FirmStays DEF Arrive, Taint

LEMMA LeaveFirm ==
  ASSUME Typed, Serving, Firm, NEW i \in Handlers, Leave(i)
  PROVE  Firm'
<1>1. \A h \in Handlers : Recording(h)' \subseteq Recording(h)
  BY DEF Leave, Recording, New, Typed, Job
<1> QED  BY <1>1, FirmStays DEF Leave
----
(* What somebody wants pinned is kept.                                     *)

LEMMA JobKept ==
  ASSUME Typed, Serving, Firm, Kept, NEW i \in Handlers, JobStep(i)
  PROVE  Kept'
<1>1. JobMoves(i)
  BY JobStepMoves
<1>2. \A h \in Handlers : Loose(h)' = Loose(h)
  BY <1>1 DEF JobMoves, Loose, handler, Old
<1>3. \A c : Holds(c)' <=> Holds(c)
  BY <1>1 DEF JobMoves, Holds
<1>4. ASSUME NEW c \in Cids \ tainted, Wants(c)'
      PROVE  Wants(c) \/ Holds(c)
  <2>1. CASE UNCHANGED rows
    BY <1>4, <2>1 DEF Wants
  <2>2. CASE JobCreate(i)
    <3>1. PICK o \in Owners : rows'[o][c] = "pin"
      BY <1>4 DEF Wants
    <3>2. \/ rows'[o][c] = rows[o][c]
          \/ c \in Range(job[i].list) /\ rows'[o][c] = job[i].status
      BY <2>2, CreateFacts
    <3>3. c \in Range(job[i].list) /\ job[i].status = "pin" => Holds(c)
      BY <1>1, <1>4 DEF JobMoves, Firm, Recording
    <3> QED  BY <3>1, <3>2, <3>3 DEF Wants
  <2> QED  BY <2>1, <2>2 DEF JobStep, JobResolve, JobSelect, JobCount
<1> QED  BY <1>1, <1>2, <1>3, <1>4 DEF Kept, JobMoves

(* A request that begins or ends has unpinned nothing.                     *)
LEMMA KeptStays ==
  ASSUME Kept, UNCHANGED <<pins, rows>>, tainted \subseteq tainted',
         \A h \in Handlers : Loose(h) \subseteq Loose(h)'
  PROVE  Kept'
BY DEF Kept, Holds, Wants

LEMMA ArriveKept ==
  ASSUME Typed, Kept,
         NEW i \in Handlers, NEW u \in Users, NEW r \in Requests, Arrive(i, u, r)
  PROVE  Kept'
<1>1. \A h \in Handlers : Loose(h) \subseteq Loose(h)'
  BY DEF Arrive, Loose, Old, Typed
<1> QED  BY <1>1, KeptStays DEF Arrive, Taint

LEMMA LeaveKept ==
  ASSUME Typed, Kept, NEW i \in Handlers, Leave(i)
  PROVE  Kept'
<1>1. \A h \in Handlers : Loose(h) \subseteq Loose(h)'
  BY DEF Leave, Loose, Old, Typed
<1> QED  BY <1>1, KeptStays DEF Leave

(* An object the node lets go of is the handler's to see to.               *)
LEMMA ForwardLoosens ==
  ASSUME Typed, Serving, NEW i \in Handlers, Forward(i),
         NEW c \in Cids \ tainted', Holds(c)
  PROVE  Holds(c)' \/ c \in Loose(i)'
<1>1. UNCHANGED req /\ Old(i)' = Old(i)
  BY DEF Forward, Goto, Old
<1>2. /\ req[i] \in Requests /\ pins \ pins' \subseteq UnpinnedBy(req[i])
      /\ c \notin Unasked(req[i])
  BY ForwardPins
<1>3. pc'[i] = CASE IsPin(i) -> "hook" [] req[i].op = "pin/rm" -> "unpin" [] OTHER -> "charge"
  BY ForwardFacts DEF Typed
<1>4. CASE \A o \in UnpinnedBy(req[i]) : c \notin With(o)
  BY <1>2, <1>4, HoldsKept
<1>5. ASSUME NEW o \in UnpinnedBy(req[i]), c \in With(o)
      PROVE  c \in Loose(i)'
  <2>1. CASE req[i].op = "pin/rm"
    <3>1. o \in Range(req[i].cids)
      BY <1>2, EffectFacts
    <3>2. o = Old(i) /\ o \notin req[i].odd
      BY <1>2, <1>5, <2>1, <3>1 DEF Unasked, Old
    <3>3. pc'[i] = "unpin"
      BY <1>3, <2>1 DEF IsPin
    <3> QED  BY <3>2, <3>3, <1>1, <1>5 DEF Loose, With
  <2>2. CASE req[i].op = "pin/update" /\ Unpins(req[i])
    <3>1. o = Old(i)
      BY <1>5, <2>2 DEF UnpinnedBy, Old
    <3>2. req[i].unpin = "true" /\ Old(i) \notin req[i].odd
      BY <1>2, <1>5, <2>2, <3>1 DEF Unasked, Unpins, Old
    <3>3. pc'[i] = "hook"
      BY <1>3, <2>2 DEF IsPin
    <3> QED  BY <2>2, <3>1, <3>2, <3>3, <1>1, <1>5 DEF Loose, With
  <2>3. CASE req[i].op # "pin/rm" /\ ~(req[i].op = "pin/update" /\ Unpins(req[i]))
    BY <1>5, <2>3 DEF UnpinnedBy
  <2> QED  BY <2>1, <2>2, <2>3
<1> QED  BY <1>4, <1>5

(* What is loose stays so until it is pinned again, or nobody wants it.    *)
LEMMA LooseStays ==
  ASSUME Typed, Serving, NEW i \in Handlers, HandlerStep(i),
         NEW c \in Cids \ tainted', c \in Loose(i), Wants(c)
  PROVE  Holds(c)' \/ c \in Loose(i)'
<1>1. /\ pc[i] \in {"hook", "unpin", "ask", "repin"} /\ c \in With(Old(i))
      /\ Old(i) \notin req[i].odd
      /\ pc[i] = "hook" => req[i].op = "pin/update" /\ req[i].unpin = "true"
  BY DEF Loose
<1>2. UNCHANGED req /\ Old(i)' = Old(i)
  BY HandlerMoves DEF Old
<1>3. CASE Hook(i)
  <2>1. pc'[i] = "unpin"
    BY <1>1, <1>3 DEF Hook, Goto, Typed
  <2> QED  BY <2>1, <1>1, <1>2 DEF Loose, With
<1>4. CASE Unpin(i)
  <2>1. pc'[i] = "ask"
    BY <1>4 DEF Unpin, Goto, Typed
  <2> QED  BY <2>1, <1>1, <1>2 DEF Loose, With
<1>5. CASE Ask(i)
  <2>1. CASE Wanted(i) /\ Goto(i, "repin")
    <3>1. pc'[i] = "repin"
      BY <2>1 DEF Goto, Typed
    <3> QED  BY <3>1, <1>1, <1>2 DEF Loose, With
  <2>2. CASE ~Wanted(i) /\ Taint(Inside[Old(i)])
    <3>1. c = Old(i)
      BY <2>2, <1>1 DEF Taint, With
    <3> QED  BY <1>1, <2>2, <3>1 DEF Wanted, Wants
  <2>3. CASE Taint(With(Old(i)))
    BY <2>3, <1>1 DEF Taint
  <2> QED  BY <1>5, <2>1, <2>2, <2>3 DEF Ask
<1>6. CASE Repin(i)
  <2>1. CASE pins' = pins \cup {Old(i)}
    BY <2>1, <1>1 DEF Holds, With
  <2>2. CASE Taint(With(Old(i)))
    BY <2>2, <1>1 DEF Taint
  <2> QED  BY <1>6, <2>1, <2>2 DEF Repin
<1> QED
  BY <1>1, <1>3, <1>4, <1>5, <1>6 DEF HandlerStep, Check, Refuse, Forward, ForwardFails,
     ForwardLost, Charge

LEMMA HandlerKept ==
  ASSUME Typed, Serving, Once, Firm, Kept, NEW i \in Handlers, HandlerStep(i)
  PROVE  Kept'
<1> SUFFICES ASSUME NEW c \in Cids \ tainted', Wants(c)'
             PROVE  Holds(c)' \/ \E h \in Handlers : c \in Loose(h)'
  BY DEF Kept
<1>1. /\ UNCHANGED req /\ pc' = [pc EXCEPT ![i] = pc'[i]] /\ pc[i] # "idle"
  BY HandlerMoves
<1>2. c \notin tainted
  BY HandlerWrites
<1>3. \A h \in Handlers \ {i} : Loose(h)' = Loose(h)
  BY <1>1 DEF Loose, Old, Typed
<1>4. CASE Holds(c)
  <2>1. CASE Forward(i)
    BY <1>4, <2>1, ForwardLoosens
  <2>2. CASE ForwardLost(i)
    <3>1. c \notin Scope(i)
      BY <2>2 DEF ForwardLost, Taint
    <3> QED  BY <3>1, <1>4, HoldsAway
  <2>3. CASE pins \subseteq pins'
    BY <1>4, <2>3, HoldsGrow
  <2> QED  BY <2>1, <2>2, <2>3, HandlerWrites
<1>5. CASE ~Holds(c) /\ Wants(c)
  <2>1. PICK h \in Handlers : c \in Loose(h)
    BY <1>2, <1>5 DEF Kept
  <2>2. CASE h = i
    BY <2>1, <2>2, <1>5, LooseStays
  <2>3. CASE h # i
    BY <2>1, <2>3, <1>3
  <2> QED  BY <2>2, <2>3
<1>6. CASE ~Holds(c) /\ ~Wants(c)
  <2>1. PICK o \in Owners : rows'[o][c] = "pin" /\ rows[o][c] # "pin"
    BY <1>6 DEF Wants
  <2>2. New(i) \in Cids /\ Old(i) \in Cids
    BY <1>1, ServingFacts
  <2>3. CASE Hook(i)
    <3>1. pc[i] = "hook" /\ (UNCHANGED rows \/ SetStatus(i, New(i), "pin"))
      BY <2>3 DEF Hook
    <3>2. c = New(i)
      BY <2>1, <2>2, <3>1, StatusFacts
    <3> QED  BY <3>1, <3>2, <1>2, <1>6 DEF Firm, Recording
  <2>4. CASE Unpin(i)
    BY <2>1, <2>2, <2>4, StatusFacts DEF Unpin
  <2>5. CASE UNCHANGED rows
    BY <2>1, <2>5
  <2> QED
    BY <2>3, <2>4, <2>5 DEF HandlerStep, Check, Refuse, Forward, ForwardFails, ForwardLost,
       Ask, Repin, Charge
<1> QED  BY <1>4, <1>5, <1>6
----
(* A process that ends taints what its handlers were about.                *)
LEMMA DieInv ==
  ASSUME Inv, Die
  PROVE  Inv'
<1>1. /\ Typed /\ Serving /\ Kept /\ UNCHANGED <<pins, rows>>
      /\ tainted' = tainted \cup UNION {Scope(h) : h \in Handlers}
  BY DEF Inv, Die, Taint
<1>2. \A h \in Handlers : /\ pc'[h] = "idle" /\ req'[h] = NoRequest
                          /\ who'[h] = Nobody /\ job'[h] = NoJob
  BY DEF Die
<1>3. \A h \in Handlers : Scope(h) \subseteq Cids
  BY <1>1, IdleScope, ServingFacts
<1>4. NoJob \in JobRecords /\ NoJob.pc = "none"
  BY EmptySeq DEF NoJob, JobRecords, JobStages, Owners
<1>5. Typed'
  BY <1>1, <1>3, <1>4 DEF Typed, Die, Owners, Stages
<1>6. Serving'
  BY <1>2, <1>4 DEF Serving
<1>7. \A h \in Handlers : Scope(h)' = {} /\ Recording(h)' = {}
  BY <1>2, <1>4 DEF Recording, Scope, NoRequest, Range
<1>8. Once' /\ Firm'
  BY <1>7 DEF Once, Firm
<1>9. ASSUME NEW c \in Cids \ tainted', Wants(c)'
      PROVE  Holds(c)'
  <2>1. Wants(c) /\ \A h \in Handlers : c \notin Loose(h)
    BY <1>1, <1>9, LooseScope DEF Wants
  <2> QED  BY <2>1, <1>1, <1>9 DEF Kept, Holds
<1> QED  BY <1>5, <1>6, <1>8, <1>9 DEF Inv, Kept

(* What somebody has pinned is kept, by induction over the steps.          *)
LEMMA NextInv == Inv /\ [Next]_vars => Inv'
<1> SUFFICES ASSUME Inv, [Next]_vars PROVE Inv'
  OBVIOUS
<1> USE DEF Inv
<1>1. ASSUME NEW h \in Handlers, NEW u \in Users, NEW r \in Requests, Arrive(h, u, r)
      PROVE  Inv'
  BY <1>1, ArriveTyped, ArriveOnce, ArriveFirm, ArriveKept
<1>2. ASSUME NEW h \in Handlers, HandlerStep(h)
      PROVE  Inv'
  <2>1. UNCHANGED req /\ tainted \subseteq tainted'
    BY <1>2, HandlerMoves, HandlerWrites
  <2> QED  BY <2>1, <1>2, HandlerTyped, OnceKept, HandlerFirm, HandlerKept
<1>3. ASSUME NEW h \in Handlers, JobStep(h)
      PROVE  Inv'
  <2>1. UNCHANGED req /\ tainted \subseteq tainted'
    BY <1>3, JobStepMoves DEF JobMoves, handler
  <2> QED  BY <2>1, <1>3, JobTyped, OnceKept, JobFirm, JobKept
<1>4. ASSUME NEW h \in Handlers, Leave(h)
      PROVE  Inv'
  BY <1>4, LeaveTyped, LeaveOnce, LeaveFirm, LeaveKept
<1>5. CASE UNCHANGED vars
  <2> USE <1>5 DEF vars, handler, redis
  <2>1. Typed' /\ Serving'
    BY DEF Typed, Serving
  <2>2. Once'
    BY OnceKept
  <2>3. \A h \in Handlers : Recording(h)' = Recording(h) /\ Loose(h)' = Loose(h)
    BY DEF Recording, Loose, New, Old
  <2> QED  BY <2>1, <2>2, <2>3, FirmStays, KeptStays
<1>6. CASE Die
  BY <1>6, DieInv
<1> QED
  BY <1>1, <1>2, <1>3, <1>4, <1>5, <1>6
     DEF Next, Step, HandlerStep, JobStep, JobPanics, Crash

LEMMA InvKept == Inv => PinnedKept
<1> SUFFICES ASSUME Inv, NEW c \in Cids \ tainted, Quiet(c),
                    NEW o \in Owners, rows[o][c] = "pin"
             PROVE  Holds(c)
  BY DEF PinnedKept
<1>1. \A h \in Handlers : c \notin Loose(h)
  BY LooseScope DEF Inv, Quiet
<1> QED  BY <1>1 DEF Inv, Kept, Wants

(* An object somebody has pinned according to the database is pinned at    *)
(* the node once its requests are over: one user's unpinning costs no      *)
(* other's pin, unless requests for it overlapped or one failed halfway    *)
(* (unPinDBWithPined and pinHook of ipfsHandler.go).                       *)
THEOREM PinnedKeptHolds == Spec => []PinnedKept
<1>1. Inv /\ [Next]_vars => Inv'
  BY NextInv
<1> QED  BY <1>1, InitInv, InvKept, PTL DEF Spec
----
(* What every handler does to the bookkeeping: the rest of the types, that *)
(* a handler that is not idle serves one of the users, whose files a job   *)
(* records, and that it found the directory it takes the size of.          *)
Records(j, u) ==
  j.pc \in {"select", "count", "create"} => j.user \in {u, Nobody} /\ ~Panics(j)

Metered ==
  /\ usage \in [Users -> [Kinds -> Int]]
  /\ fields \in [Users -> SUBSET Kinds]
  /\ arrived \in 0 .. MaxRequests /\ faults \in 0 .. MaxFaults
  /\ miscounted \subseteq Users /\ resent \in [Users -> Nat]
  /\ \A h \in Handlers :
       /\ pc[h] # "idle" => who[h] \in Users
       /\ Records(job[h], who[h])
       /\ pc[h] \in {"hook", "unpin", "ask", "repin"} => req[h].op \notin {"add", "put"}

LEMMA TotalNat ==
  ASSUME NEW cs \in SUBSET Cids
  PROVE  IsFiniteSet(cs) /\ Total(cs) \in Nat
<1>1. IsFiniteSet(cs)
  BY ObjectsAssumption, FS_Subset
<1>2. \A c \in cs : Size[c] \in Nat
  BY ObjectsAssumption
<1> QED  BY <1>1, <1>2, SumNat DEF Total

(* What a request is charged is a number of bytes, bounded by all there is.*)
LEMMA BytesNat ==
  ASSUME NEW r \in Requests
  PROVE  BytesOf(r) \in Nat /\ BytesOf(r) <= Total(Cids)
<1>1. Range(r.cids) \subseteq Cids /\ Subject(r) \in Cids
  BY RequestFacts
<1>2. IsFiniteSet(Cids) /\ \A c \in Cids : Size[c] \in Nat
  BY ObjectsAssumption
<1>3. CASE r.op = "add"
  <2> DEFINE cs == Files(Range(r.cids))
  <2>1. cs \in SUBSET Cids
    BY <1>1 DEF Files
  <2> HIDE DEF cs
  <2>2. Total(cs) \in Nat /\ Total(cs) <= Total(Cids)
    BY <1>2, <2>1, TotalNat, SumSubset DEF Total
  <2> QED  BY <1>3, <2>2 DEF BytesOf, cs
<1>4. CASE r.op # "add"
  <2>1. Size[Subject(r)] <= Total(Cids)
    BY <1>1, <1>2, SumTerm DEF Total
  <2> QED  BY <1>1, <1>2, <1>4, <2>1 DEF BytesOf
<1> QED  BY <1>3, <1>4

LEMMA InitMetered == Init => Metered
BY EmptySeq, BoundsAssumption DEF Init, Metered, handler, redis, NoJob, Records

LEMMA SpendTyped ==
  ASSUME Metered, NEW u \in Users, NEW k \in Kinds, NEW n \in Int, Spend(u, k, n)
  PROVE  /\ usage' \in [Users -> [Kinds -> Int]]
         /\ fields' \in [Users -> SUBSET Kinds]
         /\ usage'[u][k] = usage[u][k] + n /\ fields'[u] = fields[u] \cup {k}
         /\ \A v \in Users, i \in Kinds : v # u \/ i # k => usage'[v][i] = usage[v][i]
         /\ \A v \in Users : v # u => fields'[v] = fields[v]
<1>1. usage \in [Users -> [Kinds -> Int]] /\ fields \in [Users -> SUBSET Kinds]
  BY DEF Metered
<1>2. PICK m \in Int : m = usage[u][k] + n
  BY <1>1
<1>3. usage' = [usage EXCEPT ![u][k] = m]
  BY <1>1, <1>2 DEF Spend
<1>4. PICK f \in SUBSET Kinds : f = fields[u] \cup {k}
  BY <1>1
<1>5. fields' = [fields EXCEPT ![u] = f]
  BY <1>1, <1>4 DEF Spend
<1> QED  BY <1>1, <1>2, <1>3, <1>4, <1>5

(* What is charged at the end.                                             *)
LEMMA ChargeFacts ==
  ASSUME Typed, Serving, Metered, NEW h \in Handlers, Charge(h)
  PROVE  /\ pc[h] = "charge" /\ who[h] \in Users /\ req[h] \in Requests /\ Bytes(h) \in Nat
         /\ \/ UNCHANGED redis
            \/ req[h].op \in {"add", "put"} /\ Spend(who[h], "up", Bytes(h))
            \/ Spend(who[h], "up", 0)
            \/ Spend(who[h], "down", Bytes(h))
<1>1. pc[h] = "charge" /\ (Charged(h) \/ UNCHANGED redis)
  BY DEF Charge
<1>2. who[h] \in Users /\ req[h] \in Requests
  BY <1>1, ServingFacts DEF Metered
<1>3. Bytes(h) \in Nat
  BY <1>2, BytesNat DEF Bytes
<1>4. Charged(h) =>
        \/ UNCHANGED redis
        \/ req[h].op \in {"add", "put"} /\ Spend(who[h], "up", Bytes(h))
        \/ Spend(who[h], "up", 0)
        \/ Spend(who[h], "down", Bytes(h))
  BY Zenon DEF Charged
<1> QED  BY <1>1, <1>2, <1>3, <1>4

LEMMA FaultsTyped ==
  ASSUME faults \in 0 .. MaxFaults, Works \/ Fails
  PROVE  faults' \in 0 .. MaxFaults
BY BoundsAssumption DEF Works, Fails

LEMMA HandlerFaults ==
  ASSUME NEW h \in Handlers, HandlerStep(h)
  PROVE  Works \/ Fails
<1>1. CASE Check(h)
  BY <1>1 DEF Check, IsNew, Lookup, Works
<1>2. CASE Hook(h) \/ Unpin(h)
  BY <1>2 DEF Hook, Unpin, SetStatus, Lookup, Works
<1>3. CASE Ask(h) \/ Repin(h) \/ Charge(h)
  BY <1>3 DEF Ask, Repin, Charge, Works
<1>4. CASE Refuse(h) \/ Forward(h) \/ ForwardFails(h) \/ ForwardLost(h)
  BY <1>4 DEF Refuse, Forward, ForwardFails, ForwardLost, Works
<1> QED  BY <1>1, <1>2, <1>3, <1>4 DEF HandlerStep

LEMMA HandlerMetered ==
  ASSUME Typed, Serving, Metered, NEW h \in Handlers, HandlerStep(h)
  PROVE  Metered'
<1>1. /\ UNCHANGED who /\ pc[h] # "idle" /\ \A g \in Handlers \ {h} : pc'[g] = pc[g]
      /\ Forward(h) \/ UNCHANGED job
  BY HandlerMoves DEF Typed
<1>2. faults' \in 0 .. MaxFaults
  BY HandlerFaults, FaultsTyped DEF Metered
<1>3. UNCHANGED arrived
  BY DEF HandlerStep, Check, Refuse, Forward, ForwardFails, ForwardLost, Hook, Unpin, Ask,
     Repin, Charge
<1>4. miscounted' \subseteq Users
  <2>1. miscounted' \subseteq miscounted \cup {who[h]}
    BY DEF HandlerStep, Check, Refuse, Forward, StartJob, ForwardFails, ForwardLost, Hook,
       Unpin, Ask, Repin, Charge
  <2> QED  BY <1>1, <2>1 DEF Metered
<1>5. usage' \in [Users -> [Kinds -> Int]] /\ fields' \in [Users -> SUBSET Kinds]
  <2>1. CASE Charge(h)
    BY <2>1, ChargeFacts, SpendTyped DEF Metered, redis, Kinds
  <2>2. CASE ~Charge(h)
    <3>1. UNCHANGED redis
      BY <2>2 DEF HandlerStep, Check, Refuse, Forward, ForwardFails, ForwardLost, Hook, Unpin,
         Ask, Repin
    <3> QED  BY <3>1 DEF Metered, redis
  <2> QED  BY <2>1, <2>2
<1>6. resent' \in [Users -> Nat]
  <2>1. resent' = resent \/ resent' = [resent EXCEPT ![who[h]] = @ + 1]
    BY DEF HandlerStep, Check, Refuse, Forward, ForwardFails, ForwardLost, Hook, Unpin, Ask,
       Repin, Charge
  <2> QED  BY <2>1 DEF Metered
<1>7. ASSUME NEW g \in Handlers
      PROVE  /\ pc'[g] # "idle" => who'[g] \in Users
             /\ Records(job'[g], who'[g])
             /\ pc'[g] \in {"hook", "unpin", "ask", "repin"} =>
                  req'[g].op \notin {"add", "put"}
  <2>1. pc'[g] # "idle" => pc[g] # "idle"
    BY <1>1
  <2>2. job'[g] = job[g] \/ Records(job'[g], who'[g])
    BY <1>1, ForwardFacts DEF Records
  <2>3. UNCHANGED req
    BY HandlerMoves
  <2>4. CASE g = h /\ pc'[h] \in {"hook", "unpin", "ask", "repin"}
    <3>1. CASE Forward(h)
      <4>1. pc'[h] = CASE IsPin(h) -> "hook" [] req[h].op = "pin/rm" -> "unpin" [] OTHER -> "charge"
        BY <3>1, ForwardFacts DEF Typed
      <4>2. IsPin(h) \/ req[h].op = "pin/rm"
        BY <2>4, <4>1
      <4>3. req[h].op \notin {"add", "put"}
        BY <4>2 DEF IsPin
      <4> QED  BY <2>1, <2>2, <2>3, <2>4, <4>3, <1>1 DEF Metered
    <3>2. CASE ~Forward(h)
      <4>1. pc[h] \in {"hook", "unpin", "ask", "repin"}
        BY <2>4, <3>2 DEF HandlerStep, Check, Refuse, ForwardFails, ForwardLost, Hook, Unpin,
           Ask, Repin, Charge, Goto, Typed, handler
      <4> QED  BY <2>1, <2>2, <2>3, <2>4, <4>1, <1>1 DEF Metered
    <3> QED  BY <3>1, <3>2
  <2>5. CASE g # h \/ pc'[h] \notin {"hook", "unpin", "ask", "repin"}
    BY <1>1, <2>1, <2>2, <2>3, <2>5 DEF Metered
  <2> QED  BY <2>4, <2>5
<1> QED  BY <1>2, <1>3, <1>4, <1>5, <1>6, <1>7 DEF Metered

LEMMA ArriveMetered ==
  ASSUME Typed, Serving, Metered, NEW h \in Handlers, NEW u \in Users, NEW r \in Requests,
         Arrive(h, u, r)
  PROVE  Metered'
<1>1. job[h].pc = "none" /\ UNCHANGED <<usage, fields, job, faults, miscounted, resent>>
  BY DEF Arrive, Serving, redis
<1>2. /\ who' = [who EXCEPT ![h] = u] /\ pc' = [pc EXCEPT ![h] = "check"]
      /\ req' = [req EXCEPT ![h] = r]
  BY DEF Arrive
<1>3. arrived' \in 0 .. MaxRequests
  BY BoundsAssumption DEF Arrive, Metered
<1>4. ASSUME NEW g \in Handlers
      PROVE  /\ pc'[g] # "idle" => who'[g] \in Users
             /\ Records(job'[g], who'[g])
             /\ pc'[g] \in {"hook", "unpin", "ask", "repin"} =>
                  req'[g].op \notin {"add", "put"}
  BY <1>1, <1>2 DEF Metered, Typed, Records
<1> QED  BY <1>1, <1>3, <1>4 DEF Metered

LEMMA LeaveMetered ==
  ASSUME Typed, Metered, NEW h \in Handlers, Leave(h)
  PROVE  Metered'
<1>1. job[h].pc = "none" /\ UNCHANGED <<usage, fields, job, faults, miscounted, resent, arrived>>
  BY DEF Leave, Job, redis
<1>2. /\ who' = [who EXCEPT ![h] = Nobody] /\ pc' = [pc EXCEPT ![h] = "idle"]
      /\ req' = [req EXCEPT ![h] = NoRequest]
  BY DEF Leave
<1>3. ASSUME NEW g \in Handlers
      PROVE  /\ pc'[g] # "idle" => who'[g] \in Users
             /\ Records(job'[g], who'[g])
             /\ pc'[g] \in {"hook", "unpin", "ask", "repin"} =>
                  req'[g].op \notin {"add", "put"}
  BY <1>1, <1>2 DEF Metered, Typed, Records
<1> QED  BY <1>1, <1>3 DEF Metered

(* A process that ends leaves nothing behind.                              *)
LEMMA DieMetered ==
  ASSUME Typed, Serving, Metered, Die, Works \/ Fails
  PROVE  Metered'
<1>1. faults' \in 0 .. MaxFaults
  BY FaultsTyped DEF Metered
<1>2. miscounted' \subseteq Users
  <2>1. \A h \in Handlers : Job(h, "create") => who[h] \in Users
    BY DEF Job, Serving, Metered
  <2> QED  BY <2>1 DEF Die, Metered
<1>3. UNCHANGED <<usage, fields, arrived, resent>>
  BY DEF Die, redis
<1>4. \A h \in Handlers : pc'[h] = "idle" /\ job'[h].pc = "none"
  BY DEF Die, NoJob
<1> QED  BY <1>1, <1>2, <1>3, <1>4 DEF Metered, Records

(* What a job counts.                                                      *)
LEMMA JobFacts ==
  ASSUME Typed, Serving, Metered, NEW h \in Handlers, job[h].pc # "none"
  PROVE  /\ who[h] \in Users /\ pc[h] # "idle"
         /\ job[h].list \in Seq(Cids) /\ Range(job[h].list) \subseteq Cids
         /\ job[h].wrap \in BOOLEAN /\ job[h].sum \in Nat /\ job[h].at \in Nat
         /\ job[h].list # << >> => /\ Len(job[h].list) \in DOMAIN job[h].list
                                  /\ job[h].list[Len(job[h].list)] \in Cids
         /\ ~Panics(job[h]) => DirSize(job[h]) \in Nat
<1>1. pc[h] # "idle"
  BY DEF Serving
<1>2. /\ job[h].list \in Seq(Cids) /\ job[h].sum \in Nat /\ job[h].at \in Nat
      /\ job[h].wrap \in BOOLEAN /\ who[h] \in Users
  BY <1>1 DEF Typed, JobRecords, Metered
<1>3. Range(job[h].list) \subseteq Cids
  BY <1>2 DEF Range
<1>4. job[h].list # << >> => /\ Len(job[h].list) \in DOMAIN job[h].list
                           /\ job[h].list[Len(job[h].list)] \in Cids
  BY <1>2, EmptySeq
<1>5. ~Panics(job[h]) => DirSize(job[h]) \in Nat
  BY <1>2, <1>4, ObjectsAssumption DEF DirSize, Panics
<1> QED  BY <1>1, <1>2, <1>3, <1>4, <1>5

LEMMA CountFacts ==
  ASSUME Typed, Serving, Metered, NEW h \in Handlers, JobCount(h)
  PROVE  \/ UNCHANGED redis
         \/ job[h].sum > 0 /\ Spend(who[h], "storage", job[h].sum - DirSize(job[h]))
BY DEF JobCount

LEMMA JobMetered ==
  ASSUME Typed, Serving, Metered, NEW h \in Handlers, JobStep(h)
  PROVE  Metered'
<1>1. /\ UNCHANGED <<pc, who, req, arrived>> /\ job[h].pc # "none"
      /\ \A g \in Handlers \ {h} : job'[g] = job[g]
      /\ job'[h].pc # "none" =>
           /\ job'[h].list = job[h].list /\ job'[h].wrap = job[h].wrap
           /\ job'[h].pc # "resolve"
      /\ UNCHANGED resent
  BY JobStepMoves
     DEF JobMoves, handler, JobStep, JobResolve, JobSelect, JobCount, JobCreate, OnlyTheJob
<1>2. /\ who[h] \in Users
      /\ ~Panics(job[h]) => job[h].sum - DirSize(job[h]) \in Int
  BY <1>1, JobFacts
<1>3. Works \/ Fails
  BY DEF JobStep, JobResolve, JobSelect, JobCount, JobCreate, Lookup, Works
<1>4. miscounted' \subseteq Users
  BY <1>2 DEF JobStep, JobResolve, JobSelect, JobCount, JobCreate, Metered
<1>5. usage' \in [Users -> [Kinds -> Int]] /\ fields' \in [Users -> SUBSET Kinds]
  <2>1. CASE JobCount(h)
    <3>1. ~Panics(job[h])
      BY <2>1 DEF JobCount, Job, Metered, Records
    <3> QED  BY <2>1, <3>1, <1>2, CountFacts, SpendTyped DEF Metered, redis, Kinds
  <2>2. CASE UNCHANGED redis
    BY <2>2 DEF Metered, redis
  <2> QED  BY <2>1, <2>2 DEF JobStep, JobResolve, JobSelect, JobCreate
<1>6. Records(job'[h], who[h])
  <2>1. job[h] \in JobRecords /\ job \in [Handlers -> JobRecords]
    BY DEF Typed
  <2>2. job'[h].pc # "none" => job'[h].user \in {who[h], Nobody}
    <3>1. CASE JobResolve(h)
      <4>1. PICK o \in Ids(h) : job' = [job EXCEPT ![h].user = o,
                ![h].pc = IF job[h].list = << >> THEN "count" ELSE "select"]
        BY <3>1 DEF JobResolve
      <4>2. job'[h].user = o
        BY <2>1, <4>1 DEF JobRecords
      <4> QED  BY <4>2 DEF Ids
    <3>2. CASE JobSelect(h) \/ JobCount(h)
      <4>1. job'[h].user = job[h].user /\ job[h].pc \in {"select", "count"}
        BY <2>1, <3>2 DEF JobSelect, JobCount, JobGoes, JobRecords, Job
      <4> QED  BY <4>1 DEF Metered, Records
    <3>3. CASE JobCreate(h)
      BY <3>3, <2>1 DEF JobCreate, NoJob
    <3> QED  BY <3>1, <3>2, <3>3 DEF JobStep
  <2>3. job'[h].pc # "none" => ~Panics(job'[h])
    <3>1. CASE JobResolve(h)
      BY <3>1, <1>1 DEF JobResolve, Panics
    <3>2. CASE ~JobResolve(h)
      <4>1. job[h].pc \in {"select", "count", "create"}
        BY <3>2 DEF JobStep, JobSelect, JobCount, JobCreate, Job
      <4> QED  BY <4>1, <1>1 DEF Metered, Records, Panics
    <3> QED  BY <3>1, <3>2
  <2> QED  BY <2>2, <2>3 DEF Records
<1>7. ASSUME NEW g \in Handlers
      PROVE  /\ pc'[g] # "idle" => who'[g] \in Users
             /\ Records(job'[g], who'[g])
             /\ pc'[g] \in {"hook", "unpin", "ask", "repin"} =>
                  req'[g].op \notin {"add", "put"}
  BY <1>1, <1>6 DEF Metered
<1>8. /\ faults' \in 0 .. MaxFaults /\ arrived' \in 0 .. MaxRequests
      /\ resent' \in [Users -> Nat]
  BY <1>1, <1>3, FaultsTyped DEF Metered
<1> QED  BY <1>4, <1>5, <1>7, <1>8 DEF Metered

Ready == Inv /\ Metered

LEMMA InitReady == Init => Ready
BY InitInv, InitMetered DEF Ready

LEMMA NextReady == Ready /\ [Next]_vars => Ready'
<1> SUFFICES ASSUME Ready, [Next]_vars PROVE Ready'
  OBVIOUS
<1> USE DEF Ready, Inv
<1>1. Inv'
  BY NextInv
<1>2. CASE UNCHANGED vars
  BY <1>1, <1>2 DEF vars, handler, redis, Metered
<1>3. CASE Next
  BY <1>1, <1>3, ArriveMetered, LeaveMetered, HandlerMetered, JobMetered, DieMetered
     DEF Next, Step, HandlerStep, JobStep, JobPanics, Crash
<1> QED  BY <1>2, <1>3

LEMMA ReadyHolds == Spec => []Ready
BY InitReady, NextReady, PTL DEF Spec

(* The variables have their types: what is charged is a number of bytes,   *)
(* what is counted a number that may be negative, only users' Adds race,   *)
(* and a job looks at a file that is in its list (Add of ipfsService.go).  *)
THEOREM TypesHold == Spec => []TypeOK
<1>1. Ready => TypeOK
  BY DEF Ready, Inv, Typed, Metered, TypeOK, Stages, Statuses, JobRecords, JobStages, Job, Serving
<1> QED  BY <1>1, ReadyHolds, PTL
----
(* The upload limit.                                                       *)

(* What a handler has let through and not yet charged to the user.         *)
Uploads(h, u) ==
  IF who[h] = u /\ pc[h] \in {"forward", "charge"} /\ req[h].op \in {"add", "put"}
  THEN Bytes(h) ELSE 0
InTransit(u) == SumFunctionOnSet([h \in Handlers |-> Uploads(h, u)], Handlers)
UploadBound == Max({Limit["up"] - 1 + (InFlight - 1) * Largest, InFlight * Largest})
Allowed(u) == UploadBound + resent[u] * Largest

(* A field the hash does not have has counted nothing, and what is used    *)
(* stays bounded when all that is in transit is charged.                   *)
BoundedFor(u) ==
  /\ \A k \in Kinds \ fields[u] : usage[u][k] = 0
  /\ usage[u]["up"] + InTransit(u) <= Allowed(u)
Bounded == \A u \in Users : BoundedFor(u)

LEMMA GreatestIsMax ==
  ASSUME NEW S, NEW x \in S, S \subseteq Int, \A y \in S : x >= y
  PROVE  Max(S) \in S /\ \A y \in S : Max(S) >= y
BY DEF Max

LEMMA LargestBounds ==
  Largest \in Nat /\ \A r \in Requests : r.op \in {"add", "put"} => BytesOf(r) <= Largest
<1> DEFINE S == {0} \cup {BytesOf(r) : r \in {q \in Requests : q.op \in {"add", "put"}}}
<1>1. PICK n \in Nat : n = Total(Cids)
  BY TotalNat
<1>2. S \subseteq 0 .. n
  BY <1>1, BytesNat
<1>3. IsFiniteSet(S)
  <2>1. IsFiniteSet(0 .. n)
    BY FS_Interval
  <2> HIDE DEF S
  <2> QED  BY <1>2, <2>1, FS_Subset
<1>4. S # {} /\ S \subseteq Int
  BY <1>1, <1>2
<1>5. \A r \in Requests : r.op \in {"add", "put"} => BytesOf(r) \in S
  OBVIOUS
<1>6. Largest = Max(S)
  BY DEF Largest
<1> HIDE DEF S
<1>7. PICK x \in S : \A y \in S : x >= y
  BY <1>3, <1>4, GreatestExists
<1>8. Max(S) \in S /\ \A y \in S : Max(S) >= y
  BY <1>4, <1>7, GreatestIsMax
<1>9. \A y \in S : y \in Nat
  BY <1>1, <1>2
<1> QED  BY <1>5, <1>6, <1>8, <1>9

(* The bound, with the products that it is made of.                        *)
LEMMA BoundFacts ==
  /\ InFlight \in Nat /\ UploadBound \in Int
  /\ (InFlight - 1) * Largest \in Int /\ InFlight * Largest \in Nat
  /\ UploadBound >= Limit["up"] - 1 + (InFlight - 1) * Largest
  /\ UploadBound >= InFlight * Largest
<1>1. InFlight \in Nat /\ Largest \in Nat /\ Limit["up"] \in Nat
  BY IpfsHandlersAssumption, FS_CardinalityType, LargestBounds, BoundsAssumption DEF InFlight, Kinds
<1>2. \A i \in Int, n \in Nat : i * n \in Int /\ (i \in Nat => i * n \in Nat)
  OBVIOUS
<1>3. (InFlight - 1) * Largest \in Int /\ InFlight * Largest \in Nat
  BY <1>1, <1>2
<1> PICK a \in Int : a = Limit["up"] - 1 + (InFlight - 1) * Largest
  BY <1>1, <1>3
<1> PICK b \in Int : b = InFlight * Largest
  BY <1>3
<1>4. Max({a, b}) \in {a, b} /\ Max({a, b}) >= a /\ Max({a, b}) >= b
  <2>1. {a, b} \subseteq Int
    OBVIOUS
  <2>2. (\A y \in {a, b} : a >= y) \/ (\A y \in {a, b} : b >= y)
    OBVIOUS
  <2>3. Max({a, b}) \in {a, b} /\ \A y \in {a, b} : Max({a, b}) >= y
    BY <2>1, <2>2, GreatestIsMax
  <2> QED  BY <2>3
<1> QED  BY <1>1, <1>3, <1>4 DEF UploadBound

(* Each charge that is sent again allows for another upload.               *)
LEMMA AllowedFacts ==
  ASSUME Metered, NEW u \in Users
  PROVE  /\ Allowed(u) \in Int /\ Allowed(u) >= UploadBound
         /\ resent'[u] = resent[u] => Allowed(u)' = Allowed(u)
         /\ resent'[u] = resent[u] + 1 => Allowed(u)' = Allowed(u) + Largest
<1> DEFINE n == resent[u]
           m == resent'[u]
<1>1. n \in Nat /\ Largest \in Nat /\ UploadBound \in Int
  BY LargestBounds, BoundFacts DEF Metered
<1>2. Allowed(u) = UploadBound + n * Largest
  BY DEF Allowed
<1>3. Allowed(u)' = UploadBound + m * Largest
  BY DEF Allowed, UploadBound, InFlight, Largest
<1> HIDE DEF n, m
<1>4. \A i, l \in Nat : i * l \in Nat /\ (i + 1) * l = i * l + l
  OBVIOUS
<1>5. n * Largest \in Nat /\ (n + 1) * Largest = n * Largest + Largest
  BY <1>1, <1>4
<1>6. m = n + 1 => Allowed(u)' = Allowed(u) + Largest
  BY <1>1, <1>2, <1>3, <1>5
<1>7. m = n => Allowed(u)' = Allowed(u)
  BY <1>2, <1>3
<1> QED  BY <1>1, <1>2, <1>5, <1>6, <1>7 DEF n, m

UploadsAreBytes ==
  \A g \in Handlers, v \in Users : Uploads(g, v) \in Nat /\ Uploads(g, v) <= Largest

LEMMA UploadsNat == Ready => UploadsAreBytes
<1> SUFFICES ASSUME Ready, NEW g \in Handlers, NEW v \in Users
             PROVE  Uploads(g, v) \in Nat /\ Uploads(g, v) <= Largest
  BY DEF UploadsAreBytes
<1>1. pc[g] # "idle" => req[g] \in Requests
  BY ServingFacts DEF Ready, Inv
<1> QED  BY <1>1, BytesNat, LargestBounds DEF Uploads, Bytes

(* A step of one handler changes what is in transit by its own part.       *)
LEMMA InTransitFacts ==
  ASSUME Ready, Ready', NEW h \in Handlers, NEW u \in Users,
         \A g \in Handlers \ {h} : Uploads(g, u)' = Uploads(g, u)
  PROVE  /\ InTransit(u) \in Nat /\ InTransit(u)' \in Nat
         /\ InTransit(u)' = InTransit(u) - Uploads(h, u) + Uploads(h, u)'
         /\ InTransit(u)' <= InFlight * Largest
         /\ InTransit(u)' <= Uploads(h, u)' + (InFlight - 1) * Largest
<1> PICK f : f = [g \in Handlers |-> Uploads(g, u)]
  OBVIOUS
<1> PICK k : k = [g \in Handlers |-> Uploads(g, u)']
  OBVIOUS
<1>1. UploadsAreBytes /\ UploadsAreBytes'
  BY UploadsNat, PTL
<1>2. Largest' = Largest
  BY DEF Largest
<1>3. \A g \in Handlers : f[g] \in Nat /\ k[g] \in Nat /\ k[g] <= Largest
  BY <1>1, <1>2 DEF UploadsAreBytes
<1>4. \A g \in Handlers \ {h} : f[g] = k[g]
  OBVIOUS
<1>5. /\ SumFunctionOnSet(f, Handlers) \in Nat /\ SumFunctionOnSet(k, Handlers) \in Nat
      /\ SumFunctionOnSet(k, Handlers) = SumFunctionOnSet(f, Handlers) - f[h] + k[h]
  BY <1>3, <1>4, IpfsHandlersAssumption, SumStep
<1>6. InTransit(u) = SumFunctionOnSet(f, Handlers) /\ InTransit(u)' = SumFunctionOnSet(k, Handlers)
  BY DEF InTransit
<1>7. SumFunctionOnSet(k, Handlers) <= InFlight * Largest
  BY <1>3, IpfsHandlersAssumption, LargestBounds, SumBound DEF InFlight
<1>8. SumFunctionOnSet(k, Handlers) <= k[h] + (InFlight - 1) * Largest
  <2> PICK others : others = Handlers \ {h}
    OBVIOUS
  <2>1. IsFiniteSet(others) /\ Cardinality(others) = InFlight - 1 /\ others \subseteq Handlers
    BY IpfsHandlersAssumption, FS_RemoveElement DEF InFlight
  <2>2. SumFunctionOnSet(k, others) <= (InFlight - 1) * Largest
    BY <1>3, <2>1, LargestBounds, SumBound
  <2>3. SumFunctionOnSet(k, Handlers) = k[h] + SumFunctionOnSet(k, others)
    BY <1>3, IpfsHandlersAssumption, SumPick
  <2>4. SumFunctionOnSet(k, others) \in Nat
    BY <1>3, <2>1, SumNat
  <2> QED  BY <1>3, <2>2, <2>3, <2>4, BoundFacts
<1> QED  BY <1>3, <1>5, <1>6, <1>7, <1>8

(* A step that charges nothing and lets no more through.                   *)
LEMMA BoundedStays ==
  ASSUME Ready, Ready', Bounded, NEW h \in Handlers, NEW u \in Users,
         usage'[u]["up"] = usage[u]["up"], resent'[u] = resent[u],
         \A g \in Handlers \ {h} : Uploads(g, u)' = Uploads(g, u),
         Uploads(h, u)' <= Uploads(h, u)
  PROVE  usage'[u]["up"] + InTransit(u)' <= Allowed(u)'
<1>1. /\ usage[u]["up"] + InTransit(u) <= Allowed(u) /\ usage[u]["up"] \in Int
      /\ Allowed(u) \in Int /\ Allowed(u)' = Allowed(u)
  BY AllowedFacts DEF Bounded, BoundedFor, Ready, Metered, Kinds
<1>2. Uploads(h, u) \in Nat /\ Uploads(h, u)' \in Nat
  <2>1. UploadsAreBytes /\ UploadsAreBytes'
    BY UploadsNat, PTL
  <2> QED  BY <2>1 DEF UploadsAreBytes
<1>3. InTransit(u) \in Nat /\ InTransit(u)' = InTransit(u) - Uploads(h, u) + Uploads(h, u)'
  BY InTransitFacts
<1> QED  BY <1>1, <1>2, <1>3

(* A step of a handler leaves alone what the others have in transit.       *)
LEMMA OthersUploads ==
  ASSUME Ready, NEW h \in Handlers,
         \/ HandlerStep(h) \/ JobStep(h) \/ Leave(h)
         \/ \E u \in Users, r \in Requests : Arrive(h, u, r)
  PROVE  \A g \in Handlers \ {h}, v \in Users : Uploads(g, v)' = Uploads(g, v)
<1> USE DEF Ready, Inv
<1>1. \A g \in Handlers \ {h} : pc'[g] = pc[g] /\ who'[g] = who[g] /\ req'[g] = req[g]
  <2>1. CASE HandlerStep(h)
    BY <2>1, HandlerMoves DEF Typed
  <2>2. CASE JobStep(h)
    BY <2>2, JobStepMoves DEF JobMoves, handler
  <2>3. CASE Leave(h) \/ \E u \in Users, r \in Requests : Arrive(h, u, r)
    BY <2>3 DEF Leave, Arrive, Typed
  <2> QED  BY <2>1, <2>2, <2>3
<1> QED  BY <1>1 DEF Uploads, Bytes

(* What is used is as checked, and what is let through below the limit.    *)
LEMMA CheckBounded ==
  ASSUME Ready, Ready', Bounded, NEW h \in Handlers, Check(h), NEW u \in Users
  PROVE  usage'[u]["up"] + InTransit(u)' <= Allowed(u)'
<1> USE DEF Ready
<1>1. /\ pc[h] = "check" /\ UNCHANGED <<usage, fields, req, who, resent>>
      /\ pc' = [pc EXCEPT ![h] = "forward"]
      /\ req[h].op \in {"add", "put"} => ~Over(who[h], Upload, Bytes(h))
  BY DEF Check, redis
<1>2. \A g \in Handlers \ {h} : Uploads(g, u)' = Uploads(g, u)
  BY OthersUploads DEF HandlerStep
<1>3. Uploads(h, u) = 0
  BY <1>1 DEF Uploads
<1>4. Uploads(h, u)' =
        IF who[h] = u /\ req[h].op \in {"add", "put"} THEN Bytes(h) ELSE 0
  BY <1>1 DEF Uploads, Bytes, Inv, Typed
<1>5. CASE who[h] = u /\ req[h].op \in {"add", "put"}
  <2> SUFFICES usage'[u]["up"] + InTransit(u)' <= UploadBound
    <3>1. Allowed(u)' >= UploadBound /\ Allowed(u)' \in Int
      BY <1>1, AllowedFacts
    <3>2. usage'[u]["up"] \in Int /\ InTransit(u)' \in Nat
      BY <1>2, InTransitFacts DEF Metered, Kinds
    <3> QED  BY <3>1, <3>2, BoundFacts
  <2>1. /\ InTransit(u)' <= InFlight * Largest /\ InTransit(u)' \in Nat
        /\ InTransit(u)' <= Bytes(h) + (InFlight - 1) * Largest
    BY <1>2, <1>4, <1>5, InTransitFacts
  <2>2. req[h] \in Requests /\ Bytes(h) \in Nat
    BY <1>1, ServingFacts, BytesNat DEF Bytes, Inv
  <2>3. usage[u]["up"] \in Int /\ Limit["up"] \in Nat
    BY BoundsAssumption DEF Metered, Kinds
  <2>4. CASE "up" \notin fields[u]
    <3>1. usage[u]["up"] = 0
      BY <2>4 DEF Bounded, BoundedFor, Kinds
    <3> QED  BY <1>1, <2>1, <3>1, BoundFacts
  <2>5. CASE "up" \in fields[u]
    <3>1. ~(Used(u, "up") + Bytes(h) >= Limit["up"])
      BY <1>1, <1>5, <2>5 DEF Over, Upload
    <3>2. Used(u, "up") \in Int /\ Used(u, "up") >= usage[u]["up"]
      <4>1. \A x \in Int : Max({0, x}) \in Int /\ Max({0, x}) >= x
        <5> SUFFICES ASSUME NEW x \in Int PROVE Max({0, x}) \in Int /\ Max({0, x}) >= x
          OBVIOUS
        <5>1. {0, x} \subseteq Int
          OBVIOUS
        <5>2. (\A y \in {0, x} : 0 >= y) \/ (\A y \in {0, x} : x >= y)
          OBVIOUS
        <5>3. Max({0, x}) \in {0, x} /\ \A y \in {0, x} : Max({0, x}) >= y
          BY <5>1, <5>2, GreatestIsMax
        <5> QED  BY <5>3
      <4> QED  BY <4>1, <2>3 DEF Used
    <3>3. usage[u]["up"] + Bytes(h) <= Limit["up"] - 1
      BY <2>2, <2>3, <3>1, <3>2
    <3> QED  BY <1>1, <2>1, <2>2, <2>3, <3>3, BoundFacts
  <2> QED  BY <2>4, <2>5
<1>6. CASE ~(who[h] = u /\ req[h].op \in {"add", "put"})
  <2>1. /\ usage'[u]["up"] = usage[u]["up"] /\ resent'[u] = resent[u]
        /\ Uploads(h, u)' <= Uploads(h, u)
    BY <1>1, <1>3, <1>4, <1>6
  <2> QED  BY <1>2, <2>1, BoundedStays
<1> QED  BY <1>5, <1>6

(* What is charged was in transit, or is allowed for when sent again.      *)
LEMMA ChargeBounded ==
  ASSUME Ready, Ready', Bounded, NEW h \in Handlers, Charge(h), NEW u \in Users
  PROVE  usage'[u]["up"] + InTransit(u)' <= Allowed(u)'
<1> USE DEF Ready, Inv
<1>1. /\ pc[h] = "charge" /\ who[h] \in Users /\ Bytes(h) \in Nat /\ req[h] \in Requests
      /\ \/ UNCHANGED redis
         \/ req[h].op \in {"add", "put"} /\ Spend(who[h], "up", Bytes(h))
         \/ Spend(who[h], "up", 0)
         \/ Spend(who[h], "down", Bytes(h))
  BY ChargeFacts
<1>2. Uploads(h, u) = IF who[h] = u /\ req[h].op \in {"add", "put"} THEN Bytes(h) ELSE 0
  BY <1>1 DEF Uploads
<1>3. \A g \in Handlers \ {h} : Uploads(g, u)' = Uploads(g, u)
  BY OthersUploads DEF HandlerStep
<1>4. usage[u]["up"] \in Int /\ usage'[u]["up"] \in Int
  BY DEF Metered, Kinds
<1>5. usage'[u]["up"] <= usage[u]["up"] + Uploads(h, u)
  <2>1. CASE UNCHANGED redis
    BY <2>1, <1>1, <1>2, <1>4 DEF redis
  <2>2. CASE req[h].op \in {"add", "put"} /\ Spend(who[h], "up", Bytes(h))
    BY <2>2, <1>1, <1>2, <1>4, SpendTyped DEF Kinds
  <2>3. CASE Spend(who[h], "up", 0)
    BY <2>3, <1>1, <1>2, <1>4, SpendTyped DEF Kinds
  <2>4. CASE Spend(who[h], "down", Bytes(h))
    BY <2>4, <1>1, <1>2, <1>4, SpendTyped DEF Kinds
  <2> QED  BY <1>1, <2>1, <2>2, <2>3, <2>4
<1>6. InTransit(u) \in Nat /\ InTransit(u)' = InTransit(u) - Uploads(h, u) + Uploads(h, u)'
  BY <1>3, InTransitFacts
<1>7. /\ usage[u]["up"] + InTransit(u) <= Allowed(u) /\ Allowed(u) \in Int
      /\ Uploads(h, u) \in Nat /\ Uploads(h, u) <= Largest /\ Largest \in Nat
  BY UploadsNat, LargestBounds, AllowedFacts DEF Bounded, BoundedFor, UploadsAreBytes
<1>8. CASE Goto(h, "done") /\ UNCHANGED resent
  <2>1. Uploads(h, u)' = 0
    BY <1>8 DEF Goto, Uploads, Typed
  <2>2. Allowed(u)' = Allowed(u)
    BY <1>8, AllowedFacts
  <2> QED  BY <2>1, <2>2, <1>4, <1>5, <1>6, <1>7
<1>9. CASE UNCHANGED handler /\ resent' = [resent EXCEPT ![who[h]] = @ + 1]
  <2>1. Uploads(h, u)' = Uploads(h, u)
    BY <1>9 DEF handler, Uploads, Bytes
  <2>2. CASE who[h] = u
    <3>1. resent'[u] = resent[u] + 1
      BY <1>9, <2>2 DEF Metered
    <3>2. Allowed(u)' = Allowed(u) + Largest
      BY <3>1, AllowedFacts
    <3> QED  BY <2>1, <3>2, <1>4, <1>5, <1>6, <1>7
  <2>3. CASE who[h] # u
    <3>1. resent'[u] = resent[u] /\ Uploads(h, u) = 0
      BY <1>2, <1>9, <2>3 DEF Metered
    <3>2. Allowed(u)' = Allowed(u)
      BY <3>1, AllowedFacts
    <3> QED  BY <2>1, <3>1, <3>2, <1>4, <1>5, <1>6, <1>7
  <2> QED  BY <2>2, <2>3
<1> QED  BY <1>8, <1>9 DEF Charge

(* The other steps let nothing through and charge no upload.               *)
LEMMA RestBounded ==
  ASSUME Ready, Ready', Bounded, NEW h \in Handlers, NEW u \in Users,
         \/ HandlerStep(h) /\ ~Check(h) /\ ~Charge(h)
         \/ JobStep(h) \/ Leave(h)
         \/ \E v \in Users, r \in Requests : Arrive(h, v, r)
  PROVE  usage'[u]["up"] + InTransit(u)' <= Allowed(u)'
<1> USE DEF Ready, Inv
<1>1. \A g \in Handlers \ {h} : Uploads(g, u)' = Uploads(g, u)
  BY OthersUploads
<1>2. Uploads(h, u) \in Nat
  BY UploadsNat DEF UploadsAreBytes
<1>3. usage[u]["up"] \in Int
  BY DEF Metered, Kinds
<1>4. CASE JobStep(h)
  <2>1. usage'[u]["up"] = usage[u]["up"]
    <3>1. CASE JobCount(h)
      <4>1. job[h].pc = "count" /\ ~Panics(job[h])
        BY <3>1 DEF JobCount, Job, Metered, Records
      <4>2. who[h] \in Users /\ job[h].sum - DirSize(job[h]) \in Int
        BY <4>1, JobFacts
      <4> QED  BY <3>1, <4>2, CountFacts, SpendTyped DEF Kinds, redis
    <3>2. CASE UNCHANGED redis
      BY <3>2 DEF redis
    <3> QED  BY <1>4, <3>1, <3>2 DEF JobStep, JobResolve, JobSelect, JobCreate
  <2>2. Uploads(h, u)' = Uploads(h, u)
    BY <1>4, JobStepMoves DEF JobMoves, handler, Uploads, Bytes
  <2>3. UNCHANGED resent
    BY <1>4 DEF JobStep, JobResolve, JobSelect, JobCount, JobCreate, OnlyTheJob
  <2> QED  BY <1>1, <1>2, <2>1, <2>2, <2>3, BoundedStays
<1>5. CASE Leave(h) \/ \E v \in Users, r \in Requests : Arrive(h, v, r)
  <2>1. UNCHANGED <<usage, resent>> /\ pc'[h] \in {"idle", "check"}
    BY <1>5 DEF Leave, Arrive, redis, Typed
  <2>2. Uploads(h, u)' <= Uploads(h, u)
    BY <1>2, <2>1 DEF Uploads
  <2> QED  BY <1>1, <2>1, <2>2, BoundedStays
<1>6. CASE HandlerStep(h) /\ ~Check(h) /\ ~Charge(h)
  <2>1. UNCHANGED <<usage, resent>> /\ UNCHANGED <<req, who>>
    <3>1. UNCHANGED <<usage, resent>>
      BY <1>6 DEF HandlerStep, Refuse, Forward, ForwardFails, ForwardLost, Hook, Unpin, Ask,
         Repin, redis
    <3> QED  BY <1>6, <3>1, HandlerMoves
  <2>2. CASE Forward(h)
    <3>1. pc[h] = "forward"
      BY <2>2 DEF Forward
    <3>2. Uploads(h, u)' <= Uploads(h, u)
      BY <1>2, <2>1, <3>1 DEF Uploads, Bytes
    <3> QED  BY <1>1, <2>1, <3>2, BoundedStays
  <2>3. CASE Refuse(h) \/ ForwardFails(h) \/ ForwardLost(h)
    <3>1. Uploads(h, u)' = 0
      BY <2>3 DEF Refuse, ForwardFails, ForwardLost, Goto, Uploads, Typed
    <3> QED  BY <1>1, <1>2, <2>1, <3>1, BoundedStays
  <2>4. CASE Hook(h) \/ Unpin(h) \/ Ask(h) \/ Repin(h)
    <3>1. pc[h] \in {"hook", "unpin", "ask", "repin"}
      BY <2>4 DEF Hook, Unpin, Ask, Repin
    <3>2. req[h].op \notin {"add", "put"}
      BY <3>1 DEF Metered
    <3>3. Uploads(h, u)' <= Uploads(h, u)
      BY <1>2, <2>1, <3>1, <3>2 DEF Uploads, Bytes
    <3> QED  BY <1>1, <2>1, <3>3, BoundedStays
  <2> QED  BY <1>6, <2>2, <2>3, <2>4 DEF HandlerStep
<1> QED  BY <1>4, <1>5, <1>6

(* A field that is written is one the hash has from then on.               *)
LEMMA FieldsKept ==
  ASSUME Ready, Bounded, NEW u \in Users, NEW k \in Kinds, k \notin fields'[u],
         \/ UNCHANGED redis
         \/ \E v \in Users, i \in Kinds, n \in Int : Spend(v, i, n)
  PROVE  usage'[u][k] = 0
<1>1. CASE UNCHANGED redis
  BY <1>1 DEF redis, Bounded, BoundedFor
<1>2. ASSUME NEW v \in Users, NEW i \in Kinds, NEW n \in Int, Spend(v, i, n)
      PROVE  usage'[u][k] = 0
  <2>1. /\ fields'[v] = fields[v] \cup {i}
        /\ u # v => fields'[u] = fields[u]
        /\ u # v \/ k # i => usage'[u][k] = usage[u][k]
    BY <1>2, SpendTyped DEF Ready
  <2>2. k \notin fields[u] /\ (u # v \/ k # i)
    BY <2>1
  <2> QED  BY <2>1, <2>2 DEF Bounded, BoundedFor
<1> QED  BY <1>1, <1>2

(* A process that ends charges nothing any more.                           *)
LEMMA DieBounded ==
  ASSUME Ready, Ready', Bounded, Die, NEW u \in Users
  PROVE  usage'[u]["up"] + InTransit(u)' <= Allowed(u)'
<1> USE DEF Ready
<1> PICK f : f = [h \in Handlers |-> Uploads(h, u)]
  OBVIOUS
<1> PICK k : k = [h \in Handlers |-> Uploads(h, u)']
  OBVIOUS
<1>1. InTransit(u) \in Nat
  <2>1. \A h \in Handlers : f[h] \in Nat
    BY UploadsNat DEF UploadsAreBytes
  <2>2. SumFunctionOnSet(f, Handlers) \in Nat
    BY <2>1, IpfsHandlersAssumption, SumNat
  <2> QED  BY <2>2 DEF InTransit
<1>2. InTransit(u)' = 0
  <2>1. \A h \in Handlers : k[h] = 0
    BY DEF Die, Uploads
  <2>2. SumFunctionOnSet(k, Handlers) = 0
    BY <2>1, IpfsHandlersAssumption, SumZero
  <2> QED  BY <2>2 DEF InTransit
<1>3. UNCHANGED <<usage, resent>>
  BY DEF Die, redis
<1>4. /\ usage[u]["up"] \in Int /\ usage[u]["up"] + InTransit(u) <= Allowed(u)
      /\ Allowed(u) \in Int /\ Allowed(u)' = Allowed(u)
  BY <1>3, AllowedFacts DEF Bounded, BoundedFor, Metered, Kinds
<1> QED  BY <1>1, <1>2, <1>3, <1>4

LEMMA NextBounded == Ready /\ Ready' /\ Bounded /\ [Next]_vars => Bounded'
<1> SUFFICES ASSUME Ready, Ready', Bounded, [Next]_vars, NEW u \in Users
             PROVE  BoundedFor(u)'
  BY DEF Bounded
<1> USE DEF Ready, Inv
<1>2. usage'[u]["up"] + InTransit(u)' <= Allowed(u)'
  <2>1. CASE UNCHANGED vars
    <3>1. \A h \in Handlers : Uploads(h, u)' = Uploads(h, u)
      BY <2>1 DEF vars, handler, Uploads, Bytes
    <3>2. InTransit(u)' = InTransit(u) /\ UNCHANGED <<usage, resent>>
      BY <2>1, <3>1 DEF InTransit, vars, redis
    <3> QED  BY <3>2, AllowedFacts DEF Bounded, BoundedFor
  <2>2. CASE Next
    BY <2>2, CheckBounded, ChargeBounded, RestBounded, DieBounded
       DEF Next, Step, HandlerStep, JobStep, JobPanics, Crash
  <2> QED  BY <2>1, <2>2
<1>3. \/ UNCHANGED redis
      \/ \E v \in Users, i \in Kinds, n \in Int : Spend(v, i, n)
  <2>1. ASSUME NEW h \in Handlers, Charge(h)
        PROVE  \/ UNCHANGED redis
               \/ \E v \in Users, i \in Kinds, n \in Int : Spend(v, i, n)
    BY <2>1, ChargeFacts DEF Kinds
  <2>2. ASSUME NEW h \in Handlers, JobCount(h)
        PROVE  \/ UNCHANGED redis
               \/ \E v \in Users, i \in Kinds, n \in Int : Spend(v, i, n)
    <3>1. who[h] \in Users /\ job[h].sum - DirSize(job[h]) \in Int
      BY <2>2, JobFacts DEF JobCount, Job, Metered, Records
    <3> QED  BY <2>2, <3>1, CountFacts DEF Kinds
  <2>3. CASE UNCHANGED vars
    BY <2>3 DEF vars
  <2>4. CASE Next
    <3>1. ASSUME NEW h \in Handlers, Step(h), ~Charge(h), ~JobCount(h)
          PROVE  UNCHANGED redis
      BY <3>1 DEF Step, Check, Refuse, Forward, ForwardFails, ForwardLost, JobResolve, JobSelect,
         JobCreate, JobPanics, Die, Hook, Unpin, Ask, Repin, Leave
    <3>2. ASSUME NEW h \in Handlers, NEW v \in Users, NEW r \in Requests, Arrive(h, v, r)
          PROVE  UNCHANGED redis
      BY <3>2 DEF Arrive
    <3> QED  BY <2>4, <3>1, <3>2, <2>1, <2>2 DEF Next, Crash, Die
  <2> QED  BY <2>3, <2>4
<1>4. \A k \in Kinds \ fields'[u] : usage'[u][k] = 0
  BY <1>3, FieldsKept
<1> QED  BY <1>2, <1>4 DEF BoundedFor

LEMMA InitBounded == Init => Bounded
<1> SUFFICES ASSUME Init, NEW u \in Users PROVE BoundedFor(u)
  BY DEF Bounded
<1> PICK f : f = [h \in Handlers |-> Uploads(h, u)]
  OBVIOUS
<1>1. \A h \in Handlers : f[h] = 0
  BY DEF Init, Uploads
<1>2. InTransit(u) = 0
  <2>1. SumFunctionOnSet(f, Handlers) = 0
    BY <1>1, IpfsHandlersAssumption, SumZero
  <2> QED  BY <2>1 DEF InTransit
<1>3. \A k \in Kinds : usage[u][k] = 0
  BY DEF Init
<1>4. Allowed(u) \in Int /\ Allowed(u) >= UploadBound
  BY InitMetered, AllowedFacts
<1>5. 0 <= UploadBound
  BY BoundFacts
<1> QED  BY <1>2, <1>3, <1>4, <1>5, BoundFacts DEF BoundedFor, Kinds

(* The upload limit is overrun by no more than the requests in flight when *)
(* it was reached and the charges that were sent again, however many there *)
(* are and however they are interleaved (checkIpfsUserLimit before,        *)
(* BandwidthHook after the request; IncrIPFSUsage repeated by the client). *)
THEOREM UploadBoundedHolds == Spec => []UploadBounded
<1>1. Ready /\ Bounded => UploadBounded
  <2> SUFFICES ASSUME Ready, Bounded, NEW u \in Users
               PROVE  usage[u]["up"] <= Allowed(u)
    BY DEF UploadBounded, UploadBound, Allowed
  <2> PICK f : f = [h \in Handlers |-> Uploads(h, u)]
    OBVIOUS
  <2>1. \A h \in Handlers : f[h] \in Nat
    BY UploadsNat DEF UploadsAreBytes
  <2>2. InTransit(u) \in Nat
    <3>1. SumFunctionOnSet(f, Handlers) \in Nat
      BY <2>1, IpfsHandlersAssumption, SumNat
    <3> QED  BY <3>1 DEF InTransit
  <2>3. /\ usage[u]["up"] \in Int /\ usage[u]["up"] + InTransit(u) <= Allowed(u)
        /\ Allowed(u) \in Int
    BY AllowedFacts DEF Bounded, BoundedFor, Ready, Metered, Kinds
  <2> QED  BY <2>2, <2>3
<1> QED  BY <1>1, ReadyHolds, InitBounded, NextBounded, PTL DEF Spec
----
(* The storage used.                                                       *)

(* What the database has of a user; and, of some objects, those whose size *)
(* nothing else accounts for: the files, and the directories of which      *)
(* something is missing.                                                   *)
Have(u) == {c \in Cids : rows[u][c] # "none"}
Open(cs) == {c \in cs : Inside[c] = {} \/ ~(Inside[c] \subseteq cs)}

(* What a job has looked up.                                               *)
Seen(j) == {j.list[i] : i \in 1 .. j.at - 1}

(* A job has added up at least what it found to be new, and something if   *)
(* anything was; the directory it may take off is all new or was open.     *)
AddsUp(j, have) ==
  /\ j.pc \in {"select", "count"} =>
       /\ Total(Seen(j) \ have) <= j.sum
       /\ j.sum > 0 => ~(Seen(j) \subseteq have)
  /\ j.pc = "resolve" => j.sum = 0
  /\ j.pc = "count" => Seen(j) = Range(j.list)
  /\ j.pc # "none" /\ j.wrap => Complete(j.list)

(* What a user's jobs have counted and not yet created.                    *)
Counting(u) == {h \in Handlers : who[h] = u /\ job[h].pc = "create"}
Soon(u) == UNION {Range(job[h].list) : h \in Counting(u)}

Alone(u) ==
  \A g, h \in Handlers :
    who[g] = u /\ who[h] = u /\ job[g].pc # "none" /\ job[h].pc # "none" => g = h
JobOk(h, u) ==
  /\ job[h].pc \in {"select", "count", "create"} => job[h].user = u
  /\ AddsUp(job[h], Have(u))
Covered(u) == Total(Open(Have(u) \cup Soon(u))) <= usage[u]["storage"]

(* One job at a time records a user's files; those there are, and those    *)
(* about to be, are counted.                                               *)
Adding(u) ==
  /\ Alone(u)
  /\ \A h \in Handlers : who[h] = u => JobOk(h, u)
  /\ Covered(u)
Counted == \A u \in Users \ miscounted : Adding(u)

LEMMA TotalUnion ==
  ASSUME NEW S \in SUBSET Cids, NEW U \in SUBSET Cids, S \cap U = {}
  PROVE  Total(S \cup U) = Total(S) + Total(U)
<1>1. IsFiniteSet(S) /\ IsFiniteSet(U)
  BY TotalNat
<1>2. \A c \in S \cup U : Size[c] \in Int
  BY ObjectsAssumption
<1> QED  BY <1>1, <1>2, SumUnion DEF Total

LEMMA TotalMonotonic ==
  ASSUME NEW U \in SUBSET Cids, NEW S \in SUBSET U
  PROVE  Total(S) <= Total(U)
<1>1. IsFiniteSet(U)
  BY TotalNat
<1>2. \A c \in U : Size[c] \in Nat
  BY ObjectsAssumption
<1> QED  BY <1>1, <1>2, SumSubset DEF Total

LEMMA TotalOne ==
  ASSUME NEW S \in SUBSET Cids, NEW c \in S
  PROVE  Total(S) = Size[c] + Total(S \ {c}) /\ Size[c] \in Nat
<1>1. IsFiniteSet(S)
  BY TotalNat
<1>2. \A x \in S : Size[x] \in Int
  BY ObjectsAssumption
<1>3. Total(S) = Size[c] + Total(S \ {c})
  BY <1>1, <1>2, SumPick DEF Total
<1> QED  BY <1>3, ObjectsAssumption

LEMMA TotalGrows ==
  ASSUME NEW S \in SUBSET Cids, NEW c \in Cids
  PROVE  Total(S \cup {c}) <= Total(S) + Size[c]
<1> PICK U : U = S \cup {c}
  OBVIOUS
<1>1. U \in SUBSET Cids /\ c \in U /\ U \ {c} \in SUBSET S
  OBVIOUS
<1>2. Total(U) = Size[c] + Total(U \ {c}) /\ Size[c] \in Nat
  BY <1>1, TotalOne
<1>3. Total(U \ {c}) <= Total(S)
  BY <1>1, TotalMonotonic
<1>4. Total(S) \in Nat /\ Total(U \ {c}) \in Nat
  BY <1>1, TotalNat
<1> QED  BY <1>2, <1>3, <1>4

(* Objects that are added account for no more than is new of them,         *)
LEMMA AddedAccounts ==
  ASSUME NEW have \in SUBSET Cids, NEW added \in SUBSET Cids
  PROVE  Total(Open(have \cup added)) <= Total(Open(have)) + Total(added \ have)
<1> PICK S : S = Open(have)
  OBVIOUS
<1> PICK U : U = added \ have
  OBVIOUS
<1>1. S \in SUBSET Cids /\ U \in SUBSET Cids /\ S \cap U = {} /\ S \cup U \in SUBSET Cids
  BY DEF Open
<1>2. Open(have \cup added) \in SUBSET (S \cup U)
  BY DEF Open
<1>3. Total(Open(have \cup added)) <= Total(S \cup U)
  BY <1>1, <1>2, TotalMonotonic
<1>4. Total(S \cup U) = Total(S) + Total(U)
  BY <1>1, TotalUnion
<1> QED  BY <1>3, <1>4

(* and if they are a directory with all that is in it, for less by the     *)
(* directory, whether it was there before or not.                          *)
LEMMA WrappedAccounts ==
  ASSUME NEW have \in SUBSET Cids, NEW dir \in Cids, NEW added,
         added = With(dir), Inside[dir] # {}, ~(added \subseteq have)
  PROVE  Total(Open(have \cup added)) + Size[dir] <= Total(Open(have)) + Total(added \ have)
<1> PICK S : S = Open(have)
  OBVIOUS
<1> PICK U : U = added \ have
  OBVIOUS
<1> PICK R : R = Open(have \cup added)
  OBVIOUS
<1>0. Inside[dir] \subseteq Cids /\ added \subseteq Cids /\ Size[dir] \in Nat
  BY ObjectsAssumption DEF With
<1>1. /\ S \in SUBSET Cids /\ U \in SUBSET Cids /\ S \cap U = {} /\ S \cup U \in SUBSET Cids
      /\ R \in SUBSET (S \cup U)
  BY <1>0 DEF Open
<1>2. dir \notin R
  BY DEF Open, With
<1>3. dir \in S \cup U
  BY DEF Open, With
<1>4. R \in SUBSET ((S \cup U) \ {dir}) /\ (S \cup U) \ {dir} \in SUBSET Cids
  BY <1>1, <1>2
<1>5. Total(R) <= Total((S \cup U) \ {dir})
  BY <1>4, TotalMonotonic
<1>6. Total(S \cup U) = Size[dir] + Total((S \cup U) \ {dir})
  BY <1>1, <1>3, TotalOne
<1>7. Total(S \cup U) = Total(S) + Total(U)
  BY <1>1, TotalUnion
<1>8. Total(R) \in Nat /\ Total(S) \in Nat /\ Total(U) \in Nat /\ Total((S \cup U) \ {dir}) \in Nat
  <2>1. R \in SUBSET Cids
    BY <1>4
  <2> QED  BY <1>1, <1>4, <2>1, TotalNat
<1> QED  BY <1>0, <1>5, <1>6, <1>7, <1>8

(* The steps of a job that is still looking its files up.                  *)
LEMMA SeenGrows ==
  ASSUME NEW list \in Seq(Cids), NEW at \in DOMAIN list, NEW j, NEW k,
         j.list = list, k.list = list, j.at = at, k.at = at + 1
  PROVE  /\ Seen(k) = Seen(j) \cup {list[at]}
         /\ list[at] \in Cids /\ Seen(j) \subseteq Cids
         /\ at = Len(list) => Seen(k) = Range(list)
<1>1. at \in 1 .. Len(list) /\ Len(list) \in Nat /\ DOMAIN list = 1 .. Len(list)
  OBVIOUS
<1>2. /\ 1 .. k.at - 1 = (1 .. j.at - 1) \cup {at}
      /\ \A i \in 1 .. j.at - 1 : i \in DOMAIN list
  BY <1>1
<1>3. \A i \in DOMAIN list : list[i] \in Cids
  OBVIOUS
<1>4. Seen(k) = Seen(j) \cup {list[at]} /\ Seen(j) \subseteq Cids
  BY <1>2, <1>3 DEF Seen
<1>5. ASSUME at = Len(list) PROVE Seen(k) = Range(list)
  <2>1. 1 .. k.at - 1 = DOMAIN list
    BY <1>1, <1>5
  <2> QED  BY <2>1 DEF Seen, Range
<1> QED  BY <1>3, <1>4, <1>5

LEMMA SelectAddsUp ==
  ASSUME NEW have \in SUBSET Cids, NEW j \in JobRecords, NEW k \in JobRecords,
         AddsUp(j, have), j.pc = "select", j.at \in DOMAIN j.list,
         k.pc = After(j), k.list = j.list, k.at = j.at + 1, k.wrap = j.wrap,
         k.sum = j.sum + (IF j.list[j.at] \in have THEN 0 ELSE Size[j.list[j.at]])
  PROVE  AddsUp(k, have)
<1> PICK c : c = j.list[j.at]
  OBVIOUS
<1>1. j.list \in Seq(Cids) /\ j.sum \in Nat
  BY DEF JobRecords
<1>2. /\ Seen(k) = Seen(j) \cup {c} /\ c \in Cids /\ Seen(j) \subseteq Cids
      /\ j.at = Len(j.list) => Seen(k) = Range(j.list)
  BY <1>1, SeenGrows
<1>3. Total(Seen(j) \ have) <= j.sum /\ (j.sum > 0 => ~(Seen(j) \subseteq have))
  BY DEF AddsUp
<1>4. Size[c] \in Nat
  BY <1>2, ObjectsAssumption
<1> PICK n : n = j.sum
  OBVIOUS
<1> PICK m : m = k.sum
  OBVIOUS
<1>0. n \in Nat /\ m = IF c \in have THEN n ELSE n + Size[c]
  BY <1>1, <1>4
<1>5. Total(Seen(k) \ have) <= m
  <2>1. CASE c \in have
    <3>1. Seen(k) \ have = Seen(j) \ have
      BY <1>2, <2>1
    <3> QED  BY <1>0, <1>3, <2>1, <3>1
  <2>2. CASE c \notin have
    <3>1. Seen(k) \ have = (Seen(j) \ have) \cup {c} /\ Seen(j) \ have \in SUBSET Cids
      BY <1>2, <2>2
    <3>2. Total((Seen(j) \ have) \cup {c}) <= Total(Seen(j) \ have) + Size[c]
      BY <1>2, <3>1, TotalGrows
    <3>3. Total(Seen(j) \ have) \in Nat /\ Total((Seen(j) \ have) \cup {c}) \in Nat
      <4>1. (Seen(j) \ have) \cup {c} \in SUBSET Cids
        BY <1>2
      <4> QED  BY <3>1, <4>1, TotalNat
    <3>4. Total(Seen(k) \ have) <= Total(Seen(j) \ have) + Size[c]
      BY <3>1, <3>2
    <3>5. Total(Seen(k) \ have) \in Nat /\ Total(Seen(j) \ have) <= n /\ m = n + Size[c]
      BY <1>0, <1>3, <2>2, <3>1, <3>3
    <3> QED  BY <1>0, <1>4, <3>3, <3>4, <3>5
  <2> QED  BY <2>1, <2>2
<1>6. k.sum > 0 => ~(Seen(k) \subseteq have)
  <2>1. CASE c \in have
    BY <1>1, <1>2, <1>3, <2>1
  <2>2. CASE c \notin have
    BY <1>2, <2>2
  <2> QED  BY <2>1, <2>2
<1>7. k.pc \in {"select", "count"} /\ (k.pc = "count" => Seen(k) = Range(k.list))
  BY <1>2 DEF After
<1>8. k.wrap => Complete(k.list)
  BY DEF AddsUp
<1> QED  BY <1>5, <1>6, <1>7, <1>8 DEF AddsUp

(* What is counted for a job is what is new, less the directory.           *)
LEMMA CountCovers ==
  ASSUME NEW have \in SUBSET Cids, NEW j \in JobRecords, j.pc = "count", AddsUp(j, have),
         NEW used \in Int, Total(Open(have)) <= used
  PROVE  /\ j.sum > 0 => Total(Open(have \cup Range(j.list))) <= used + (j.sum - DirSize(j))
         /\ j.sum = 0 => Total(Open(have \cup Range(j.list))) <= used
<1> PICK added : added = Range(j.list)
  OBVIOUS
<1>1. j.list \in Seq(Cids) /\ j.sum \in Nat /\ added \in SUBSET Cids
  BY DEF JobRecords, Range
<1>2. Total(added \ have) <= j.sum /\ (j.sum > 0 => ~(added \subseteq have))
  BY DEF AddsUp
<1>3. /\ Open(have) \in SUBSET Cids /\ added \ have \in SUBSET Cids
      /\ Open(have \cup added) \in SUBSET Cids
  BY <1>1 DEF Open
<1>4. /\ Total(Open(have)) \in Nat /\ Total(added \ have) \in Nat
      /\ Total(Open(have \cup added)) \in Nat
  BY <1>3, TotalNat
<1>5. Total(Open(have \cup added)) <= Total(Open(have)) + Total(added \ have)
  BY <1>1, AddedAccounts
<1>6. CASE j.wrap /\ j.sum > 0
  <2> PICK dir : dir = j.list[Len(j.list)]
    OBVIOUS
  <2>1. dir \in Cids /\ added = With(dir) /\ Inside[dir] # {} /\ ~(added \subseteq have)
    <3>1. Complete(j.list)
      BY <1>6 DEF AddsUp
    <3>2. Len(j.list) \in DOMAIN j.list
      BY <1>1, <3>1, EmptySeq DEF Complete
    <3> QED  BY <1>1, <1>2, <1>6, <3>1, <3>2 DEF Complete
  <2>2. Total(Open(have \cup added)) + Size[dir] <= Total(Open(have)) + Total(added \ have)
    BY <2>1, WrappedAccounts
  <2>3. DirSize(j) = Size[dir] /\ Size[dir] \in Nat
    BY <1>6, <2>1, ObjectsAssumption DEF DirSize
  <2>4. Total(Open(have \cup added)) + Size[dir] <= used + j.sum
    <3>1. \A a, s, o, n, x, m \in Int :
            a + s <= o + n /\ o <= x /\ n <= m => a + s <= x + m
      OBVIOUS
    <3>2. Total(added \ have) <= j.sum /\ j.sum \in Int
      BY <1>1, <1>2
    <3>3. /\ Total(Open(have \cup added)) \in Int /\ Total(Open(have)) \in Int
          /\ Total(added \ have) \in Int /\ Size[dir] \in Int
      BY <1>4, <2>3
    <3> QED  BY <2>2, <3>1, <3>2, <3>3
  <2>5. Total(Open(have \cup added)) <= used + (j.sum - DirSize(j))
    BY <1>1, <1>4, <2>3, <2>4
  <2> QED  BY <1>6, <2>5
<1>7. CASE ~j.wrap \/ j.sum = 0
  <2>1. ~j.wrap => DirSize(j) = 0
    BY DEF DirSize
  <2> QED  BY <1>1, <1>2, <1>4, <1>5, <1>7, <2>1
<1> QED  BY <1>1, <1>6, <1>7
----
(* What a step does to what the database has.                              *)

LEMMA StatusKeeps ==
  ASSUME Typed, NEW h \in Handlers, NEW c \in Cids, NEW status \in {"pin", "unpin"},
         SetStatus(h, c, status)
  PROVE  \A o \in Owners, x \in Cids : rows'[o][x] = "none" <=> rows[o][x] = "none"
<1>1. rows \in [Owners -> [Cids -> Statuses]]
  BY DEF Typed
<1>2. CASE UNCHANGED rows
  BY <1>2
<1>3. ASSUME NEW o \in Ids(h),
             rows' = [rows EXCEPT ![o][c] =
                        IF @ = "none" \/ c \in req[h].odd THEN @ ELSE status]
      PROVE  \A y \in Owners, x \in Cids : rows'[y][x] = "none" <=> rows[y][x] = "none"
  <2>1. o \in Owners
    BY DEF Ids, Typed, Owners
  <2>2. PICK v : v = IF rows[o][c] = "none" \/ c \in req[h].odd THEN rows[o][c] ELSE status
    OBVIOUS
  <2>3. rows' = [rows EXCEPT ![o][c] = v]
    BY <1>1, <1>3, <2>1, <2>2
  <2>4. v = "none" <=> rows[o][c] = "none"
    BY <2>2
  <2> QED  BY <1>1, <2>1, <2>3, <2>4
<1> QED  BY <1>2, <1>3 DEF SetStatus

LEMMA HaveSame ==
  ASSUME Ready, NEW u \in Users,
         \/ UNCHANGED rows
         \/ \E h \in Handlers : HandlerStep(h)
  PROVE  Have(u)' = Have(u)
<1> USE DEF Ready, Inv
<1>1. CASE UNCHANGED rows
  BY <1>1 DEF Have
<1>2. ASSUME NEW h \in Handlers, Hook(h) \/ Unpin(h)
      PROVE  Have(u)' = Have(u)
  <2>1. New(h) \in Cids /\ Old(h) \in Cids
    BY <1>2, ServingFacts DEF Hook, Unpin
  <2>2. \A o \in Owners, x \in Cids : rows'[o][x] = "none" <=> rows[o][x] = "none"
    BY <1>2, <2>1, StatusKeeps DEF Hook, Unpin
  <2> QED  BY <2>2 DEF Have, Owners
<1> QED  BY <1>1, <1>2 DEF HandlerStep, Check, Refuse, Forward, ForwardFails, ForwardLost, Ask,
           Repin, Charge

(* A job's rows are created under its owner's id.                          *)
LEMMA CreateHave ==
  ASSUME Ready, NEW h \in Handlers, JobCreate(h), NEW u \in Users
  PROVE  /\ job[h].user # u => Have(u)' = Have(u)
         /\ job[h].user = u /\ who[h] \notin miscounted' =>
              Have(u)' = Have(u) \cup Range(job[h].list)
<1> USE DEF Ready, Inv
<1>1. /\ rows \in [Owners -> [Cids -> Statuses]] /\ job[h] \in JobRecords
      /\ Range(job[h].list) \subseteq Cids
  BY JobFacts DEF Typed, JobCreate, Job
<1>2. CASE Fails /\ miscounted' = miscounted \cup {who[h]} /\ UNCHANGED rows
  BY <1>2 DEF Have
<1>3. CASE rows' = [rows EXCEPT ![job[h].user] = [c \in Cids |->
               IF c \in Range(job[h].list) /\ @[c] = "none" THEN job[h].status ELSE @[c]]]
  <2>1. job[h].user \in Owners /\ job[h].status # "none" /\ u \in Owners
    BY <1>1 DEF JobRecords, Owners
  <2> DEFINE r == rows[job[h].user]
             n == [c \in Cids |->
                     IF c \in Range(job[h].list) /\ r[c] = "none" THEN job[h].status ELSE r[c]]
  <2>2. rows' = [rows EXCEPT ![job[h].user] = n]
    BY <1>3
  <2>3. \A c \in Cids : n[c] # "none" <=> r[c] # "none" \/ c \in Range(job[h].list)
    BY <2>1
  <2>4. rows'[u] = IF job[h].user = u THEN n ELSE rows[u]
    BY <1>1, <2>1, <2>2
  <2> HIDE DEF n
  <2> QED  BY <1>1, <2>3, <2>4 DEF Have
<1> QED  BY <1>2, <1>3 DEF JobCreate
----
(* The storage used stays ahead, step by step.                             *)

(* A step that leaves a user's jobs, files and usage alone.                *)
LEMMA AddingStays ==
  ASSUME NEW u \in Users, Adding(u), Have(u)' = Have(u),
         usage'[u]["storage"] = usage[u]["storage"],
         \A h \in Handlers : job[h].pc # "none" \/ job'[h].pc # "none" =>
           \/ job'[h] = job[h] /\ who'[h] = who[h]
           \/ who[h] # u /\ who'[h] # u
  PROVE  Adding(u)'
<1>1. \A h \in Handlers :
        who'[h] = u /\ job'[h].pc # "none" => who[h] = u /\ job'[h] = job[h]
  OBVIOUS
<1>2. Alone(u)'
  BY <1>1 DEF Adding, Alone
<1>3. ASSUME NEW h \in Handlers, who'[h] = u PROVE JobOk(h, u)'
  <2>1. CASE job'[h].pc = "none"
    BY <2>1 DEF JobOk, AddsUp
  <2>2. CASE job'[h].pc # "none"
    BY <1>1, <1>3, <2>2 DEF Adding, JobOk
  <2> QED  BY <2>1, <2>2
<1>4. Counting(u)' = Counting(u) /\ \A h \in Counting(u) : job'[h] = job[h]
  BY DEF Counting
<1>5. Soon(u)' = Soon(u)
  BY <1>4 DEF Soon
<1>6. Covered(u)'
  BY <1>5 DEF Adding, Covered
<1> QED  BY <1>2, <1>3, <1>6 DEF Adding

LEMMA StorageOnly ==
  ASSUME Ready, NEW h \in Handlers, NEW u \in Users,
         \/ HandlerStep(h) \/ Leave(h) \/ \E v \in Users, r \in Requests : Arrive(h, v, r)
         \/ JobStep(h) /\ ~JobCount(h)
  PROVE  usage'[u]["storage"] = usage[u]["storage"]
<1>1. CASE Charge(h)
  BY <1>1, ChargeFacts, SpendTyped DEF Ready, Inv, redis, Kinds
<1>2. CASE UNCHANGED redis
  BY <1>2 DEF redis
<1> QED  BY <1>1, <1>2 DEF HandlerStep, Check, Refuse, Forward, ForwardFails, ForwardLost, Hook,
           Unpin, Ask, Repin, Leave, Arrive, JobStep, JobResolve, JobSelect, JobCreate

(* A handler's steps other than forwarding.                                *)
LEMMA HandlerAdding ==
  ASSUME Ready, NEW h \in Handlers, NEW u \in Users, Adding(u),
         \/ HandlerStep(h) /\ ~Forward(h)
         \/ Leave(h) \/ \E v \in Users, r \in Requests : Arrive(h, v, r)
  PROVE  Adding(u)'
<1> USE DEF Ready, Inv
<1>1. usage'[u]["storage"] = usage[u]["storage"]
  BY StorageOnly
<1>2. Have(u)' = Have(u)
  BY HaveSame DEF Leave, Arrive
<1>3. \A g \in Handlers : job[g].pc # "none" \/ job'[g].pc # "none" =>
        job'[g] = job[g] /\ who'[g] = who[g]
  <2>1. CASE HandlerStep(h) /\ ~Forward(h)
    BY <2>1, HandlerMoves
  <2>2. CASE Leave(h) \/ \E v \in Users, r \in Requests : Arrive(h, v, r)
    <3>1. job[h].pc = "none" /\ UNCHANGED job
      BY <2>2 DEF Leave, Arrive, Job, Serving
    <3>2. \A g \in Handlers \ {h} : who'[g] = who[g]
      BY <2>2 DEF Leave, Arrive, Typed
    <3> QED  BY <3>1, <3>2
  <2> QED  BY <2>1, <2>2
<1> QED  BY <1>1, <1>2, <1>3, AddingStays

(* Forwarding starts a job, with nothing added up yet.                     *)
LEMMA ForwardStarts ==
  ASSUME Ready, NEW h \in Handlers, Forward(h)
  PROVE  /\ job[h].pc = "none" /\ UNCHANGED who /\ miscounted \subseteq miscounted'
         /\ \A g \in Handlers \ {h} : job'[g] = job[g]
         /\ \/ UNCHANGED job
            \/ /\ job'[h].pc = "resolve"
               /\ who[h] \notin miscounted' =>
                    /\ \A have : AddsUp(job'[h], have)
                    /\ \A g \in Handlers : who[g] = who[h] => job[g].pc = "none"
<1> USE DEF Ready, Inv
<1>1. job[h].pc = "none" /\ pc[h] = "forward" /\ req[h] \in Requests
  BY ServingFacts DEF Forward, Serving
<1>2. UNCHANGED who /\ miscounted \subseteq miscounted'
  BY DEF Forward, Goto, StartJob
<1>3. \A g \in Handlers \ {h} : job'[g] = job[g]
  BY ForwardFacts
<1>4. ASSUME NEW list, NEW wrap \in BOOLEAN, NEW status, StartJob(h, list, wrap, status)
      PROVE  /\ job'[h].pc = "resolve"
             /\ who[h] \notin miscounted' =>
                  /\ \A have : AddsUp(job'[h], have)
                  /\ \A g \in Handlers : who[g] = who[h] => job[g].pc = "none"
  <2>1. job'[h] = [pc |-> "resolve", user |-> Nobody, list |-> list, at |-> 1, sum |-> 0,
                   wrap |-> wrap, status |-> status]
    BY <1>4 DEF StartJob, Typed
  <2>2. who[h] \notin miscounted' =>
          /\ wrap => Complete(list)
          /\ \A g \in Handlers : who[g] = who[h] => job[g].pc = "none"
    BY <1>4 DEF StartJob
  <2>3. (wrap => Complete(list)) => \A have : AddsUp(job'[h], have)
    BY <2>1 DEF AddsUp
  <2> QED  BY <2>1, <2>2, <2>3
<1>5. CASE UNCHANGED job
  BY <1>1, <1>2, <1>3, <1>5
<1>6. CASE StartJob(h, req[h].told, req[h].wrap, IF req[h].pin THEN "pin" ELSE "unpin")
  <2>1. req[h].wrap \in BOOLEAN
    BY <1>1, RequestFacts
  <2> QED  BY <1>1, <1>2, <1>3, <1>4, <1>6, <2>1
<1>7. CASE StartJob(h, <<New(h)>>, FALSE, "pin")
  BY <1>1, <1>2, <1>3, <1>4, <1>7
<1> QED  BY <1>5, <1>6, <1>7 DEF Forward

LEMMA ForwardAdding ==
  ASSUME Ready, NEW h \in Handlers, NEW u \in Users \ miscounted', Adding(u), Forward(h)
  PROVE  Adding(u)'
<1>1. /\ job[h].pc = "none" /\ UNCHANGED who
      /\ \A g \in Handlers \ {h} : job'[g] = job[g]
      /\ \/ UNCHANGED job
         \/ /\ job'[h].pc = "resolve"
            /\ who[h] \notin miscounted' =>
                 /\ \A have : AddsUp(job'[h], have)
                 /\ \A g \in Handlers : who[g] = who[h] => job[g].pc = "none"
  BY ForwardStarts
<1>2. usage'[u]["storage"] = usage[u]["storage"] /\ Have(u)' = Have(u)
  BY StorageOnly, HaveSame DEF HandlerStep
<1>3. CASE UNCHANGED job \/ who[h] # u
  BY <1>1, <1>2, <1>3, AddingStays
<1>4. CASE ~UNCHANGED job /\ who[h] = u
  <2>1. \A g \in Handlers \ {h} : who[g] = u => job'[g].pc = "none"
    BY <1>1, <1>4
  <2>2. Alone(u)'
    BY <1>1, <2>1 DEF Alone
  <2>3. ASSUME NEW g \in Handlers, who'[g] = u PROVE JobOk(g, u)'
    <3>1. CASE g = h
      BY <1>1, <1>4, <3>1 DEF JobOk
    <3>2. CASE g # h
      BY <1>1, <2>1, <2>3, <3>2 DEF JobOk, AddsUp
    <3> QED  BY <3>1, <3>2
  <2>4. Counting(u)' = {} /\ Counting(u) = {}
    BY <1>1, <1>4, <2>1 DEF Counting
  <2>5. Soon(u)' = Soon(u)
    BY <2>4 DEF Soon
  <2>6. Covered(u)'
    BY <1>2, <2>5 DEF Adding, Covered
  <2> QED  BY <2>2, <2>3, <2>6 DEF Adding
<1> QED  BY <1>3, <1>4

(* A job's step leaves the other users alone.                              *)
LEMMA JobOthers ==
  ASSUME Ready, NEW h \in Handlers, NEW u \in Users, Adding(u), JobStep(h), who[h] # u
  PROVE  Adding(u)'
<1> USE DEF Ready, Inv
<1>1. /\ UNCHANGED who /\ job[h].pc # "none"
      /\ \A g \in Handlers \ {h} : job'[g] = job[g]
  BY JobStepMoves DEF JobMoves, handler
<1>2. Have(u)' = Have(u)
  <2>1. CASE JobCreate(h)
    <3>1. job[h].user # u
      BY <2>1, BoundsAssumption DEF JobCreate, Job, Metered, Records
    <3> QED  BY <2>1, <3>1, CreateHave
  <2>2. CASE UNCHANGED rows
    BY <2>2, HaveSame
  <2> QED  BY <2>1, <2>2 DEF JobStep, JobResolve, JobSelect, JobCount
<1>3. usage'[u]["storage"] = usage[u]["storage"]
  <2>1. CASE JobCount(h)
    <3>1. who[h] \in Users /\ job[h].sum - DirSize(job[h]) \in Int
      BY <1>1, <2>1, JobFacts DEF JobCount, Job, Metered, Records
    <3> QED  BY <2>1, <3>1, CountFacts, SpendTyped DEF redis, Kinds
  <2> QED  BY <2>1, StorageOnly
<1> QED  BY <1>1, <1>2, <1>3, AddingStays

(* A user's own job, which is the only one: what is left to be shown.      *)
LEMMA OwnJob ==
  ASSUME Ready, NEW h \in Handlers, NEW u \in Users, Adding(u), JobStep(h), who[h] = u,
         JobOk(h, u)',
         Total(Open(Have(u)' \cup
           (IF job'[h].pc = "create" THEN Range(job'[h].list) ELSE {}))) <= usage'[u]["storage"]
  PROVE  Adding(u)'
<1>1. /\ UNCHANGED who /\ job[h].pc # "none"
      /\ \A g \in Handlers \ {h} : job'[g] = job[g]
  BY JobStepMoves DEF JobMoves, handler, Ready, Inv
<1>2. \A g \in Handlers \ {h} : who[g] = u => job'[g].pc = "none"
  BY <1>1 DEF Adding, Alone
<1>3. Alone(u)'
  BY <1>1, <1>2 DEF Alone
<1>4. \A g \in Handlers : who'[g] = u => JobOk(g, u)'
  BY <1>1, <1>2 DEF JobOk, AddsUp
<1>5. Counting(u)' = IF job'[h].pc = "create" THEN {h} ELSE {}
  BY <1>1, <1>2 DEF Counting
<1>6. Soon(u)' = IF job'[h].pc = "create" THEN Range(job'[h].list) ELSE {}
  BY <1>5 DEF Soon
<1>7. Covered(u)'
  BY <1>6 DEF Covered
<1> QED  BY <1>3, <1>4, <1>7 DEF Adding

(* Before its step the only job either has all counted, or counts nothing. *)
LEMMA OwnSoon ==
  ASSUME NEW h \in Handlers, NEW u \in Users, Adding(u), who[h] = u, job[h].pc # "none"
  PROVE  Soon(u) = IF job[h].pc = "create" THEN Range(job[h].list) ELSE {}
<1>1. Counting(u) = IF job[h].pc = "create" THEN {h} ELSE {}
  BY DEF Adding, Alone, Counting
<1> QED  BY <1>1 DEF Soon

LEMMA OwnResolve ==
  ASSUME Ready, NEW h \in Handlers, NEW u \in Users \ miscounted', Adding(u), JobResolve(h), who[h] = u
  PROVE  Adding(u)'
<1> USE DEF Ready, Inv
<1>1. /\ job[h].pc = "resolve" /\ JobStep(h) /\ UNCHANGED <<rows, redis>>
      /\ job \in [Handlers -> JobRecords] /\ job[h] \in JobRecords
      /\ job[h].at = 1
  BY DEF JobResolve, Job, JobStep, Typed, Serving
<1> PICK p : p = IF job[h].list = << >> THEN "count" ELSE "select"
  OBVIOUS
<1>2. job' = [job EXCEPT ![h].user = u, ![h].pc = p]
  <2>1. PICK o \in Ids(h) :
          /\ job' = [job EXCEPT ![h].user = o,
               ![h].pc = IF job[h].list = << >> THEN "count" ELSE "select"]
          /\ miscounted' = IF o = Nobody THEN miscounted \cup {who[h]} ELSE miscounted
    BY DEF JobResolve
  <2>2. o # Nobody
    BY <2>1
  <2> QED  BY <2>1, <2>2 DEF Ids
<1>3. Have(u)' = Have(u) /\ usage' = usage
  BY <1>1, HaveSame DEF redis
<1>4. /\ job'[h].pc = p /\ job'[h].user = u /\ job'[h].list = job[h].list
      /\ job'[h].at = 1 /\ job'[h].sum = job[h].sum /\ job'[h].wrap = job[h].wrap
  BY <1>1, <1>2 DEF JobRecords
<1>5. AddsUp(job[h], Have(u))
  BY DEF Adding, JobOk
<1>6. Seen(job'[h]) = {} /\ Total({}) = 0
  BY <1>4, SumEmpty DEF Seen, Total
<1>7. AddsUp(job'[h], Have(u))
  <2>1. p = "count" => Range(job[h].list) = {}
    BY DEF Range
  <2> QED  BY <1>1, <1>4, <1>5, <1>6, <2>1 DEF AddsUp
<1>8. JobOk(h, u)'
  BY <1>3, <1>4, <1>7 DEF JobOk
<1>9. Soon(u) = {}
  BY <1>1, OwnSoon
<1>10. Total(Open(Have(u) \cup {})) <= usage[u]["storage"]
  BY <1>9 DEF Adding, Covered
<1> QED  BY <1>1, <1>3, <1>4, <1>8, <1>10, OwnJob

LEMMA OwnSelect ==
  ASSUME Ready, NEW h \in Handlers, NEW u \in Users \ miscounted', Adding(u), JobSelect(h), who[h] = u
  PROVE  Adding(u)'
<1> USE DEF Ready, Inv
<1>1. /\ job[h].pc = "select" /\ JobStep(h) /\ UNCHANGED <<rows, redis>>
      /\ job \in [Handlers -> JobRecords] /\ job[h] \in JobRecords
      /\ job[h].at \in DOMAIN job[h].list
  BY DEF JobSelect, Job, JobStep, Typed, Serving
<1>2. JobOk(h, u) /\ job[h].user = u
  BY <1>1 DEF Adding, JobOk
<1> PICK c : c = job[h].list[job[h].at]
  OBVIOUS
<1>3. c \in Cids /\ Size[c] \in Nat /\ job[h].sum \in Nat
  BY <1>1, ObjectsAssumption DEF JobRecords
<1> PICK n : n = job[h].sum + (IF c \in Have(u) THEN 0 ELSE Size[c])
  OBVIOUS
<1>4. job' = [job EXCEPT ![h].pc = After(job[h]), ![h].at = @ + 1, ![h].sum = n]
  <2>1. job' = [job EXCEPT ![h].pc = After(job[h]), ![h].at = @ + 1,
                 ![h].sum = @ + (IF rows[job[h].user][c] = "none" THEN Size[c] ELSE 0)]
    BY DEF JobSelect
  <2>2. (IF rows[job[h].user][c] = "none" THEN Size[c] ELSE 0)
          = (IF c \in Have(u) THEN 0 ELSE Size[c])
    BY <1>2, <1>3 DEF Have
  <2> QED  BY <2>1, <2>2
<1>5. n \in Nat
  BY <1>3
<1>6. /\ job'[h].pc = After(job[h]) /\ job'[h].user = u /\ job'[h].list = job[h].list
      /\ job'[h].at = job[h].at + 1 /\ job'[h].sum = n /\ job'[h].wrap = job[h].wrap
  BY <1>1, <1>2, <1>4 DEF JobRecords
<1>7. job'[h] \in JobRecords
  BY <1>1, JobStepMoves DEF JobMoves
<1>8. Have(u)' = Have(u) /\ usage' = usage /\ Have(u) \in SUBSET Cids
  BY <1>1, HaveSame DEF redis, Have
<1>9. AddsUp(job'[h], Have(u))
  <2>1. AddsUp(job[h], Have(u))
    BY <1>2 DEF JobOk
  <2> QED  BY <1>1, <1>6, <1>7, <1>8, <2>1, SelectAddsUp
<1>10. JobOk(h, u)'
  BY <1>6, <1>8, <1>9 DEF JobOk
<1>11. Soon(u) = {} /\ job'[h].pc # "create"
  BY <1>1, <1>6, OwnSoon DEF After
<1>12. Total(Open(Have(u) \cup {})) <= usage[u]["storage"]
  BY <1>11 DEF Adding, Covered
<1> QED  BY <1>1, <1>8, <1>10, <1>11, <1>12, OwnJob

LEMMA OwnCount ==
  ASSUME Ready, NEW h \in Handlers, NEW u \in Users \ miscounted', Adding(u), JobCount(h), who[h] = u
  PROVE  Adding(u)'
<1> USE DEF Ready, Inv
<1>1. /\ job[h].pc = "count" /\ JobStep(h) /\ UNCHANGED rows
      /\ job \in [Handlers -> JobRecords] /\ job[h] \in JobRecords
      /\ job' = [job EXCEPT ![h].pc = "create"] /\ ~Panics(job[h])
  <2>1. job' = [job EXCEPT ![h].pc = "create"]
    BY DEF JobCount, JobGoes
  <2> QED  BY <2>1 DEF JobCount, Job, JobStep, Typed, Metered, Records
<1>2. JobOk(h, u) /\ job[h].user = u
  BY <1>1 DEF Adding, JobOk
<1>3. /\ job'[h].pc = "create" /\ job'[h].user = u /\ job'[h].list = job[h].list
      /\ job'[h].wrap = job[h].wrap
  BY <1>1, <1>2 DEF JobRecords
<1>4. Have(u)' = Have(u) /\ Have(u) \in SUBSET Cids /\ usage[u]["storage"] \in Int
  BY <1>1, HaveSame DEF Have, Metered, Kinds
<1>5. JobOk(h, u)'
  BY <1>1, <1>2, <1>3, <1>4 DEF JobOk, AddsUp
<1>6. Total(Open(Have(u))) <= usage[u]["storage"]
  <2>1. Soon(u) = {}
    BY <1>1, OwnSoon
  <2>2. Have(u) \cup {} = Have(u)
    OBVIOUS
  <2> QED  BY <2>1, <2>2 DEF Adding, Covered
<1>7. /\ job[h].sum \in Nat /\ job[h].sum - DirSize(job[h]) \in Int
  BY <1>1, JobFacts
<1>8. /\ job[h].sum > 0 =>
           Total(Open(Have(u) \cup Range(job[h].list)))
             <= usage[u]["storage"] + (job[h].sum - DirSize(job[h]))
      /\ job[h].sum = 0 => Total(Open(Have(u) \cup Range(job[h].list))) <= usage[u]["storage"]
  BY <1>1, <1>2, <1>4, <1>6, <1>7, CountCovers DEF JobOk
<1>9. Total(Open(Have(u) \cup Range(job[h].list))) <= usage'[u]["storage"]
  <2>1. CASE job[h].sum > 0 /\ Spend(who[h], "storage", job[h].sum - DirSize(job[h]))
    BY <2>1, <1>7, <1>8, SpendTyped DEF Kinds
  <2>2. CASE job[h].sum = 0 /\ UNCHANGED redis
    BY <2>2, <1>8 DEF redis
  <2>3. miscounted' # miscounted \cup {who[h]}
    OBVIOUS
  <2> QED  BY <2>1, <2>2, <2>3 DEF JobCount
<1> QED  BY <1>1, <1>3, <1>4, <1>5, <1>9, OwnJob

LEMMA OwnCreate ==
  ASSUME Ready, NEW h \in Handlers, NEW u \in Users \ miscounted', Adding(u), JobCreate(h), who[h] = u
  PROVE  Adding(u)'
<1> USE DEF Ready, Inv
<1>1. /\ job[h].pc = "create" /\ JobStep(h) /\ UNCHANGED redis
      /\ job \in [Handlers -> JobRecords]
      /\ job' = [job EXCEPT ![h] = NoJob]
  BY DEF JobCreate, Job, JobStep, Typed
<1>2. job[h].user = u
  BY <1>1 DEF Adding, JobOk
<1>3. job'[h].pc = "none" /\ JobOk(h, u)'
  BY <1>1 DEF NoJob, JobOk, AddsUp
<1>4. Have(u)' = Have(u) \cup Range(job[h].list)
  BY <1>2, CreateHave
<1>5. Soon(u) = Range(job[h].list) /\ usage' = usage
  BY <1>1, OwnSoon DEF redis
<1>6. Total(Open(Have(u)' \cup {})) <= usage'[u]["storage"]
  <2>1. Have(u)' \cup {} = Have(u) \cup Soon(u)
    BY <1>4, <1>5
  <2> QED  BY <1>5, <2>1 DEF Adding, Covered
<1> QED  BY <1>1, <1>3, <1>6, OwnJob

(* A process that ends leaves no Add that was counted and not recorded,    *)
(* but for those whose users are miscounted.                               *)
LEMMA DieAdding ==
  ASSUME Ready, NEW u \in Users \ miscounted', Adding(u), Die
  PROVE  Adding(u)'
<1>1. /\ UNCHANGED <<rows, usage>>
      /\ \A h \in Handlers : job'[h].pc = "none"
      /\ \A h \in Handlers : job[h].pc = "create" => who[h] # u
  BY DEF Die, redis, Job, NoJob
<1>2. Alone(u)' /\ \A h \in Handlers : JobOk(h, u)'
  BY <1>1 DEF Alone, JobOk, AddsUp
<1>3. Counting(u) = {} /\ Counting(u)' = {} /\ Have(u)' = Have(u)
  BY <1>1 DEF Counting, Have
<1>4. Soon(u)' = Soon(u)
  BY <1>3 DEF Soon
<1>5. Covered(u)'
  BY <1>1, <1>3, <1>4 DEF Adding, Covered
<1> QED  BY <1>2, <1>5 DEF Adding

LEMMA NextCounted == Ready /\ Counted /\ [Next]_vars => Counted'
<1> SUFFICES ASSUME Ready, Counted, [Next]_vars PROVE Counted'
  OBVIOUS
<1>1. miscounted \subseteq miscounted'
  BY DEF Next, vars, Arrive, Step, Check, Refuse, Forward, StartJob, ForwardFails, ForwardLost,
     JobResolve, JobSelect, JobCount, JobCreate, JobPanics, Crash, Die, Hook, Unpin, Ask,
     Repin, Charge, Leave
<1> SUFFICES ASSUME NEW u \in Users \ miscounted' PROVE Adding(u)'
  BY DEF Counted
<1>2. Adding(u)
  BY <1>1 DEF Counted
<1>3. CASE UNCHANGED vars
  <2>1. /\ Have(u)' = Have(u) /\ usage' = usage
        /\ \A h \in Handlers : job'[h] = job[h] /\ who'[h] = who[h]
    BY <1>3 DEF vars, handler, redis, Have
  <2> QED  BY <1>2, <2>1, AddingStays
<1>4. ASSUME NEW h \in Handlers, NEW v \in Users, NEW r \in Requests, Arrive(h, v, r)
      PROVE  Adding(u)'
  BY <1>2, <1>4, HandlerAdding
<1>5. ASSUME NEW h \in Handlers, HandlerStep(h) \/ Leave(h)
      PROVE  Adding(u)'
  BY <1>2, <1>5, HandlerAdding, ForwardAdding
<1>6. ASSUME NEW h \in Handlers, JobStep(h)
      PROVE  Adding(u)'
  <2>1. CASE who[h] # u
    BY <1>2, <1>6, <2>1, JobOthers
  <2>2. CASE who[h] = u
    BY <1>2, <1>6, <2>2, OwnResolve, OwnSelect, OwnCount, OwnCreate DEF JobStep
  <2> QED  BY <2>1, <2>2
<1>7. CASE Next
  BY <1>2, <1>4, <1>5, <1>6, <1>7, DieAdding
     DEF Next, Step, HandlerStep, JobStep, JobPanics, Crash
<1> QED  BY <1>3, <1>7

LEMMA InitCounted == Init => Counted
<1> SUFFICES ASSUME Init, NEW u \in Users PROVE Adding(u)
  BY DEF Counted
<1>1. \A h \in Handlers : job[h].pc = "none"
  BY DEF Init, NoJob
<1>2. Alone(u) /\ \A h \in Handlers : JobOk(h, u)
  BY <1>1 DEF Alone, JobOk, AddsUp
<1>3. Counting(u) = {} /\ Have(u) = {}
  BY <1>1 DEF Counting, Have, Init, Owners
<1>4. Open(Have(u) \cup Soon(u)) = {}
  BY <1>3 DEF Soon, Open
<1>5. Total({}) = 0 /\ usage[u]["storage"] = 0
  BY SumEmpty DEF Total, Init, Kinds
<1>6. Covered(u)
  BY <1>4, <1>5 DEF Covered
<1> QED  BY <1>2, <1>6 DEF Adding

(* A user's files are counted no later than they are created: the storage  *)
(* used is no less than the sizes of the files the database has of a user  *)
(* whose Adds neither overlapped nor failed, were not counted again and    *)
(* had complete lists if wrapped, though every wrapped add may take off a  *)
(* directory it did not add and the process may end (Add of ipfsService.go)*)
THEOREM StorageCountedHolds == Spec => []StorageCounted
<1>1. Ready /\ Counted => StorageCounted
  <2> SUFFICES ASSUME Ready, Counted, NEW u \in Users \ miscounted
               PROVE  Total({c \in Files(Cids) : rows[u][c] # "none"}) <= usage[u]["storage"]
    BY DEF StorageCounted
  <2> PICK S : S = {c \in Files(Cids) : rows[u][c] # "none"}
    OBVIOUS
  <2> PICK all : all = Open(Have(u) \cup Soon(u))
    OBVIOUS
  <2>1. Covered(u)
    BY DEF Counted, Adding
  <2>2. all \in SUBSET Cids
    <3>1. \A h \in Counting(u) : Range(job[h].list) \subseteq Cids
      BY JobFacts DEF Counting, Ready, Inv
    <3> QED  BY <3>1 DEF Open, Have, Soon
  <2>3. S \in SUBSET all
    BY DEF Files, Open, Have
  <2>4. Total(S) <= Total(all)
    BY <2>2, <2>3, TotalMonotonic
  <2>5. Total(S) \in Nat /\ Total(all) \in Nat /\ usage[u]["storage"] \in Int
    <3>1. S \in SUBSET Cids
      BY <2>2, <2>3
    <3> QED  BY <2>2, <3>1, TotalNat DEF Ready, Metered, Kinds
  <2>6. Total(all) <= usage[u]["storage"]
    BY <2>1 DEF Covered
  <2> QED  BY <2>4, <2>5, <2>6
<1> QED  BY <1>1, ReadyHolds, InitCounted, NextCounted, PTL DEF Spec
====
