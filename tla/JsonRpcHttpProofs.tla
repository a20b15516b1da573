---- MODULE JsonRpcHttpProofs ----
(***************************************************************************)
(* What is proved about JsonRpcHttp: a reply is the answer to its own      *)
(* request, and none is given when it is too old, for any handlers,        *)
(* accounts, questions, lists of methods, times.                           *)
(***************************************************************************)
EXTENDS JsonRpcHttp, Sums, TLAPS

Stages == {"idle", "bind", "limit", "lookup", "call", "store", "replied"}

(* The part of the types the argument needs.                               *)
Typed ==
  /\ pc \in [Handlers -> Stages]
  /\ body \in [Handlers -> Bodies \cup {NoBody}]
  /\ ans \in [Handlers -> Answers]
  /\ cache \in [Keys -> [left : 0 .. CacheTime, ans : Answers]]

(* A handler past bind has calls; what it got from a node is young, and    *)
(* the answer it holds is its own.                                         *)
Own(h) ==
  /\ body[h].form \in {"single", "path"}
  /\ ans[h].q = Call(h)
  /\ ans[h].id = IF body[h].form = "path" THEN NoId ELSE h

Sound(h) ==
  /\ ans[h].age <= CacheTime + Latency
  /\ pc[h] \in {"limit", "lookup", "call", "store"} =>
       body[h] \in Bodies /\ body[h].form \in {"single", "batch", "path"}
  /\ pc[h] = "store" => ans[h].age <= Latency
  /\ (pc[h] \in {"store", "replied"} /\ ans[h].status \in Said) => Own(h)

(* What is kept has a result, but no id, under the key of its question,    *)
(* and gets no older than allowed before it is dropped.                    *)
Right(k, e) ==
  e.left > 0 =>
    /\ e.ans.status \in {"result", "nullError"}
    /\ e.ans.age + e.left <= CacheTime + Latency
    /\ e.ans.id = NoId
    /\ \E f \in {"single", "path"} : e.ans.q \in Questions /\ k = Key(f, e.ans.q)

Inv ==
  /\ Typed
  /\ \A h \in Handlers : Sound(h)
  /\ \A k \in Keys : Right(k, cache[k])

(* A question is determined by its key: nothing but the form, the method   *)
(* and the parameters goes into it.                                        *)
LEMMA KeyInjective ==
  ASSUME NEW f, NEW g, NEW q \in Questions, NEW r \in Questions, Key(f, q) = Key(g, r)
  PROVE  f = g /\ q = r
<1>1. f = g /\ q.method = r.method /\ q.params = r.params
  BY DEF Key
<1>2. q = [method |-> q.method, params |-> q.params]
  BY QuestionsAssumption
<1>3. r = [method |-> r.method, params |-> r.params]
  BY QuestionsAssumption
<1> QED
  BY <1>1, <1>2, <1>3

(* A body with a single call has it among the questions, and its key among *)
(* the keys.                                                               *)
LEMMA CallIsQuestion ==
  ASSUME NEW h, body[h] \in Bodies, body[h].form \in {"single", "path"}
  PROVE  Call(h) \in Questions /\ KeyOf(h) \in Keys
<1>1. body[h].calls \in Seq(Questions) /\ Len(body[h].calls) = 1
  BY BodiesAssumption
<1>2. Call(h) \in Questions
  BY <1>1 DEF Call
<1> QED
  BY <1>2 DEF KeyOf, Keys

(* An answer has the type of an answer, and is new.                        *)
LEMMA AnsTyped ==
  ASSUME NEW s \in Statuses, NEW q \in Questions \cup {NoQuestion},
         NEW id \in Handlers \cup {NoId}
  PROVE  /\ Ans(s, q, id) \in Answers
         /\ Ans(s, q, id).status = s /\ Ans(s, q, id).q = q
         /\ Ans(s, q, id).id = id /\ Ans(s, q, id).age = 0
BY DEF Ans, Answers

(* So has the answer of a handler that has none yet.                       *)
LEMMA NothingTyped == Nothing \in Answers /\ Nothing.age = 0 /\ Nothing.status = "nothing"
BY AnsTyped DEF Nothing, Statuses

(* Before the first request there is nothing held and nothing kept.        *)
LEMMA InitInv == Init => Inv
<1> SUFFICES ASSUME Init PROVE Inv
  OBVIOUS
<1> USE NothingTyped, BoundsAssumption
<1>1. Typed
  BY DEF Init, Typed, Stages, Empty
<1>2. \A h \in Handlers : Sound(h)
  BY DEF Init, Sound
<1>3. \A k \in Keys : Right(k, cache[k])
  BY DEF Init, Right, Empty
<1> QED
  BY <1>1, <1>2, <1>3 DEF Inv

----
(* A step of one handler: if its own new state is sound, everybody's is.   *)
LEMMA OneHandler ==
  ASSUME Inv, NEW h \in Handlers,
         NEW p \in Stages, NEW b \in Bodies \cup {NoBody}, NEW a \in Answers,
         pc' = [pc EXCEPT ![h] = p],
         body' = [body EXCEPT ![h] = b],
         ans' = [ans EXCEPT ![h] = a],
         a.age <= CacheTime + Latency,
         p \in {"limit", "lookup", "call", "store"} =>
           b \in Bodies /\ b.form \in {"single", "batch", "path"},
         p = "store" => a.age <= Latency,
         (p \in {"store", "replied"} /\ a.status \in Said) =>
           /\ b.form \in {"single", "path"}
           /\ a.q = b.calls[1]
           /\ a.id = IF b.form = "path" THEN NoId ELSE h
  PROVE  /\ pc' \in [Handlers -> Stages]
         /\ body' \in [Handlers -> Bodies \cup {NoBody}]
         /\ ans' \in [Handlers -> Answers]
         /\ \A g \in Handlers : Sound(g)'
<1>1. /\ pc' \in [Handlers -> Stages]
      /\ body' \in [Handlers -> Bodies \cup {NoBody}]
      /\ ans' \in [Handlers -> Answers]
  BY DEF Inv, Typed
<1>2. ASSUME NEW g \in Handlers PROVE Sound(g)'
  <2>1. CASE g = h
    BY <2>1 DEF Inv, Typed, Sound, Own, Call
  <2>2. CASE g # h
    <3>1. pc'[g] = pc[g] /\ body'[g] = body[g] /\ ans'[g] = ans[g]
      BY <2>2 DEF Inv, Typed
    <3>2. Sound(g)
      BY DEF Inv
    <3> QED
      BY <3>1, <3>2 DEF Sound, Own, Call
  <2> QED
    BY <2>1, <2>2
<1> QED
  BY <1>1, <1>2

(* What is kept stays right when the cache is left alone.                  *)
LEMMA CacheSame ==
  ASSUME Inv, UNCHANGED cache
  PROVE  /\ cache' \in [Keys -> [left : 0 .. CacheTime, ans : Answers]]
         /\ \A k \in Keys : Right(k, cache[k])'
BY DEF Inv, Typed, Right

(* A handler goes on with what it holds.                                   *)
LEMMA GotoSound ==
  ASSUME Inv, NEW h \in Handlers, NEW l \in Stages \ {"store", "replied"},
         l \in {"limit", "lookup", "call"} =>
           body[h] \in Bodies /\ body[h].form \in {"single", "batch", "path"},
         Goto(h, l), UNCHANGED cache
  PROVE  Inv'
<1>1. /\ ans[h] \in Answers /\ ans[h].age <= CacheTime + Latency
      /\ body[h] \in Bodies \cup {NoBody}
  BY DEF Inv, Typed, Sound
<1>2. body' = [body EXCEPT ![h] = body[h]] /\ ans' = [ans EXCEPT ![h] = ans[h]]
  BY DEF Goto, Inv, Typed
<1>3. pc' = [pc EXCEPT ![h] = l]
  BY DEF Goto
<1>4. /\ pc' \in [Handlers -> Stages]
      /\ body' \in [Handlers -> Bodies \cup {NoBody}]
      /\ ans' \in [Handlers -> Answers]
      /\ \A g \in Handlers : Sound(g)'
  BY <1>1, <1>2, <1>3, OneHandler
<1> QED
  BY <1>4, CacheSame DEF Inv, Typed

(* The handlers' part of Inv' when a handler replies.                      *)
HandlersInv ==
  /\ pc \in [Handlers -> Stages]
  /\ body \in [Handlers -> Bodies \cup {NoBody}]
  /\ ans \in [Handlers -> Answers]
  /\ \A g \in Handlers : Sound(g)

(* A reply: what it says is the handler's own, or no node's answer.        *)
LEMMA ReplySound ==
  ASSUME Inv, NEW h \in Handlers, NEW a \in Answers, Reply(h, a),
         a.age <= CacheTime + Latency,
         a.status \in Said =>
           /\ body[h].form \in {"single", "path"}
           /\ a.q = Call(h)
           /\ a.id = IF body[h].form = "path" THEN NoId ELSE h
  PROVE  HandlersInv'
<1>1. body[h] \in Bodies \cup {NoBody} /\ body' = [body EXCEPT ![h] = body[h]]
  BY DEF Reply, Inv, Typed
<1>2. pc' = [pc EXCEPT ![h] = "replied"] /\ ans' = [ans EXCEPT ![h] = a]
  BY DEF Reply
<1>3. "replied" \in Stages
  BY DEF Stages
<1> QED
  BY <1>1, <1>2, <1>3, OneHandler DEF Call, HandlersInv

(* An error reply of the program itself.                                   *)
LEMMA FailSound ==
  ASSUME Inv, NEW h \in Handlers, NEW s \in {"refused", "failed"}, Fail(h, s)
  PROVE  HandlersInv'
<1> DEFINE a == Ans(s, NoQuestion, NoId)
<1>1. a \in Answers /\ a.age = 0 /\ a.status = s
  BY AnsTyped DEF Statuses
<1>2. Reply(h, a)
  BY DEF Fail
<1> HIDE DEF a
<1> QED
  BY <1>1, <1>2, ReplySound, BoundsAssumption DEF Said

(* A handler that is done, or dropped by a panic, holds nothing.           *)
LEMMA ResetSound ==
  ASSUME Inv, NEW h \in Handlers, Reset(h), UNCHANGED cache
  PROVE  Inv'
<1>1. HandlersInv'
  <2>1. "idle" \in Stages
    BY DEF Stages
  <2>2. /\ pc' = [pc EXCEPT ![h] = "idle"]
        /\ body' = [body EXCEPT ![h] = NoBody]
        /\ ans' = [ans EXCEPT ![h] = Nothing]
    BY DEF Reset
  <2>3. /\ NoBody \in Bodies \cup {NoBody}
        /\ Nothing \in Answers /\ Nothing.age <= CacheTime + Latency
        /\ Nothing.status \notin Said
    BY NothingTyped, BoundsAssumption DEF Said
  <2> HIDE DEF NoBody, Nothing
  <2> DEFINE p == "idle"
  <2>4. /\ p \in Stages /\ pc' = [pc EXCEPT ![h] = p]
        /\ p \notin {"limit", "lookup", "call", "store", "replied"}
    BY <2>1, <2>2
  <2> HIDE DEF p
  <2> QED
    BY <2>2, <2>3, <2>4, OneHandler DEF HandlersInv
<1> QED
  BY <1>1, CacheSame DEF HandlersInv, Inv, Typed

----
(* The actions, one lemma each.                                            *)

(* What a handler past bind holds of its own.                              *)
LEMMA PastBind ==
  ASSUME Inv, NEW h \in Handlers, pc[h] \in {"limit", "lookup", "call", "store"}
  PROVE  body[h] \in Bodies /\ body[h].form \in {"single", "batch", "path"}
BY DEF Inv, Sound

(* A request arrives at an idle handler.                                   *)
LEMMA ArriveInv ==
  ASSUME Inv, NEW h \in Handlers, NEW a \in Accounts, NEW b \in Bodies, Arrive(h, a, b)
  PROVE  Inv'
<1>1. HandlersInv'
  <2>1. "bind" \in Stages
    BY DEF Stages
  <2>2. /\ pc' = [pc EXCEPT ![h] = "bind"]
        /\ body' = [body EXCEPT ![h] = b]
        /\ ans' = [ans EXCEPT ![h] = ans[h]]
        /\ ans[h] \in Answers /\ ans[h].age <= CacheTime + Latency
    BY DEF Arrive, Inv, Typed, Sound
  <2> QED
    BY <2>1, <2>2, OneHandler DEF HandlersInv
<1>2. UNCHANGED cache
  BY DEF Arrive
<1> QED
  BY <1>1, <1>2, CacheSame DEF HandlersInv, Inv, Typed

(* The replies that leave the cache alone.                                 *)
LEMMA FailInv ==
  ASSUME Inv, NEW h \in Handlers, NEW s \in {"refused", "failed"}, Fail(h, s),
         UNCHANGED cache
  PROVE  Inv'
BY FailSound, CacheSame DEF HandlersInv, Inv, Typed

(* bind lets the allowed calls of a well formed body through.              *)
LEMMA BindInv ==
  ASSUME Inv, NEW h \in Handlers, Bind(h)
  PROVE  Inv'
<1>1. UNCHANGED cache
  BY DEF Bind
<1>2. CASE Bad(h) = {}
  <2>1. Goto(h, "limit") /\ pc[h] = "bind" /\ body[h].form \notin {"null", "garbage"}
    BY <1>2 DEF Bind
  <2>2. body[h] \in Bodies
    BY <2>1 DEF Inv, Typed, NoBody
  <2>3. body[h].form \in {"single", "batch", "path"}
    BY <2>1, <2>2, BodiesAssumption DEF Forms
  <2> QED
    BY <1>1, <2>1, <2>2, <2>3, GotoSound DEF Stages
<1>3. CASE Bad(h) # {}
  BY <1>1, <1>3, FailInv DEF Bind
<1> QED
  BY <1>2, <1>3

(* A body that cannot be bound, and the body null.                         *)
LEMMA BindOthersInv ==
  ASSUME Inv, NEW h \in Handlers, BindFails(h) \/ BindPanics(h)
  PROVE  Inv'
<1>1. CASE BindFails(h)
  BY <1>1, FailInv DEF BindFails
<1>2. CASE BindPanics(h)
  BY <1>2, ResetSound DEF BindPanics
<1> QED
  BY <1>1, <1>2

(* The rate limiter admits or refuses.                                     *)
LEMMA LimitInv ==
  ASSUME Inv, NEW h \in Handlers, Admit(h) \/ Refuse(h)
  PROVE  Inv'
<1>1. CASE Admit(h)
  <2>1. Goto(h, "lookup") /\ pc[h] = "limit" /\ UNCHANGED cache
    BY <1>1 DEF Admit
  <2> QED
    BY <2>1, PastBind, GotoSound DEF Stages
<1>2. CASE Refuse(h)
  BY <1>2, FailInv DEF Refuse
<1> QED
  BY <1>1, <1>2

(* A cacheable call has a single question.                                 *)
LEMMA CacheableCall ==
  ASSUME Inv, NEW h \in Handlers, pc[h] \in {"lookup", "store"}, IsCacheable(h)
  PROVE  /\ body[h].form \in {"single", "path"}
         /\ Call(h) \in Questions /\ KeyOf(h) \in Keys
BY PastBind, CallIsQuestion DEF IsCacheable

(* What is found in the cache answers the question it was looked up for.   *)
LEMMA FoundIsOwn ==
  ASSUME Inv, NEW h \in Handlers, pc[h] = "lookup", IsCacheable(h),
         cache[KeyOf(h)].left > 0
  PROVE  /\ Found(h) \in Answers
         /\ Found(h).age <= CacheTime + Latency
         /\ Found(h).q = Call(h)
         /\ Found(h).id = IF body[h].form = "path" THEN NoId ELSE h
<1> DEFINE k == KeyOf(h)
           kept == cache[k].ans
<1>1. body[h].form \in {"single", "path"} /\ Call(h) \in Questions /\ k \in Keys
  BY CacheableCall
<1>2. kept \in Answers /\ cache[k].left \in Nat
  BY <1>1, BoundsAssumption DEF Inv, Typed
<1>3. Right(k, cache[k])
  BY <1>1 DEF Inv
<1>4. kept.age + cache[k].left <= CacheTime + Latency /\ kept.id = NoId
  BY <1>3 DEF Right
<1>5. PICK f \in {"single", "path"} : kept.q \in Questions /\ k = Key(f, kept.q)
  BY <1>3 DEF Right
<1>6. kept.q = Call(h)
  BY <1>1, <1>5, KeyInjective DEF KeyOf
<1>7. Found(h) = IF body[h].form = "single" THEN [kept EXCEPT !.id = h] ELSE kept
  BY DEF Found
<1>8. kept.age <= CacheTime + Latency
  <2>1. kept.age \in Nat
    BY <1>2 DEF Answers
  <2> QED
    BY <2>1, <1>2, <1>4, BoundsAssumption
<1> HIDE DEF kept, k
<1> QED
  BY <1>1, <1>2, <1>4, <1>6, <1>7, <1>8 DEF Answers

(* A result is found in the cache, or not, or Redis fails.                 *)
LEMMA LookupInv ==
  ASSUME Inv, NEW h \in Handlers, Hit(h) \/ Miss(h) \/ LookupFails(h)
  PROVE  Inv'
<1>1. CASE Hit(h)
  <2>1. /\ pc[h] = "lookup" /\ IsCacheable(h) /\ cache[KeyOf(h)].left > 0
        /\ Reply(h, Found(h)) /\ UNCHANGED cache
    BY <1>1 DEF Hit
  <2>2. body[h].form \in {"single", "path"}
    BY <2>1, CacheableCall
  <2>3. HandlersInv'
    BY <2>1, <2>2, FoundIsOwn, ReplySound
  <2> QED
    BY <2>1, <2>3, CacheSame DEF HandlersInv, Inv, Typed
<1>2. CASE Miss(h)
  <2>1. Goto(h, "call") /\ pc[h] = "lookup" /\ UNCHANGED cache
    BY <1>2 DEF Miss
  <2> QED
    BY <2>1, PastBind, GotoSound DEF Stages
<1>3. CASE LookupFails(h)
  BY <1>3, FailInv DEF LookupFails
<1> QED
  BY <1>1, <1>2, <1>3

(* A node's answer is new and, unless it is a batch's, the handler's own.  *)
LEMMA NodeAnswerIsOwn ==
  ASSUME Inv, NEW h \in Handlers, pc[h] = "call", NEW a \in NodeAnswers(h)
  PROVE  /\ a \in Answers /\ a.age = 0
         /\ a.status \in Said =>
              /\ body[h].form \in {"single", "path"}
              /\ a.q = Call(h)
              /\ a.id = IF body[h].form = "path" THEN NoId ELSE h
<1>1. body[h] \in Bodies /\ body[h].form \in {"single", "batch", "path"}
  BY PastBind
<1>2. CASE body[h].form = "batch"
  <2>1. a = Ans("batch", NoQuestion, h)
    BY <1>2 DEF NodeAnswers
  <2> HIDE DEF NoQuestion
  <2> QED
    BY <2>1, AnsTyped DEF Statuses, Said
<1>3. CASE body[h].form # "batch"
  <2>1. body[h].form \in {"single", "path"} /\ Call(h) \in Questions
    BY <1>1, <1>3, CallIsQuestion
  <2> DEFINE id == IF body[h].form = "path" THEN NoId ELSE h
  <2>2. PICK s \in Said \cup {"garbage"} : a = Ans(s, Call(h), id)
    BY <1>3 DEF NodeAnswers
  <2>3. s \in Statuses /\ id \in Handlers \cup {NoId}
    BY DEF Statuses, Said
  <2> QED
    BY <2>1, <2>2, <2>3, AnsTyped
<1> QED
  BY <1>2, <1>3

(* The node answers or fails.                                              *)
LEMMA CallInv ==
  ASSUME Inv, NEW h \in Handlers, CallNode(h) \/ CallFails(h)
  PROVE  Inv'
<1>1. CASE CallNode(h)
  <2>1. PICK a \in NodeAnswers(h) : ans' = [ans EXCEPT ![h] = a]
    BY <1>1 DEF CallNode
  <2>2. /\ pc[h] = "call" /\ pc' = [pc EXCEPT ![h] = "store"]
        /\ UNCHANGED body /\ UNCHANGED cache
    BY <1>1 DEF CallNode
  <2>3. body[h] \in Bodies /\ body[h].form \in {"single", "batch", "path"}
    BY <2>2, PastBind
  <2>4. body' = [body EXCEPT ![h] = body[h]] /\ "store" \in Stages
    BY <2>2 DEF Inv, Typed, Stages
  <2>5. a \in Answers /\ a.age <= CacheTime + Latency /\ a.age <= Latency
    BY <2>2, NodeAnswerIsOwn, BoundsAssumption
  <2>6. HandlersInv'
    BY <2>1, <2>2, <2>3, <2>4, <2>5, NodeAnswerIsOwn, OneHandler DEF HandlersInv, Call
  <2> QED
    BY <2>2, <2>6, CacheSame DEF HandlersInv, Inv, Typed
<1>2. CASE CallFails(h)
  BY <1>2, FailInv DEF CallFails
<1> QED
  BY <1>1, <1>2

(* What Store keeps is right, and has its whole time to live.              *)
LEMMA EntryRight ==
  ASSUME Inv, NEW h \in Handlers, pc[h] = "store", Keeps(h)
  PROVE  /\ KeyOf(h) \in Keys
         /\ Entry(h) \in [left : 0 .. CacheTime, ans : Answers]
         /\ Right(KeyOf(h), Entry(h))
<1>1. /\ body[h].form \in {"single", "path"}
      /\ Call(h) \in Questions /\ KeyOf(h) \in Keys
  BY CacheableCall DEF Keeps
<1>2. /\ ans[h] \in Answers /\ ans[h].age <= Latency
      /\ ans[h].status \in {"result", "nullError"}
      /\ ans[h].q = Call(h)
  BY DEF Inv, Typed, Sound, Own, Keeps, Said
<1>3. /\ Kept(h) \in Answers /\ Kept(h).id = NoId
      /\ Kept(h).age = ans[h].age /\ Kept(h).q = Call(h)
      /\ Kept(h).status \in {"result", "nullError"}
  BY <1>2 DEF Kept, Answers, Statuses
<1>4. Entry(h).left = CacheTime /\ Entry(h).ans = Kept(h)
  BY DEF Entry
<1>5. Entry(h) \in [left : 0 .. CacheTime, ans : Answers]
  BY <1>3, BoundsAssumption DEF Entry
<1>6. Kept(h).age + CacheTime <= CacheTime + Latency
  BY <1>2, <1>3, BoundsAssumption DEF Answers
<1>7. KeyOf(h) = Key(body[h].form, Call(h))
  BY DEF KeyOf
<1> QED
  BY <1>1, <1>3, <1>4, <1>5, <1>6, <1>7 DEF Right

(* The result is kept, over whatever was kept before, and replied.         *)
LEMMA StoreInv ==
  ASSUME Inv, NEW h \in Handlers, Store(h)
  PROVE  Inv'
<1>1. pc[h] = "store" /\ Replies(h)
  BY DEF Store
<1>2. HandlersInv'
  <2>1. CASE ans[h].status = "garbage"
    BY <1>1, <2>1, FailSound DEF Replies
  <2>2. CASE ans[h].status # "garbage"
    <3>1. Reply(h, ans[h]) /\ ans[h] \in Answers /\ ans[h].age <= CacheTime + Latency
      BY <1>1, <2>2 DEF Replies, Inv, Typed, Sound
    <3>2. ans[h].status \in Said => Own(h)
      BY <1>1 DEF Inv, Sound
    <3> QED
      BY <3>1, <3>2, ReplySound DEF Own
  <2> QED
    BY <2>1, <2>2
<1>3. /\ cache' \in [Keys -> [left : 0 .. CacheTime, ans : Answers]]
      /\ \A k \in Keys : Right(k, cache[k])'
  <2>1. CASE Keeps(h) /\ cache' = [cache EXCEPT ![KeyOf(h)] = Entry(h)]
    BY <1>1, <2>1, EntryRight DEF Inv, Typed, Right
  <2>2. CASE UNCHANGED cache
    BY <2>2, CacheSame
  <2> QED
    BY <2>1, <2>2 DEF Store
<1> QED
  BY <1>2, <1>3 DEF HandlersInv, Inv, Typed

(* The handler is done.                                                    *)
LEMMA FinishInv ==
  ASSUME Inv, NEW h \in Handlers, Finish(h)
  PROVE  Inv'
BY ResetSound DEF Finish

(* Time passes: what is kept gets older as fast as it loses time to live,  *)
(* and what a handler got from a node only as long as Latency allows.      *)
LEMMA TickInv ==
  ASSUME Inv, Tick
  PROVE  Inv'
<1>1. ASSUME NEW a \in Answers
      PROVE  /\ Older(a) \in Answers /\ Older(a).age = a.age + 1
             /\ Older(a).status = a.status /\ Older(a).q = a.q /\ Older(a).id = a.id
  BY DEF Older, Answers
<1>2. ans' \in [Handlers -> Answers]
  BY <1>1 DEF Tick, Inv, Typed
<1>3. ASSUME NEW h \in Handlers PROVE Sound(h)'
  <2>1. Sound(h) /\ pc'[h] = pc[h] /\ body'[h] = body[h] /\ ans[h] \in Answers
    BY DEF Inv, Typed, Tick
  <2>2. CASE pc[h] = "store"
    <3>1. ans'[h] = Older(ans[h]) /\ ans[h].age < Latency
      BY <2>2 DEF Tick
    <3>2. ans'[h].age <= Latency
      BY <2>1, <3>1, <1>1, BoundsAssumption DEF Answers
    <3>3. ans'[h].age <= CacheTime + Latency
      BY <2>1, <3>1, <3>2, <1>1, BoundsAssumption DEF Answers
    <3> QED
      BY <2>1, <3>1, <3>2, <3>3, <1>1 DEF Sound, Own, Call
  <2>3. CASE pc[h] # "store"
    <3>1. ans'[h] = ans[h]
      BY <2>3 DEF Tick
    <3> QED
      BY <2>1, <3>1 DEF Sound, Own, Call
  <2> QED
    BY <2>2, <2>3
<1>4. ASSUME NEW k \in Keys
      PROVE  /\ cache'[k] \in [left : 0 .. CacheTime, ans : Answers]
             /\ Right(k, cache'[k])
  <2>1. cache[k] \in [left : 0 .. CacheTime, ans : Answers] /\ Right(k, cache[k])
    BY DEF Inv, Typed
  <2>2. CASE cache[k].left <= 1
    <3>1. cache'[k] = Empty
      BY <2>2 DEF Tick
    <3> QED
      BY <3>1, NothingTyped, BoundsAssumption DEF Empty, Right
  <2>3. CASE ~(cache[k].left <= 1)
    <3> DEFINE e == [left |-> cache[k].left - 1, ans |-> Older(cache[k].ans)]
    <3>1. cache'[k] = e
      BY <2>3 DEF Tick
    <3>2. e.left = cache[k].left - 1 /\ e.ans = Older(cache[k].ans)
      OBVIOUS
    <3>3. e \in [left : 0 .. CacheTime, ans : Answers]
      BY <2>1, <2>3, <1>1, BoundsAssumption
    <3>4. e.ans.age + e.left = cache[k].ans.age + cache[k].left
      BY <2>1, <3>2, <1>1, BoundsAssumption DEF Answers
    <3> HIDE DEF e
    <3> QED
      BY <2>1, <2>3, <3>1, <3>2, <3>3, <3>4, <1>1, BoundsAssumption DEF Right
  <2> QED
    BY <2>2, <2>3
<1>5. cache' \in [Keys -> [left : 0 .. CacheTime, ans : Answers]]
  <2>1. cache' = [k \in Keys |-> cache'[k]]
    BY DEF Tick
  <2> QED
    BY <1>4, <2>1
<1> QED
  BY <1>2, <1>3, <1>4, <1>5 DEF Inv, Typed, Tick, Right

----
(* Every step keeps the invariant.                                         *)
LEMMA NextInv == Inv /\ [Next]_vars => Inv'
<1> SUFFICES ASSUME Inv, [Next]_vars PROVE Inv'
  OBVIOUS
<1>1. CASE \E h \in Handlers, a \in Accounts, b \in Bodies : Arrive(h, a, b)
  BY <1>1, ArriveInv
<1>2. ASSUME NEW h \in Handlers, Step(h) PROVE Inv'
  BY <1>2, BindInv, BindOthersInv, LimitInv, LookupInv, CallInv, StoreInv, FinishInv
     DEF Step
<1>3. CASE Tick
  BY <1>3, TickInv
<1>4. CASE UNCHANGED vars
  BY <1>4 DEF vars, handler, Inv, Typed, Sound, Own, Call, Right
<1> QED
  BY <1>1, <1>2, <1>3, <1>4 DEF Next

(* The inductive invariant holds in every run.                             *)
THEOREM InvHolds == Spec => []Inv
BY InitInv, NextInv, PTL DEF Spec

(* Whatever handlers share the cache, a reply is the answer of a node to   *)
(* the question of its own request, under its own id.                      *)
THEOREM OwnAnswerHolds == Spec => []OwnAnswer
<1>1. Inv => OwnAnswer
  BY DEF Inv, Sound, Own, OwnAnswer
<1> QED
  BY <1>1, InvHolds, PTL

(* Nothing kept, found or replied is older than the time it may be kept    *)
(* and the time it took to get there.                                      *)
THEOREM FreshHolds == Spec => []Fresh
<1>1. Inv => Fresh
  BY DEF Inv, Sound, Right, Fresh
<1> QED
  BY <1>1, InvHolds, PTL
----
(* The other types.                                                        *)
Others ==
  /\ who \in [Handlers -> Accounts \cup {NoAccount}]
  /\ spent \in [Accounts -> 0 .. Quota]
  /\ erigon \in [total : Nat, lost : Nat, sent : Nat]
  /\ arrived \in 0 .. MaxRequests
  /\ work \in [Accounts -> Nat]

LEMMA InitOthers == Init => Others
BY BoundsAssumption DEF Init, Others

(* The calls of a body that is past bind can be counted.                   *)
LEMMA LenIsNat ==
  ASSUME NEW h, body[h] \in Bodies
  PROVE  Len(body[h].calls) \in Nat /\ Cost(h) \in Nat /\ Size(h) \in Nat
<1>1. Len(body[h].calls) \in Nat BY BodiesAssumption
<1> QED BY <1>1 DEF Cost, Size

LEMMA WorkTyped ==
  ASSUME Inv, Others, NEW h \in Handlers, pc[h] \in {"lookup", "call"}, Work(h)
  PROVE  work' \in [Accounts -> Nat]
<1>1. Len(body[h].calls) \in Nat BY PastBind, LenIsNat
<1> DEFINE n == Len(body[h].calls)
<1>2. work' = work \/ work' = [work EXCEPT ![who[h]] = @ + n] BY DEF Work
<1>3. n \in Nat BY <1>1
<1> HIDE DEF n
<1> QED BY <1>2, <1>3 DEF Others

LEMMA CountErigonTyped ==
  ASSUME Inv, Others, NEW h \in Handlers, body[h] \in Bodies, CountErigon(h)
  PROVE  erigon' \in [total : Nat, lost : Nat, sent : Nat]
<1>1. Size(h) \in Nat BY LenIsNat
<1>2. IsFiniteSet(DOMAIN body[h].calls)
  <2>1. body[h].calls \in Seq(Questions) BY BodiesAssumption
  <2>2. DOMAIN body[h].calls = 1 .. Len(body[h].calls) /\ Len(body[h].calls) \in Nat BY <2>1
  <2> QED BY <2>2, FS_Interval
<1>3. Cardinality(Seen(h)) \in Nat
  <2>1. Seen(h) \subseteq DOMAIN body[h].calls BY DEF Seen, ErigonCalls
  <2> QED BY <1>2, <2>1, FS_Subset, FS_CardinalityType
<1> DEFINE seen == Cardinality(Seen(h))
<1> HIDE DEF seen
<1>4. PICK done \in 0 .. seen :
        erigon' = [erigon EXCEPT !.total = @ + done * Size(h),
                                 !.lost = @ + (seen - done) * Size(h)]
  BY DEF CountErigon, seen
<1>5. seen \in Nat BY <1>3 DEF seen
<1>6. done * Size(h) \in Nat /\ (seen - done) * Size(h) \in Nat
  <2>1. done \in Nat /\ seen - done \in Nat BY <1>4, <1>5
  <2>2. \A x, y \in Nat : x * y \in Nat OBVIOUS
  <2> HIDE DEF Size
  <2> QED BY <1>1, <2>1, <2>2
<1>7. PICK x \in Nat, y \in Nat :
        erigon' = [erigon EXCEPT !.total = @ + x, !.lost = @ + y]
  BY <1>4, <1>6
<1>8. erigon \in [total : Nat, lost : Nat, sent : Nat] BY DEF Others
<1>9. erigon.total + x \in Nat /\ erigon.lost + y \in Nat BY <1>8
<1>10. erigon' = [[erigon EXCEPT !.total = erigon.total + x] EXCEPT !.lost = erigon.lost + y]
  BY <1>7, <1>8
<1> QED BY <1>8, <1>9, <1>10

LEMMA StepOthers == Inv /\ Others /\ [Next]_vars => Others'
<1> SUFFICES ASSUME Inv, Others, [Next]_vars PROVE Others' OBVIOUS
<1>1. ASSUME NEW h \in Handlers, NEW a \in Accounts, NEW b \in Bodies, Arrive(h, a, b)
      PROVE  Others'
  BY <1>1, BoundsAssumption DEF Arrive, Others
<1>2. CASE Tick BY <1>2 DEF Tick, Others
<1>3. CASE UNCHANGED vars BY <1>3 DEF vars, handler, Others
<1>4. ASSUME NEW h \in Handlers, Step(h) PROVE Others'
  <2>1. who' \in [Handlers -> Accounts \cup {NoAccount}]
    BY <1>4 DEF Step, Bind, BindFails, BindPanics, Admit, Refuse, Hit, Miss, LookupFails,
       CallNode, CallFails, Store, Finish, Replies, Fail, Reply, Reset, Goto, Others
  <2>2. arrived' \in 0 .. MaxRequests
    BY <1>4 DEF Step, Bind, BindFails, BindPanics, Admit, Refuse, Hit, Miss, LookupFails,
       CallNode, CallFails, Store, Finish, Others
  <2>3. spent' \in [Accounts -> 0 .. Quota]
    <3>1. CASE Admit(h)
      <4>1. Cost(h) \in Nat BY <3>1, PastBind, LenIsNat DEF Admit
      <4>2. CASE UNCHANGED spent BY <4>2 DEF Others
      <4>3. CASE /\ spent[who[h]] + Cost(h) <= Quota
                 /\ spent' = [spent EXCEPT ![who[h]] = @ + Cost(h)]
        <5> DEFINE n == Cost(h)
        <5>1. spent' = [spent EXCEPT ![who[h]] = @ + n] /\ spent[who[h]] + n <= Quota BY <4>3
        <5>2. n \in Nat BY <4>1
        <5>3. spent \in [Accounts -> 0 .. Quota] BY DEF Others
        <5> HIDE DEF n
        <5>4. who[h] \in Accounts => spent[who[h]] + n \in 0 .. Quota
          BY <5>1, <5>2, <5>3, BoundsAssumption
        <5> QED BY <5>1, <5>3, <5>4
      <4> QED BY <3>1, <4>2, <4>3 DEF Admit
    <3>2. CASE UNCHANGED spent BY <3>2 DEF Others
    <3> QED BY <1>4, <3>1, <3>2
        DEF Step, Bind, BindFails, BindPanics, Refuse, Hit, Miss, LookupFails, CallNode,
            CallFails, Store, Finish
  <2>4. work' \in [Accounts -> Nat]
    <3>1. CASE Hit(h) \/ CallNode(h) BY <3>1, WorkTyped DEF Hit, CallNode
    <3>2. CASE UNCHANGED work BY <3>2 DEF Others
    <3> QED BY <1>4, <3>1, <3>2
        DEF Step, Bind, BindFails, BindPanics, Admit, Refuse, Miss, LookupFails, CallFails,
            Store, Finish
  <2>5. erigon' \in [total : Nat, lost : Nat, sent : Nat]
    <3>1. CASE Bind(h)
      <4>1. body[h] \in Bodies BY <3>1 DEF Bind, Inv, Typed, NoBody
      <4> QED BY <3>1, <4>1, CountErigonTyped DEF Bind
    <3>2. CASE CallNode(h)
      <4>1. Len(body[h].calls) \in Nat BY <3>2, PastBind, LenIsNat DEF CallNode
      <4> QED BY <3>2, <4>1 DEF CallNode, Others
    <3>3. CASE UNCHANGED erigon BY <3>3 DEF Others
    <3> QED BY <1>4, <3>1, <3>2, <3>3
        DEF Step, BindFails, BindPanics, Admit, Refuse, Hit, Miss, LookupFails, CallFails,
            Store, Finish
  <2> QED BY <2>1, <2>2, <2>3, <2>4, <2>5 DEF Others
<1> QED BY <1>1, <1>2, <1>3, <1>4 DEF Next

(* The types, for any handlers, accounts, bodies, lists of methods, quota. *)
THEOREM TypeCorrect == Spec => []TypeOK
<1>1. Inv /\ Others => TypeOK BY DEF Inv, Typed, Stages, Others, TypeOK
<1> QED BY <1>1, InvHolds, InitOthers, StepOthers, PTL DEF Spec
----
(* What is not allowed.                                                    *)

(* A handler past bind has no call that is not allowed.                    *)
Past(h) ==
  \/ pc[h] \in {"limit", "lookup", "call", "store"}
  \/ pc[h] = "replied" /\ ans[h].status \in Said \cup {"batch"}
Checked == \A h \in Handlers : Past(h) => Bad(h) = {}

(* Who goes on was past bind before, and keeps body and account.           *)
GoesOn(g) ==
  Past(g)' => /\ Past(g) \/ Bad(g) = {}
              /\ body'[g] = body[g] /\ who'[g] = who[g]

LEMMA CheckedKept ==
  ASSUME Checked, \A g \in Handlers : GoesOn(g)
  PROVE  Checked'
BY DEF Checked, GoesOn, Bad, Forbidden

LEMMA StepGoesOn ==
  ASSUME Inv, Others, NEW h \in Handlers, Step(h), NEW g \in Handlers
  PROVE  GoesOn(g)
<1> USE DEF Inv, Typed, Others
<1>1. CASE g # h
  <2>1. pc'[g] = pc[g] /\ ans'[g] = ans[g] /\ body'[g] = body[g] /\ who'[g] = who[g]
    BY <1>1 DEF Step, Bind, BindFails, BindPanics, Admit, Refuse, Hit, Miss, LookupFails,
       CallNode, CallFails, Store, Finish, Replies, Fail, Reply, Reset, Goto
  <2> QED BY <2>1 DEF GoesOn, Past
<1>2. ASSUME NEW s \in {"refused", "failed"}, Fail(h, s) PROVE GoesOn(h)
  <2>1. pc'[h] = "replied" /\ ans'[h].status = s
    BY <1>2 DEF Fail, Reply, Ans
  <2> QED BY <2>1 DEF GoesOn, Past, Said
<1>3. ASSUME Reset(h) PROVE GoesOn(h)
  <2>1. pc'[h] = "idle" BY <1>3 DEF Reset
  <2> QED BY <2>1 DEF GoesOn, Past
<1>4. ASSUME Past(h) \/ Bad(h) = {}, UNCHANGED <<body, who>> PROVE GoesOn(h)
  BY <1>4 DEF GoesOn
<1>5. ASSUME Bind(h) PROVE GoesOn(h)
  BY <1>2, <1>4, <1>5 DEF Bind, Goto
<1>6. ASSUME \/ BindFails(h) \/ BindPanics(h) \/ Refuse(h) \/ LookupFails(h)
             \/ CallFails(h) \/ Finish(h)
      PROVE  GoesOn(h)
  BY <1>2, <1>3, <1>6 DEF BindFails, BindPanics, Refuse, LookupFails, CallFails, Finish
<1>7. ASSUME Admit(h) \/ Hit(h) \/ Miss(h) \/ CallNode(h) \/ Store(h)
      PROVE  GoesOn(h)
  BY <1>4, <1>7 DEF Admit, Hit, Miss, CallNode, Store, Replies, Fail, Reply, Goto, Past
<1>8. CASE g = h BY <1>5, <1>6, <1>7, <1>8 DEF Step
<1> QED BY <1>1, <1>8

LEMMA OthersGoOn ==
  ASSUME Inv, Others, NEW g \in Handlers,
         \/ \E h \in Handlers, a \in Accounts, b \in Bodies : Arrive(h, a, b)
         \/ Tick \/ UNCHANGED vars
  PROVE  GoesOn(g)
<1> USE DEF Inv, Typed, Others
<1>1. ASSUME NEW h \in Handlers, NEW a \in Accounts, NEW b \in Bodies, Arrive(h, a, b)
      PROVE  GoesOn(g)
  <2>1. ans'[g] = ans[g] /\ (g = h => pc'[g] = "bind")
        /\ (g # h => pc'[g] = pc[g] /\ body'[g] = body[g] /\ who'[g] = who[g])
    BY <1>1 DEF Arrive
  <2> QED BY <2>1 DEF GoesOn, Past
<1>2. CASE Tick
  <2>1. UNCHANGED <<pc, body, who>> /\ (pc[g] = "replied" => ans'[g] = ans[g])
    BY <1>2 DEF Tick
  <2> QED BY <2>1 DEF GoesOn, Past
<1>3. CASE UNCHANGED vars BY <1>3 DEF vars, handler, GoesOn, Past
<1> QED BY <1>1, <1>2, <1>3

LEMMA StepChecked == Inv /\ Others /\ Checked /\ [Next]_vars => Checked'
BY StepGoesOn, OthersGoOn, CheckedKept DEF Next

(* No answer of a node or the cache goes to a request with a call that is  *)
(* not allowed, be it one of a batch.                                      *)
THEOREM RestrictedHolds == Spec => []Restricted
<1>1. Init => Checked BY DEF Init, Checked, Past
<1>2. Checked => Restricted BY DEF Checked, Past, Restricted, Bad
<1> QED BY <1>1, <1>2, InvHolds, InitOthers, StepOthers, StepChecked, PTL DEF Spec
----
(* What is charged and what is counted ahead.                              *)

(* The calls each handler was charged for to an account, and may still get *)
(* an answer for; those it announced to erigon's counter and may send.     *)
Due(h, a) == IF pc[h] \in {"lookup", "call"} /\ who[h] = a THEN Len(body[h].calls) ELSE 0
DueErigon(h) ==
  IF pc[h] \in {"limit", "lookup", "call"} /\ ErigonCalls(h) # {} THEN Len(body[h].calls) ELSE 0

Asked(a) == SumFunctionOnSet([h \in Handlers |-> Due(h, a)], Handlers)
ToErigon == SumFunctionOnSet([h \in Handlers |-> DueErigon(h)], Handlers)

Charged == \A a \in Accounts \ White : work[a] + Asked(a) <= spent[a]
Announced == erigon.sent + ToErigon <= erigon.total + erigon.lost

Well == Inv /\ Others

LEMMA WellInvariant == Spec => []Well
BY InvHolds, InitOthers, StepOthers, PTL DEF Spec, Well

LEMMA DueNat ==
  Well => \A g \in Handlers : DueErigon(g) \in Nat /\ \A b \in Accounts : Due(g, b) \in Nat
<1> SUFFICES ASSUME Well, NEW g \in Handlers
             PROVE  DueErigon(g) \in Nat /\ \A b \in Accounts : Due(g, b) \in Nat
  OBVIOUS
<1>1. pc[g] \in {"limit", "lookup", "call"} => Len(body[g].calls) \in Nat
  BY PastBind, LenIsNat DEF Well
<1> QED  BY <1>1 DEF Due, DueErigon

LEMMA AskedFacts ==
  ASSUME Well, Well', NEW h \in Handlers, NEW a \in Accounts,
         \A g \in Handlers \ {h} : Due(g, a)' = Due(g, a)
  PROVE  /\ Asked(a) \in Nat /\ Due(h, a) \in Nat /\ Due(h, a)' \in Nat
         /\ Asked(a)' = Asked(a) - Due(h, a) + Due(h, a)'
<1> PICK f : f = [g \in Handlers |-> Due(g, a)]
  OBVIOUS
<1> PICK k : k = [g \in Handlers |-> Due(g, a)']
  OBVIOUS
<1>1. Well' => (\A g \in Handlers : DueErigon(g) \in Nat /\ \A b \in Accounts : Due(g, b) \in Nat)'
  BY DueNat, PTL
<1>2. \A g \in Handlers : f[g] \in Nat /\ k[g] \in Nat
  BY <1>1, DueNat
<1>3. \A g \in Handlers \ {h} : f[g] = k[g]
  OBVIOUS
<1>4. /\ SumFunctionOnSet(f, Handlers) \in Nat
      /\ SumFunctionOnSet(k, Handlers) = SumFunctionOnSet(f, Handlers) - f[h] + k[h]
  BY <1>2, <1>3, HttpHandlersAssumption, SumStep
<1>5. Asked(a) = SumFunctionOnSet(f, Handlers) /\ Asked(a)' = SumFunctionOnSet(k, Handlers)
  BY DEF Asked
<1> QED  BY <1>2, <1>4, <1>5

LEMMA ToErigonFacts ==
  ASSUME Well, Well', NEW h \in Handlers,
         \A g \in Handlers \ {h} : DueErigon(g)' = DueErigon(g)
  PROVE  /\ ToErigon \in Nat /\ DueErigon(h) \in Nat /\ DueErigon(h)' \in Nat
         /\ ToErigon' = ToErigon - DueErigon(h) + DueErigon(h)'
<1> PICK f : f = [g \in Handlers |-> DueErigon(g)]
  OBVIOUS
<1> PICK k : k = [g \in Handlers |-> DueErigon(g)']
  OBVIOUS
<1>1. Well' => (\A g \in Handlers : DueErigon(g) \in Nat /\ \A b \in Accounts : Due(g, b) \in Nat)'
  BY DueNat, PTL
<1>2. \A g \in Handlers : f[g] \in Nat /\ k[g] \in Nat
  BY <1>1, DueNat
<1>3. \A g \in Handlers \ {h} : f[g] = k[g]
  OBVIOUS
<1>4. /\ SumFunctionOnSet(f, Handlers) \in Nat
      /\ SumFunctionOnSet(k, Handlers) = SumFunctionOnSet(f, Handlers) - f[h] + k[h]
  BY <1>2, <1>3, HttpHandlersAssumption, SumStep
<1>5. ToErigon = SumFunctionOnSet(f, Handlers) /\ ToErigon' = SumFunctionOnSet(k, Handlers)
  BY DEF ToErigon
<1> QED  BY <1>2, <1>4, <1>5

(* A step of one handler leaves what is due to the others.                 *)
LEMMA OthersDue ==
  ASSUME Well, NEW h \in Handlers, NEW g \in Handlers \ {h},
         Step(h) \/ \E a \in Accounts, b \in Bodies : Arrive(h, a, b)
  PROVE  DueErigon(g)' = DueErigon(g) /\ \A a \in Accounts : Due(g, a)' = Due(g, a)
<1>1. pc'[g] = pc[g] /\ body'[g] = body[g] /\ who'[g] = who[g]
  BY DEF Well, Inv, Typed, Others, Step, Arrive, Bind, BindFails, BindPanics, Admit, Refuse, Hit,
     Miss, LookupFails, CallNode, CallFails, Store, Finish, Replies, Fail, Reply, Reset, Goto
<1> QED  BY <1>1 DEF Due, DueErigon, ErigonCalls

(* A handler that replies or is done, or has just begun, owes nothing.     *)
LEMMA NothingDue ==
  ASSUME Well, NEW h \in Handlers,
         pc'[h] \notin {"limit", "lookup", "call"}
  PROVE  DueErigon(h)' = 0 /\ \A a \in Accounts : Due(h, a)' = 0
BY DEF DueErigon, Due

(* The steps that charge nothing, count nothing and send nothing, or end.  *)
LEMMA QuietStep ==
  ASSUME Well, Well', NEW h \in Handlers,
         \/ \E a \in Accounts, b \in Bodies : Arrive(h, a, b)
         \/ BindFails(h) \/ BindPanics(h) \/ Refuse(h) \/ Miss(h) \/ LookupFails(h)
         \/ CallFails(h) \/ Store(h) \/ Finish(h)
  PROVE  /\ UNCHANGED <<spent, erigon, work>>
         /\ DueErigon(h)' <= DueErigon(h)
         /\ \A a \in Accounts : Due(h, a)' <= Due(h, a)
<1>1. UNCHANGED <<spent, erigon, work>>
  BY DEF Arrive, BindFails, BindPanics, Refuse, Miss, LookupFails, CallFails, Store, Finish
<1>2. DueErigon(h) \in Nat /\ \A a \in Accounts : Due(h, a) \in Nat
  BY DueNat
<1>3. CASE Miss(h)
  <2>1. pc[h] = "lookup" /\ pc'[h] = "call" /\ body' = body /\ who' = who
    BY <1>3 DEF Miss, Goto, Well, Inv, Typed
  <2>2. DueErigon(h)' = DueErigon(h) /\ \A a \in Accounts : Due(h, a)' = Due(h, a)
    BY <2>1 DEF Due, DueErigon, ErigonCalls
  <2> QED  BY <1>1, <1>2, <2>2
<1>4. CASE ~Miss(h)
  <2>1. pc'[h] \notin {"limit", "lookup", "call"}
    BY <1>4 DEF Well, Inv, Typed, Arrive, BindFails, BindPanics, Refuse, LookupFails, CallFails,
       Store, Finish, Replies, Fail, Reply, Reset
  <2>2. DueErigon(h)' = 0 /\ \A a \in Accounts : Due(h, a)' = 0
    BY <2>1, NothingDue
  <2> QED  BY <1>1, <1>2, <2>2
<1> QED  BY <1>3, <1>4

(* The units charged stay ahead of the calls answered.                     *)
LEMMA AdmitCharges ==
  ASSUME Well, Well', Charged, NEW h \in Handlers, Admit(h), NEW a \in Accounts \ White
  PROVE  work'[a] + Asked(a)' <= spent'[a]
<1>1. /\ pc[h] = "limit" /\ pc'[h] = "lookup" /\ body' = body /\ who' = who /\ work' = work
      /\ who[h] \in White => spent' = spent
      /\ who[h] \notin White => spent' = [spent EXCEPT ![who[h]] = @ + Cost(h)]
      /\ spent \in [Accounts -> 0 .. Quota] /\ work \in [Accounts -> Nat]
  BY DEF Admit, Goto, Well, Inv, Typed, Others
<1>2. Len(body[h].calls) \in Nat /\ Cost(h) \in Nat /\ Len(body[h].calls) <= Cost(h)
  <2>1. Len(body[h].calls) \in Nat /\ Cost(h) \in Nat /\ body[h].calls \in Seq(Questions)
    BY <1>1, PastBind, LenIsNat, BodiesAssumption DEF Well
  <2> QED  BY <2>1 DEF Cost
<1> PICK n \in Nat : n = Len(body[h].calls)
  BY <1>2
<1> PICK c \in Nat : c = Cost(h)
  BY <1>2
<1>3. Due(h, a) = 0 /\ Due(h, a)' = IF who[h] = a THEN n ELSE 0
  BY <1>1 DEF Due
<1>4. Asked(a) \in Nat /\ Asked(a)' = Asked(a) - Due(h, a) + Due(h, a)'
  <2>1. \A g \in Handlers \ {h} : Due(g, a)' = Due(g, a)
    BY OthersDue DEF Step
  <2> QED  BY <2>1, AskedFacts
<1>5. spent'[a] = IF who[h] = a THEN spent[a] + c ELSE spent[a]
  BY <1>1
<1>6. work[a] + Asked(a) <= spent[a] /\ work[a] \in Nat /\ spent[a] \in Nat /\ n <= c
  BY <1>1, <1>2, BoundsAssumption DEF Charged
<1> QED  BY <1>1, <1>3, <1>4, <1>5, <1>6

LEMMA WorkCharged ==
  ASSUME Well, Well', Charged, NEW h \in Handlers, Hit(h) \/ CallNode(h),
         NEW a \in Accounts \ White
  PROVE  work'[a] + Asked(a)' <= spent'[a]
<1>1. /\ pc[h] \in {"lookup", "call"} /\ pc'[h] \notin {"limit", "lookup", "call"}
      /\ spent' = spent /\ Work(h)
      /\ spent \in [Accounts -> 0 .. Quota] /\ work \in [Accounts -> Nat]
  BY DEF Hit, CallNode, Reply, Well, Inv, Typed, Others
<1>2. Len(body[h].calls) \in Nat
  BY <1>1, PastBind, LenIsNat DEF Well
<1> PICK n \in Nat : n = Len(body[h].calls)
  BY <1>2
<1>3. Due(h, a) = (IF who[h] = a THEN n ELSE 0) /\ Due(h, a)' = 0
  BY <1>1, NothingDue DEF Due
<1>4. Asked(a) \in Nat /\ Asked(a)' = Asked(a) - Due(h, a) + Due(h, a)'
  <2>1. \A g \in Handlers \ {h} : Due(g, a)' = Due(g, a)
    BY OthersDue DEF Step
  <2> QED  BY <2>1, AskedFacts
<1>5. work'[a] <= IF who[h] = a THEN work[a] + n ELSE work[a]
  <2>1. work' = work \/ work' = [work EXCEPT ![who[h]] = @ + n]
    BY <1>1 DEF Work
  <2> QED  BY <1>1, <2>1
<1>6. work[a] + Asked(a) <= spent[a] /\ work[a] \in Nat /\ spent[a] \in Nat /\ work'[a] \in Nat
  BY <1>1, BoundsAssumption DEF Charged, Well, Others
<1> QED  BY <1>1, <1>3, <1>4, <1>5, <1>6

(* What is counted for erigon and what is not add up to the calls of the   *)
(* body, once or more.                                                     *)
LEMMA Products ==
  ASSUME NEW n \in Nat, NEW c \in Nat, NEW d \in 0 .. c
  PROVE  d * n \in Nat /\ (c - d) * n \in Nat /\ (c # 0 => n <= d * n + (c - d) * n)
<1>1. \A p, q \in Nat : p * q \in Nat
  OBVIOUS
<1> PICK e \in Nat : e = c - d
  OBVIOUS
<1>2. d \in Nat /\ d * n \in Nat /\ e * n \in Nat
  BY <1>1
<1>3. c # 0 => n <= d * n + e * n
  <2> SUFFICES ASSUME c # 0 PROVE n <= d * n + e * n
    OBVIOUS
  <2>1. CASE d # 0
    <3> PICK k \in Nat : k = d - 1
      BY <2>1
    <3>1. k * n \in Nat
      BY <1>1
    <3>2. \A p, q \in Nat : (p + 1) * q = p * q + q
      OBVIOUS
    <3>3. d * n = k * n + n
      <4>1. d = k + 1
        BY <1>2
      <4> QED  BY <3>2, <4>1
    <3> QED  BY <1>2, <3>1, <3>3
  <2>2. CASE e # 0
    <3> PICK k \in Nat : k = e - 1
      BY <2>2
    <3>1. k * n \in Nat
      BY <1>1
    <3>2. \A p, q \in Nat : (p + 1) * q = p * q + q
      OBVIOUS
    <3>3. e * n = k * n + n
      <4>1. e = k + 1
        OBVIOUS
      <4> QED  BY <3>2, <4>1
    <3> QED  BY <1>2, <3>1, <3>3
  <2> QED  BY <2>1, <2>2
<1> QED  BY <1>2, <1>3

(* The units counted for erigon stay ahead of the calls sent.              *)
LEMMA BindAnnounces ==
  ASSUME Well, Well', Announced, NEW h \in Handlers, Bind(h)
  PROVE  Announced'
<1>1. /\ pc[h] = "bind" /\ CountErigon(h) /\ body' = body /\ who' = who
      /\ body[h] \in Bodies
      /\ erigon \in [total : Nat, lost : Nat, sent : Nat]
  BY DEF Bind, Fail, Reply, Goto, Well, Inv, Typed, Others, NoBody
<1>2. Len(body[h].calls) \in Nat /\ IsFiniteSet(DOMAIN body[h].calls)
  <2>1. body[h].calls \in Seq(Questions)
    BY <1>1, BodiesAssumption
  <2>2. DOMAIN body[h].calls = 1 .. Len(body[h].calls) /\ Len(body[h].calls) \in Nat
    BY <2>1
  <2> QED  BY <2>2, FS_Interval
<1>3. Seen(h) \subseteq DOMAIN body[h].calls
  BY DEF Seen, ErigonCalls
<1>4. IsFiniteSet(Seen(h))
  BY <1>2, <1>3, FS_Subset
<1> PICK n \in Nat : n = Len(body[h].calls)
  BY <1>2
<1> PICK c \in Nat : c = Cardinality(Seen(h))
  BY <1>4, FS_CardinalityType
<1>5. PICK done \in 0 .. c :
        erigon' = [erigon EXCEPT !.total = @ + done * n, !.lost = @ + (c - done) * n]
  BY <1>1 DEF CountErigon, Size
<1>6. PICK x \in Nat, y \in Nat :
        x = done * n /\ y = (c - done) * n /\ (c # 0 => n <= x + y)
  <2>1. /\ done * n \in Nat /\ (c - done) * n \in Nat
        /\ c # 0 => n <= done * n + (c - done) * n
    BY Products, Zenon
  <2> QED  BY <2>1, Zenon
<1>7. c # 0 => n <= x + y
  BY <1>6
<1>8. /\ erigon'.total = erigon.total + x /\ erigon'.lost = erigon.lost + y
      /\ erigon'.sent = erigon.sent
      /\ erigon.total \in Nat /\ erigon.lost \in Nat /\ erigon.sent \in Nat
  <2>1. erigon' = [erigon EXCEPT !.total = @ + x, !.lost = @ + y]
    BY <1>5, <1>6, Zenon
  <2> QED  BY <1>1, <2>1
<1>9. DueErigon(h)' <= x + y /\ DueErigon(h)' \in Nat
  <2>1. CASE Bad(h) = {}
    <3>1. pc'[h] = "limit"
      BY <2>1 DEF Bind, Goto, Well, Inv, Typed
    <3>2. Seen(h) = ErigonCalls(h)
      BY <2>1 DEF Seen
    <3>3. DueErigon(h)' = IF Seen(h) # {} THEN n ELSE 0
      BY <1>1, <3>1, <3>2 DEF DueErigon, ErigonCalls
    <3>4. Seen(h) # {} => c # 0
      BY <1>4, FS_EmptySet
    <3> QED  BY <1>7, <3>3, <3>4
  <2>2. CASE Bad(h) # {}
    <3>1. pc'[h] = "replied"
      BY <2>2 DEF Bind, Fail, Reply, Well, Inv, Typed
    <3>2. DueErigon(h)' = 0
      BY <3>1, NothingDue
    <3> QED  BY <1>7, <3>2
  <2> QED  BY <2>1, <2>2
<1>10. DueErigon(h) = 0
  BY <1>1 DEF DueErigon
<1>11. ToErigon \in Nat /\ ToErigon' = ToErigon - DueErigon(h) + DueErigon(h)'
  <2>1. \A g \in Handlers \ {h} : DueErigon(g)' = DueErigon(g)
    BY OthersDue DEF Step
  <2> QED  BY <2>1, ToErigonFacts
<1>12. erigon.sent + ToErigon <= erigon.total + erigon.lost
  BY DEF Announced
<1>13. erigon'.sent + ToErigon' <= erigon'.total + erigon'.lost
  <2>1. ToErigon' = ToErigon + DueErigon(h)'
    BY <1>9, <1>10, <1>11
  <2>2. ToErigon' <= ToErigon + x + y
    BY <1>7, <1>9, <1>11, <2>1
  <2>3. erigon'.total + erigon'.lost = erigon.total + erigon.lost + x + y
    BY <1>7, <1>8
  <2>4. ToErigon' \in Nat
    BY <1>9, <1>11, <2>1
  <2>5. \A s, t, u, v \in Nat : s + t <= v /\ u <= t + x + y => s + u <= v + x + y
    BY <1>7
  <2>6. erigon.total + erigon.lost \in Nat
    BY <1>8
  <2>7. erigon.sent + ToErigon' <= (erigon.total + erigon.lost) + x + y
    BY <1>8, <1>11, <1>12, <2>2, <2>4, <2>5, <2>6
  <2> QED  BY <1>8, <2>3, <2>7
<1> QED  BY <1>13 DEF Announced

LEMMA SendAnnounced ==
  ASSUME Well, Well', Announced, NEW h \in Handlers, Hit(h) \/ CallNode(h) \/ Admit(h)
  PROVE  Announced'
<1>1. ToErigon \in Nat /\ ToErigon' = ToErigon - DueErigon(h) + DueErigon(h)'
      /\ DueErigon(h) \in Nat /\ DueErigon(h)' \in Nat
  <2>1. \A g \in Handlers \ {h} : DueErigon(g)' = DueErigon(g)
    BY OthersDue DEF Step
  <2> QED  BY <2>1, ToErigonFacts
<1>2. erigon \in [total : Nat, lost : Nat, sent : Nat]
  BY DEF Well, Others
<1>3. erigon.sent + ToErigon <= erigon.total + erigon.lost
  BY DEF Announced
<1>4. CASE Hit(h)
  <2>1. erigon' = erigon /\ pc'[h] = "replied"
    BY <1>4 DEF Hit, Reply, Well, Inv, Typed
  <2>2. DueErigon(h)' = 0
    BY <2>1, NothingDue
  <2> QED  BY <1>1, <1>2, <1>3, <2>1, <2>2 DEF Announced
<1>5. CASE Admit(h)
  <2>1. erigon' = erigon /\ pc[h] = "limit" /\ pc'[h] = "lookup" /\ body' = body
    BY <1>5 DEF Admit, Goto, Well, Inv, Typed
  <2>2. DueErigon(h)' = DueErigon(h)
    BY <2>1 DEF DueErigon, ErigonCalls
  <2> QED  BY <1>1, <1>2, <1>3, <2>1, <2>2 DEF Announced
<1>6. CASE CallNode(h)
  <2>1. /\ pc[h] = "call" /\ pc'[h] = "store"
        /\ erigon' = IF ErigonCalls(h) = {} THEN erigon
                     ELSE [erigon EXCEPT !.sent = @ + Len(body[h].calls)]
    BY <1>6 DEF CallNode, Well, Inv, Typed
  <2>2. DueErigon(h)' = 0
    BY <2>1, NothingDue
  <2>3. Len(body[h].calls) \in Nat
    BY <2>1, PastBind, LenIsNat DEF Well
  <2> PICK n \in Nat : n = Len(body[h].calls)
    BY <2>3
  <2>4. DueErigon(h) = IF ErigonCalls(h) = {} THEN 0 ELSE n
    BY <2>1 DEF DueErigon
  <2>5. /\ erigon'.sent = erigon.sent + DueErigon(h)
        /\ erigon'.total = erigon.total /\ erigon'.lost = erigon.lost
    BY <1>2, <2>1, <2>4
  <2> QED  BY <1>1, <1>2, <1>3, <2>2, <2>5 DEF Announced
<1> QED  BY <1>4, <1>5, <1>6

LEMMA StepMeters == Well /\ Well' /\ Charged /\ Announced /\ [Next]_vars => Charged' /\ Announced'
<1> SUFFICES ASSUME Well, Well', Charged, Announced, [Next]_vars PROVE Charged' /\ Announced'
  OBVIOUS
<1>1. erigon \in [total : Nat, lost : Nat, sent : Nat] /\ work \in [Accounts -> Nat]
      /\ \A a \in Accounts : spent[a] \in Nat
  BY BoundsAssumption DEF Well, Others
<1>2. ASSUME NEW h \in Handlers,
             \A g \in Handlers \ {h} : /\ DueErigon(g)' = DueErigon(g)
                                       /\ \A a \in Accounts : Due(g, a)' = Due(g, a),
             UNCHANGED <<spent, erigon, work>>, DueErigon(h)' <= DueErigon(h),
             \A a \in Accounts : Due(h, a)' <= Due(h, a)
      PROVE  Charged' /\ Announced'
  <2>1. ASSUME NEW a \in Accounts \ White PROVE work'[a] + Asked(a)' <= spent'[a]
    <3>1. /\ Asked(a) \in Nat /\ Due(h, a) \in Nat /\ Due(h, a)' \in Nat
          /\ Asked(a)' = Asked(a) - Due(h, a) + Due(h, a)'
      BY <1>2, AskedFacts
    <3>2. work[a] + Asked(a) <= spent[a] /\ work[a] \in Nat /\ spent[a] \in Nat
      BY <1>1 DEF Charged
    <3>3. Due(h, a)' <= Due(h, a) /\ work'[a] = work[a] /\ spent'[a] = spent[a]
      BY <1>2
    <3> QED  BY <3>1, <3>2, <3>3
  <2>2. Announced'
    <3>1. /\ ToErigon \in Nat /\ DueErigon(h) \in Nat /\ DueErigon(h)' \in Nat
          /\ ToErigon' = ToErigon - DueErigon(h) + DueErigon(h)'
      BY <1>2, ToErigonFacts
    <3>2. erigon.sent + ToErigon <= erigon.total + erigon.lost
      BY DEF Announced
    <3>3. DueErigon(h)' <= DueErigon(h) /\ erigon' = erigon
      BY <1>2
    <3> QED  BY <1>1, <3>1, <3>2, <3>3 DEF Announced
  <2> QED  BY <2>1, <2>2 DEF Charged
<1>3. ASSUME NEW h \in Handlers, Step(h) \/ \E a \in Accounts, b \in Bodies : Arrive(h, a, b)
      PROVE  Charged' /\ Announced'
  <2>1. \A g \in Handlers \ {h} : /\ DueErigon(g)' = DueErigon(g)
                                 /\ \A a \in Accounts : Due(g, a)' = Due(g, a)
    BY <1>3, OthersDue
  <2>2. CASE Bind(h)
    <3>1. Announced'
      BY <2>2, BindAnnounces
    <3>2. ASSUME NEW a \in Accounts \ White PROVE work'[a] + Asked(a)' <= spent'[a]
      <4>1. UNCHANGED <<spent, work>> /\ pc[h] = "bind" /\ pc'[h] \notin {"lookup", "call"}
        BY <2>2 DEF Bind, Goto, Fail, Reply, Well, Inv, Typed
      <4>2. Due(h, a) = 0 /\ Due(h, a)' = 0
        BY <4>1 DEF Due
      <4>3. Asked(a) \in Nat /\ Asked(a)' = Asked(a) - Due(h, a) + Due(h, a)'
        BY <2>1, AskedFacts
      <4> QED  BY <4>1, <4>2, <4>3 DEF Charged
    <3> QED  BY <3>1, <3>2 DEF Charged
  <2>3. CASE Admit(h)
    BY <2>3, AdmitCharges, SendAnnounced DEF Charged
  <2>4. CASE Hit(h) \/ CallNode(h)
    BY <2>4, WorkCharged, SendAnnounced DEF Charged
  <2>5. CASE \/ \E a \in Accounts, b \in Bodies : Arrive(h, a, b)
             \/ BindFails(h) \/ BindPanics(h) \/ Refuse(h) \/ Miss(h) \/ LookupFails(h)
             \/ CallFails(h) \/ Store(h) \/ Finish(h)
    <3>1. /\ UNCHANGED <<spent, erigon, work>>
          /\ DueErigon(h)' <= DueErigon(h)
          /\ \A a \in Accounts : Due(h, a)' <= Due(h, a)
      BY <2>5, QuietStep
    <3> QED  BY <1>2, <2>1, <3>1
  <2> QED  BY <1>3, <2>2, <2>3, <2>4, <2>5 DEF Step
<1>4. CASE Tick \/ UNCHANGED vars
  <2>1. UNCHANGED <<pc, body, who, spent, erigon, work>>
    BY <1>4 DEF Tick, vars, handler
  <2>2. ToErigon' = ToErigon /\ \A a \in Accounts : Asked(a)' = Asked(a)
    BY <2>1 DEF ToErigon, Asked, Due, DueErigon, ErigonCalls
  <2> QED  BY <2>1, <2>2 DEF Charged, Announced
<1> QED  BY <1>3, <1>4 DEF Next

LEMMA InitMeters == Init => Charged /\ Announced
<1> SUFFICES ASSUME Init PROVE Charged /\ Announced
  OBVIOUS
<1> PICK f : f = [g \in Handlers |-> DueErigon(g)]
  OBVIOUS
<1>1. SumFunctionOnSet(f, Handlers) = 0
  <2>1. \A g \in Handlers : f[g] = 0
    BY DEF Init, DueErigon
  <2> QED  BY <2>1, HttpHandlersAssumption, SumZero
<1>2. ASSUME NEW a \in Accounts PROVE Asked(a) = 0
  <2> PICK k : k = [g \in Handlers |-> Due(g, a)]
    OBVIOUS
  <2>1. \A g \in Handlers : k[g] = 0
    BY DEF Init, Due
  <2>2. SumFunctionOnSet(k, Handlers) = 0
    BY <2>1, HttpHandlersAssumption, SumZero
  <2> QED  BY <2>2 DEF Asked
<1>3. ToErigon = 0
  BY <1>1 DEF ToErigon
<1> QED  BY <1>2, <1>3 DEF Init, Charged, Announced

(* However many handlers ask at once, in batches and through the cache,    *)
(* what an account was charged stays ahead of what it got and may still    *)
(* get: it gets no more than its quota.                                    *)
THEOREM MeteredHolds == Spec => []Metered
<1>1. Well /\ Charged => Metered
  <2> SUFFICES ASSUME Well, Charged, NEW a \in Accounts \ White PROVE work[a] <= Quota
    BY DEF Metered
  <2> PICK f : f = [g \in Handlers |-> Due(g, a)]
    OBVIOUS
  <2>1. \A g \in Handlers : f[g] \in Nat
    BY DueNat
  <2>2. SumFunctionOnSet(f, Handlers) \in Nat
    BY <2>1, HttpHandlersAssumption, SumNat
  <2>3. Asked(a) \in Nat /\ work[a] + Asked(a) <= spent[a]
    BY <2>2 DEF Asked, Charged
  <2>4. work[a] \in Nat /\ spent[a] \in 0 .. Quota
    BY DEF Well, Others
  <2> QED  BY <2>3, <2>4, BoundsAssumption
<1> QED  BY <1>1, WellInvariant, InitMeters, StepMeters, PTL DEF Spec

(* Every call sent to erigon was counted, or its count was lost, before,   *)
(* however the handlers and the failures of the counter interleave.        *)
THEOREM ErigonCountedHolds == Spec => []ErigonCounted
<1>1. Well /\ Announced => ErigonCounted
  <2> SUFFICES ASSUME Well, Announced PROVE erigon.sent <= erigon.total + erigon.lost
    BY DEF ErigonCounted
  <2> PICK f : f = [g \in Handlers |-> DueErigon(g)]
    OBVIOUS
  <2>1. \A g \in Handlers : f[g] \in Nat
    BY DueNat
  <2>2. SumFunctionOnSet(f, Handlers) \in Nat
    BY <2>1, HttpHandlersAssumption, SumNat
  <2>3. ToErigon \in Nat /\ erigon.sent + ToErigon <= erigon.total + erigon.lost
    BY <2>2 DEF ToErigon, Announced
  <2>4. erigon \in [total : Nat, lost : Nat, sent : Nat]
    BY DEF Well, Others
  <2> QED  BY <2>3, <2>4
<1> QED  BY <1>1, WellInvariant, InitMeters, StepMeters, PTL DEF Spec
====
