---- MODULE JsonRpcHttp ----
(***************************************************************************)
(* JSON-RPC over HTTP: JsonRpcHandler.Http and TendermintHttp              *)
(* (pkg/handler/jsonRpcHandler.go) with HttpProxy and TendermintProxy      *)
(* (pkg/proxy).  Handlers run concurrently and share the Redis cache, the  *)
(* rate limiter and the count of erigon calls.  A handler                  *)
(*                                                                         *)
(*   binds the body (or the path, for Tendermint) and refuses what it may  *)
(*   not forward; asks the rate limiter; looks a single call up in the     *)
(*   cache; calls a node; keeps the result in the cache; replies.          *)
(*                                                                         *)
(* The rate limiter is what RateLimitProofs shows of it: an account spends *)
(* at most its quota of the day.                                           *)
(*                                                                         *)
(* An operator whose name ends in an underscore and a word is a slip this  *)
(* code could have had; it is used by no definition.                       *)
(***************************************************************************)
EXTENDS Integers, Sequences, FiniteSets

CONSTANTS
  Handlers,     \* goroutines, one per request in flight
  Accounts,     \* API keys
  White,        \* the accounts in the whitelist
  Questions,    \* what can be asked: records of a method and its params
  Cacheable, Erigon, Black, JustWhite,   \* the lists of methods
  HasErigon,    \* whether the chain has an erigon node
  Bodies,       \* what clients send
  Quota,        \* units an account may spend
  CacheTime,    \* ticks a cached result lives
  Latency,      \* assumed: ticks from a node's answer to the end of the Set
  MaxRequests   \* bound of the model: requests that arrive

Forms == {"single", "batch", "path", "null", "garbage"}

ASSUME QuestionsAssumption ==
  \A q \in Questions : q = [method |-> q.method, params |-> q.params]
ASSUME BodiesAssumption ==
  \A b \in Bodies :
    /\ DOMAIN b = {"form", "calls"} /\ b.form \in Forms
    /\ b.calls \in Seq(Questions)
    /\ b.form \in {"single", "path"} => Len(b.calls) = 1
    /\ b.form = "path" => b.calls[1].method \notin JustWhite
ASSUME HttpHandlersAssumption == IsFiniteSet(Handlers)
ASSUME AccountsAssumption == White \subseteq Accounts /\ HasErigon \in BOOLEAN
ASSUME BoundsAssumption ==
  Quota \in Nat /\ CacheTime \in Nat \ {0} /\ Latency \in Nat /\ MaxRequests \in Nat

VARIABLES
  pc,      \* of each handler: idle, bind, limit, lookup, call, store, replied
  body,    \* what it was sent
  who,     \* by which account
  ans,     \* the answer it holds
  cache,   \* of each key: the answer kept and the ticks it has left, 0 if none
  spent,   \* units the rate limiter let each account spend
  erigon,  \* the counter of erigon calls: total; history: lost, sent
  arrived, \* requests so far
  work     \* history: calls of each account sent to a node or found in the cache

handler == <<pc, body, who, ans>>
vars == <<handler, cache, spent, erigon, arrived, work>>

NoId == "no id"
NoQuestion == [method |-> "no method", params |-> "no params"]
NoAccount == "no account"
NoBody == [form |-> "garbage", calls |-> << >>]

(* An answer: how it ended, to which question, under whose id, and how     *)
(* long ago the node gave it.                                              *)
Ans(status, q, id) == [status |-> status, q |-> q, id |-> id, age |-> 0]
Nothing == Ans("nothing", NoQuestion, NoId)
Statuses ==
  {"nothing", "result", "error", "nullError", "garbage", "batch", "refused", "failed"}

(* What a node said of one call: a nullError is an error that carries a    *)
(* result too, null.                                                       *)
Said == {"result", "error", "nullError"}
Answers ==
  [status : Statuses, q : Questions \cup {NoQuestion}, id : Handlers \cup {NoId},
   age : Nat]

(* The key of a question in the cache.  A slip: params are left out.       *)
Key_Method(form, q) == <<form, q.method>>
Key(form, q) == <<form, q.method, q.params>>
Keys == {Key(f, q) : f \in {"single", "path"}, q \in Questions}

Empty == [left |-> 0, ans |-> Nothing]
Call(h) == body[h].calls[1]
KeyOf(h) == Key(body[h].form, Call(h))
IsCacheable(h) == body[h].form # "batch" /\ Call(h).method \in Cacheable
----
Init ==
  /\ pc = [h \in Handlers |-> "idle"]
  /\ body = [h \in Handlers |-> NoBody]
  /\ who = [h \in Handlers |-> NoAccount]
  /\ ans = [h \in Handlers |-> Nothing]
  /\ cache = [k \in Keys |-> Empty]
  /\ spent = [a \in Accounts |-> 0]
  /\ erigon = [total |-> 0, lost |-> 0, sent |-> 0]
  /\ arrived = 0
  /\ work = [a \in Accounts |-> 0]

Goto(h, l) == pc' = [pc EXCEPT ![h] = l] /\ UNCHANGED <<body, who, ans>>

Reply(h, a) ==
  /\ pc' = [pc EXCEPT ![h] = "replied"]
  /\ ans' = [ans EXCEPT ![h] = a]
  /\ UNCHANGED <<body, who>>

(* Every other error has the id null.                                      *)
Fail(h, status) == Reply(h, Ans(status, NoQuestion, NoId))

Reset(h) ==
  /\ pc' = [pc EXCEPT ![h] = "idle"]
  /\ body' = [body EXCEPT ![h] = NoBody]
  /\ who' = [who EXCEPT ![h] = NoAccount]
  /\ ans' = [ans EXCEPT ![h] = Nothing]

Arrive(h, a, b) ==
  /\ pc[h] = "idle"
  /\ arrived < MaxRequests
  /\ arrived' = arrived + 1
  /\ pc' = [pc EXCEPT ![h] = "bind"]
  /\ body' = [body EXCEPT ![h] = b]
  /\ who' = [who EXCEPT ![h] = a]
  /\ UNCHANGED <<ans, cache, spent, erigon, work>>
----
(* bind                                                                    *)

(* A path is compared as it is written, percent signs and all, and may be  *)
(* empty; the one that ends in the API key is garbage.                     *)
Forbidden(h, q) ==
  \/ q.method \in Black
  \/ /\ body[h].form # "path"
     /\ q.method = "" \/ (who[h] \notin White /\ q.method \in JustWhite)

(* The calls of the body that are not allowed.  A slip: only the first one *)
(* of a batch is looked at.                                                *)
Bad_First(h) == {i \in DOMAIN body[h].calls : i = 1 /\ Forbidden(h, body[h].calls[i])}
Bad(h) == {i \in DOMAIN body[h].calls : Forbidden(h, body[h].calls[i])}

ErigonCalls(h) ==
  {i \in DOMAIN body[h].calls :
     body[h].form # "path" /\ body[h].calls[i].method \in Erigon}

(* Those the loop has come to before it stops at a bad one.                *)
Seen(h) == {i \in ErigonCalls(h) : \A j \in Bad(h) : i < j}

(* Each erigon call adds the length of the whole batch.  A slip: one.      *)
Size_One(h) == 1
Size(h) == Len(body[h].calls)

(* ErigonCount is called before anything else is known of the request; its *)
(* command may fail, which is only logged.                                 *)
CountErigon(h) ==
  \E done \in 0 .. Cardinality(Seen(h)) :
    erigon' = [erigon EXCEPT !.total = @ + done * Size(h),
                             !.lost = @ + (Cardinality(Seen(h)) - done) * Size(h)]

Bind(h) ==
  /\ pc[h] = "bind"
  /\ body[h].form \notin {"null", "garbage"}
  /\ CountErigon(h)
  /\ IF Bad(h) = {} THEN Goto(h, "limit") ELSE Fail(h, "refused")
  /\ UNCHANGED <<cache, spent, arrived, work>>

BindFails(h) ==
  /\ pc[h] = "bind"
  /\ body[h].form = "garbage"
  /\ Fail(h, "refused")
  /\ UNCHANGED <<cache, spent, erigon, arrived, work>>

(* The body null leaves no call to look at: a panic, from which net/http   *)
(* recovers by dropping the connection.                                    *)
BindPanics(h) ==
  /\ pc[h] = "bind"
  /\ body[h].form = "null"
  /\ Reset(h)
  /\ UNCHANGED <<cache, spent, erigon, arrived, work>>
----
(* rateLimit                                                               *)

(* A slip: a batch costs as much as a call.                                *)
Cost_One(h) == 1
Cost(h) == IF body[h].calls = << >> THEN 1 ELSE Len(body[h].calls)

(* A slip: compared before the cost is added.                              *)
Admit_Before(h) ==
  /\ pc[h] = "limit"
  /\ IF who[h] \in White THEN UNCHANGED spent
     ELSE spent[who[h]] < Quota /\ spent' = [spent EXCEPT ![who[h]] = @ + Cost(h)]
  /\ Goto(h, "lookup")
  /\ UNCHANGED <<cache, erigon, arrived, work>>

Admit(h) ==
  /\ pc[h] = "limit"
  /\ IF who[h] \in White THEN UNCHANGED spent
     ELSE /\ spent[who[h]] + Cost(h) <= Quota
          /\ spent' = [spent EXCEPT ![who[h]] = @ + Cost(h)]
  /\ Goto(h, "lookup")
  /\ UNCHANGED <<cache, erigon, arrived, work>>

(* Too many requests, no such key, or Redis failed.                        *)
Refuse(h) ==
  /\ pc[h] = "limit"
  /\ \E status \in {"refused", "failed"} : Fail(h, status)
  /\ UNCHANGED <<cache, spent, erigon, arrived, work>>
----
(* The cache                                                               *)

(* A call that costs nothing to a whitelisted account is not work.         *)
Work(h) ==
  work' = IF who[h] \in White THEN work
          ELSE [work EXCEPT ![who[h]] = @ + Len(body[h].calls)]

(* What the cache keeps of a single call is the result alone; the reply    *)
(* gets the id of the request.  Of a path it is the whole response.        *)
Found(h) ==
  LET kept == cache[KeyOf(h)].ans IN
  IF body[h].form = "single" THEN [kept EXCEPT !.id = h] ELSE kept

(* A slip: an entry lives on as long as it is asked for.                   *)
Hit_Renews(h) ==
  /\ pc[h] = "lookup"
  /\ IsCacheable(h) /\ cache[KeyOf(h)].left > 0
  /\ cache' = [cache EXCEPT ![KeyOf(h)].left = CacheTime]
  /\ Reply(h, Found(h))
  /\ Work(h)
  /\ UNCHANGED <<spent, erigon, arrived>>

Hit(h) ==
  /\ pc[h] = "lookup"
  /\ IsCacheable(h) /\ cache[KeyOf(h)].left > 0
  /\ Reply(h, Found(h))
  /\ Work(h)
  /\ UNCHANGED <<cache, spent, erigon, arrived>>

Miss(h) ==
  /\ pc[h] = "lookup"
  /\ IsCacheable(h) => cache[KeyOf(h)].left = 0
  /\ Goto(h, "call")
  /\ UNCHANGED <<cache, spent, erigon, arrived, work>>

LookupFails(h) ==
  /\ pc[h] = "lookup"
  /\ IsCacheable(h)
  /\ Fail(h, "failed")
  /\ UNCHANGED <<cache, spent, erigon, arrived, work>>
----
(* The node                                                                *)

(* It answers a call with a result, an error, or what is not JSON, and     *)
(* gives back the id it was asked under; a path has none.                  *)
NodeAnswers(h) ==
  IF body[h].form = "batch" THEN {Ans("batch", NoQuestion, h)}
  ELSE {Ans(s, Call(h), IF body[h].form = "path" THEN NoId ELSE h) :
          s \in Said \cup {"garbage"}}

(* The request is sent to erigon if one of its calls is erigon's.          *)
CallNode(h) ==
  /\ pc[h] = "call"
  /\ ErigonCalls(h) = {} \/ HasErigon
  /\ \E a \in NodeAnswers(h) : ans' = [ans EXCEPT ![h] = a]
  /\ pc' = [pc EXCEPT ![h] = "store"]
  /\ Work(h)
  /\ erigon' = IF ErigonCalls(h) = {} THEN erigon
               ELSE [erigon EXCEPT !.sent = @ + Len(body[h].calls)]
  /\ UNCHANGED <<body, who, cache, spent, arrived>>

(* The node is not reached, or fails halfway.                              *)
CallFails(h) ==
  /\ pc[h] = "call"
  /\ Fail(h, "failed")
  /\ UNCHANGED <<cache, spent, erigon, arrived, work>>

(* Whatever has a result is kept, the null of an error too: it is not nil. *)
Keeps(h) == IsCacheable(h) /\ ans[h].status \in {"result", "nullError"}

(* Of a single call without the error, which later ones get for a result.  *)
Kept(h) ==
  [ans[h] EXCEPT !.id = NoId,
                 !.status = IF body[h].form = "single" THEN "result" ELSE @]

Entry(h) == [left |-> CacheTime, ans |-> Kept(h)]

Replies(h) == IF ans[h].status = "garbage" THEN Fail(h, "failed") ELSE Reply(h, ans[h])

(* The Set, whose failure is only logged, and the reply.  A handler that   *)
(* was slow may put an older answer in the place of a newer one.           *)
Store(h) ==
  /\ pc[h] = "store"
  /\ \/ Keeps(h) /\ cache' = [cache EXCEPT ![KeyOf(h)] = Entry(h)]
     \/ UNCHANGED cache
  /\ Replies(h)
  /\ UNCHANGED <<spent, erigon, arrived, work>>

Finish(h) ==
  /\ pc[h] = "replied"
  /\ Reset(h)
  /\ UNCHANGED <<cache, spent, erigon, arrived, work>>
----
(* Time passes, up to what is assumed of a handler that has an answer.     *)
Older(a) == [a EXCEPT !.age = @ + 1]

Tick ==
  /\ \A h \in Handlers : pc[h] = "store" => ans[h].age < Latency
  /\ cache' = [k \in Keys |->
       IF cache[k].left <= 1 THEN Empty
       ELSE [left |-> cache[k].left - 1, ans |-> Older(cache[k].ans)]]
  /\ ans' = [h \in Handlers |-> IF pc[h] = "store" THEN Older(ans[h]) ELSE ans[h]]
  /\ UNCHANGED <<pc, body, who, spent, erigon, arrived, work>>

Step(h) ==
  \/ Bind(h) \/ BindFails(h) \/ BindPanics(h)
  \/ Admit(h) \/ Refuse(h)
  \/ Hit(h) \/ Miss(h) \/ LookupFails(h)
  \/ CallNode(h) \/ CallFails(h) \/ Store(h) \/ Finish(h)

Next ==
  \/ \E h \in Handlers, a \in Accounts, b \in Bodies : Arrive(h, a, b)
  \/ \E h \in Handlers : Step(h)
  \/ Tick

Spec == Init /\ [][Next]_vars
----
(* The types of the variables.                                             *)
TypeOK ==
  /\ pc \in [Handlers ->
       {"idle", "bind", "limit", "lookup", "call", "store", "replied"}]
  /\ body \in [Handlers -> Bodies \cup {NoBody}]
  /\ who \in [Handlers -> Accounts \cup {NoAccount}]
  /\ ans \in [Handlers -> Answers]
  /\ cache \in [Keys -> [left : 0 .. CacheTime, ans : Answers]]
  /\ spent \in [Accounts -> 0 .. Quota]
  /\ erigon \in [total : Nat, lost : Nat, sent : Nat]
  /\ arrived \in 0 .. MaxRequests
  /\ work \in [Accounts -> Nat]

(* A reply answers the question of its own request under its own id,       *)
(* whoever asked first and whatever was cached meanwhile.                  *)
OwnAnswer ==
  \A h \in Handlers :
    (pc[h] = "replied" /\ ans[h].status \in Said) =>
      /\ ans[h].q = Call(h)
      /\ ans[h].id = IF body[h].form = "path" THEN NoId ELSE h

(* A result that is cached, or given from the cache, is no older than the  *)
(* time it may be kept and the time it took to get there, however many     *)
(* handlers stored answers in whatever order.                              *)
Fresh ==
  /\ \A k \in Keys : cache[k].left > 0 =>
       cache[k].ans.age + cache[k].left <= CacheTime + Latency
  /\ \A h \in Handlers : ans[h].age <= CacheTime + Latency

(* No account gets more out of the nodes and the cache than its quota,     *)
(* whether it asks in batches, through the cache or for erigon.            *)
Metered == \A a \in Accounts \ White : work[a] <= Quota

(* The counter of erigon calls does not fall behind the calls sent there,  *)
(* but for the commands that failed.                                       *)
ErigonCounted == erigon.sent <= erigon.total + erigon.lost

(* A call that is not allowed gets no answer of a node, alone or in a      *)
(* batch, from the node or the cache.                                      *)
Restricted ==
  \A h \in Handlers :
    (pc[h] = "replied" /\ ans[h].status \in Said \cup {"batch"}) =>
      \A i \in DOMAIN body[h].calls : ~Forbidden(h, body[h].calls[i])
====
