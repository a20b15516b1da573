# A specification of chain-api

chain-api is a gateway in front of blockchain nodes. Clients send it JSON-RPC
over HTTP and over WebSockets, Tendermint calls by URL, and IPFS calls; it
checks the account (an API key), limits its rate, answers from a cache where it
can and forwards the rest to nodes. This directory holds TLA+ modules of the
parts of it in which several actors share state, what TLC checks of them on
small instances, and proofs, checked by TLAPS, of what matters most. Paths below
are relative to the repository.

## The system: inventory

| Part | Code | State it keeps | Operations | Shared with |
|---|---|---|---|---|
| Rate limiter | `ratelimit/v1/ratelimit.go`, `lua.go`, `lua/ratelimit.lua` | in Redis: quotas `q:s:`, `q:d:`, counters `s:`, `d:...:<day of month>`; in memory: the whitelist | `Allow` (`allowWhitelist`, the script), `CheckInWhiteList`, `ErigonCount` | every handler of every process |
| Usage statistics | `pkg/utils/cache.go`, called from `ratelimit.go` and `ratelimit_ipfs.go` | Redis counters by hour and day, of a chain, of all chains, of a user's bytes | `IncreaseAndSetExpire` in `Allow` and `BandwidthHook` | rate limiter, IPFS |
| JSON-RPC over HTTP | `pkg/handler/jsonRpcHandler.go`, `pkg/proxy/jsonRpcProxy.go`, `tendermintRpcProxy.go` | in Redis: cached results with a time to live | `Http`, `TendermintHttp`: bind, limit, look up, forward, cache | rate limiter, cache, nodes |
| WebSocket session | `handleWs` in `jsonRpcHandler.go`, `pkg/proxy/websocket.go` | connections, the channel `sendCh`, `Client.closed`, the table of requests by id | read, refuse, answer from cache, forward; pass on frames; charge notifications; close | rate limiter, cache, nodes |
| Node pool of `/rpc` | `pkg/handler/rpcHandler.go` | health flags (atomic booleans); the two connections of a proxied WebSocket | check all nodes once a minute, choose the first healthy one, forward; copy both ways | nodes |
| IPFS gateway | `pkg/handler/ipfs_proxy.go`, `ipfsHandler.go`, `service/ipfsService.go`, `ratelimit/v1/ratelimit_ipfs.go` | database: files and pin status by user; Redis: usage and limits; the IPFS node's pins | `Proxy`: check limits, forward, record files and pins, charge bandwidth | rate limiter, database, IPFS node |
| Chain definitions | `pkg/initapp/*.go` | the lists of methods each handler is built with | one function for each chain | JSON-RPC |
| Start and wiring | `cmd/chainapi`, `pkg/initapp/initApp.go`, `pkg/app`, `router` | the handlers, built once | constructors, routes | |
| Configuration, logging, metrics, `wscat` | `config`, `pkg/prometheus`, `cmd/wscat` | none of interest | | |

**Interaction.** A handler runs on one goroutine per HTTP request. It calls
`RateLimiter.Allow`, which runs one Lua script in Redis (one atomic step there)
or, for a whitelisted account, two separate commands. Then the proxy reads the
cache, calls a node, and writes the cache. A WebSocket session has up to four
goroutines that meet at an unbuffered channel, a mutex and the closing of
connections. The node pool has one goroutine that checks and any number that
choose. Nothing is kept in memory across a restart; Redis and the database are.

**What is hard here.** Counters shared by processes; a command whose reply is
lost, sent again, or executed after midnight; pairs of commands that are not one
step; goroutines that wait at a channel nobody reads, or at a connection nobody
writes to; which goroutine closes what, in which order; a panic, which `recover`
catches in one goroutine and which ends the process in another; answers matched
by id; flags read and written one at a time; block numbers read at different
times. `PROJECT.json` lists each at its line under `hazards`.

**What makes each part correct.** The rate limiter: nobody gets more than a
quota, nobody is charged for what was not asked, every counter ends, a refused
account is let through again. A session: each request answered at most once and,
while both sides live, at least once; nothing left open or waiting at the end.
The node pool: a request is not turned away while a node is known to be healthy;
laggards are out, recovered nodes are back; a proxied WebSocket holds nothing
once an end has left. The statistics: totals agree with the chains, and keys go
away. The HTTP pipeline: nothing refused reaches a node, a cached answer is the
answer to that question and not too old. The IPFS gateway: what some user has
pinned stays pinned, usage matches what is stored, limits hold up to the
requests in flight. Each holds within limits that the properties name.

## Modules

| Module | What it is |
|---|---|
| `RedisCounter` | a Redis counter with a time to live (external: modelled from how the code uses it) |
| `RateLimit` | the rate limiter; extends `RedisCounter`, instantiates `QuotaLedger` |
| `QuotaLedger` | the abstract promise: a ledger of units spent per account and day |
| `RateLimitSecond` | the rate limiter with a history of the units let through in the last second; extends `RateLimit` |
| `MCRateLimit`, `MCRateLimitSecond` | instances of the two for TLC |
| `UsageStats`, `MCUsageStats` | the usage statistics, and their instance; extends `RedisCounter` |
| `WsSession`, `MCWsSession` | one WebSocket session, and its instance; instantiates `SessionPromise` |
| `SessionPromise` | the abstract promise: what becomes of the requests of a session |
| `RpcNodes`, `MCRpcNodes` | the node pool, and its instance |
| `RpcWsProxy` | a WebSocket proxied to a node of the pool |
| `JsonRpcHttp`, `MCJsonRpcHttp` | handlers of JSON-RPC and Tendermint over HTTP with their cache, and its instance |
| `TendermintChains` | how the handlers of the Tendermint chains get their lists; extends `JsonRpcHttp`, and is its instance with them |
| `IpfsGateway`, `MCIpfsGateway` | the IPFS gateway, and its instance |
| `RateLimitProofs`, `UsageStatsProofs`, `WsSessionProofs`, `RpcNodesProofs`, `RpcWsProxyProofs`, `JsonRpcHttpProofs`, `IpfsGatewayProofs` | theorems about the module each is named after |
| `Sums` | lemmas on the sum of a function over a finite set, which the proofs about counters use |

`JsonRpcHttp` does not compose with `RateLimit` step by step: it uses what the
theorem `LedgerImplemented` shows of the limiter for one day, an account spends
within its quota (`Admit`), and takes everything else the limiter may do as a
refusal at any time (`Refuse`). `UsageStats` begins where `RateLimit` lets a
request through: no decision reads what it keeps, so the two need no common
state. `PROJECT.json` maps every definition to the lines it models. An operator
whose name ends in an underscore and a word (`Accept_Before`) is a slip the code
could have had, kept beside the definition it would replace; for each property
there is one slip that TLC finds out.

## How state and actions correspond to the code

**`RateLimit`.** `secKey` and `dayKey` are the counters of `lua/ratelimit.lua`;
`req` is what a goroutine inside `Allow` has sent to Redis. `Begin` is the entry
of `Allow` and reads the day of the month; `Script` is the whole Lua script, its
answers `NoPlan`, `OverSecond`, `NoDayPlan`, `OverDay` and `Accept` in the order
of its tests, including the revert; `WhitelistIncr` and `WhitelistExpire` are
the two commands of `allowWhitelist`. `Abandon`, `ReplyLost` and `Restart` are
failures; `SetSecQuota` and `SetDayQuota` are the billing system; `Tick` is
time. `admitted` and `asked` are history. An account stands for a pair of chain
and key.

**`UsageStats`.** `stat` holds the keys: of a window (hour or day), a slot (the
part of a key's name that is the time) and an owner (a chain, the total, a
user). `Allow` is the branch of `RateLimiter.Allow` after the script let a
request through, and `BandwidthHook` the hook of that name; each starts a `Job`
with the keys it brings up, in order, and the time read once. `Incr` and
`SetExpire` are the two commands of `IncreaseAndSetExpire`, `Later` the return
to the next key; `CommandFails` is the error that is logged and passed over,
`ReplyLost` the client library's second attempt, `Crash` the end of the process.
`counted` is history: what should be under each key; `flawed` names the keys a
fault has struck.

**`WsSession`.** `pc` and `msg` say where each goroutine is and what it holds;
`chan` is `sendCh`, `flag` is `Client.closed`, `table` is
`UpstreamWebSocket.requests`. The handler's actions follow `handleWs` (`Dial`,
`ReadRequest`, `ForwardCached`, `ForwardUpstream`, `HandlerSends`) and its
deferred calls one by one (`HandlerCloses`); the writer's follow the goroutine
that ranges over `sendCh`; the readers' follow `run()` and erigon's goroutine,
with `Client.Send` in two steps (`ReaderChecks`, `ReaderSends`) as the flag is
read under the mutex and the channel used after it. Ids are pairs of a dynamic
type and a value, as Go compares interfaces. A cached result that expires before
it is asked for is one that never came into the cache. A chain may have an
erigon connection or not (`Erigon`, `HasErigon`). `ReadNull` is a panic of the
handler, after which its deferred calls run and echo's middleware recovers; so
is `ForwardUpstream` to a connection that is `nil`. `EmptyFrame` is a panic of a
reader, which nobody recovers from: the process ends. `PingFails` and
`PongFails` are the control handlers whose writing to the other side fails.
`Stage`, `Phase` and `Broken` are the mapping to `SessionPromise`: where a
request is, whether the session is at its end, and which nodes it cannot reach.

**`RpcNodes`.** `AskHttp` and `AskSecond` are the loop of the health check over
the nodes, `StoreHttp` and `StoreSecond` the atomic stores that follow, `Wake`
the next minute. `Begin`, `Load` and `Leave` are a request's scan of the flags.
A node's two endpoints have a `height` each, so a WebSocket may be behind its
own node (`Credible`). `since`, `synced` and `steady` are history. `Grow`,
`Follow` and `Flip` are the chain and its nodes. `nodeErrorCounts`, a count of
errors for the metrics that nothing reads, is left out.

**`RpcWsProxy`.** `Dial` and `DialFails` are the second half of `RpcHandler.Ws`,
`CopyReads`, `CopyWrites`, `CopyEnds` and `CopyFails` the rounds of its two
calls of `io.Copy`, run by the handler and by the goroutine `copier`, and
`Closes` its deferred calls. What travels is counted in chunks: `sent` by an
end, `taken` from it, `given` to it, `received` by it, with `Room` for what an
end has not read yet. `swallowed` counts what the dialer had read ahead into a
buffer that copying from the raw connection passes over.

**`JsonRpcHttp`.** A handler goes through `bind`, `limit`, `lookup`, `call`,
`store`, `replied`. `Bind` is `bind` with `validateReq` and the erigon count in
its loop, `Admit` and `Refuse` are `rateLimit`, `Hit`, `Miss` and `LookupFails`
the read of the cache in `HttpProxy` and `TendermintProxy`, `CallNode` and
`CallFails` the upstream, `Store` the `Set` and the reply. The node answers a
call with a result, with an error, with an error that carries `"result":null`
(`nullError`), or with what is not JSON; the code keeps whatever has a result
that is not `nil`, which the `null` of an error is not either. The cache keeps
the age of an answer and the ticks it has left, so no clock is needed and time
has no bound.

**`TendermintChains`.** `NewJsonRpcHandler` takes its lists by position;
`initJunoHandler` and `initCosmosHandler` are the calls the code makes, and
`ChainBlack`, `ChainErigon` and `ChainJustWhite` what comes out for `Chain`,
given to `JsonRpcHttp` as its constants.

**`IpfsGateway`.** `rows` is the database table of files, `pins` the node,
`usage` and `fields` the Redis hash of a user. `Check` is the pre-checks of
`Proxy`, `Forward` the proxied request with what the node does, `Hook`, `Unpin`,
`Ask` and `Repin` the hooks after it, `Charge` the bandwidth hook; requests that
only the node is asked are one operation, `read`. The actions `Job...` are
`IpfsService.Add`, which runs in a goroutine of its own. The whole query is
forwarded, and node and gateway read it each in their own way, so a request is a
record of both readings: the node acts on every object in `cids`, the gateway on
one (`Subject`); `odd` are the objects not written as the database has them; the
gateway reads `pin`, the node `keep`s what it pins (`pin=0`, `only-hash`);
`told` is the list the gateway reads from the node's answer, which may leave
anything out (`silent`, `quieter`, what is not JSON). `Unasked` is what the two
readings leave apart. `JobPanics` is the last element of an empty list: nobody
recovers from a panic in that goroutine and the process ends (`Die`), as it may
at any other time (`Crash`); systemd starts it again. `JobCount` and `Charge`
may be done more than once when a reply of Redis is lost. What libraries do with
what they are given is external and a constant: `DefaultUnpin`, what the node
does with an update that leaves `unpin` out, and `BareCid`, whether
`path.NewPath`, to which `pinAddObject` gives a CID, takes it for a path.

## What the runs check

| Run | Question | Answer |
|---|---|---|
| `ratelimit_metering` | Without faults: is anybody billed for what was not asked for, does every counter end, how much passes in any window of a second, and does asking put off the end of a refusal? | no; yes; at most twice the quota; no |
| `ratelimit_faults` | Does the day budget, and the ledger, survive errors, lost replies, repeated scripts and restarts? | yes |
| `ratelimit_orphan_key` | Does every day counter get a time to live, with faults? | no |
| `ratelimit_second_ttl` | Does the counter of a second live for one second? | no: as many as the request that opened it had units |
| `usagestats` | Is what was let through counted once, for its chain and in total, over the ends of hours and days, and do the keys go away? | yes, but for the keys a fault has struck |
| `wssession` | Is a request sent to another node or twice, answered twice or lost without reason, a connection left open; is every request answered, does the session end? | no; yes, with the exceptions the properties name |
| `rpcnodes` | Is a request turned away while a node is up, are laggards out and recovered nodes in, on a growing chain? | no; yes, but for rounds in which the chain outgrows the tolerance |
| `rpcws` | Does what one end sends arrive, and does an end that leaves release the other? | yes, with the exceptions the properties name |
| `jsonrpchttp` | Is a reply the request's own, fresh, allowed and paid for? | yes |
| `cosmos_blacklist` | Are the methods named as forbidden on Tendermint chains refused on Cosmos? | no |
| `ipfsgateway` | Is a pin lost by another's unpinning, storage not counted, the limit overrun? | not while requests for one object, or additions of one user, do not overlap, fail halfway or are read differently by node and gateway; by no more than the requests in flight and the charges sent again |
| `ipfs_new_user` | Is the usage of a user who has no hash yet loaded before the limits are looked at? | no |

**Four runs end in a violation,** each of a sentence of the repository: the
comment that a day counter expires in a day and a half (two commands, the second
sent only by who found the counter at its own units); the test and the README of
the script, by which the counter of a second expires after one (`EXPIRE` is
given the units of the request); the comment that usage is initialised if it
does not exist (Redis answers for a hash that is not there with an empty map,
not with an error, and a user without fields is not limited); and the list of
forbidden methods by its name and the comment on the field it is for
(`initCosmosHandler` alone passes it where the erigon methods are expected).
`PROJECT.json` quotes them under `findings`.

**Other places where code and intention part,** which the models have and no run
is spent on. In a session the table of requests is keyed by the gateway's
`int64` id and the frame carries the client's, so the lookup at
`websocket.go:210` never succeeds and nothing is cached, though the comment at
`:218` says "Cache if it is a valid result and cacheable"; and at `:203` an
interface that holds `nil` or a `float64` is compared with the integer 0, so a
notification, which has no id as the comment at `:202` says, is never told apart
and never charged (`TakeFrame`, `IsSubscription`). Over HTTP an error with
`"result":null` is kept and given to later requests as a result
(`jsonRpcProxy.go:197`; `Keeps`, `Kept`). At the IPFS gateway a `pin/rm` of two
objects, or of one under another spelling, takes pins from users nobody asked
(`ipfsHandler.go:162`; `Unasked`), an `add` wrapped in a directory whose answer
is empty ends the process (`ipfsService.go:150`; `JobPanics`), a new file that
is pinned is charged 0 bytes of upload (`ipfsHandler.go:261`; `Charged`), and a
pin that others still have is put back under a bare CID (`ipfsHandler.go:227`).

**Bounds.** In the rate limiter two handlers are enough for a command to
overtake another, requests of 1 and 2 units under a quota of 2 a second where
they are metered, and of 1 where commands fail, to open, share, exceed and
revert a counter and to let requests through on both sides of the end of one,
and three days of the month (`Slots`) for a number to come round; for what the
theorems state, more make no difference. A second is 2 ticks and `DAY` 4 where
slow commands matter, and 1 and 2 where faults do (`MaxLag` 1 in both); `DayTTL`
keeps the ratio of 36 hours to 24. `MaxAsked` bounds the units asked for per
day, above every quota. The statistics have hours of 2 ticks in days of 4, so
that an hour ends inside a day and with it, two goroutines (`MaxJobs = 2`), two
chains and a user, and `MaxFaults = 1`; three slots let a name come round. The
session has its four goroutines and one request for each path, a cacheable one
and one for erigon in one session (`MCSessions`) or a batch in another, and
`MaxNotes = 1` frame nobody asked for, on chains with and without erigon; client
and nodes may fall silent or stop reading at any point. The proxied WebSocket
has `MaxChunks = 3` and `Room = 2`: a buffer fills up while one more chunk is
held by the copy. The node pool has two nodes, one of them without a second
endpoint, three blocks and `MaxBehind = 1`: an endpoint may be level, behind and
too far behind, and the chain may grow by one block in a round, or by more than
is tolerated. The HTTP instance has two handlers, an account with a quota and
one without, three requests, a quota of 3 and a cache that keeps an entry for 2
ticks with `Latency = 1`: one handler may store after another, find, miss and
outlive an entry, and a third request finds what the first two left. Its bodies
have a method that is forbidden, one that is for whitelisted accounts, the empty
one, each form, a batch with a forbidden call behind an allowed one and an empty
batch. The IPFS instance has two users, two handlers, three requests, a file and
a directory it is in, one failure, repeated command or end of the process at any
step and limits that a second request reaches; users begin with the fields of
their usage or without; of what node and gateway read differently there are a
`pin/rm` of two objects, an update that spells its new object otherwise, an
`add` with `only-hash` whose list leaves out the directory, and one whose list
is empty. Downloads, which are counted like uploads under a field of their own,
and updates that leave `unpin` out are in the theorems and not in this instance.
Its whitelist is empty, so that users are interchangeable. `BareCid` is `TRUE`:
the run shows what the code intends. The `go.mod` asks for boxo v0.30.0, whose
`path.NewPath` wants a leading slash; with that library no pin would ever be put
back (`Repin` then changes nothing, and all it is for is `tainted`). The library
is not part of the repository, so this is not claimed, and the theorem holds for
both. Symmetry is used for handlers (and IPFS users), in runs without liveness.
`CHECK_DEADLOCK` is off for sessions and proxied WebSockets, which end, and for
the IPFS gateway, which stops when its requests are used up.

**Fairness.** What the code's own scheduling gives: a goroutine that can go on
does (`HandlerStep`, each `ReaderStep`, `RunCloses`; the handler and the copier
of a proxied WebSocket), and a write to a client that is gone fails
(`WriterEnds`, `WriterFails`). A write to a client that is there is not fair
(`WriterWrites`): it has no deadline, and no client has to send, to read or to
leave. What becomes of a session whose client stays and does not read is named
in the properties (`Unread`). Two things are assumed of nodes: one with an open
connection of a session reads and answers; and one that is asked by the health
checker answers or fails, though the probes have no timeout, so one that hangs
stops all checking (`WF_vars(Checker)`). No failure has to happen, and the ends
of a proxied WebSocket have no fairness at all. All conditions are weak.

**What properties except, and why.** `ClientGoneEnds` excepts `Trapped`: the
writer has ended on a failed write and the handler waits to hand it a message,
for ever. `Drain` and `ClientGoneEnds` hold for the panics of the handler too,
as its deferred calls run. `Answered` and `UpstreamGoneEnds` except a client
that stays and never again reads (`[]Unread`): the writer stays in its write,
the reader of the main node waits at `sendCh`, and that its node has gone is
seen by nobody. `Answered` excepts requests at erigon whose reader has ended,
which the session survives. `SyncedAreIn` and `Recovers` except rounds in which
the chain grew by more than `MaxBehindBlocks` before the last node was asked
(`LongRound`): as the nodes are asked one after the other without a limit of
time, a node that keeps up with a fast chain may be turned down in each of them.
`ConnectionsReleased` excepts the first connection of a session whose second
dial failed: it is leaked. `DayBudget` is about quotas not lowered within the
day. `Fresh` rests on `Latency`: the HTTP client sets no limit of time, so an
answer may be any age when it is stored. `ErigonCounted` is a lower bound: the
counter counts a batch once per erigon call in it, and requests refused later.
`PinnedKept` holds for objects not `tainted`, a history of requests that
overlapped, failed halfway, were at work when the process ended, or were
`Unasked`; of the files of a directory that was unpinned; and of pins that were
not put back. `StorageCounted` holds for users not `miscounted`: no two of their
`Add`s overlapped, none failed or was counted again, and none was wrapped in a
directory with a list that left out part of it. An `Add` that the process took
with it before it had counted is not excepted, for it has recorded nothing.
Outside of these the code makes no attempt to keep node, database and Redis
together. `UploadBounded` has what was charged again after a lost reply
(`resent`) in the bound, and pins count the 0 bytes they are charged.
`ClientGoneReleases` excepts a handler that waits for ever to write to a node
that is there and does not read (`[]Stalled`), `UpstreamGoneReleases` one that
waits for ever for a client that is there and says nothing (`[]Unnoticed`): the
end of the copy in the other direction is told to nobody. `Delivered` excepts
what the dialer `swallowed`. `CountedOnce` and `KeysExpire` except the keys a
fault has struck (`flawed`): an `IncrBy` that is sent twice counts twice and,
when it made the key, leaves it without a time to live.

## What is proved

The theorems hold for every value of the constants that the named assumptions of
the modules allow. Each rests on one inductive invariant, which holds at the
beginning, is kept by each action (a lemma for each action or group of them),
and implies what is claimed.

`RateLimitProofs`, for every set of accounts and handlers, every cost and quota,
every length of a second, and a day of any length with `2 * DayTTL = 3 * DAY`
and a lag of at most half a day:

- `TypeCorrect`: the types, with `AbsentIsZero` (a missing counter counts 0).
- `DayBudgetHolds`, if quotas are not lowered (`~Downgrades`), with any faults.
  `DayBudget` is not inductive: a counter that expired, or was left by the same
  day of last month, would break it. The invariant is `DayBudgetInv`: a command
  in flight belongs to today or, while it is on its way, to yesterday
  (`InFlight`); the counter of a day that can still be charged lives long enough
  (`OpenCountersLast`) and is gone when its number comes round (`CountersDie`);
  every unit let through is in it (`AdmittedIsCharged`). The first three,
  `Lifetimes`, hold whatever the quotas do (`LifetimesHold`).
- `LedgerImplemented`, under the same assumption: each step is one of
  `QuotaLedger` or a stutter.
- `SecKeyBoundedHolds`, always: a counter lives at most as many seconds as the
  request that opened it cost units (not one, see `ratelimit_second_ttl`);
  `DayKeyExpiresHolds`, without faults.
- `SecKeyNotRenewedHolds`, always: a counter of the second that is there holds
  something (`Holding`), so the script, which gives a time to live to a counter
  that holds just what it added, never gives one to a counter that has it.
- `ChargedWithinDemandHolds`, without faults, for any finite set of handlers. A
  unit is asked for before it is charged: `Covered` has that a day's counter and
  all that commands in flight may still add to it, a sum over the handlers
  (`Pending`), are within what was asked for. Beginning, charging and the end of
  a day each move a unit from one side to the other; that nothing of last month
  is left in the counter is `Lifetimes` again.
- `SlidingSecondHolds`, with any faults and quotas that change, for
  `RateLimitSecond` and a second of any length. `RecentInv` splits the history
  at the opening of the window that is running: what came in since is within the
  counter and a quota, and so is, by a quota, what came in before and is not yet
  a second ago, because a window lives at least a second (`Window`).

`UsageStatsProofs`, for every set of chains, users and handlers, costs, sizes,
and lengths of hours and days with `2 * Life = 3 * Period`, and any number of
faults:

- `TypeCorrect`, with `AbsentIsZero` and that a goroutine that counts is at a
  key.
- `CountedOnceHolds`, for any finite set of handlers and a lag of at most half
  of each period: under a key that no fault has struck, what is there and what
  goroutines have still to add (`ToCome`, a sum over the handlers) is what was
  let through. It needs that a goroutine has a key to do at most once
  (`TodoOnce`), that the slot it read is the running one or, while it may still
  count there, the one before (`ReadInTime`), and that a key outlives the time
  in which it can be counted under and dies before its name is used again
  (`LifeSpans`).
- `KeysExpireHolds`: only the goroutine that created a key can be about to end
  it, so no step of another one takes the key's creator away from it
  (`OthersCovered`).

`WsSessionProofs`, for every finite set of requests, every choice of what a
session sends, and chains with or without erigon:

- `TypeCorrect`. The ids of the table need `NumbersLeft`: for each request that
  may still be registered a number is left; and `Stages`, which places a
  goroutine may be at and what it holds there.
- `ConnectionsReleasedHolds`. The handler's `upstreamConn.Close` may give up
  halfway, and `run()` may end before or after: `Links` says, for every place of
  the two, what is closed already.
- `AtMostOneReplyHolds`, from `OnePlace`: a request is unsent, or at one node,
  or in the hands of one goroutine, or answered, and in no two of these.
- `PromiseImplemented`: each step is one of `SessionPromise` or a stutter. Where
  a request is (`Stage`) is well defined by `OnePlace`; that it is at its own
  node is `OwnNode`. What a goroutine drops because the client was closed on it
  must be dropped at the end of the session, which is `Ending`: no one but the
  handler, on its way out, closes `sendCh` or sets the flag; and a connection
  that is dialled was not there before (`Undialed`). It implies
  `AtMostOneReply`, which is not run besides: a request answered twice is at a
  stage the promise does not have. Not in the promise: a request whose node has
  it, and whose reader has ended, is unanswered for ever but not counted as
  lost.
- `NoneStrandedHolds`, the safety half of `Drain`: once the handler has
  returned, everybody is done, or somebody is at a place where what it waits for
  is there (`CanGoOn`: a closed channel, a connection that is not open). It
  rests on `Closing`, what the handler has closed at each of its deferred calls,
  and on `MainOver`, that nobody opens the main connection again. That who can
  go on comes to an end is left to TLC.

`RpcNodesProofs`, for any number of nodes, any length of the chain and any
tolerance:

- `TypeCorrect`, `SomeoneServesHolds`, `LaggardsAreOutHolds`,
  `SyncedAreInHolds`, from `Round` (the flags stored so far are what this
  round's blocks say) and `Blocks` (a block that was reported is no newer than
  the chain). `LaggardsAreOut` is about both endpoints: a WebSocket that lags is
  out although its node's http is not. That a finite set of numbers which is not
  empty has a greatest element is `GreatestExists` of `Sums`.
- `FirstSteadyHolds`, from `Scanned`: a scan has gone past no node whose flag
  stayed up.

`RpcWsProxyProofs`, for any number of chunks and any room: `TypeCorrect`, which
has that no end is given more than its buffer holds, that no chunk is read or
given twice and what a copy has in hand was read and not yet given (`ChunksOK`),
and that the copier runs from the dial on, with each connection open or closed
as the place of the handler says (`ProgressOK`); and `NothingLeftOpenHolds`,
which follows from it.

`JsonRpcHttpProofs`, for every set of handlers, accounts, questions and bodies,
every list of methods, every life of an entry and every latency:

- `OwnAnswerHolds`, `FreshHolds`, from one invariant `Inv`: each handler is
  `Sound` (it holds a young answer to its own question) and each entry of the
  cache is `Right` (an answer without an id, under the key of the question it
  answers, whose age and remaining life add up to no more than allowed). The
  lemma `KeyInjective` is where it would fail if the key left something out;
  that the MD5 of a key is as good as the key is assumed.
- `TypeCorrect`, and `RestrictedHolds` from `Checked`: who is past `bind` has no
  forbidden call, and who goes on keeps body and account (`GoesOn`).
- `MeteredHolds`, for any finite set of handlers, from `Charged`: the work done
  for an account, with the calls its handlers were let through with and have not
  finished (`Asked`, a sum over the handlers), is within what it has spent.
- `ErigonCountedHolds`, from `Announced`: the calls sent to erigon, with those
  of the handlers that are on their way there (`ToErigon`), are within the count
  and the lost commands.

`IpfsGatewayProofs`, for every set of users and requests, every finite set of
objects and handlers, any number of failures, and a process that may end at any
step. Nothing is assumed of what the node tells: its list may leave out
anything, and a request may have any number of arguments, in any spelling:

- `PinnedKeptHolds`. `PinnedKept` speaks of objects whose requests are over; the
  invariant says what holds while they are not. What the database says is wanted
  is pinned, or is `Loose`: a handler has unpinned it at the node and is on its
  way to ask who wants it (`Kept`). What is about to be recorded as pinned is
  pinned already (`Firm`), for no step lets go of anything its own request is
  not about (`HoldsAway`), and two requests about one object taint it (`Once`).
  What node and gateway read differently taints when it is forwarded, so that it
  is neither promised nor in the way of the rest. It holds for `BareCid` and
  without it: a pin that is not put back taints.
- `TypesHold`: the types, with what a job has in hand at each of its steps
  (`Metered`).
- `UploadBoundedHolds`. What a request uploads is charged after it is done, so
  the limit is overrun; `Bounded` has that what is used and what is in transit
  (`InTransit`, a sum over the handlers) is bounded by the limit, the largest
  upload (`Largest`) for each other handler, and as much for each charge that
  was sent again (`resent`). A field that the usage hash does not have is not
  limited, and has counted nothing.
- `StorageCountedHolds`. `IpfsService.Add` counts what is new to the user and
  takes off the size of the directory that wraps it, which only counts what is
  in it already. `StorageCounted` is not inductive: the size might be taken off
  for a directory that counted for files not there yet. The invariant `Counted`
  speaks of the `Open` objects, the files and the directories of which something
  is missing, over what the database has and a job is about to create: their
  sizes are within the storage used (`Covered`). A job adds up at least what it
  found to be new (`AddsUp`), and takes off a directory only when with it
  everything in it is there, so that it is no longer open (`WrappedAccounts`).
  This is where the answer of the node matters: with a wrapped `add` whose list
  names part of the directory only, after a pin of the whole, the directory
  would be taken off twice, so its user is `miscounted` from then on; so is one
  whose sum, which may be negative, was sent to Redis twice. An incomplete list
  without a directory only counts less than was added, and records less.

**Sums.** `Sums` proves what the arguments above need of the fold
`SumFunctionOnSet` of the community modules, which adds up the elements in an
order the definition leaves open: that the order does not matter (`SumPick`),
how the sum changes with one term (`SumChange`, `SumStep`), that it is a natural
number no less than any term, monotone in the set, at most the number of terms
times a bound (`SumBound`), additive over disjoint sets and unchanged by
renaming. What would be an induction over a set is, in each, a smallest set for
which the claim fails (`MinimalSet`, from the well-founded order on the subsets
of a finite set).

**Only model-checked:** every temporal property but the two refinements and
`SecKeyNotRenewed`: `Drain`, `ClientGoneEnds`, `UpstreamGoneEnds`, `Answered`,
`Recovers`, `ClientGoneReleases`, `UpstreamGoneReleases` and `Delivered`;
liveness under fairness and `ENABLED` are beyond the prover. Each invariant that
a passing run checks is stated by a theorem. There is no `RECURSIVE` operator.

## What is not modelled

- `clearInfo`, which blanks a field of a reply; the content of frames and
  bodies.
- The forwarding of one HTTP request by `RpcHandler`, which changes no state;
  the different scales on which Solana nodes report heights; Aptos WebSockets,
  which never count.
- What becomes of a session whose process a panic ended (`EmptyFrame`): nothing
  is promised to it, and nothing of it is kept.
- The IPFS gateway's subdomains, which only say whose request it is, and the
  collector of unpinned objects at the node. `CheckUserCid`, `ListUserFile` and
  `getUserFile` of the service are called by nobody.
- The lists of methods of the chains other than Tendermint's: they are passed in
  the order the constructor takes them, and are the constants of `JsonRpcHttp`.
- Start, wiring, configuration, logging, the push of metrics and `wscat`: they
  run once and sequentially, or keep no state.

## Plan

Done: all components with state that actors share, a theorem for every invariant
the runs check, and for both refinements. What is left, in this order:

1. The safety halves of the other liveness properties, as `NoneStranded` is of
   `Drain`: who holds what when a proxied WebSocket is left by an end
   (`ClientGoneReleases`), and when a client is gone (`ClientGoneEnds`).
2. A quota lowered and raised again within a day (`Downgrades`): how much more
   than the larger quota may be let through.
3. What the number of runs leaves out: the two disagreements of the session with
   its comments (caching over the WebSocket, notifications), and an upload limit
   that pins pass under at 0 bytes.
