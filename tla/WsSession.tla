---- MODULE WsSession ----
(***************************************************************************)
(* One WebSocket session of the gateway: JsonRpcHandler.handleWs           *)
(* (pkg/handler/jsonRpcHandler.go) with the Client and UpstreamWebSocket   *)
(* of pkg/proxy/websocket.go.  Up to four goroutines share it:             *)
(*                                                                         *)
(*   handler  reads the client's requests, answers the ones it refuses or  *)
(*            finds in the cache, writes the others to an upstream node,   *)
(*            and on its way out closes everything by its deferred calls;  *)
(*   writer   the only one to write to the client; it receives messages    *)
(*            from the unbuffered channel sendCh;                          *)
(*   readers  one per upstream connection (the main node's, and that of    *)
(*            the archive node erigon), which pass frames on to sendCh.    *)
(*                                                                         *)
(* Sending on sendCh is a rendezvous with the writer; a sender without a   *)
(* writer waits, unless the channel is closed under it: that is a panic,   *)
(* which Client.Send recovers from.                                        *)
(*                                                                         *)
(* An operator whose name ends in an underscore and a word is a slip this  *)
(* code could have had; it is used by no definition.                       *)
(***************************************************************************)
EXTENDS Integers, FiniteSets

CONSTANTS
  Requests,   \* what clients send, each at most once
  Sessions,   \* which of them may be sent in one session
  Call,       \* of each request: is it a batch, for erigon, cacheable
  ClientId,   \* of each request: the id it carries, as JSON is decoded
  Erigon,     \* whether the chain has an erigon upstream: the possibilities
  MaxNotes    \* bound of the model: frames an upstream sends unasked

ASSUME CallAssumption ==
  Call \in [Requests -> [batch : BOOLEAN, erigon : BOOLEAN, cacheable : BOOLEAN]]
ASSUME RequestsAssumption ==
  IsFiniteSet(Requests) /\ Requests \cap {"note", "nothing"} = {}
ASSUME SessionsAssumption ==
  Sessions \subseteq SUBSET Requests /\ Erigon \subseteq BOOLEAN
ASSUME NotesAssumption == MaxNotes \in Nat

(* A value in a Go interface{} is equal to another only if it has the same *)
(* dynamic type.  A JSON number decodes to float64, a missing id to nil.   *)
NoId == <<"nil", 0>>
Zero == <<"int", 0>>

Conns == {"main", "erigon"}

Note == "note"                         \* the body of a frame nobody asked for
Msg(body, sub) == [body |-> body, sub |-> sub]
Nothing == Msg("nothing", FALSE)

VARIABLES
  client,     \* the client's connection: open, gone (the peer left), closed
  conn,       \* the upstream connections: none yet, open, gone, closed; nil
              \* for that to erigon on a chain without one
  chan,       \* sendCh: open or closed
  flag,       \* Client.closed
  pc,         \* where each goroutine is
  msg,        \* the message each goroutine holds
  unread,     \* requests the client has not sent yet
  atNode,     \* requests an upstream node is working on
  table,      \* UpstreamWebSocket.requests: the requests by their id
  nextId,     \* JsonRpcProxy.requestID
  cache,      \* requests whose result is in the Redis cache
  notes,      \* unasked frames so far
  answers     \* history: times each request was answered to the client

links   == <<client, conn>>
channel == <<chan, flag>>
proxy   == <<table, nextId, cache>>
vars == <<links, channel, pc, msg, unread, atNode, proxy, notes, answers>>

Goroutines == {"handler", "writer"} \cup Conns

HasErigon == conn["erigon"] # "nil"

Goto(g, l) == pc' = [pc EXCEPT ![g] = l]
GotoWith(g, l, m) == Goto(g, l) /\ msg' = [msg EXCEPT ![g] = m]
Return(g, l) == GotoWith(g, l, Nothing)    \* its message is done with

(* The unbuffered channel: g hands its message over and goes on at l.      *)
Rendezvous(g, l) ==
  /\ pc["writer"] = "recv"
  /\ pc' = [pc EXCEPT ![g] = l, !["writer"] = "write"]
  /\ msg' = [msg EXCEPT ![g] = Nothing, !["writer"] = msg[g]]
----
Init ==
  /\ client = "open"
  /\ \E e \in Erigon :
       conn = [c \in Conns |-> IF c = "erigon" /\ ~e THEN "nil" ELSE "none"]
  /\ chan = "open"
  /\ flag = FALSE
  /\ pc = [g \in Goroutines |-> CASE g = "handler" -> "dial"
                                  [] g = "writer"  -> "recv"
                                  [] OTHER         -> "unborn"]
  /\ msg = [g \in Goroutines |-> Nothing]
  /\ unread \in Sessions
  /\ atNode = [c \in Conns |-> {}]
  /\ table = {}
  /\ nextId = 1
  /\ cache = {}
  /\ notes = 0
  /\ answers = [r \in Requests |-> 0]
----
(* The handler.                                                            *)

(* NewUpstreamWS: every connection is made and the readers are started.    *)
Dial ==
  /\ pc["handler"] = "dial"
  /\ conn' = [c \in Conns |-> IF conn[c] = "nil" THEN "nil" ELSE "open"]
  /\ pc' = [g \in Goroutines |->
       IF g = "writer" \/ (g = "erigon" /\ ~HasErigon) THEN pc[g] ELSE "read"]
  /\ UNCHANGED <<client, channel, msg, unread, atNode, proxy, notes, answers>>

(* It fails at one of them; those made before stay open.  The deferred     *)
(* upstreamConn.Close is not registered yet.                               *)
DialFails ==
  /\ pc["handler"] = "dial"
  /\ \E made \in IF HasErigon THEN {{}, {"main"}} ELSE {{}} :
       conn' = [c \in Conns |-> IF c \in made THEN "open" ELSE conn[c]]
  /\ Goto("handler", "closeChan")
  /\ UNCHANGED <<client, channel, msg, unread, atNode, proxy, notes, answers>>

(* A request is read, perhaps after the client that sent it left.  One     *)
(* that bind or the rate limiter refuses is answered on the channel itself.*)
ReadRequest(r) ==
  /\ pc["handler"] = "read"
  /\ client # "closed"
  /\ r \in unread
  /\ unread' = unread \ {r}
  /\ \E l \in {"reply", "forward"} : GotoWith("handler", l, Msg(r, FALSE))
  /\ UNCHANGED <<links, channel, atNode, proxy, notes, answers>>

(* The body null leaves no call to validate: bind panics, and so does Send *)
(* when a request is for an erigon there is none of, which bind does not   *)
(* ask.  The deferred calls run, then the panic is recovered from.         *)
ReadNull ==
  /\ pc["handler"] = "read"
  /\ client = "open"
  /\ Goto("handler", "setClosed")
  /\ UNCHANGED <<links, channel, msg, unread, atNode, proxy, notes, answers>>

(* A ping is passed on while the handler reads; when that fails, so does   *)
(* the read.                                                               *)
PingFails ==
  /\ pc["handler"] = "read"
  /\ client = "open" /\ conn["main"] # "open"
  /\ Goto("handler", "setClosed")
  /\ UNCHANGED <<links, channel, msg, unread, atNode, proxy, notes, answers>>

(* The handler goes on with its loop when it cannot read.                  *)
ReadFails_Continue ==
  /\ pc["handler"] = "read"
  /\ client # "open"
  /\ Goto("handler", "read")
  /\ UNCHANGED <<links, channel, msg, unread, atNode, proxy, notes, answers>>

ReadFails ==
  /\ pc["handler"] = "read"
  /\ client # "open"
  /\ Goto("handler", "setClosed")
  /\ UNCHANGED <<links, channel, msg, unread, atNode, proxy, notes, answers>>

(* fromRequest: a single request is given the next id of the gateway's own *)
(* before anything else is done with it; a batch keeps its ids.            *)
NextId(r) == IF Call[r].batch THEN nextId ELSE nextId + 1

(* No return when the cache has the result: it is asked for as well.       *)
ForwardCached_Both ==
  LET r == msg["handler"].body IN
  /\ pc["handler"] = "forward"
  /\ ~Call[r].batch /\ Call[r].cacheable /\ r \in cache
  /\ conn["main"] = "open"
  /\ atNode' = [atNode EXCEPT !["main"] = @ \cup {r}]
  /\ nextId' = NextId(r)
  /\ GotoWith("handler", "send", msg["handler"])
  /\ UNCHANGED <<links, channel, unread, table, cache, notes, answers>>

(* UpstreamWebSocket.Send finds the result in the cache.                   *)
ForwardCached ==
  LET r == msg["handler"].body IN
  /\ pc["handler"] = "forward"
  /\ ~Call[r].batch /\ Call[r].cacheable /\ r \in cache
  /\ nextId' = NextId(r)
  /\ IF flag THEN Return("handler", "read") ELSE GotoWith("handler", "send", msg["handler"])
  /\ UNCHANGED <<links, channel, unread, atNode, table, cache, notes, answers>>

(* A batch always goes to the main node, a single request to its own.      *)
Target(r) == IF Call[r].erigon /\ ~Call[r].batch THEN "erigon" ELSE "main"

(* The id is taken from the counter a second time.                         *)
Register_Twice(r) ==
  /\ nextId' = NextId(r) + 1
  /\ table' = IF Call[r].batch THEN table
              ELSE table \cup {[id |-> <<"int64", nextId + 1>>, req |-> r]}

(* A single request is entered in the table under an id of the gateway's   *)
(* own; what is written upstream is the request as it came, its id too.    *)
Register(r) ==
  /\ nextId' = NextId(r)
  /\ table' = IF Call[r].batch THEN table
              ELSE table \cup {[id |-> <<"int64", nextId>>, req |-> r]}

(* A write to a peer that left goes unnoticed, or fails.                   *)
ForwardUpstream ==
  LET r == msg["handler"].body IN
  /\ pc["handler"] = "forward"
  /\ Call[r].batch \/ ~(Call[r].cacheable /\ r \in cache)
  /\ Register(r)
  /\ \/ /\ conn[Target(r)] = "open"
        /\ atNode' = [atNode EXCEPT ![Target(r)] = @ \cup {r}]
        /\ Return("handler", "read")
     \/ /\ conn[Target(r)] = "gone"
        /\ Return("handler", "read")
        /\ UNCHANGED atNode
     \/ /\ conn[Target(r)] \in {"gone", "closed"}
        /\ GotoWith("handler", "replyAndLeave", msg["handler"])
        /\ UNCHANGED atNode
     \/ /\ conn[Target(r)] = "nil"
        /\ Return("handler", "setClosed")
        /\ UNCHANGED atNode
  /\ UNCHANGED <<links, channel, unread, cache, notes, answers>>

(* The cache cannot be read: an internal error, and the session ends.      *)
ForwardFails ==
  LET r == msg["handler"].body IN
  /\ pc["handler"] = "forward"
  /\ ~Call[r].batch /\ Call[r].cacheable
  /\ nextId' = NextId(r)
  /\ Goto("handler", "replyAndLeave")
  /\ UNCHANGED <<links, channel, msg, unread, atNode, table, cache, notes, answers>>

HandlerNext == [reply |-> "read", send |-> "read", replyAndLeave |-> "setClosed"]

(* The rendezvous of the handler with the writer.                          *)
HandlerSends ==
  /\ pc["handler"] \in DOMAIN HandlerNext
  /\ Rendezvous("handler", HandlerNext[pc["handler"]])
  /\ UNCHANGED <<links, channel, unread, atNode, proxy, notes, answers>>

(* The deferred calls, last one first: upstreamConn.Close, close(sendCh),  *)
(* ws.Close.  The first gives up when closing the main connection fails:   *)
(* always if it was closed before, perhaps if the node dropped it.         *)
CloseUpstreams ==
  \/ /\ pc["handler"] = "setClosed"
     /\ flag' = TRUE
     /\ Goto("handler", "closeMain")
     /\ UNCHANGED conn
  \/ /\ pc["handler"] = "closeMain"
     /\ conn' = [conn EXCEPT !["main"] = "closed"]
     /\ \E fails \in {conn["main"] = "closed", conn["main"] # "open"} :
          Goto("handler", IF HasErigon /\ ~fails THEN "closeErigon" ELSE "closeChan")
     /\ UNCHANGED flag
  \/ /\ pc["handler"] = "closeErigon"
     /\ conn' = [conn EXCEPT !["erigon"] = "closed"]
     /\ Goto("handler", "closeChan")
     /\ UNCHANGED flag

(* close(sendCh) is not deferred.                                          *)
CloseSession_ChannelOpen ==
  \/ /\ pc["handler"] = "closeChan"
     /\ Goto("handler", "closeClient")
     /\ UNCHANGED <<client, chan>>
  \/ /\ pc["handler"] = "closeClient"
     /\ client' = "closed"
     /\ Goto("handler", "done")
     /\ UNCHANGED chan

CloseSession ==
  \/ /\ pc["handler"] = "closeChan"
     /\ chan' = "closed"
     /\ Goto("handler", "closeClient")
     /\ UNCHANGED client
  \/ /\ pc["handler"] = "closeClient"
     /\ client' = "closed"
     /\ Goto("handler", "done")
     /\ UNCHANGED chan

HandlerCloses ==
  /\ \/ CloseUpstreams /\ UNCHANGED <<client, chan>>
     \/ CloseSession /\ UNCHANGED <<conn, flag>>
  /\ UNCHANGED <<msg, unread, atNode, proxy, notes, answers>>
----
(* The writer.                                                             *)

WriterEnds ==
  /\ pc["writer"] = "recv"
  /\ chan = "closed"
  /\ Goto("writer", "done")
  /\ UNCHANGED <<links, channel, msg, unread, atNode, proxy, notes, answers>>

(* A frame of a subscription is charged once it is written; the writer of  *)
(* an account without quota left goes away.  The write has no deadline: it *)
(* waits for as long as a client that stays does not read.                 *)
WriterWrites ==
  LET m == msg["writer"] IN
  /\ pc["writer"] = "write"
  /\ client = "open"
  /\ answers' = IF m.body \in Requests THEN [answers EXCEPT ![m.body] = @ + 1]
                ELSE answers
  /\ \E l \in IF m.sub THEN {"recv", "done"} ELSE {"recv"} : Return("writer", l)
  /\ UNCHANGED <<links, channel, unread, atNode, proxy, notes>>

WriterFails ==
  /\ pc["writer"] = "write"
  /\ client # "open"
  /\ \/ Return("writer", "done")
     \/ client = "gone" /\ Return("writer", "recv")
  /\ UNCHANGED <<links, channel, unread, atNode, proxy, notes, answers>>
----
(* The readers.                                                            *)

(* A frame is for a subscription when its id equals 0.                     *)
IsSubscription(id) == id = Zero

(* A frame whose id is not in the table is dropped.                        *)
TakeFrame_OnlyKnown(c, body, id) ==
  LET found == {e \in table : e.id = id} IN
  /\ IF found = {} THEN Return(c, "read") ELSE GotoWith(c, "check", Msg(body, FALSE))
  /\ table' = table \ found
  /\ cache' = cache \cup {r \in Requests : /\ Call[r].cacheable
                                           /\ \E e \in found : e.req = r}

(* A frame is taken up, perhaps after the node that sent it dropped the    *)
(* connection: its request is looked up under the frame's id, forgotten,   *)
(* and its result cached if that can be.                                   *)
TakeFrame(c, body, id) ==
  LET found == {e \in table : e.id = id} IN
  /\ GotoWith(c, "check", Msg(body, IsSubscription(id)))
  /\ IF IsSubscription(id) THEN UNCHANGED <<table, cache>>
     ELSE /\ table' = table \ found
          /\ cache' = cache \cup {r \in Requests : /\ Call[r].cacheable
                                                   /\ \E e \in found : e.req = r}

(* The answer to a batch is an array; that to a single request carries the *)
(* id the client gave it.                                                  *)
ReadReply(c) ==
  /\ pc[c] = "read"
  /\ conn[c] # "closed"
  /\ \E r \in atNode[c] :
       /\ atNode' = [atNode EXCEPT ![c] = @ \ {r}]
       /\ IF Call[r].batch THEN GotoWith(c, "check", Msg(r, FALSE)) /\ UNCHANGED <<table, cache>>
          ELSE TakeFrame(c, r, ClientId[r])
  /\ UNCHANGED <<links, channel, unread, nextId, notes, answers>>

ReadNote(c) ==
  /\ pc[c] = "read"
  /\ conn[c] = "open"
  /\ notes < MaxNotes
  /\ notes' = notes + 1
  /\ TakeFrame(c, Note, NoId)
  /\ UNCHANGED <<links, channel, unread, atNode, nextId, answers>>

(* run() does not defer the closing of the client's connection.            *)
LeaveReader_ClientOpen(c) ==
  Goto(c, IF c # "main" THEN "done" ELSE IF HasErigon THEN "closeErigon" ELSE "closeMain")

(* The connection is broken, or a frame is not JSON: run() returns, the    *)
(* goroutine of erigon just ends.                                          *)
LeaveReader(c) == Goto(c, IF c = "main" THEN "closeClient" ELSE "done")

ReaderFails(c) ==
  /\ pc[c] = "read"
  /\ conn[c] # "open"
  /\ LeaveReader(c)
  /\ UNCHANGED <<links, channel, msg, unread, atNode, proxy, notes, answers>>

ReadGarbage(c) ==
  /\ pc[c] = "read"
  /\ conn[c] = "open"
  /\ notes < MaxNotes
  /\ notes' = notes + 1
  /\ LeaveReader(c)
  /\ UNCHANGED <<links, channel, msg, unread, atNode, proxy, answers>>

(* A pong is passed on while run() reads from the main node.               *)
PongFails ==
  /\ pc["main"] = "read"
  /\ conn["main"] = "open" /\ client # "open"
  /\ LeaveReader("main")
  /\ UNCHANGED <<links, channel, msg, unread, atNode, proxy, notes, answers>>

(* The first byte of an empty frame is looked at: nobody recovers from the *)
(* panic, the process dies and with it every session and connection.       *)
EmptyFrame(c) ==
  /\ pc[c] = "read"
  /\ conn[c] = "open"
  /\ pc' = [g \in Goroutines |-> "done"]
  /\ msg' = [g \in Goroutines |-> Nothing]
  /\ client' = "closed"
  /\ conn' = [d \in Conns |-> IF conn[d] = "nil" THEN "nil" ELSE "closed"]
  /\ UNCHANGED <<channel, unread, atNode, proxy, notes, answers>>

(* Client.Send: the flag is read under the mutex, the channel used after.  *)
ReaderChecks(c) ==
  /\ pc[c] = "check"
  /\ IF flag THEN Return(c, "read") ELSE GotoWith(c, "send", msg[c])
  /\ UNCHANGED <<links, channel, unread, atNode, proxy, notes, answers>>

ReaderSends(c) ==
  /\ pc[c] = "send"
  /\ chan = "open"
  /\ Rendezvous(c, "read")
  /\ UNCHANGED <<links, channel, unread, atNode, proxy, notes, answers>>

(* Sending on the closed channel panics; recover() sets the flag.          *)
ReaderRecovers(c) ==
  /\ pc[c] = "send"
  /\ chan = "closed"
  /\ flag' = TRUE
  /\ Return(c, "read")
  /\ UNCHANGED <<links, chan, unread, atNode, proxy, notes, answers>>

(* run() does not defer the closing of erigon's connection.                *)
RunCloses_NotErigon ==
  /\ \/ /\ pc["main"] = "closeClient"
        /\ client' = "closed"
        /\ Goto("main", "closeMain")
        /\ UNCHANGED conn
     \/ /\ pc["main"] = "closeMain"
        /\ conn' = [conn EXCEPT !["main"] = "closed"]
        /\ Goto("main", "done")
        /\ UNCHANGED client
  /\ UNCHANGED <<channel, msg, unread, atNode, proxy, notes, answers>>

(* The deferred calls of run(), last one first.                            *)
RunCloses ==
  /\ \/ /\ pc["main"] = "closeClient"
        /\ client' = "closed"
        /\ Goto("main", IF HasErigon THEN "closeErigon" ELSE "closeMain")
        /\ UNCHANGED conn
     \/ /\ pc["main"] = "closeErigon"
        /\ conn' = [conn EXCEPT !["erigon"] = "closed"]
        /\ Goto("main", "closeMain")
        /\ UNCHANGED client
     \/ /\ pc["main"] = "closeMain"
        /\ conn' = [conn EXCEPT !["main"] = "closed"]
        /\ Goto("main", "done")
        /\ UNCHANGED client
  /\ UNCHANGED <<channel, msg, unread, atNode, proxy, notes, answers>>
----
(* The others: the client leaves, a node drops a connection, the rest of   *)
(* the gateway fills the cache.  (An entry that expires before its request *)
(* is read might as well never have been there.)                           *)
ClientLeaves ==
  /\ client = "open"
  /\ client' = "gone"
  /\ UNCHANGED <<conn, channel, pc, msg, unread, atNode, proxy, notes, answers>>

NodeDrops(c) ==
  /\ conn[c] = "open"
  /\ conn' = [conn EXCEPT ![c] = "gone"]
  /\ UNCHANGED <<client, channel, pc, msg, unread, atNode, proxy, notes, answers>>

CacheFills(r) ==
  /\ Call[r].cacheable /\ r \notin cache
  /\ cache' = cache \cup {r}
  /\ UNCHANGED <<links, channel, pc, msg, unread, atNode, table, nextId, notes, answers>>
----
HandlerStep ==
  \/ Dial \/ DialFails \/ ReadFails
  \/ ForwardCached \/ ForwardUpstream \/ ForwardFails
  \/ HandlerSends \/ HandlerCloses

WriterStep == WriterEnds \/ WriterWrites \/ WriterFails

ReaderStep(c) ==
  \/ ReadReply(c) \/ ReaderFails(c)
  \/ ReaderChecks(c) \/ ReaderSends(c) \/ ReaderRecovers(c)

Next ==
  \/ HandlerStep
  \/ \E r \in Requests : ReadRequest(r) \/ CacheFills(r)
  \/ WriterStep
  \/ \E c \in Conns : \/ ReaderStep(c) \/ ReadNote(c) \/ ReadGarbage(c)
                      \/ EmptyFrame(c) \/ NodeDrops(c)
  \/ RunCloses \/ ReadNull \/ PingFails \/ PongFails
  \/ ClientLeaves

Spec == Init /\ [][Next]_vars

(* Goroutines run, a node with an open connection reads and answers;       *)
(* nobody has to send a request, to leave or to fail, and the client does  *)
(* not have to read: WriterWrites is not fair.                             *)
Fairness ==
  /\ WF_vars(HandlerStep)
  /\ WF_vars(WriterEnds \/ WriterFails)
  /\ \A c \in Conns : WF_vars(ReaderStep(c))
  /\ WF_vars(RunCloses)

FairSpec == Spec /\ Fairness

----
(* The client has sent all it will: the handler is past its loop.          *)
HandlerDone == pc["handler"] = "done"
AllDone == \A g \in Goroutines : pc[g] \in {"done", "unborn"}

(* The writer gave up on a failed write while the handler has one more     *)
(* message for it: nobody receives it, and nobody else closes the channel. *)
Trapped == pc["writer"] = "done" /\ pc["handler"] \in DOMAIN HandlerNext

(* The types of the variables.                                             *)
Ids == {[id |-> <<"int64", n>>, req |-> r] : n \in 1..Cardinality(Requests), r \in Requests}
Messages == [body : Requests \cup {Note, "nothing"}, sub : BOOLEAN]
TypeOK ==
  /\ client \in {"open", "gone", "closed"}
  /\ conn \in [Conns -> {"nil", "none", "open", "gone", "closed"}]
  /\ chan \in {"open", "closed"}
  /\ flag \in BOOLEAN
  /\ pc \in [Goroutines -> {"dial", "read", "reply", "forward", "send", "replyAndLeave",
                            "setClosed", "closeMain", "closeErigon", "closeChan",
                            "closeClient", "recv", "write", "unborn", "check", "done"}]
  /\ msg \in [Goroutines -> Messages]
  /\ unread \subseteq Requests
  /\ atNode \in [Conns -> SUBSET Requests]
  /\ table \subseteq Ids
  /\ nextId \in 1..Cardinality(Requests) + 1
  /\ cache \subseteq Requests
  /\ notes \in 0..MaxNotes
  /\ answers \in [Requests -> Nat]

(* Once every goroutine of the session has ended no connection of it is    *)
(* left open, neither to the client nor to a node: the handler's deferred  *)
(* upstreamConn.Close gives up when run() closed the main connection       *)
(* first, so the two must complete each other.  One exception: when the    *)
(* second dial fails, NewUpstreamWS leaves the first connection open.      *)
ConnectionsReleased ==
  AllDone =>
    /\ client = "closed"
    /\ \A c \in Conns : conn[c] \in {"open", "gone"} =>
         c = "main" /\ HasErigon /\ pc["main"] = "unborn"

(* However cache hits, refusals, failing writes and replies interleave, no *)
(* request is answered to the client twice.                                *)
AtMostOneReply == \A r \in Requests : answers[r] <= 1

(* The session as its client sees it: how far a request has come, whether  *)
(* the session goes on, and which nodes are lost to it.                    *)
Taken(r) == pc["handler"] = "forward" /\ msg["handler"].body = r
InHand(r) == \E g \in Goroutines : msg[g].body = r /\ (g = "handler" => pc[g] # "forward")
Place(r) ==
  CASE r \in unread            -> "client"
    [] answers[r] = 1          -> "answered"
    [] r \in atNode[Target(r)] -> "node"
    [] Taken(r)                -> "accepted"
    [] InHand(r)               -> "answer"
    [] OTHER                   -> "nowhere"
Stage(r) == IF answers[r] <= 1 THEN Place(r) ELSE "answered twice"
Leaving == {"setClosed", "closeMain", "closeErigon", "closeChan", "closeClient", "done"}
Phase == IF client # "open" THEN "down" ELSE IF pc["handler"] \in Leaving THEN "ending" ELSE "up"
Broken == {c \in Conns : conn[c] \in {"nil", "gone", "closed"}}
Promise == INSTANCE SessionPromise WITH
  Nodes   <- Conns,
  Node    <- [r \in Requests |-> Target(r)],
  stage   <- [r \in Requests |-> Stage(r)],
  session <- Phase,
  broken  <- Broken

(* A request goes to its own node, once, and is answered once; and it gets *)
(* lost between client and node only when the session is at its end or     *)
(* that node is, not for what the other node does.                         *)
PromiseKept == Promise!Spec

(* When the handler has returned, writer and readers end too: a reader     *)
(* that waits at the channel is woken by its closing, one that waits for a *)
(* frame by the closing of its connection.                                 *)
Drain == HandlerDone ~> AllDone

(* When the client is gone or its connection closed, the session's handler *)
(* returns, unless it is trapped at the channel by a writer that ended.    *)
ClientGoneEnds == client # "open" ~> HandlerDone \/ Trapped

(* The writer is at a write to a client that is there: if that client never *)
(* reads, the writer stays, and so does whoever waits at the channel.      *)
Unread == pc["writer"] = "write" /\ client = "open"

(* When the main node drops its connection the client's is closed, unless  *)
(* the client stays and stops reading: then the reader of the main node    *)
(* may wait at the channel for ever and not see that its node has gone.    *)
UpstreamGoneEnds ==
  conn["main"] = "gone" ~> client # "open" \/ []Unread

(* A request its node has is answered to the client, unless the client's   *)
(* connection is lost or the client stops reading; or unless the goroutine *)
(* that reads from erigon has ended, which the session survives.           *)
Answered ==
  \A r \in Requests :
    r \in atNode[Target(r)] ~> \/ answers[r] = 1
                               \/ client # "open"
                               \/ Target(r) = "erigon" /\ pc["erigon"] = "done"
                               \/ []Unread
====
