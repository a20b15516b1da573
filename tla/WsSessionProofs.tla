---- MODULE WsSessionProofs ----
(***************************************************************************)
(* Proofs about WsSession, for any finite set of requests and any sessions *)
(* made of them, on chains with and without erigon, with any number of     *)
(* frames nobody asked for: the types, that no connection outlives the     *)
(* goroutines, that no request is answered twice, that a session keeps the *)
(* promise of SessionPromise, and that none hangs once its handler has     *)
(* returned.                                                               *)
(***************************************************************************)
EXTENDS WsSession, FiniteSetTheorems, TLAPS

(* Where each goroutine may be, and who holds a message there.             *)
Places ==
  [handler |-> {"dial", "read", "reply", "forward", "send", "replyAndLeave", "setClosed",
                "closeMain", "closeErigon", "closeChan", "closeClient", "done"},
   writer  |-> {"recv", "write", "done"},
   main    |-> {"unborn", "read", "check", "send", "closeClient", "closeErigon",
                "closeMain", "done"},
   erigon  |-> {"unborn", "read", "check", "send", "done"}]
Carrying == {"reply", "forward", "send", "replyAndLeave", "write", "check"}

Stages ==
  /\ \A g \in Goroutines : pc[g] \in Places[g]
  /\ \A g \in Goroutines : pc[g] \notin Carrying => msg[g] = Nothing
  /\ pc["handler"] \in Carrying => msg["handler"].body \in Requests
  /\ pc["handler"] = "dial" => \A c \in Conns : pc[c] = "unborn"

(* A number is left for each request that may still be registered.         *)
Held == IF pc["handler"] = "forward" THEN 1 ELSE 0
NumbersLeft == nextId + Cardinality(unread) + Held <= Cardinality(Requests) + 1

Typed == TypeOK /\ Stages /\ NumbersLeft

(* How far handler and run() have come says what is closed.                *)
Links ==
  /\ conn["main"] # "nil"
  /\ pc["handler"] = "done" => client = "closed"
  /\ pc["main"] = "unborn" =>
       /\ pc["handler"] \in {"dial", "closeChan", "closeClient", "done"}
       /\ pc["erigon"] = "unborn"
       /\ conn["erigon"] \in {"nil", "none"}
       /\ conn["main"] \in {"open", "gone"} => HasErigon
  /\ pc["main"] = "closeMain" => conn["erigon"] \in {"nil", "closed"}
  /\ pc["main"] = "done" => conn["main"] = "closed" /\ conn["erigon"] \in {"nil", "closed"}

(* A request is in one place: not sent yet, at one node, in the hands of   *)
(* one goroutine, or answered.                                             *)
OnePlace ==
  \A r \in Requests :
    /\ r \in unread => /\ answers[r] = 0
                       /\ \A c \in Conns : r \notin atNode[c]
                       /\ \A g \in Goroutines : msg[g].body # r
    /\ \A c \in Conns : r \in atNode[c] =>
         /\ answers[r] = 0
         /\ \A d \in Conns : r \in atNode[d] => d = c
         /\ \A g \in Goroutines : msg[g].body # r
    /\ \A g \in Goroutines : msg[g].body = r =>
         /\ answers[r] = 0
         /\ \A h \in Goroutines : msg[h].body = r => h = g
    /\ answers[r] <= 1
----
(* Types.                                                                  *)

LEMMA CountsNat == Cardinality(Requests) \in Nat
BY FS_CardinalityType, RequestsAssumption

LEMMA InitTyped == Init => Typed
<1> SUFFICES ASSUME Init PROVE Typed OBVIOUS
<1>1. unread \subseteq Requests BY SessionsAssumption DEF Init
<1>2. Cardinality(unread) <= Cardinality(Requests) /\ Cardinality(unread) \in Nat
  BY <1>1, FS_Subset, FS_CardinalityType, RequestsAssumption
<1>3. TypeOK
  <2>1. conn \in [Conns -> {"nil", "none", "open", "gone", "closed"}]
    BY DEF Init, Conns
  <2>2. pc \in [Goroutines -> {"dial", "read", "reply", "forward", "send", "replyAndLeave",
                              "setClosed", "closeMain", "closeErigon", "closeChan",
                              "closeClient", "recv", "write", "unborn", "check", "done"}]
    BY DEF Init
  <2>3. msg \in [Goroutines -> Messages]
    BY DEF Init, Nothing, Msg, Messages
  <2>4. nextId \in 1..Cardinality(Requests) + 1 /\ notes \in 0..MaxNotes
    BY CountsNat, NotesAssumption DEF Init
  <2>5. answers \in [Requests -> Nat] /\ atNode \in [Conns -> SUBSET Requests]
    BY DEF Init
  <2> QED BY <1>1, <2>1, <2>2, <2>3, <2>4, <2>5 DEF Init, TypeOK
<1>4. Stages
  BY DEF Init, Stages, Goroutines, Conns, Places, Carrying
<1>5. NumbersLeft
  BY <1>2, CountsNat DEF Init, NumbersLeft, Held, Goroutines, Conns
<1> QED BY <1>3, <1>4, <1>5 DEF Typed

(* One goroutine goes on, with the message it has or with another one.     *)
Moves(g, l, m) ==
  /\ pc' = [pc EXCEPT ![g] = l]
  /\ msg' = [msg EXCEPT ![g] = m]
  /\ l \in Places[g] /\ l # "dial"
  /\ g \in Conns => pc[g] # "unborn"
  /\ m \in Messages
  /\ l \notin Carrying => m = Nothing
  /\ g = "handler" /\ l \in Carrying => m.body \in Requests

LEMMA MoveStages ==
  ASSUME Typed, NEW g \in Goroutines, NEW l, NEW m, Moves(g, l, m)
  PROVE  /\ pc' \in [Goroutines -> {"dial", "read", "reply", "forward", "send",
              "replyAndLeave", "setClosed", "closeMain", "closeErigon", "closeChan",
              "closeClient", "recv", "write", "unborn", "check", "done"}]
         /\ msg' \in [Goroutines -> Messages]
         /\ Stages'
<1>1. l \in {"dial", "read", "reply", "forward", "send",
              "replyAndLeave", "setClosed", "closeMain", "closeErigon", "closeChan",
              "closeClient", "recv", "write", "unborn", "check", "done"}
  BY DEF Moves, Places, Goroutines, Conns
<1>2. \A h \in Goroutines : pc'[h] = (IF h = g THEN l ELSE pc[h])
                           /\ msg'[h] = (IF h = g THEN m ELSE msg[h])
  BY DEF Moves, Typed, TypeOK
<1>3. Stages'
  <2>1. \A h \in Goroutines : pc'[h] \in Places[h] BY <1>2 DEF Moves, Typed, Stages
  <2>2. \A h \in Goroutines : pc'[h] \notin Carrying => msg'[h] = Nothing
    BY <1>2 DEF Moves, Typed, Stages
  <2>3. pc'["handler"] \in Carrying => msg'["handler"].body \in Requests
    BY <1>2 DEF Moves, Typed, Stages, Goroutines
  <2>4. pc'["handler"] = "dial" => \A c \in Conns : pc'[c] = "unborn"
    BY <1>2 DEF Moves, Typed, Stages, Goroutines
  <2> QED BY <2>1, <2>2, <2>3, <2>4 DEF Stages
<1> QED BY <1>1, <1>3 DEF Moves, Typed, TypeOK

(* The message stays when a goroutine goes on without another.             *)
LEMMA GotoMoves ==
  ASSUME Typed, NEW g \in Goroutines, NEW l \in Places[g], Goto(g, l), UNCHANGED msg,
         l # "dial", pc[g] # "unborn",
         l \notin Carrying => pc[g] \notin Carrying,
         g = "handler" /\ l \in Carrying => pc[g] \in Carrying
  PROVE  Moves(g, l, msg[g])
BY DEF Moves, Goto, Typed, TypeOK, Stages

LEMMA NothingIsAMessage == Nothing \in Messages
BY DEF Nothing, Msg, Messages

(* No number is taken, and no request read.                                *)
LEMMA NumbersKept ==
  ASSUME Typed, UNCHANGED <<unread, nextId>>,
         pc'["handler"] = "forward" => pc["handler"] = "forward"
  PROVE  NumbersLeft'
<1>1. Cardinality(unread) \in Nat
  BY FS_Subset, FS_CardinalityType, RequestsAssumption DEF Typed, TypeOK
<1> QED BY <1>1, CountsNat DEF Typed, TypeOK, NumbersLeft, Held

(* The request in hand takes its number; no other is read.                 *)
LEMMA NumberTaken ==
  ASSUME Typed, pc["handler"] = "forward", pc'["handler"] # "forward",
         unread' = unread, nextId' \in {nextId, nextId + 1}
  PROVE  /\ nextId \in 1..Cardinality(Requests)
         /\ nextId' \in 1..Cardinality(Requests) + 1
         /\ NumbersLeft'
<1>1. Cardinality(unread) \in Nat
  BY FS_Subset, FS_CardinalityType, RequestsAssumption DEF Typed, TypeOK
<1>2. nextId \in Nat /\ nextId >= 1 BY CountsNat DEF Typed, TypeOK
<1>3. nextId + Cardinality(unread) + 1 <= Cardinality(Requests) + 1
  BY DEF Typed, NumbersLeft, Held
<1>4. Held' = 0 BY DEF Held
<1> QED BY <1>1, <1>2, <1>3, <1>4, CountsNat DEF NumbersLeft

(* The handler's actions.                                                  *)
LEMMA HandlerTyped ==
  ASSUME Typed, \/ Dial \/ DialFails \/ ReadFails \/ ReadNull \/ PingFails
                \/ ForwardCached \/ ForwardFails \/ HandlerCloses
  PROVE  Typed'
<1>1. CASE Dial
  <2>1. Stages' /\ NumbersLeft'
    <3>1. \A g \in Goroutines : pc'[g] = "read" \/ pc'[g] = pc[g]
      BY <1>1 DEF Dial
    <3>2. pc'["handler"] = "read" /\ pc["handler"] = "dial" BY <1>1 DEF Dial, Goroutines
    <3>3. \A g \in Goroutines : pc'[g] = "read" => msg[g] = Nothing
      BY <1>1, <3>2 DEF Dial, Typed, Stages, Carrying, Goroutines
    <3>4. \A g \in Goroutines : pc'[g] \in Places[g]
      BY <1>1, <3>1 DEF Dial, Typed, Stages, Places, Goroutines, Conns
    <3>5. Stages' BY <1>1, <3>1, <3>2, <3>3, <3>4 DEF Dial, Typed, Stages, Carrying
    <3>6. NumbersLeft' BY <1>1, NumbersKept DEF Dial, proxy, Goroutines
    <3> QED BY <3>5, <3>6
  <2>2. pc' \in [Goroutines -> {"dial", "read", "reply", "forward", "send",
              "replyAndLeave", "setClosed", "closeMain", "closeErigon", "closeChan",
              "closeClient", "recv", "write", "unborn", "check", "done"}]
    BY <1>1 DEF Dial, Typed, TypeOK
  <2> QED BY <1>1, <2>1, <2>2 DEF Dial, Typed, TypeOK, channel, proxy
<1>2. ASSUME NEW l \in Places["handler"] \ Carrying, l # "dial", Goto("handler", l), UNCHANGED msg,
             pc["handler"] \notin Carrying,
             UNCHANGED <<unread, atNode, table, nextId, cache, notes, answers>>,
             client' \in {"open", "gone", "closed"},
             conn' \in [Conns -> {"nil", "none", "open", "gone", "closed"}],
             chan' \in {"open", "closed"}, flag' \in BOOLEAN
      PROVE  Typed'
  <2>1. Moves("handler", l, msg["handler"])
    BY <1>2, GotoMoves DEF Goroutines, Typed, Stages, Places
  <2>2. pc'["handler"] = l BY <1>2 DEF Goto, Typed, TypeOK, Goroutines
  <2>3. NumbersLeft' BY <1>2, <2>2, NumbersKept DEF Carrying
  <2> QED BY <1>2, <2>1, <2>3, MoveStages DEF Typed, TypeOK, Goroutines
<1>3. CASE DialFails \/ ReadFails \/ ReadNull \/ PingFails
  BY <1>2, <1>3 DEF DialFails, ReadFails, ReadNull, PingFails, links, channel, proxy,
     Places, Carrying, Typed, TypeOK
<1>4. CASE HandlerCloses
  <2>1. CASE CloseUpstreams
    BY <1>2, <1>4, <2>1 DEF HandlerCloses, CloseUpstreams, CloseSession, proxy,
       Places, Carrying, Typed, TypeOK
  <2>2. CASE CloseSession
    BY <1>2, <1>4, <2>2 DEF HandlerCloses, CloseUpstreams, CloseSession, proxy,
       Places, Carrying, Typed, TypeOK
  <2> QED BY <1>4, <2>1, <2>2 DEF HandlerCloses
<1>5. CASE ForwardCached \/ ForwardFails
  <2>1. \E l \in {"read", "send", "replyAndLeave"} :
          \/ Moves("handler", l, msg["handler"])
          \/ l = "read" /\ Moves("handler", l, Nothing)
    BY <1>5, NothingIsAMessage
    DEF ForwardCached, ForwardFails, Goto, GotoWith, Return, Moves, Places, Carrying,
        Typed, TypeOK, Stages, Goroutines
  <2>2. pc'["handler"] # "forward"
    BY <2>1 DEF Moves, Typed, TypeOK, Goroutines
  <2>3. NumbersLeft' /\ nextId' \in 1..Cardinality(Requests) + 1
    BY <1>5, <2>2, NumberTaken DEF ForwardCached, ForwardFails, NextId
  <2>4. "handler" \in Goroutines BY DEF Goroutines
  <2> QED BY <1>5, <2>1, <2>3, <2>4, MoveStages
     DEF ForwardCached, ForwardFails, Typed, TypeOK, links, channel
<1> QED BY <1>1, <1>3, <1>4, <1>5

LEMMA ReadRequestTyped ==
  ASSUME Typed, NEW r \in Requests, ReadRequest(r)
  PROVE  Typed'
<1>1. PICK l \in {"reply", "forward"} : GotoWith("handler", l, Msg(r, FALSE))
  BY DEF ReadRequest
<1>2. Moves("handler", l, Msg(r, FALSE))
  BY <1>1 DEF GotoWith, Goto, Moves, Places, Carrying, Msg, Messages, Conns
<1>3. NumbersLeft'
  <2>1. pc["handler"] = "read" /\ r \in unread /\ unread' = unread \ {r} /\ nextId' = nextId
    BY DEF ReadRequest, proxy
  <2>2. IsFiniteSet(unread) /\ Cardinality(unread) \in Nat
    BY FS_Subset, FS_CardinalityType, RequestsAssumption DEF Typed, TypeOK
  <2>3. Cardinality(unread') = Cardinality(unread) - 1
    BY <2>1, <2>2, FS_RemoveElement
  <2>4. Held = 0 /\ Held' \in {0, 1} BY <2>1 DEF Held
  <2>5. nextId \in Nat BY CountsNat DEF Typed, TypeOK
  <2>6. nextId + Cardinality(unread) + Held <= Cardinality(Requests) + 1
    BY DEF Typed, NumbersLeft
  <2> HIDE DEF Held
  <2> QED BY <2>1, <2>2, <2>3, <2>4, <2>5, <2>6, CountsNat DEF NumbersLeft
<1> QED BY <1>2, <1>3, MoveStages
    DEF ReadRequest, Typed, TypeOK, links, channel, proxy, Goroutines

LEMMA ForwardUpstreamTyped ==
  ASSUME Typed, ForwardUpstream
  PROVE  Typed'
<1> DEFINE r == msg["handler"].body
<1>1. pc["handler"] = "forward" /\ r \in Requests
  BY DEF ForwardUpstream, Typed, Stages, Carrying
<1>2. Target(r) \in Conns BY DEF Target, Conns
<1>3. \/ Moves("handler", "read", Nothing)
      \/ Moves("handler", "setClosed", Nothing)
      \/ Moves("handler", "replyAndLeave", msg["handler"])
  BY <1>1, NothingIsAMessage
  DEF ForwardUpstream, GotoWith, Return, Goto, Moves, Places, Carrying, Conns, Typed,
      TypeOK, Goroutines
<1>4. pc'["handler"] # "forward"
  BY <1>3 DEF Moves, Typed, TypeOK, Goroutines
<1>5. /\ table' \subseteq Ids
      /\ nextId' \in 1..Cardinality(Requests) + 1
      /\ NumbersLeft'
  <2>1. unread' = unread /\ nextId' \in {nextId, nextId + 1}
    BY DEF ForwardUpstream, Register, NextId
  <2>2. nextId \in 1..Cardinality(Requests) /\ nextId' \in 1..Cardinality(Requests) + 1
        /\ NumbersLeft'
    BY <1>1, <1>4, <2>1, NumberTaken
  <2>3. table' = table \/ table' = table \cup {[id |-> <<"int64", nextId>>, req |-> r]}
    BY DEF ForwardUpstream, Register
  <2>4. [id |-> <<"int64", nextId>>, req |-> r] \in Ids
    BY <1>1, <2>2 DEF Ids
  <2>5. table' \subseteq Ids BY <2>3, <2>4 DEF Typed, TypeOK
  <2> QED BY <2>2, <2>5
<1>6. atNode' \in [Conns -> SUBSET Requests]
  BY <1>1, <1>2 DEF ForwardUpstream, Typed, TypeOK
<1>7. "handler" \in Goroutines BY DEF Goroutines
<1>8. Stages' /\ msg' \in [Goroutines -> Messages] /\ pc' \in [Goroutines ->
        {"dial", "read", "reply", "forward", "send",
         "replyAndLeave", "setClosed", "closeMain", "closeErigon", "closeChan",
         "closeClient", "recv", "write", "unborn", "check", "done"}]
  BY <1>3, <1>7, MoveStages
<1> QED BY <1>5, <1>6, <1>8 DEF ForwardUpstream, Typed, TypeOK, links, channel

(* The unbuffered channel: two goroutines go on at once.                   *)
LEMMA RendezvousStages ==
  ASSUME Typed, NEW g \in Goroutines \ {"writer"}, NEW l \in Places[g] \ Carrying,
         l # "dial", pc[g] # "unborn", Rendezvous(g, l)
  PROVE  /\ pc' \in [Goroutines -> {"dial", "read", "reply", "forward", "send",
              "replyAndLeave", "setClosed", "closeMain", "closeErigon", "closeChan",
              "closeClient", "recv", "write", "unborn", "check", "done"}]
         /\ msg' \in [Goroutines -> Messages]
         /\ Stages'
<1>1. \A h \in Goroutines :
        /\ pc'[h] = (IF h = "writer" THEN "write" ELSE IF h = g THEN l ELSE pc[h])
        /\ msg'[h] = (IF h = "writer" THEN msg[g] ELSE IF h = g THEN Nothing ELSE msg[h])
  BY DEF Rendezvous, Typed, TypeOK
<1>2. l \in {"read", "setClosed", "closeMain", "closeErigon", "closeChan",
              "closeClient", "recv", "unborn", "done"}
  BY DEF Places, Goroutines, Conns, Carrying
<1>3. Stages'
  <2>1. \A h \in Goroutines : pc'[h] \in Places[h]
    BY <1>1 DEF Typed, Stages, Places
  <2>2. \A h \in Goroutines : pc'[h] \notin Carrying => msg'[h] = Nothing
    BY <1>1 DEF Typed, Stages, Carrying
  <2>3. pc'["handler"] \in Carrying => msg'["handler"].body \in Requests
    BY <1>1 DEF Typed, Stages, Goroutines
  <2>4. pc'["handler"] = "dial" => \A c \in Conns : pc'[c] = "unborn"
    BY <1>1 DEF Typed, Stages, Goroutines, Conns
  <2> QED BY <2>1, <2>2, <2>3, <2>4 DEF Stages
<1>4. msg[g] \in Messages BY DEF Typed, TypeOK
<1> QED BY <1>2, <1>3, <1>4, NothingIsAMessage DEF Rendezvous, Typed, TypeOK

LEMMA SendsTyped ==
  ASSUME Typed, HandlerSends \/ \E c \in Conns : ReaderSends(c)
  PROVE  Typed'
<1>1. PICK g \in Goroutines \ {"writer"} : \E l \in Places[g] \ Carrying :
        l # "dial" /\ pc[g] # "unborn" /\ Rendezvous(g, l)
  <2>1. CASE HandlerSends
    <3>1. HandlerNext[pc["handler"]] \in {"read", "setClosed"} /\ pc["handler"] # "unborn"
      BY <2>1 DEF HandlerSends, HandlerNext
    <3> QED BY <2>1, <3>1 DEF HandlerSends, Places, Carrying, Goroutines
  <2>2. ASSUME NEW c \in Conns, ReaderSends(c)
        PROVE  /\ c \in Goroutines \ {"writer"} /\ "read" \in Places[c] \ Carrying
               /\ pc[c] # "unborn" /\ Rendezvous(c, "read")
    BY <2>2 DEF ReaderSends, Places, Carrying, Goroutines, Conns
  <2> QED BY <2>1, <2>2
<1>2. pc'["handler"] = pc["handler"] \/ pc'["handler"] \notin Carrying
  BY <1>1 DEF Rendezvous, Typed, TypeOK, Goroutines
<1>3. NumbersLeft'
  BY <1>2, NumbersKept DEF HandlerSends, ReaderSends, proxy, Carrying
<1> QED BY <1>1, <1>3, RendezvousStages
    DEF HandlerSends, ReaderSends, Typed, TypeOK, links, channel, proxy

(* The writer's actions.                                                   *)
LEMMA WriterTyped ==
  ASSUME Typed, WriterStep
  PROVE  Typed'
<1>1. "writer" \in Goroutines BY DEF Goroutines
<1>2. \E l : Moves("writer", l, Nothing)
  BY <1>1, NothingIsAMessage
  DEF WriterStep, WriterEnds, WriterWrites, WriterFails, Return, GotoWith, Goto, Moves,
      Places, Carrying, Conns, Typed, TypeOK, Stages
<1>3. pc'["handler"] = pc["handler"]
  BY <1>2 DEF Moves, Typed, TypeOK, Goroutines
<1>4. NumbersLeft'
  BY <1>3, NumbersKept DEF WriterStep, WriterEnds, WriterWrites, WriterFails, proxy
<1>5. answers' \in [Requests -> Nat]
  BY DEF WriterStep, WriterEnds, WriterWrites, WriterFails, Typed, TypeOK
<1> QED BY <1>1, <1>2, <1>4, <1>5, MoveStages
    DEF WriterStep, WriterEnds, WriterWrites, WriterFails, Typed, TypeOK, links,
        channel, proxy

(* The readers' actions.                                                   *)
LEMMA TakeFrameTyped ==
  ASSUME Typed, NEW c \in Conns, NEW body \in Requests \cup {Note}, NEW id,
         TakeFrame(c, body, id)
  PROVE  /\ GotoWith(c, "check", Msg(body, IsSubscription(id)))
         /\ table' \subseteq table
         /\ cache' \subseteq Requests
BY DEF TakeFrame, Typed, TypeOK

LEMMA ReaderMoves ==
  ASSUME Typed, NEW c \in Conns,
         \/ ReadReply(c) \/ ReadNote(c) \/ ReadGarbage(c) \/ ReaderFails(c)
         \/ ReaderChecks(c) \/ ReaderRecovers(c)
  PROVE  \E l, m : Moves(c, l, m)
<1>1. c \in Goroutines /\ c # "handler" BY DEF Goroutines, Conns
<1>2. ASSUME NEW body \in Requests \cup {Note}, NEW sub \in BOOLEAN, pc[c] = "read",
             GotoWith(c, "check", Msg(body, sub))
      PROVE  Moves(c, "check", Msg(body, sub))
  BY <1>1, <1>2 DEF GotoWith, Goto, Moves, Places, Carrying, Conns, Msg, Messages
<1>3. CASE ReadReply(c)
  BY <1>2, <1>3, TakeFrameTyped DEF ReadReply, IsSubscription, Typed, TypeOK
<1>4. CASE ReadNote(c)
  BY <1>2, <1>4, TakeFrameTyped DEF ReadNote, IsSubscription
<1>5. CASE ReadGarbage(c) \/ ReaderFails(c)
  <2>1. \E l \in {"closeClient", "done"} : l \in Places[c] /\ Goto(c, l)
    BY <1>5 DEF ReadGarbage, ReaderFails, LeaveReader, Places, Conns
  <2>2. pc[c] = "read" /\ UNCHANGED msg BY <1>5 DEF ReadGarbage, ReaderFails
  <2> QED BY <1>1, <2>1, <2>2, GotoMoves DEF Carrying
<1>6. CASE ReaderChecks(c)
  <2>1. \/ GotoWith(c, "read", Nothing)
        \/ GotoWith(c, "send", msg[c])
    BY <1>6 DEF ReaderChecks, Return
  <2>2. pc[c] = "check" BY <1>6 DEF ReaderChecks
  <2>3. Moves(c, "read", Nothing) \/ Moves(c, "send", msg[c])
    BY <1>1, <2>1, <2>2, NothingIsAMessage
    DEF GotoWith, Goto, Moves, Places, Carrying, Conns, Typed, TypeOK
  <2> QED BY <2>3
<1>7. CASE ReaderRecovers(c)
  <2>1. Moves(c, "read", Nothing)
    BY <1>1, <1>7, NothingIsAMessage
    DEF ReaderRecovers, Return, GotoWith, Goto, Moves, Places, Carrying, Conns
  <2> QED BY <2>1
<1> QED BY <1>3, <1>4, <1>5, <1>6, <1>7

LEMMA ReaderTyped ==
  ASSUME Typed, NEW c \in Conns,
         \/ ReadReply(c) \/ ReadNote(c) \/ ReadGarbage(c) \/ ReaderFails(c)
         \/ ReaderChecks(c) \/ ReaderRecovers(c)
  PROVE  Typed'
<1>1. PICK l, m : Moves(c, l, m) BY ReaderMoves
<1>2. c \in Goroutines /\ c # "handler" /\ "handler" \in Goroutines
  BY DEF Goroutines, Conns
<1>3. pc'["handler"] = pc["handler"] BY <1>1, <1>2 DEF Moves, Typed, TypeOK
<1>4. UNCHANGED <<client, conn, chan, unread, nextId, answers>>
  BY DEF ReadReply, ReadNote, ReadGarbage, ReaderFails, ReaderChecks, ReaderRecovers,
         links, channel, proxy
<1>5. NumbersLeft' BY <1>3, <1>4, NumbersKept
<1>6. table' \subseteq Ids /\ cache' \subseteq Requests
  <2>1. CASE ReadReply(c)
    BY <2>1, TakeFrameTyped DEF ReadReply, Typed, TypeOK
  <2>2. CASE ReadNote(c)
    BY <2>2, TakeFrameTyped DEF ReadNote, Typed, TypeOK
  <2> QED BY <2>1, <2>2
      DEF ReadGarbage, ReaderFails, ReaderChecks, ReaderRecovers, proxy, Typed, TypeOK
<1>7. flag' \in BOOLEAN /\ notes' \in 0..MaxNotes /\ atNode' \in [Conns -> SUBSET Requests]
  <2>1. flag' \in BOOLEAN
    BY DEF ReadReply, ReadNote, ReadGarbage, ReaderFails, ReaderChecks, ReaderRecovers,
           channel, Typed, TypeOK
  <2>2. notes' = notes \/ (notes < MaxNotes /\ notes' = notes + 1)
    BY DEF ReadReply, ReadNote, ReadGarbage, ReaderFails, ReaderChecks, ReaderRecovers
  <2>3. notes' \in 0..MaxNotes
    BY <2>2, NotesAssumption DEF Typed, TypeOK
  <2>4. \/ atNode' = atNode
        \/ \E r : atNode' = [atNode EXCEPT ![c] = @ \ {r}]
    BY DEF ReadReply, ReadNote, ReadGarbage, ReaderFails, ReaderChecks, ReaderRecovers
  <2>5. atNode' \in [Conns -> SUBSET Requests]
    BY <2>4 DEF Typed, TypeOK
  <2> QED BY <2>1, <2>3, <2>5
<1> QED BY <1>1, <1>2, <1>4, <1>5, <1>6, <1>7, MoveStages DEF Typed, TypeOK

LEMMA RunTyped ==
  ASSUME Typed, RunCloses \/ PongFails
  PROVE  Typed'
<1>1. "main" \in Goroutines /\ "handler" \in Goroutines BY DEF Goroutines, Conns
<1>2. PICK l \in {"closeClient", "closeErigon", "closeMain", "done"} : Goto("main", l)
  BY DEF RunCloses, PongFails, LeaveReader
<1>3. Moves("main", l, msg["main"])
  BY <1>1, <1>2, GotoMoves DEF RunCloses, PongFails, Places, Carrying
<1>4. pc'["handler"] = pc["handler"] BY <1>1, <1>3 DEF Moves, Typed, TypeOK
<1>5. NumbersLeft' BY <1>4, NumbersKept DEF RunCloses, PongFails, proxy
<1>6. client' \in {"open", "gone", "closed"}
      /\ conn' \in [Conns -> {"nil", "none", "open", "gone", "closed"}]
  BY DEF RunCloses, PongFails, links, Typed, TypeOK
<1> QED BY <1>1, <1>3, <1>5, <1>6, MoveStages
    DEF RunCloses, PongFails, Typed, TypeOK, channel, proxy

(* The process dies.                                                       *)
LEMMA EmptyFrameTyped ==
  ASSUME Typed, NEW c \in Conns, EmptyFrame(c)
  PROVE  Typed'
<1>1. Stages'
  BY DEF EmptyFrame, Stages, Places, Carrying, Goroutines, Conns
<1>2. NumbersLeft'
  BY NumbersKept DEF EmptyFrame, proxy, Goroutines
<1>3. pc' \in [Goroutines -> {"dial", "read", "reply", "forward", "send",
              "replyAndLeave", "setClosed", "closeMain", "closeErigon", "closeChan",
              "closeClient", "recv", "write", "unborn", "check", "done"}]
      /\ msg' \in [Goroutines -> Messages]
      /\ conn' \in [Conns -> {"nil", "none", "open", "gone", "closed"}]
  BY NothingIsAMessage DEF EmptyFrame, Typed, TypeOK
<1> QED BY <1>1, <1>2, <1>3 DEF EmptyFrame, Typed, TypeOK, channel, proxy

(* What happens around the session.                                        *)
LEMMA OthersTyped ==
  ASSUME Typed, \/ ClientLeaves \/ UNCHANGED vars
                \/ \E c \in Conns : NodeDrops(c)
                \/ \E r \in Requests : CacheFills(r)
  PROVE  Typed'
<1>1. UNCHANGED <<pc, msg, unread, nextId>>
  BY DEF ClientLeaves, NodeDrops, CacheFills, vars, proxy
<1>2. Stages' /\ NumbersLeft'
  BY <1>1, NumbersKept DEF Typed, Stages
<1> QED BY <1>1, <1>2
    DEF ClientLeaves, NodeDrops, CacheFills, vars, links, channel, proxy, Typed, TypeOK

LEMMA StepTyped == Typed /\ [Next]_vars => Typed'
BY HandlerTyped, ReadRequestTyped, ForwardUpstreamTyped, SendsTyped, WriterTyped,
   ReaderTyped, RunTyped, EmptyFrameTyped, OthersTyped
DEF Next, HandlerStep, ReaderStep

LEMMA AlwaysTyped == Spec => []Typed
BY InitTyped, StepTyped, PTL DEF Spec

(* The types, for every finite set of requests; in it, that the numbers    *)
(* requests are registered under never exceed the requests there are.      *)
THEOREM TypeCorrect == Spec => []TypeOK
BY AlwaysTyped, PTL DEF Typed
----
(* Connections.                                                            *)

LEMMA InitLinks == Init => Links
BY DEF Init, Links, Goroutines, Conns

LEMMA HandlerLinks ==
  ASSUME Typed, Links, HandlerStep \/ ReadNull \/ PingFails \/ \E r \in Requests : ReadRequest(r)
  PROVE  Links'
<1> USE DEF Goroutines, Conns
<1>1. CASE Dial BY <1>1 DEF Dial, Links, Typed, TypeOK, HasErigon
<1>2. CASE DialFails
  <2>1. pc["main"] = "unborn" /\ pc["erigon"] = "unborn"
    BY <1>2 DEF DialFails, Typed, Stages
  <2>2. /\ pc'["handler"] = "closeChan" /\ UNCHANGED client
        /\ pc'["main"] = "unborn" /\ pc'["erigon"] = "unborn"
    BY <1>2, <2>1 DEF DialFails, Goto, Typed, TypeOK
  <2>3. conn'["erigon"] = conn["erigon"]
        /\ \/ conn'["main"] = conn["main"]
           \/ conn'["main"] = "open" /\ conn["erigon"] # "nil"
    BY <1>2 DEF DialFails, HasErigon
  <2> QED BY <2>1, <2>2, <2>3 DEF Links, HasErigon
<1>3. ASSUME UNCHANGED links, pc["handler"] \notin {"dial", "closeChan", "closeClient", "done"},
             pc'["handler"] # "done",
             pc'["main"] = pc["main"], pc'["erigon"] = pc["erigon"]
      PROVE  Links'
  BY <1>3 DEF Links, links, HasErigon
<1>4. CASE \/ ReadFails \/ ReadNull \/ PingFails \/ ForwardCached \/ ForwardUpstream
           \/ ForwardFails \/ \E r \in Requests : ReadRequest(r)
  <2>1. UNCHANGED links /\ pc["handler"] \in {"read", "forward"}
    BY <1>4 DEF ReadFails, ReadNull, PingFails, ForwardCached, ForwardUpstream, ForwardFails,
                ReadRequest
  <2>2. PICK l \in {"read", "reply", "forward", "send", "replyAndLeave", "setClosed"} :
          Goto("handler", l)
    BY <1>4 DEF ReadFails, ReadNull, PingFails, ForwardCached, ForwardUpstream, ForwardFails,
                ReadRequest, Return, GotoWith
  <2> QED BY <1>3, <2>1, <2>2 DEF Goto, Typed, TypeOK
<1>5. CASE HandlerSends
  <2>1. HandlerNext[pc["handler"]] \in {"read", "setClosed"}
        /\ pc["handler"] \in {"reply", "send", "replyAndLeave"}
    BY <1>5 DEF HandlerSends, HandlerNext
  <2> QED BY <1>3, <1>5, <2>1 DEF HandlerSends, Rendezvous, Typed, TypeOK
<1>6. CASE HandlerCloses
  <2>1. CASE CloseUpstreams
    <3>1. PICK l \in {"closeMain", "closeErigon", "closeChan"} : Goto("handler", l)
      BY <2>1 DEF CloseUpstreams
    <3>2. pc'["handler"] = l /\ pc'["main"] = pc["main"] /\ pc'["erigon"] = pc["erigon"]
      BY <3>1 DEF Goto, Typed, TypeOK
    <3>3. client' = client /\ pc["main"] # "unborn"
      BY <1>6, <2>1 DEF HandlerCloses, CloseUpstreams, CloseSession, Links
    <3>4. conn'["main"] \in {conn["main"], "closed"} /\ conn'["erigon"] \in {conn["erigon"], "closed"}
      BY <2>1 DEF CloseUpstreams, Typed, TypeOK
    <3> QED BY <3>1, <3>2, <3>3, <3>4 DEF Links
  <2>2. CASE CloseSession
    BY <1>6, <2>2 DEF HandlerCloses, CloseSession, CloseUpstreams, Goto, Links, Typed, TypeOK,
       HasErigon
  <2> QED BY <1>6, <2>1, <2>2 DEF HandlerCloses
<1> QED BY <1>1, <1>2, <1>4, <1>5, <1>6 DEF HandlerStep

LEMMA ReaderLinks ==
  ASSUME Typed, Links, RunCloses \/ PongFails
                       \/ \E c \in Conns : ReaderStep(c) \/ ReadNote(c) \/ ReadGarbage(c)
  PROVE  Links'
<1> USE DEF Goroutines, Conns
<1>1. CASE RunCloses
  <2>1. pc'["handler"] = pc["handler"] /\ pc'["erigon"] = pc["erigon"]
    BY <1>1 DEF RunCloses, Goto, Typed, TypeOK
  <2>2. pc["main"] # "unborn" /\ pc'["main"] # "unborn" /\ client' \in {client, "closed"}
    BY <1>1 DEF RunCloses, Goto, Typed, TypeOK
  <2>3. conn["erigon"] \in {"nil", "closed"} => conn'["erigon"] \in {"nil", "closed"}
    BY <1>1 DEF RunCloses, Typed, TypeOK
  <2>4. conn'["main"] # "nil"
    BY <1>1 DEF RunCloses, Links, Typed, TypeOK
  <2>5. pc'["main"] = "closeMain" => conn'["erigon"] \in {"nil", "closed"}
    BY <1>1 DEF RunCloses, Goto, HasErigon, Typed, TypeOK
  <2>6. pc'["main"] = "done" => conn'["main"] = "closed" /\ conn'["erigon"] \in {"nil", "closed"}
    BY <1>1 DEF RunCloses, Goto, Links, Typed, TypeOK
  <2> QED BY <2>1, <2>2, <2>3, <2>4, <2>5, <2>6 DEF Links
<1>2. ASSUME UNCHANGED links, pc'["handler"] = pc["handler"],
             \/ pc'["main"] \in {"read", "check", "send", "closeClient"}
             \/ pc'["main"] = pc["main"] /\ pc["main"] # "unborn"
             \/ pc'["main"] = pc["main"] /\ pc'["erigon"] = pc["erigon"]
      PROVE  Links'
  BY <1>2 DEF Links, links, HasErigon
<1>3. CASE PongFails
  BY <1>2, <1>3 DEF PongFails, LeaveReader, Goto, Typed, TypeOK
<1>4. ASSUME NEW c \in Conns, ReaderStep(c) \/ ReadNote(c) \/ ReadGarbage(c)
      PROVE  Links'
  <2>1. UNCHANGED links /\ pc[c] \in {"read", "check", "send"}
    BY <1>4 DEF ReaderStep, ReadReply, ReaderFails, ReaderChecks, ReaderSends, ReaderRecovers,
                ReadNote, ReadGarbage, links
  <2>2. /\ pc'["handler"] = pc["handler"]
        /\ \A d \in Conns : d # c => pc'[d] = pc[d]
        /\ c = "main" => pc'[c] \in {"read", "check", "send", "closeClient"}
    <3>1. CASE ReaderSends(c) BY <3>1 DEF ReaderSends, Rendezvous, Typed, TypeOK
    <3>2. CASE \/ ReadReply(c) \/ ReadNote(c) \/ ReadGarbage(c) \/ ReaderFails(c)
               \/ ReaderChecks(c) \/ ReaderRecovers(c)
      <4>1. \E l : /\ Goto(c, l)
                   /\ c = "main" => l \in {"read", "check", "send", "closeClient"}
        BY <3>2 DEF ReadReply, ReadNote, ReadGarbage, ReaderFails, ReaderChecks,
           ReaderRecovers, TakeFrame, LeaveReader, Return, GotoWith
      <4> QED BY <4>1 DEF Goto, Typed, TypeOK
    <3> QED BY <1>4, <3>1, <3>2 DEF ReaderStep
  <2>3. pc["main"] = "unborn" => pc["erigon"] = "unborn" BY DEF Links
  <2>4. CASE c = "main" BY <1>2, <2>1, <2>2, <2>4
  <2>5. CASE c = "erigon"
    <3>1. pc["main"] # "unborn" /\ pc'["main"] = pc["main"] BY <2>1, <2>2, <2>3, <2>5
    <3> QED BY <1>2, <2>1, <2>2, <3>1
  <2> QED BY <2>4, <2>5
<1> QED BY <1>1, <1>3, <1>4

LEMMA OthersLinks ==
  ASSUME Typed, Links, \/ WriterStep \/ ClientLeaves \/ UNCHANGED vars
                       \/ \E c \in Conns : NodeDrops(c) \/ EmptyFrame(c)
                       \/ \E r \in Requests : CacheFills(r)
  PROVE  Links'
<1> USE DEF Goroutines, Conns
<1>1. CASE WriterStep
  <2>1. \E l : Goto("writer", l)
    BY <1>1 DEF WriterStep, WriterEnds, WriterWrites, WriterFails, Return, GotoWith
  <2>2. \A g \in {"handler", "main", "erigon"} : pc'[g] = pc[g]
    BY <2>1 DEF Goto, Typed, TypeOK
  <2>3. UNCHANGED links BY <1>1 DEF WriterStep, WriterEnds, WriterWrites, WriterFails
  <2> QED BY <2>2, <2>3 DEF Links, links, HasErigon
<1>2. CASE ClientLeaves BY <1>2 DEF ClientLeaves, Links, HasErigon
<1>3. CASE UNCHANGED vars BY <1>3 DEF vars, links, Links, HasErigon
<1>4. ASSUME NEW c \in Conns, NodeDrops(c) PROVE Links'
  <2>1. \A d \in Conns : \/ conn'[d] = conn[d]
                         \/ conn[d] = "open" /\ conn'[d] = "gone"
    BY <1>4 DEF NodeDrops, Typed, TypeOK
  <2>2. UNCHANGED <<client, pc>> BY <1>4 DEF NodeDrops
  <2> QED BY <2>1, <2>2 DEF Links, HasErigon
<1>5. ASSUME NEW c \in Conns, EmptyFrame(c) PROVE Links'
  BY <1>5 DEF EmptyFrame, Links, HasErigon, Typed, TypeOK
<1>6. ASSUME NEW r \in Requests, CacheFills(r) PROVE Links'
  BY <1>6 DEF CacheFills, Links, links, HasErigon
<1> QED BY <1>1, <1>2, <1>3, <1>4, <1>5, <1>6

LEMMA StepLinks == Typed /\ Links /\ [Next]_vars => Links'
BY HandlerLinks, ReaderLinks, OthersLinks DEF Next

LEMMA LinksRelease == Typed /\ Links => ConnectionsReleased
BY DEF Typed, Stages, Places, Links, ConnectionsReleased, AllDone, Goroutines, Conns

(* No connection outlives the goroutines of its session, however the       *)
(* handler's deferred closings and those of run() interleave, but for the  *)
(* first connection when the second dial failed.                           *)
THEOREM ConnectionsReleasedHolds == Spec => []ConnectionsReleased
BY AlwaysTyped, InitLinks, StepLinks, LinksRelease, PTL DEF Spec
----
(* Replies.                                                                *)

LEMMA NoRequestIsNothing == Nothing.body \notin Requests /\ Note \notin Requests
BY RequestsAssumption DEF Nothing, Msg, Note

LEMMA InitOnePlace == Init => OnePlace
BY NoRequestIsNothing DEF Init, OnePlace

(* Nothing new is sent, asked for, held or answered; some of it is lost.   *)
LEMMA OnlyLost ==
  ASSUME OnePlace, UNCHANGED answers, unread' \subseteq unread,
         \A c \in Conns : atNode'[c] \subseteq atNode[c],
         \A g \in Goroutines : \/ msg'[g].body = msg[g].body
                               \/ msg'[g].body \notin Requests
  PROVE  OnePlace'
BY DEF OnePlace

(* A request goes from the client to the handler.                          *)
LEMMA ReadRequestOnePlace ==
  ASSUME Typed, OnePlace, NEW r \in Requests, ReadRequest(r)
  PROVE  OnePlace'
<1>1. /\ r \in unread /\ unread' = unread \ {r}
      /\ UNCHANGED <<atNode, answers>>
      /\ \A g \in Goroutines : msg'[g] = IF g = "handler" THEN Msg(r, FALSE) ELSE msg[g]
  BY DEF ReadRequest, GotoWith, Typed, TypeOK
<1>2. Msg(r, FALSE).body = r /\ "handler" \in Goroutines BY DEF Msg, Goroutines
<1>3. ASSUME NEW q \in Requests, q # r
      PROVE  \A g \in Goroutines : msg'[g].body = q => msg[g].body = q
  BY <1>1, <1>2, <1>3
<1>4. /\ answers[r] = 0 /\ \A c \in Conns : r \notin atNode[c]
      /\ \A g \in Goroutines : msg'[g].body = r => g = "handler"
  BY <1>1 DEF OnePlace
<1> QED BY <1>1, <1>3, <1>4 DEF OnePlace

(* From the handler to a node, unless it is lost or refused.               *)
LEMMA ForwardUpstreamOnePlace ==
  ASSUME Typed, OnePlace, ForwardUpstream
  PROVE  OnePlace'
<1> DEFINE r == msg["handler"].body
<1>1. r \in Requests BY DEF ForwardUpstream, Typed, Stages, Carrying
<1>2. Target(r) \in Conns BY DEF Target, Conns
<1>3. UNCHANGED <<unread, answers>> BY DEF ForwardUpstream
<1>4. CASE Return("handler", "read") /\ atNode' = [atNode EXCEPT ![Target(r)] = @ \cup {r}]
  <2>1. \A g \in Goroutines : msg'[g] = IF g = "handler" THEN Nothing ELSE msg[g]
    BY <1>4 DEF Return, GotoWith, Typed, TypeOK
  <2>2. \A c \in Conns : atNode'[c] = IF c = Target(r) THEN atNode[c] \cup {r} ELSE atNode[c]
    BY <1>4 DEF Typed, TypeOK
  <2>3. "handler" \in Goroutines BY DEF Goroutines
  <2> HIDE DEF r
  <2>4. ASSUME NEW q \in Requests, q # r
        PROVE  /\ \A c \in Conns : q \in atNode'[c] <=> q \in atNode[c]
               /\ \A g \in Goroutines : msg'[g].body = q => msg[g].body = q
    BY <2>1, <2>2, <2>4, NoRequestIsNothing
  <2>5. msg["handler"].body = r BY DEF r
  <2>6. /\ r \notin unread /\ answers[r] = 0
        /\ \A c \in Conns : r \notin atNode[c]
        /\ \A g \in Goroutines : msg[g].body = r => g = "handler"
    BY <1>1, <2>3, <2>5 DEF OnePlace
  <2>7. /\ \A c \in Conns : r \in atNode'[c] => c = Target(r)
        /\ \A g \in Goroutines : msg'[g].body # r
    BY <1>1, <2>1, <2>2, <2>6, NoRequestIsNothing
  <2> QED BY <1>3, <2>4, <2>6, <2>7 DEF OnePlace
<1>5. CASE UNCHANGED atNode
  <2>1. \E m \in {Nothing, msg["handler"]} : msg' = [msg EXCEPT !["handler"] = m]
    BY DEF ForwardUpstream, Return, GotoWith
  <2>2. \A g \in Goroutines : msg'[g] \in {msg[g], Nothing}
    BY <2>1 DEF Typed, TypeOK
  <2> QED BY <1>3, <1>5, <2>2, OnlyLost, NoRequestIsNothing
<1> QED BY <1>4, <1>5 DEF ForwardUpstream

(* From a node to the goroutine that reads from it.                        *)
LEMMA ReadReplyOnePlace ==
  ASSUME Typed, OnePlace, NEW c \in Conns, ReadReply(c)
  PROVE  OnePlace'
<1>1. c \in Goroutines BY DEF Goroutines
<1>2. PICK r \in atNode[c] : /\ atNode' = [atNode EXCEPT ![c] = @ \ {r}]
                             /\ \E sub \in BOOLEAN : GotoWith(c, "check", Msg(r, sub))
  <2>1. \A id : IsSubscription(id) \in BOOLEAN BY DEF IsSubscription
  <2> QED BY <2>1 DEF ReadReply, TakeFrame
<1>3. r \in Requests BY DEF Typed, TypeOK
<1>4. PICK m : msg' = [msg EXCEPT ![c] = m] /\ m.body = r
  <2>1. PICK sub \in BOOLEAN : GotoWith(c, "check", Msg(r, sub)) BY <1>2
  <2>2. Msg(r, sub).body = r BY DEF Msg
  <2> QED BY <2>1, <2>2 DEF GotoWith
<1>5. \A g \in Goroutines : msg'[g] = IF g = c THEN m ELSE msg[g]
  BY <1>4 DEF Typed, TypeOK
<1>6. \A d \in Conns : atNode'[d] = IF d = c THEN atNode[d] \ {r} ELSE atNode[d]
  BY <1>2 DEF Typed, TypeOK
<1>7. UNCHANGED <<unread, answers>> BY DEF ReadReply
<1>8. ASSUME NEW q \in Requests, q # r
      PROVE  /\ \A d \in Conns : q \in atNode'[d] <=> q \in atNode[d]
             /\ \A g \in Goroutines : msg'[g].body = q => msg[g].body = q
  BY <1>4, <1>5, <1>6, <1>8
<1>9. /\ r \notin unread /\ answers[r] = 0
      /\ \A d \in Conns : r \notin atNode'[d]
      /\ \A g \in Goroutines : msg'[g].body = r => g = c
  BY <1>3, <1>5, <1>6 DEF OnePlace
<1> QED BY <1>7, <1>8, <1>9 DEF OnePlace

(* From one goroutine to the writer.                                       *)
LEMMA RendezvousOnePlace ==
  ASSUME Typed, OnePlace, NEW g \in Goroutines \ {"writer"}, NEW l, Rendezvous(g, l),
         UNCHANGED <<unread, atNode, answers>>
  PROVE  OnePlace'
<1>1. "writer" \in Goroutines /\ msg["writer"] = Nothing
  BY DEF Rendezvous, Typed, Stages, Carrying, Goroutines
<1>2. \A h \in Goroutines : msg'[h] = IF h = "writer" THEN msg[g]
                                      ELSE IF h = g THEN Nothing ELSE msg[h]
  BY DEF Rendezvous, Typed, TypeOK
<1> QED BY <1>1, <1>2, NoRequestIsNothing DEF OnePlace

(* From the writer to the client.                                          *)
LEMMA WriterWritesOnePlace ==
  ASSUME Typed, OnePlace, WriterWrites
  PROVE  OnePlace'
<1> DEFINE r == msg["writer"].body
<1>1. "writer" \in Goroutines BY DEF Goroutines
<1>2. UNCHANGED <<unread, atNode>> BY DEF WriterWrites
<1>3. \A g \in Goroutines : msg'[g] = IF g = "writer" THEN Nothing ELSE msg[g]
  BY DEF WriterWrites, Return, GotoWith, Typed, TypeOK
<1>4. \A q \in Requests : answers'[q] = IF q = r THEN answers[q] + 1 ELSE answers[q]
  BY DEF WriterWrites, Typed, TypeOK
<1> HIDE DEF r
<1>5. ASSUME NEW q \in Requests, q # r
      PROVE  /\ answers'[q] = answers[q]
             /\ \A g \in Goroutines : msg'[g].body = q => msg[g].body = q
  BY <1>3, <1>4, <1>5, NoRequestIsNothing
<1>6. r \in Requests =>
        /\ r \notin unread /\ answers'[r] = 1
        /\ \A c \in Conns : r \notin atNode[c]
        /\ \A g \in Goroutines : msg'[g].body # r
  BY <1>1, <1>3, <1>4, NoRequestIsNothing DEF OnePlace, r
<1> QED BY <1>2, <1>5, <1>6 DEF OnePlace

(* Every other action at most loses a message.                             *)
LEMMA OtherwiseLost ==
  ASSUME Typed, OnePlace,
         \/ Dial \/ DialFails \/ ReadFails \/ ReadNull \/ PingFails
         \/ ForwardCached \/ ForwardFails \/ HandlerCloses
         \/ WriterEnds \/ WriterFails \/ RunCloses \/ PongFails \/ ClientLeaves
         \/ \E c \in Conns : \/ ReaderFails(c) \/ ReaderChecks(c) \/ ReaderRecovers(c)
                            \/ ReadNote(c) \/ ReadGarbage(c)
                            \/ EmptyFrame(c) \/ NodeDrops(c)
         \/ \E r \in Requests : CacheFills(r)
         \/ UNCHANGED vars
  PROVE  OnePlace'
<1>1. UNCHANGED <<unread, atNode, answers>>
  BY DEF Dial, DialFails, ReadFails, ReadNull, PingFails, ForwardCached, ForwardFails,
         HandlerCloses, WriterEnds, WriterFails, RunCloses, PongFails, ClientLeaves,
         ReaderFails, ReaderChecks, ReaderRecovers, ReadNote, ReadGarbage, EmptyFrame,
         NodeDrops, CacheFills, vars
<1>2. \/ UNCHANGED msg
      \/ msg' = [g \in Goroutines |-> Nothing]
      \/ \E g \in Goroutines : \E m : /\ msg' = [msg EXCEPT ![g] = m]
                                      /\ m.body \notin Requests \/ m = msg[g]
  BY NoRequestIsNothing
  DEF Dial, DialFails, ReadFails, ReadNull, PingFails, ForwardCached, ForwardFails,
      HandlerCloses, WriterEnds, WriterFails, RunCloses, PongFails, ClientLeaves,
      ReaderFails, ReaderChecks, ReaderRecovers, ReadNote, ReadGarbage, EmptyFrame,
      NodeDrops, CacheFills, vars, TakeFrame, Return, GotoWith, Msg, Goroutines
<1>3. \A g \in Goroutines : msg'[g].body = msg[g].body \/ msg'[g].body \notin Requests
  <2>1. CASE UNCHANGED msg BY <2>1
  <2>2. CASE msg' = [g \in Goroutines |-> Nothing] BY <2>2, NoRequestIsNothing
  <2>3. ASSUME NEW g \in Goroutines, NEW m, msg' = [msg EXCEPT ![g] = m],
               m.body \notin Requests \/ m = msg[g],
               NEW h \in Goroutines
        PROVE  msg'[h].body = msg[h].body \/ msg'[h].body \notin Requests
    <3>1. msg'[h] = IF h = g THEN m ELSE msg[h] BY <2>3 DEF Typed, TypeOK
    <3> QED BY <2>3, <3>1
  <2>4. CASE \E g \in Goroutines : \E m : /\ msg' = [msg EXCEPT ![g] = m]
                                          /\ m.body \notin Requests \/ m = msg[g]
    <3>1. PICK g \in Goroutines : \E m : /\ msg' = [msg EXCEPT ![g] = m]
                                         /\ m.body \notin Requests \/ m = msg[g]
      BY <2>4
    <3> QED BY <2>3, <3>1
  <2> QED BY <1>2, <2>1, <2>2, <2>4
<1> QED BY <1>1, <1>3, OnlyLost

LEMMA StepOnePlace == Typed /\ OnePlace /\ [Next]_vars => OnePlace'
<1> SUFFICES ASSUME Typed, OnePlace, [Next]_vars PROVE OnePlace' OBVIOUS
<1>1. ASSUME NEW c \in Conns, ReaderSends(c) PROVE OnePlace'
  BY <1>1, RendezvousOnePlace DEF ReaderSends, Goroutines, Conns
<1>2. CASE HandlerSends
  BY <1>2, RendezvousOnePlace DEF HandlerSends, Goroutines
<1> QED BY <1>1, <1>2, ReadRequestOnePlace, ForwardUpstreamOnePlace, ReadReplyOnePlace,
           WriterWritesOnePlace, OtherwiseLost
        DEF Next, HandlerStep, WriterStep, ReaderStep

(* No request is answered twice, whatever the handler, the readers and the *)
(* writer interleave: at any time a request is in one place only.          *)
THEOREM AtMostOneReplyHolds == Spec => []AtMostOneReply
<1>1. OnePlace => AtMostOneReply BY DEF OnePlace, AtMostOneReply
<1> QED BY <1>1, AlwaysTyped, InitOnePlace, StepOnePlace, PTL DEF Spec
----
(* What the session promises.                                              *)

(* The flag is set, and the channel closed, by a handler that is leaving;  *)
(* a node has only requests that are for it; nothing breaks before it is   *)
(* there.                                                                  *)
Ending == flag \/ chan = "closed" => pc["handler"] \in Leaving
OwnNode == \A c \in Conns : \A r \in atNode[c] : Target(r) = c
Undialed == pc["handler"] = "dial" => \A c \in Conns : conn[c] \in {"nil", "none"}
Kept == Typed /\ Links /\ OnePlace /\ Ending /\ OwnNode /\ Undialed

LEMMA InitKept == Init => Kept
BY InitTyped, InitLinks, InitOnePlace DEF Init, Kept, Ending, OwnNode, Undialed, Goroutines

(* The handler's places, from one step to the next: who leaves goes on     *)
(* leaving, and nobody dials again.                                        *)
LEMMA HandlerGoesOn ==
  ASSUME Typed, [Next]_vars
  PROVE  /\ pc["handler"] \in Leaving => pc'["handler"] \in Leaving
         /\ pc'["handler"] = "dial" => pc["handler"] = "dial"
<1> USE DEF Goroutines, Conns, Leaving
<1>1. CASE Dial \/ DialFails
  BY <1>1 DEF Dial, DialFails
<1>2. CASE \/ ReadFails \/ ReadNull \/ PingFails \/ ForwardCached \/ ForwardUpstream
           \/ ForwardFails \/ \E r \in Requests : ReadRequest(r)
  <2>1. PICK l \in {"read", "reply", "forward", "send", "replyAndLeave", "setClosed"} :
          Goto("handler", l)
    BY <1>2 DEF ReadFails, ReadNull, PingFails, ForwardCached, ForwardUpstream, ForwardFails,
                ReadRequest, Return, GotoWith
  <2>2. pc["handler"] \notin Leaving
    BY <1>2 DEF ReadFails, ReadNull, PingFails, ForwardCached, ForwardUpstream, ForwardFails,
                ReadRequest
  <2> QED BY <2>1, <2>2 DEF Goto, Typed, TypeOK
<1>3. CASE HandlerSends
  <2>1. HandlerNext[pc["handler"]] # "dial" /\ pc["handler"] \in {"reply", "send", "replyAndLeave"}
    BY <1>3 DEF HandlerSends, HandlerNext
  <2> QED BY <1>3, <2>1 DEF HandlerSends, Rendezvous, Typed, TypeOK
<1>4. CASE HandlerCloses
  <2>1. \E l \in Leaving : Goto("handler", l)
    BY <1>4 DEF HandlerCloses, CloseUpstreams, CloseSession
  <2> QED BY <2>1 DEF Goto, Typed, TypeOK
<1>5. CASE WriterStep
  <2>1. \E l : Goto("writer", l)
    BY <1>5 DEF WriterStep, WriterEnds, WriterWrites, WriterFails, Return, GotoWith
  <2> QED BY <2>1 DEF Goto, Typed, TypeOK
<1>6. ASSUME NEW c \in Conns, ReaderStep(c) \/ ReadNote(c) \/ ReadGarbage(c)
      PROVE  pc'["handler"] = pc["handler"]
  <2>1. CASE ReaderSends(c) BY <2>1 DEF ReaderSends, Rendezvous, Typed, TypeOK
  <2>2. CASE \/ ReadReply(c) \/ ReadNote(c) \/ ReadGarbage(c) \/ ReaderFails(c)
             \/ ReaderChecks(c) \/ ReaderRecovers(c)
    <3>1. \E l : Goto(c, l)
      BY <2>2 DEF ReadReply, ReadNote, ReadGarbage, ReaderFails, ReaderChecks,
         ReaderRecovers, TakeFrame, LeaveReader, Return, GotoWith
    <3> QED BY <3>1 DEF Goto, Typed, TypeOK
  <2> QED BY <1>6, <2>1, <2>2 DEF ReaderStep
<1>7. CASE RunCloses \/ PongFails
  BY <1>7 DEF RunCloses, PongFails, LeaveReader, Goto, Typed, TypeOK
<1>8. ASSUME NEW c \in Conns, EmptyFrame(c) PROVE pc'["handler"] = "done"
  BY <1>8 DEF EmptyFrame
<1>9. CASE ClientLeaves \/ UNCHANGED vars \/ (\E c \in Conns : NodeDrops(c))
           \/ \E r \in Requests : CacheFills(r)
  BY <1>9 DEF ClientLeaves, vars, NodeDrops, CacheFills
<1> QED BY <1>1, <1>2, <1>3, <1>4, <1>5, <1>6, <1>7, <1>8, <1>9 DEF Next, HandlerStep

LEMMA StillLeaving ==
  ASSUME Typed, [Next]_vars, pc["handler"] \in Leaving
  PROVE  pc'["handler"] \in Leaving
BY HandlerGoesOn

LEMMA StepEnding == Typed /\ Ending /\ [Next]_vars => Ending'
<1> SUFFICES ASSUME Typed, Ending, [Next]_vars PROVE Ending' OBVIOUS
<1>1. CASE flag \/ chan = "closed"
  BY <1>1, StillLeaving DEF Ending
<1>2. CASE UNCHANGED channel
  BY <1>2, StillLeaving DEF channel, Ending
<1>3. CASE HandlerCloses
  BY <1>3 DEF HandlerCloses, CloseUpstreams, CloseSession, Goto, Ending, Leaving,
     Typed, TypeOK, Goroutines
<1>4. ASSUME NEW c \in Conns, ReaderRecovers(c) PROVE Ending'
  BY <1>1, <1>4 DEF ReaderRecovers
<1> QED
  BY <1>2, <1>3, <1>4
  DEF Next, HandlerStep, WriterStep, ReaderStep, Dial, DialFails, ReadFails, ReadNull,
      PingFails, ForwardCached, ForwardUpstream, ForwardFails, HandlerSends, ReadRequest,
      WriterEnds, WriterWrites, WriterFails, ReadReply, ReadNote, ReadGarbage, ReaderFails,
      ReaderChecks, ReaderSends, RunCloses, PongFails, EmptyFrame, NodeDrops, CacheFills,
      ClientLeaves, vars

LEMMA StepOwnNode == Typed /\ OwnNode /\ [Next]_vars => OwnNode'
<1> SUFFICES ASSUME Typed, OwnNode, [Next]_vars PROVE OwnNode' OBVIOUS
<1>1. CASE UNCHANGED atNode BY <1>1 DEF OwnNode, Target
<1>2. CASE ForwardUpstream
  <2>1. \/ UNCHANGED atNode
        \/ \E r : atNode' = [atNode EXCEPT ![Target(r)] = @ \cup {r}]
    BY <1>2 DEF ForwardUpstream
  <2> QED BY <1>1, <2>1 DEF OwnNode, Target, Typed, TypeOK
<1>3. ASSUME NEW c \in Conns, ReadReply(c) PROVE OwnNode'
  BY <1>3 DEF ReadReply, OwnNode, Target, Typed, TypeOK
<1> QED
  BY <1>1, <1>2, <1>3
  DEF Next, HandlerStep, WriterStep, ReaderStep, Dial, DialFails, ReadFails, ReadNull,
      PingFails, ForwardCached, ForwardFails, HandlerSends, HandlerCloses, ReadRequest,
      WriterEnds, WriterWrites, WriterFails, ReadNote, ReadGarbage, ReaderFails,
      ReaderChecks, ReaderSends, ReaderRecovers, RunCloses, PongFails, EmptyFrame, NodeDrops,
      CacheFills, ClientLeaves, vars

LEMMA StepUndialed == Typed /\ Undialed /\ [Next]_vars => Undialed'
<1> SUFFICES ASSUME Typed, Undialed, [Next]_vars, pc'["handler"] = "dial" PROVE Undialed'
  BY DEF Undialed
<1>1. pc["handler"] = "dial" /\ \A c \in Conns : pc[c] = "unborn"
  BY HandlerGoesOn DEF Typed, Stages
<1>2. ~Dial /\ ~DialFails /\ ~HandlerCloses /\ ~RunCloses /\ \A c \in Conns : ~EmptyFrame(c)
  BY <1>1 DEF Dial, DialFails, HandlerCloses, CloseUpstreams, CloseSession, RunCloses,
              EmptyFrame, Conns, Goto, Goroutines, Typed, TypeOK
<1>3. \A c \in Conns : ~NodeDrops(c)
  BY <1>1 DEF NodeDrops, Undialed
<1>4. UNCHANGED conn
  BY <1>2, <1>3
  DEF Next, HandlerStep, WriterStep, ReaderStep, ReadFails, ReadNull, PingFails,
      ForwardCached, ForwardUpstream, ForwardFails, HandlerSends, ReadRequest, WriterEnds,
      WriterWrites, WriterFails, ReadReply, ReadNote, ReadGarbage, ReaderFails, ReaderChecks,
      ReaderSends, ReaderRecovers, PongFails, CacheFills, ClientLeaves, vars, links
<1> QED BY <1>1, <1>4 DEF Undialed

LEMMA KeptInvariant == Spec => []Kept
<1>1. Kept /\ [Next]_vars => Kept'
  BY StepTyped, StepLinks, StepOnePlace, StepEnding, StepOwnNode, StepUndialed DEF Kept
<1> QED BY <1>1, InitKept, PTL DEF Spec

(* A stage is known by where the request is.                               *)
StageOf(r) ==
  /\ r \in unread => Stage(r) = "client"
  /\ answers[r] = 1 => Stage(r) = "answered"
  /\ \A c \in Conns : r \in atNode[c] => Stage(r) = "node"
  /\ Taken(r) => Stage(r) = "accepted"
  /\ InHand(r) => Stage(r) = "answer"
  /\ (/\ r \notin unread /\ answers[r] = 0 /\ ~Taken(r) /\ ~InHand(r)
      /\ \A c \in Conns : r \notin atNode[c]) => Stage(r) = "nowhere"
StagesKnown == \A r \in Requests : StageOf(r)

LEMMA StageIs == Kept => StagesKnown
<1> SUFFICES ASSUME Kept, NEW r \in Requests PROVE StageOf(r) BY DEF StagesKnown
<1>1. Target(r) \in Conns /\ "handler" \in Goroutines BY DEF Target, Conns, Goroutines
<1>2. answers[r] = 0 \/ answers[r] = 1
  BY DEF Kept, OnePlace, Typed, TypeOK
<1>3. r \in unread => answers[r] = 0 /\ r \notin atNode[Target(r)] /\ ~Taken(r) /\ ~InHand(r)
  BY <1>1 DEF Kept, OnePlace, Taken, InHand
<1>4. \A c \in Conns : r \in atNode[c] =>
        answers[r] = 0 /\ c = Target(r) /\ ~Taken(r) /\ ~InHand(r)
  BY <1>1 DEF Kept, OnePlace, OwnNode, Taken, InHand
<1>5. Taken(r) => answers[r] = 0 /\ ~InHand(r)
  BY <1>1 DEF Kept, OnePlace, Taken, InHand
<1>6. InHand(r) => answers[r] = 0
  BY DEF Kept, OnePlace, InHand
<1> QED BY <1>1, <1>2, <1>3, <1>4, <1>5, <1>6 DEF Stage, Place, StageOf

LEMMA StageIsNext == Kept' => StagesKnown'
BY StageIs, PTL

LEMMA StageSame ==
  ASSUME NEW r \in Requests, r \in unread' <=> r \in unread, answers'[r] = answers[r],
         \A c \in Conns : r \in atNode'[c] <=> r \in atNode[c],
         Taken(r)' <=> Taken(r), InHand(r)' <=> InHand(r)
  PROVE  Stage(r)' = Stage(r)
<1>1. Target(r) \in Conns /\ Target(r)' = Target(r) BY DEF Target, Conns
<1>2. Place(r)' = Place(r) BY <1>1 DEF Place
<1> QED BY <1>2 DEF Stage

(* A goroutine's message changes nothing for the requests it is not about. *)
LEMMA OthersSame ==
  ASSUME NEW q \in Requests, NEW g \in Goroutines,
         \A h \in Goroutines : h # g => msg'[h] = msg[h],
         g = "handler" \/ pc'["handler"] = pc["handler"],
         msg[g].body # q, msg'[g].body # q
  PROVE  (Taken(q)' <=> Taken(q)) /\ (InHand(q)' <=> InHand(q))
BY DEF Taken, InHand, Goroutines

(* The steps of the promise.                                               *)
LEMMA MoveStep ==
  ASSUME NEW r \in Requests, NEW from, NEW to, Stage(r) = from, Stage(r)' = to,
         \A q \in Requests \ {r} : Stage(q)' = Stage(q),
         UNCHANGED <<Phase, Broken>>
  PROVE  Promise!Move(r, from, to)
BY DEF Promise!Move

LEMMA EndStep ==
  ASSUME Phase' # "up", Phase = "down" => Phase' = "down",
         Broken \subseteq Broken',
         \A r \in Requests : \/ Stage(r)' = Stage(r)
                             \/ Stage(r) \in {"accepted", "answer"} /\ Stage(r)' = "nowhere"
  PROVE  Promise!Next
<1> DEFINE lost == {r \in Requests : Stage(r) \in {"accepted", "answer"} /\ Stage(r)' = "nowhere"}
<1>1. Phase \in {"up", "ending", "down"} /\ Phase' \in {"ending", "down"}
  BY DEF Phase
<1>2. Phase' \in Promise!Ends[Phase] BY <1>1 DEF Promise!Ends
<1>3. \A r \in Requests : Stage(r)' = IF r \in lost THEN "nowhere" ELSE Stage(r)
  OBVIOUS
<1>4. Broken' \in SUBSET Conns /\ Broken' = Broken \cup Broken' BY DEF Broken
<1>5. Promise!End(Phase', lost, Broken')
  BY <1>2, <1>3, <1>4 DEF Promise!End
<1> QED BY <1>1, <1>4, <1>5 DEF Promise!Next

LEMMA NoMove ==
  ASSUME Phase = "down" => Phase' = "down", Phase' = "up" => Phase = "up",
         NEW c \in Conns, Broken' = Broken \/ Broken' = Broken \cup {c},
         \A r \in Requests : Stage(r)' = Stage(r)
  PROVE  [Promise!Next]_<<[r \in Requests |-> Stage(r)], Phase, Broken>>
<1>1. CASE Phase' # "up" BY <1>1, EndStep
<1>2. CASE Phase' = Phase /\ Broken' = Broken BY <1>2
<1>3. CASE Phase' = Phase /\ Broken' = Broken \cup {c}
  <2>1. Promise!Break(c) BY <1>3 DEF Promise!Break
  <2> QED BY <2>1 DEF Promise!Next
<1> QED BY <1>1, <1>2, <1>3

LEMMA ClientStaysAway ==
  ASSUME Typed, [Next]_vars, client # "open"
  PROVE  client' # "open"
BY DEF Next, HandlerStep, WriterStep, ReaderStep, Dial, DialFails, ReadFails, ReadNull,
       PingFails, ForwardCached, ForwardUpstream, ForwardFails, HandlerSends, HandlerCloses,
       CloseSession, ReadRequest, WriterEnds, WriterWrites, WriterFails, ReadReply, ReadNote,
       ReadGarbage, ReaderFails, ReaderChecks, ReaderSends, ReaderRecovers, RunCloses,
       PongFails, EmptyFrame, NodeDrops, CacheFills, ClientLeaves, vars, links

LEMMA PhaseAdvances ==
  ASSUME Typed, [Next]_vars
  PROVE  /\ Phase = "down" => Phase' = "down"
         /\ Phase' = "up" => Phase = "up"
BY StillLeaving, ClientStaysAway DEF Phase

LEMMA BrokenStays ==
  ASSUME UNCHANGED conn
  PROVE  Broken' = Broken
BY DEF Broken

(* The handler and run() close one connection at a time, and a node drops  *)
(* one.                                                                    *)
LEMMA BrokenGrows ==
  ASSUME Kept,
         \/ Dial \/ DialFails \/ HandlerCloses \/ RunCloses
         \/ \E c \in Conns : NodeDrops(c)
  PROVE  \E c \in Conns : Broken' = Broken \/ Broken' = Broken \cup {c}
<1> USE DEF Kept
<1>1. ASSUME NEW c \in Conns, NEW v \in {"gone", "closed"}, conn' = [conn EXCEPT ![c] = v]
      PROVE  Broken' = Broken \cup {c}
  BY <1>1 DEF Broken, Typed, TypeOK
<1>2. CASE UNCHANGED conn BY <1>2 DEF Broken, Conns
<1>3. CASE Dial
  <2>1. \A c \in Conns : conn[c] \in {"nil", "none"}
    BY <1>3 DEF Dial, Undialed
  <2> QED BY <1>3, <2>1 DEF Dial, Broken, Conns
<1>4. CASE DialFails
  <2>1. \A c \in Conns : conn[c] \in {"nil", "none"}
    BY <1>4 DEF DialFails, Undialed
  <2>2. PICK made \in {{}, {"main"}} :
          conn' = [c \in Conns |-> IF c \in made THEN "open" ELSE conn[c]]
    BY <1>4 DEF DialFails
  <2>3. conn["main"] # "nil" BY DEF Links
  <2>4. \A c \in Conns : conn'[c] = conn[c] \/ (conn[c] # "nil" /\ conn'[c] = "open")
    <3>1. \A c \in made : c = "main" BY <2>2
    <3> QED BY <2>2, <2>3, <3>1
  <2> QED BY <2>1, <2>4 DEF Broken, Conns
<1>5. CASE HandlerCloses
  BY <1>1, <1>2, <1>5 DEF HandlerCloses, CloseUpstreams, Conns
<1>6. CASE RunCloses
  BY <1>1, <1>2, <1>6 DEF RunCloses, Conns
<1>7. ASSUME NEW c \in Conns, NodeDrops(c)
      PROVE  \E d \in Conns : Broken' = Broken \/ Broken' = Broken \cup {d}
  BY <1>1, <1>7 DEF NodeDrops
<1> QED BY <1>3, <1>4, <1>5, <1>6, <1>7

(* Steps in which no request moves on.                                     *)
LEMMA RestStep ==
  ASSUME Kept, [Next]_vars,
         \/ Dial \/ DialFails \/ ReadFails \/ ReadNull \/ PingFails \/ HandlerCloses
         \/ WriterEnds \/ RunCloses \/ PongFails \/ ClientLeaves \/ UNCHANGED vars
         \/ \E c \in Conns : ReaderFails(c) \/ ReadGarbage(c) \/ NodeDrops(c)
         \/ \E r \in Requests : CacheFills(r)
  PROVE  [Promise!Next]_<<[r \in Requests |-> Stage(r)], Phase, Broken>>
<1>1. UNCHANGED <<unread, atNode, answers, msg>>
  BY DEF Dial, DialFails, ReadFails, ReadNull, PingFails, HandlerCloses, WriterEnds, RunCloses,
         PongFails, ClientLeaves, ReaderFails, ReadGarbage, NodeDrops, CacheFills, vars
<1>2. \/ pc["handler"] # "forward" /\ pc'["handler"] # "forward"
      \/ pc'["handler"] = pc["handler"]
  <2>1. CASE UNCHANGED pc BY <2>1
  <2>2. CASE Dial
    BY <2>2 DEF Dial, Goroutines
  <2>3. CASE DialFails \/ ReadFails \/ ReadNull \/ PingFails \/ HandlerCloses
    <3>1. pc["handler"] # "forward" /\ \E l : Goto("handler", l) /\ l # "forward"
      BY <2>3 DEF DialFails, ReadFails, ReadNull, PingFails, HandlerCloses, CloseUpstreams,
                  CloseSession
    <3> QED BY <3>1 DEF Goto, Kept, Typed, TypeOK, Goroutines
  <2>4. CASE \/ WriterEnds \/ RunCloses \/ PongFails
             \/ \E c \in Conns : ReaderFails(c) \/ ReadGarbage(c)
    <3>1. \E g \in {"writer"} \cup Conns : \E l : Goto(g, l)
      BY <2>4 DEF WriterEnds, RunCloses, PongFails, ReaderFails, ReadGarbage, LeaveReader, Conns
    <3> QED BY <3>1 DEF Goto, Kept, Typed, TypeOK, Goroutines, Conns
  <2> QED BY <2>1, <2>2, <2>3, <2>4 DEF ClientLeaves, NodeDrops, CacheFills, vars
<1>3. \A r \in Requests : Stage(r)' = Stage(r)
  <2> SUFFICES ASSUME NEW r \in Requests PROVE Stage(r)' = Stage(r) OBVIOUS
  <2>1. Taken(r)' <=> Taken(r) BY <1>1, <1>2 DEF Taken
  <2>2. InHand(r)' <=> InHand(r) BY <1>1, <1>2 DEF InHand
  <2> QED BY <1>1, <2>1, <2>2, StageSame
<1>4. \E c \in Conns : Broken' = Broken \/ Broken' = Broken \cup {c}
  <2>1. CASE UNCHANGED conn BY <2>1, BrokenStays DEF Conns
  <2> QED
    BY <2>1, BrokenGrows
    DEF ReadFails, ReadNull, PingFails, WriterEnds, PongFails, ClientLeaves, ReaderFails,
        ReadGarbage, CacheFills, vars, links
<1> QED BY <1>3, <1>4, NoMove, PhaseAdvances DEF Kept

(* The handler and a reader hand their messages over to the writer.        *)
LEMMA RendezvousStep ==
  ASSUME Kept, [Next]_vars, HandlerSends \/ \E c \in Conns : ReaderSends(c)
  PROVE  [Promise!Next]_<<[r \in Requests |-> Stage(r)], Phase, Broken>>
<1>1. PICK g \in Goroutines \ {"writer"}, l \in {"read", "setClosed"} :
        /\ Rendezvous(g, l)
        /\ pc[g] # "forward"
  <2>1. CASE HandlerSends
    BY <2>1 DEF HandlerSends, HandlerNext, Goroutines
  <2>2. ASSUME NEW c \in Conns, ReaderSends(c)
        PROVE  Rendezvous(c, "read") /\ pc[c] # "forward"
    BY <2>2 DEF ReaderSends
  <2> QED BY <2>1, <2>2 DEF Goroutines, Conns
<1>2. UNCHANGED <<unread, atNode, answers, conn>>
  BY DEF HandlerSends, ReaderSends, links
<1>3. /\ \A h \in Goroutines : msg'[h] = IF h = "writer" THEN msg[g]
                                         ELSE IF h = g THEN Nothing ELSE msg[h]
      /\ pc'["handler"] = IF g = "handler" THEN l ELSE pc["handler"]
      /\ msg["writer"] = Nothing /\ "writer" \in Goroutines /\ "handler" \in Goroutines
  BY <1>1 DEF Rendezvous, Kept, Typed, TypeOK, Stages, Carrying, Goroutines
<1>4. ASSUME NEW r \in Requests PROVE Stage(r)' = Stage(r)
  <2>1. Nothing.body # r BY NoRequestIsNothing
  <2>2. Taken(r)' <=> Taken(r) BY <1>1, <1>3, <2>1 DEF Taken
  <2>3. InHand(r)' <=> InHand(r) BY <1>1, <1>3, <2>1 DEF InHand
  <2> QED BY <1>2, <2>2, <2>3, StageSame
<1>5. Broken' = Broken BY <1>2, BrokenStays
<1> QED BY <1>4, <1>5, NoMove, PhaseAdvances DEF Kept, Conns

(* One request moves on, and the session and the nodes stay as they are.   *)
LEMMA OneMoves ==
  ASSUME Kept, [Next]_vars, NEW r \in Requests, NEW from, NEW to,
         Stage(r) = from, Stage(r)' = to,
         \A q \in Requests \ {r} : Stage(q)' = Stage(q),
         UNCHANGED conn, Phase' = Phase
  PROVE  Promise!Move(r, from, to)
BY BrokenStays, MoveStep

(* What is read, and refused or taken.                                     *)
LEMMA AcceptStep ==
  ASSUME Kept, Kept', [Next]_vars, NEW r \in Requests, ReadRequest(r)
  PROVE  Promise!Accept(r)
<1>1. /\ r \in unread /\ unread' = unread \ {r}
      /\ UNCHANGED <<atNode, answers, conn, client>>
      /\ \A g \in Goroutines : msg'[g] = IF g = "handler" THEN Msg(r, FALSE) ELSE msg[g]
      /\ pc["handler"] = "read" /\ pc'["handler"] \in {"reply", "forward"}
      /\ msg["handler"] = Nothing /\ "handler" \in Goroutines
  BY DEF ReadRequest, GotoWith, Goto, Kept, Typed, TypeOK, links, Stages, Carrying, Goroutines
<1>2. Msg(r, FALSE).body = r /\ \A q \in Requests : Nothing.body # q
  BY NoRequestIsNothing DEF Msg
<1>3. Stage(r) = "client" BY <1>1, StageIs DEF StagesKnown, StageOf
<1>4. Stage(r)' \in {"accepted", "answer"}
  <2>1. Taken(r)' \/ InHand(r)' BY <1>1, <1>2 DEF Taken, InHand
  <2>2. (Taken(r)' => Stage(r)' = "accepted") /\ (InHand(r)' => Stage(r)' = "answer")
    BY StageIsNext DEF StagesKnown, StageOf
  <2> QED BY <2>1, <2>2
<1>5. ASSUME NEW q \in Requests \ {r} PROVE Stage(q)' = Stage(q)
  <2>1. (Taken(q)' <=> Taken(q)) /\ (InHand(q)' <=> InHand(q))
    BY <1>1, <1>2, OthersSame
  <2> QED BY <1>1, <2>1, StageSame
<1>6. Phase' = Phase BY <1>1 DEF Phase, Leaving
<1>7. Promise!Move(r, "client", Stage(r)')
  BY <1>1, <1>3, <1>5, <1>6, OneMoves
<1> QED BY <1>4, <1>7 DEF Promise!Accept

(* At the end of a session what goroutines hold is lost, or kept.          *)
LEMMA DropStep ==
  ASSUME Kept, Kept', [Next]_vars, UNCHANGED <<unread, atNode, answers>>,
         Phase' # "up", Broken \subseteq Broken',
         \A g \in Goroutines : msg'[g] \in {msg[g], Nothing},
         pc'["handler"] = pc["handler"] \/ msg'["handler"] = Nothing
  PROVE  Promise!Next
<1>1. ASSUME NEW r \in Requests
      PROVE  \/ Stage(r)' = Stage(r)
             \/ Stage(r) \in {"accepted", "answer"} /\ Stage(r)' = "nowhere"
  <2>1. StageOf(r) /\ StageOf(r)' BY StageIs, StageIsNext DEF StagesKnown
  <2>2. Nothing.body # r /\ "handler" \in Goroutines BY NoRequestIsNothing DEF Goroutines
  <2>3. (Taken(r)' => Taken(r)) /\ (InHand(r)' => InHand(r))
    BY <2>2 DEF Taken, InHand
  <2>4. CASE \E g \in Goroutines : msg[g].body = r
    <3>1. Taken(r) \/ InHand(r) BY <2>4 DEF Taken, InHand
    <3>2. r \notin unread /\ answers[r] = 0 /\ \A c \in Conns : r \notin atNode[c]
      BY <2>4 DEF Kept, OnePlace
    <3>3. r \notin unread' /\ answers'[r] = 0 /\ \A c \in Conns : r \notin atNode'[c]
      BY <3>2
    <3>4. Stage(r) \in {"accepted", "answer"} BY <2>1, <3>1 DEF StageOf
    <3>5. CASE Taken(r)' \/ InHand(r)' BY <2>1, <2>3, <3>5 DEF StageOf
    <3>6. CASE ~Taken(r)' /\ ~InHand(r)' BY <2>1, <3>3, <3>4, <3>6 DEF StageOf
    <3> QED BY <3>5, <3>6
  <2>5. CASE ~ \E g \in Goroutines : msg[g].body = r
    <3>1. ~Taken(r) /\ ~InHand(r) BY <2>2, <2>5 DEF Taken, InHand
    <3> QED BY <2>3, <3>1, StageSame
  <2> QED BY <2>4, <2>5
<1> QED BY <1>1, EndStep, PhaseAdvances DEF Kept

(* The gateway answers a request it took: from the cache, or with an error.*)
LEMMA SettleStep ==
  ASSUME Kept, Kept', [Next]_vars, pc["handler"] = "forward",
         NEW l \in {"send", "replyAndLeave"}, Goto("handler", l),
         UNCHANGED <<unread, atNode, answers, msg, conn, client>>
  PROVE  Promise!Settle(msg["handler"].body)
<1>0. PICK r \in Requests : r = msg["handler"].body
  BY DEF Kept, Typed, Stages, Carrying
<1>1. r \in Requests /\ "handler" \in Goroutines
  BY DEF Goroutines
<1>2. pc'["handler"] = l BY DEF Goto, Kept, Typed, TypeOK, Goroutines
<1>3. Taken(r) /\ InHand(r)' BY <1>0, <1>1, <1>2 DEF Taken, InHand
<1>4. Stage(r) = "accepted" /\ Stage(r)' = "answer"
  BY <1>1, <1>3, StageIs, StageIsNext DEF StagesKnown, StageOf
<1>5. ASSUME NEW q \in Requests \ {r} PROVE Stage(q)' = Stage(q)
  <2>1. (Taken(q)' <=> Taken(q)) /\ (InHand(q)' <=> InHand(q))
    BY <1>0, <1>1, OthersSame
  <2> QED BY <2>1, StageSame
<1>6. Phase' = Phase BY <1>2 DEF Phase, Leaving
<1>7. Promise!Move(r, "accepted", "answer")
  BY <1>1, <1>4, <1>5, <1>6, OneMoves
<1> QED BY <1>0, <1>7 DEF Promise!Settle

(* A request goes to its node, is refused by it, or is lost with it.       *)
LEMMA ForwardStep ==
  ASSUME Kept, Kept', [Next]_vars, ForwardUpstream
  PROVE  Promise!Next
<1>0. PICK r \in Requests : r = msg["handler"].body
  BY DEF ForwardUpstream, Kept, Typed, Stages, Carrying
<1>1. /\ r \in Requests /\ "handler" \in Goroutines /\ pc["handler"] = "forward"
      /\ UNCHANGED <<unread, answers, conn, client>>
  BY DEF ForwardUpstream, Kept, Typed, Stages, Carrying, Goroutines, links
<1>2. Taken(r) BY <1>0, <1>1 DEF Taken
<1>3. Stage(r) = "accepted"
  BY <1>1, <1>2, StageIs DEF StagesKnown, StageOf
<1>4. Target(r) \in Conns BY DEF Target, Conns
<1>5. Nothing.body # r /\ r \notin unread /\ answers[r] = 0 /\ \A c \in Conns : r \notin atNode[c]
  BY <1>1, <1>0, NoRequestIsNothing DEF Kept, OnePlace
<1>6. ASSUME NEW l \in {"read", "setClosed"}, Return("handler", l)
      PROVE  /\ pc'["handler"] = l
             /\ \A g \in Goroutines : msg'[g] = IF g = "handler" THEN Nothing ELSE msg[g]
  BY <1>1, <1>6 DEF Return, GotoWith, Goto, Kept, Typed, TypeOK
<1>7. ASSUME Return("handler", "read"), NEW q \in Requests \ {r},
             \A c \in Conns : q \in atNode'[c] <=> q \in atNode[c]
      PROVE  Stage(q)' = Stage(q)
  <2>1. Nothing.body # q BY NoRequestIsNothing
  <2>2. (Taken(q)' <=> Taken(q)) /\ (InHand(q)' <=> InHand(q))
    BY <1>0, <1>1, <1>6, <1>7, <2>1, OthersSame
  <2> QED BY <1>1, <1>7, <2>2, StageSame
<1>8. ASSUME Return("handler", "read") PROVE Phase' = Phase
  BY <1>1, <1>6, <1>8 DEF Phase, Leaving
<1>9. CASE /\ conn[Target(r)] = "open" /\ Return("handler", "read")
           /\ atNode' = [atNode EXCEPT ![Target(r)] = @ \cup {r}]
  <2>1. \A c \in Conns : atNode'[c] = IF c = Target(r) THEN atNode[c] \cup {r} ELSE atNode[c]
    BY <1>9 DEF Kept, Typed, TypeOK
  <2>2. Stage(r)' = "node"
    BY <1>1, <1>4, <2>1, StageIsNext DEF StagesKnown, StageOf
  <2>3. Promise!Move(r, "accepted", "node")
    BY <1>1, <1>3, <1>7, <1>8, <1>9, <2>1, <2>2, OneMoves
  <2>4. Target(r) \notin Broken BY <1>9 DEF Broken
  <2> QED BY <1>1, <2>3, <2>4 DEF Promise!Next, Promise!Forward
<1>10. CASE conn[Target(r)] = "gone" /\ Return("handler", "read") /\ UNCHANGED atNode
  <2>1. ~Taken(r)' /\ ~InHand(r)'
    <3>1. \A g \in Goroutines : msg'[g].body # r
      BY <1>0, <1>1, <1>5, <1>6, <1>10 DEF Kept, OnePlace
    <3> QED BY <1>1, <3>1 DEF Taken, InHand
  <2>2. Stage(r)' = "nowhere"
    BY <1>1, <1>5, <1>10, <2>1, StageIsNext DEF StagesKnown, StageOf
  <2>3. Promise!Move(r, "accepted", "nowhere")
    BY <1>1, <1>3, <1>7, <1>8, <1>10, <2>2, OneMoves
  <2>4. Target(r) \in Broken BY <1>4, <1>10 DEF Broken
  <2> QED BY <1>1, <2>3, <2>4 DEF Promise!Next, Promise!Lose
<1>11. CASE GotoWith("handler", "replyAndLeave", msg["handler"]) /\ UNCHANGED atNode
  <2>1. UNCHANGED msg BY <1>11 DEF GotoWith, Kept, Typed, TypeOK
  <2>2. Promise!Settle(r)
    BY <1>0, <1>1, <1>11, <2>1, SettleStep DEF GotoWith
  <2> QED BY <1>1, <2>2 DEF Promise!Next
<1>12. CASE conn[Target(r)] = "nil" /\ Return("handler", "setClosed") /\ UNCHANGED atNode
  <2>1. Phase' # "up" BY <1>6, <1>12 DEF Phase, Leaving
  <2>2. Broken' = Broken BY <1>1, BrokenStays
  <2> QED BY <1>1, <1>6, <1>12, <2>1, <2>2, DropStep
<1> QED BY <1>0, <1>9, <1>10, <1>11, <1>12 DEF ForwardUpstream

(* The cache has the result, or cannot be read.                            *)
LEMMA CacheStep ==
  ASSUME Kept, Kept', [Next]_vars, ForwardCached \/ ForwardFails
  PROVE  Promise!Next
<1>1. pc["handler"] = "forward" /\ msg["handler"].body \in Requests
  BY DEF ForwardCached, ForwardFails, Kept, Typed, Stages, Carrying
<1>2. ~flag BY <1>1 DEF Kept, Ending, Leaving
<1>3. UNCHANGED <<unread, atNode, answers, msg, conn, client>>
  BY <1>2 DEF ForwardCached, ForwardFails, GotoWith, links, Kept, Typed, TypeOK
<1>4. Goto("handler", "send") \/ Goto("handler", "replyAndLeave")
  BY <1>2 DEF ForwardCached, ForwardFails, GotoWith
<1> QED BY <1>1, <1>3, <1>4, SettleStep DEF Promise!Next

(* A node's answer comes back.                                             *)
LEMMA ReturnStep ==
  ASSUME Kept, Kept', [Next]_vars, NEW c \in Conns, ReadReply(c)
  PROVE  Promise!Next
<1>1. PICK r \in atNode[c] : /\ atNode' = [atNode EXCEPT ![c] = @ \ {r}]
                             /\ \E sub \in BOOLEAN : GotoWith(c, "check", Msg(r, sub))
  <2>1. \A id : IsSubscription(id) \in BOOLEAN BY DEF IsSubscription
  <2> QED BY <2>1 DEF ReadReply, TakeFrame
<1>2. r \in Requests /\ c \in Goroutines /\ c # "handler" /\ "handler" \in Goroutines
  BY DEF Kept, Typed, TypeOK, Goroutines, Conns
<1>3. UNCHANGED <<unread, answers, conn, client>> /\ msg[c] = Nothing
  BY <1>2 DEF ReadReply, links, Kept, Typed, Stages, Carrying
<1>4. /\ msg'[c].body = r /\ \A g \in Goroutines \ {c} : msg'[g] = msg[g]
      /\ pc'["handler"] = pc["handler"]
  <2>1. PICK sub \in BOOLEAN : GotoWith(c, "check", Msg(r, sub)) BY <1>1
  <2>2. Msg(r, sub).body = r BY DEF Msg
  <2> QED BY <1>2, <2>1, <2>2 DEF GotoWith, Goto, Kept, Typed, TypeOK
<1>5. \A d \in Conns : atNode'[d] = IF d = c THEN atNode[d] \ {r} ELSE atNode[d]
  BY <1>1 DEF Kept, Typed, TypeOK
<1>6. Stage(r) = "node" /\ Stage(r)' = "answer"
  <2>1. InHand(r)' BY <1>2, <1>4 DEF InHand
  <2> QED BY <1>2, <2>1, StageIs, StageIsNext DEF StagesKnown, StageOf
<1>7. ASSUME NEW q \in Requests \ {r} PROVE Stage(q)' = Stage(q)
  <2>1. Nothing.body # q BY NoRequestIsNothing
  <2>2. (Taken(q)' <=> Taken(q)) /\ (InHand(q)' <=> InHand(q))
    BY <1>2, <1>3, <1>4, <2>1, OthersSame
  <2> QED BY <1>3, <1>5, <2>2, StageSame
<1>8. Phase' = Phase BY <1>3, <1>4 DEF Phase
<1>9. Promise!Move(r, "node", "answer")
  BY <1>2, <1>3, <1>6, <1>7, <1>8, OneMoves
<1> QED BY <1>2, <1>9 DEF Promise!Next, Promise!Return

(* A frame nobody asked for is no request's.                               *)
LEMMA NoteStep ==
  ASSUME Kept, Kept', [Next]_vars, NEW c \in Conns, ReadNote(c)
  PROVE  [Promise!Next]_<<[r \in Requests |-> Stage(r)], Phase, Broken>>
<1>1. c \in Goroutines /\ c # "handler" /\ "handler" \in Goroutines
  BY DEF Goroutines, Conns
<1>2. UNCHANGED <<unread, answers, atNode, conn>> /\ msg[c] = Nothing
  BY <1>1 DEF ReadNote, links, Kept, Typed, Stages, Carrying
<1>3. /\ msg'[c].body = Note /\ \A g \in Goroutines \ {c} : msg'[g] = msg[g]
      /\ pc'["handler"] = pc["handler"]
  BY <1>1 DEF ReadNote, TakeFrame, Msg, GotoWith, Goto, Kept, Typed, TypeOK
<1>4. ASSUME NEW q \in Requests PROVE Stage(q)' = Stage(q)
  <2>1. Nothing.body # q /\ Note # q BY NoRequestIsNothing
  <2>2. (Taken(q)' <=> Taken(q)) /\ (InHand(q)' <=> InHand(q))
    BY <1>1, <1>2, <1>3, <2>1, OthersSame
  <2> QED BY <1>2, <2>2, StageSame
<1> QED BY <1>2, <1>4, BrokenStays, NoMove, PhaseAdvances DEF Kept

(* What the writer has in hand is written, or is lost with the client.     *)
LEMMA WriteStep ==
  ASSUME Kept, Kept', [Next]_vars, WriterWrites
  PROVE  [Promise!Next]_<<[r \in Requests |-> Stage(r)], Phase, Broken>>
<1>0. PICK b : b = msg["writer"].body OBVIOUS
<1>1. "writer" \in Goroutines /\ "handler" \in Goroutines BY DEF Goroutines
<1>2. UNCHANGED <<unread, atNode, conn, client>> /\ client = "open"
  BY DEF WriterWrites, links
<1>3. /\ \A g \in Goroutines : msg'[g] = IF g = "writer" THEN Nothing ELSE msg[g]
      /\ pc'["handler"] = pc["handler"]
  BY <1>1 DEF WriterWrites, Return, GotoWith, Goto, Kept, Typed, TypeOK
<1>4. \A q \in Requests : answers'[q] = IF q = b THEN answers[q] + 1 ELSE answers[q]
  BY <1>0 DEF WriterWrites, Kept, Typed, TypeOK
<1>5. ASSUME NEW q \in Requests, q # b PROVE Stage(q)' = Stage(q)
  <2>1. Nothing.body # q BY NoRequestIsNothing
  <2>2. (Taken(q)' <=> Taken(q)) /\ (InHand(q)' <=> InHand(q))
    BY <1>0, <1>1, <1>3, <1>5, <2>1, OthersSame
  <2> QED BY <1>2, <1>4, <1>5, <2>2, StageSame
<1>6. Phase' = Phase /\ Phase # "down" BY <1>2, <1>3 DEF Phase
<1>7. CASE b \in Requests
  <2>1. InHand(b) BY <1>0, <1>1 DEF InHand
  <2>2. answers[b] = 0 BY <1>0, <1>1, <1>7 DEF Kept, OnePlace
  <2>3. answers'[b] = 1 BY <1>4, <1>7, <2>2
  <2>4. Stage(b) = "answer" /\ Stage(b)' = "answered"
    BY <1>7, <2>1, <2>3, StageIs, StageIsNext DEF StagesKnown, StageOf
  <2>5. Promise!Move(b, "answer", "answered")
    BY <1>2, <1>5, <1>6, <1>7, <2>4, OneMoves
  <2> QED BY <1>6, <1>7, <2>5 DEF Promise!Next, Promise!Deliver
<1>8. CASE b \notin Requests
  BY <1>2, <1>5, <1>8, BrokenStays, NoMove, PhaseAdvances DEF Kept, Conns
<1> QED BY <1>7, <1>8

LEMMA LossStep ==
  ASSUME Kept, Kept', [Next]_vars,
         \/ WriterFails
         \/ \E c \in Conns : (ReaderChecks(c) /\ flag) \/ ReaderRecovers(c) \/ EmptyFrame(c)
  PROVE  Promise!Next
<1> USE DEF Kept
<1>1. CASE WriterFails
  <2>1. UNCHANGED <<unread, atNode, answers, conn>> /\ client # "open" /\ client' # "open"
    BY <1>1 DEF WriterFails, links
  <2>2. /\ \A g \in Goroutines : msg'[g] \in {msg[g], Nothing}
        /\ pc'["handler"] = pc["handler"]
    BY <1>1 DEF WriterFails, Return, GotoWith, Goto, Typed, TypeOK, Goroutines
  <2>3. Phase' # "up" /\ Broken' = Broken BY <2>1, BrokenStays DEF Phase
  <2> QED BY <2>1, <2>2, <2>3, DropStep
<1>2. ASSUME NEW c \in Conns, (ReaderChecks(c) /\ flag) \/ ReaderRecovers(c)
      PROVE  Promise!Next
  <2>1. UNCHANGED <<unread, atNode, answers, conn>> /\ Return(c, "read")
    BY <1>2 DEF ReaderChecks, ReaderRecovers, links
  <2>2. /\ \A g \in Goroutines : msg'[g] \in {msg[g], Nothing}
        /\ pc'["handler"] = pc["handler"]
    BY <2>1 DEF Return, GotoWith, Goto, Typed, TypeOK, Goroutines, Conns
  <2>3. pc["handler"] \in Leaving BY <1>2 DEF ReaderRecovers, Ending
  <2>4. Phase' # "up" /\ Broken' = Broken BY <2>1, <2>2, <2>3, BrokenStays DEF Phase
  <2> QED BY <2>1, <2>2, <2>4, DropStep
<1>3. ASSUME NEW c \in Conns, EmptyFrame(c) PROVE Promise!Next
  <2>1. /\ UNCHANGED <<unread, atNode, answers>> /\ client' # "open"
        /\ \A g \in Goroutines : msg'[g] = Nothing
    BY <1>3 DEF EmptyFrame
  <2>2. Phase' # "up" BY <2>1 DEF Phase
  <2>3. Broken \subseteq Broken' BY <1>3 DEF EmptyFrame, Broken
  <2> QED BY <2>1, <2>2, <2>3, DropStep DEF Goroutines
<1> QED BY <1>1, <1>2, <1>3

LEMMA CheckStep ==
  ASSUME Kept, Kept', [Next]_vars, NEW c \in Conns, ReaderChecks(c), ~flag
  PROVE  [Promise!Next]_<<[r \in Requests |-> Stage(r)], Phase, Broken>>
<1>1. UNCHANGED <<unread, atNode, answers, msg, conn>> /\ pc'["handler"] = pc["handler"]
  BY DEF ReaderChecks, GotoWith, Goto, links, Kept, Typed, TypeOK, Goroutines, Conns
<1>2. ASSUME NEW q \in Requests PROVE Stage(q)' = Stage(q)
  <2>1. (Taken(q)' <=> Taken(q)) /\ (InHand(q)' <=> InHand(q))
    BY <1>1 DEF Taken, InHand
  <2> QED BY <1>1, <2>1, StageSame
<1> QED BY <1>1, <1>2, BrokenStays, NoMove, PhaseAdvances DEF Kept

LEMMA PromiseStep ==
  Kept /\ Kept' /\ [Next]_vars
    => [Promise!Next]_<<[r \in Requests |-> Stage(r)], Phase, Broken>>
<1> SUFFICES ASSUME Kept, Kept', [Next]_vars
             PROVE  [Promise!Next]_<<[r \in Requests |-> Stage(r)], Phase, Broken>>
  OBVIOUS
<1>1. ASSUME NEW r \in Requests, ReadRequest(r) PROVE Promise!Next
  BY <1>1, AcceptStep DEF Promise!Next
<1>2. ASSUME NEW c \in Conns, ReaderStep(c) \/ ReadNote(c) \/ ReadGarbage(c) \/ EmptyFrame(c)
                              \/ NodeDrops(c)
      PROVE  [Promise!Next]_<<[r \in Requests |-> Stage(r)], Phase, Broken>>
  BY <1>2, RestStep, RendezvousStep, ReturnStep, NoteStep, LossStep, CheckStep DEF ReaderStep
<1>3. CASE HandlerStep
  BY <1>3, RestStep, RendezvousStep, CacheStep, ForwardStep DEF HandlerStep
<1>4. CASE WriterStep
  BY <1>4, RestStep, WriteStep, LossStep DEF WriterStep
<1>5. CASE RunCloses \/ ReadNull \/ PingFails \/ PongFails \/ ClientLeaves \/ UNCHANGED vars
           \/ \E r \in Requests : CacheFills(r)
  BY <1>5, RestStep
<1> QED BY <1>1, <1>2, <1>3, <1>4, <1>5 DEF Next

LEMMA InitPromise == Init => Promise!Init
<1> SUFFICES ASSUME Init PROVE Promise!Init OBVIOUS
<1>1. ASSUME NEW r \in Requests PROVE Stage(r) \in {"client", "nowhere"}
  <2>1. Kept /\ ~Taken(r) /\ ~InHand(r)
    BY InitKept, NoRequestIsNothing DEF Init, Taken, InHand, Goroutines
  <2>2. answers[r] = 0 /\ \A c \in Conns : r \notin atNode[c] BY DEF Init
  <2> QED BY <2>1, <2>2, StageIs DEF StagesKnown, StageOf
<1>2. Phase = "up" BY DEF Init, Phase, Leaving, Goroutines
<1> QED BY <1>1, <1>2 DEF Promise!Init, Broken

(* The session keeps its promise: whatever the goroutines, the client and  *)
(* the nodes do, every step of it is one of the promise, or changes        *)
(* nothing the client could tell.                                          *)
THEOREM PromiseImplemented == Spec => PromiseKept
<1>1. Spec => Promise!Init BY InitPromise DEF Spec
<1>2. Spec => [][Promise!Next]_<<[r \in Requests |-> Stage(r)], Phase, Broken>>
  BY KeptInvariant, PromiseStep, PTL DEF Spec
<1> QED BY <1>1, <1>2, PTL DEF PromiseKept, Promise!Spec
----
(* The end of a session.                                                   *)

(* What a goroutine waits for when the handler has returned has happened:  *)
(* the channel or a connection is closed, or there is nothing to wait for. *)
CanGoOn(g) ==
  \/ g = "writer" /\ (pc[g] = "write" \/ (pc[g] = "recv" /\ chan = "closed"))
  \/ /\ g \in Conns
     /\ \/ pc[g] = "read" /\ conn[g] # "open"
        \/ pc[g] = "check"
        \/ pc[g] = "send" /\ chan = "closed"
        \/ pc[g] \in {"closeClient", "closeErigon", "closeMain"}
NoneStranded == HandlerDone => AllDone \/ \E g \in Goroutines : CanGoOn(g)

(* Once dialled, the main connection is not opened again, and nobody reads *)
(* from it who did not begin to.                                           *)
MainOver == conn["main"] # "open" \/ pc["main"] = "unborn"

(* How far the handler has come in its deferred calls says what it closed; *)
(* an empty frame ends everybody else, too.                                *)
Closing ==
  /\ pc["handler"] \in {"closeClient", "done"} => chan = "closed" \/ AllDone
  /\ pc["handler"] \in {"closeErigon", "closeChan", "closeClient", "done"} =>
       MainOver

LEMMA AllDoneStays ==
  ASSUME Typed, [Next]_vars, AllDone
  PROVE  AllDone'
<1> USE DEF AllDone, Goroutines, Conns
<1>1. UNCHANGED pc
  <2>1. \A g \in Goroutines : pc[g] \in {"done", "unborn"} BY DEF AllDone
  <2>2. pc["handler"] = "done" /\ pc["writer"] = "done" BY <2>1 DEF Typed, Stages, Places
  <2>3. ~HandlerStep /\ ~ReadNull /\ ~PingFails /\ \A r \in Requests : ~ReadRequest(r)
    BY <2>2 DEF HandlerStep, Dial, DialFails, ReadFails, ForwardCached, ForwardUpstream,
                ForwardFails, HandlerSends, HandlerNext, HandlerCloses, CloseUpstreams,
                CloseSession, ReadNull, PingFails, ReadRequest
  <2>4. ~WriterStep
    BY <2>2 DEF WriterStep, WriterEnds, WriterWrites, WriterFails
  <2>5. ~RunCloses /\ ~PongFails
        /\ \A c \in Conns : ~ReaderStep(c) /\ ~ReadNote(c) /\ ~ReadGarbage(c) /\ ~EmptyFrame(c)
    BY <2>1 DEF RunCloses, PongFails, ReaderStep, ReadReply, ReaderFails, ReaderChecks,
                ReaderSends, ReaderRecovers, ReadNote, ReadGarbage, EmptyFrame
  <2> QED BY <2>3, <2>4, <2>5 DEF Next, NodeDrops, CacheFills, ClientLeaves, vars
<1> QED BY <1>1

LEMMA ChannelStaysClosed ==
  ASSUME Typed, [Next]_vars, chan = "closed"
  PROVE  chan' = "closed"
BY DEF Next, HandlerStep, WriterStep, ReaderStep, Dial, DialFails, ReadFails, ReadNull,
       PingFails, ForwardCached, ForwardUpstream, ForwardFails, HandlerSends, HandlerCloses,
       CloseSession, ReadRequest, WriterEnds, WriterWrites, WriterFails, ReadReply, ReadNote,
       ReadGarbage, ReaderFails, ReaderChecks, ReaderSends, ReaderRecovers, RunCloses,
       PongFails, EmptyFrame, NodeDrops, CacheFills, ClientLeaves, vars, channel

LEMMA MainStaysOver ==
  ASSUME Typed, [Next]_vars, pc["handler"] # "dial", MainOver
  PROVE  MainOver'
<1> USE DEF Goroutines, Conns
<1>1. ~Dial /\ ~DialFails BY DEF Dial, DialFails
<1>2. CASE \E c \in Conns : EmptyFrame(c)
  BY <1>2 DEF EmptyFrame, MainOver
<1>3. CASE conn["main"] # "open" /\ ~ \E c \in Conns : EmptyFrame(c)
  <2>1. CASE UNCHANGED conn BY <1>3, <2>1 DEF MainOver
  <2>2. CASE HandlerCloses
    BY <1>3, <2>2 DEF HandlerCloses, CloseUpstreams, CloseSession, Typed, TypeOK, MainOver
  <2>3. CASE RunCloses BY <1>3, <2>3 DEF RunCloses, Typed, TypeOK, MainOver
  <2>4. ASSUME NEW c \in Conns, NodeDrops(c) PROVE MainOver'
    BY <1>3, <2>4 DEF NodeDrops, Typed, TypeOK, MainOver
  <2> QED
    BY <1>1, <1>3, <2>1, <2>2, <2>3, <2>4
    DEF Next, HandlerStep, WriterStep, ReaderStep, ReadFails, ReadNull, PingFails,
        ForwardCached, ForwardUpstream, ForwardFails, HandlerSends, ReadRequest, WriterEnds,
        WriterWrites, WriterFails, ReadReply, ReadNote, ReadGarbage, ReaderFails, ReaderChecks,
        ReaderSends, ReaderRecovers, PongFails, CacheFills, ClientLeaves, vars, links
<1>4. CASE pc["main"] = "unborn" /\ ~ \E c \in Conns : EmptyFrame(c)
  <2>1. /\ ~RunCloses /\ ~PongFails
        /\ ~ReaderStep("main") /\ ~ReadNote("main") /\ ~ReadGarbage("main")
    BY <1>4 DEF RunCloses, PongFails, ReaderStep, ReadReply, ReaderFails, ReaderChecks,
                ReaderSends, ReaderRecovers, ReadNote, ReadGarbage
  <2>2. pc'["main"] = pc["main"]
    <3>1. CASE UNCHANGED pc BY <3>1
    <3>2. CASE \E g \in Goroutines \ {"main"} : \E l : Goto(g, l) \/ Rendezvous(g, l)
      BY <3>2 DEF Goto, Rendezvous, Typed, TypeOK
    <3>3. CASE HandlerStep \/ ReadNull \/ PingFails \/ \E r \in Requests : ReadRequest(r)
      <4>1. \E l : Goto("handler", l) \/ Rendezvous("handler", l)
        BY <1>1, <3>3 DEF HandlerStep, ReadNull, PingFails, ReadRequest, ReadFails, ForwardCached,
           ForwardUpstream, ForwardFails, HandlerSends, HandlerCloses, CloseUpstreams,
           CloseSession, Return, GotoWith
      <4> QED BY <3>2, <4>1
    <3>4. CASE WriterStep
      <4>1. \E l : Goto("writer", l)
        BY <3>4 DEF WriterStep, WriterEnds, WriterWrites, WriterFails, Return, GotoWith
      <4> QED BY <3>2, <4>1
    <3>5. CASE ReaderStep("erigon") \/ ReadNote("erigon") \/ ReadGarbage("erigon")
      <4>1. \E l : Goto("erigon", l) \/ Rendezvous("erigon", l)
        BY <3>5 DEF ReaderStep, ReadReply, ReadNote, ReadGarbage, ReaderFails, ReaderChecks,
           ReaderSends, ReaderRecovers, TakeFrame, LeaveReader, Return, GotoWith
      <4> QED BY <3>2, <4>1
    <3> QED BY <1>4, <2>1, <3>1, <3>3, <3>4, <3>5 DEF Next, NodeDrops, CacheFills, ClientLeaves, vars
  <2> QED BY <1>4, <2>2 DEF MainOver
<1> QED BY <1>2, <1>3, <1>4 DEF MainOver

LEMMA StepClosing == Typed /\ Links /\ Closing /\ [Next]_vars => Closing'
<1> SUFFICES ASSUME Typed, Links, Closing, [Next]_vars PROVE Closing' OBVIOUS
<1> DEFINE Late == {"closeErigon", "closeChan", "closeClient", "done"}
<1>1. CASE \E c \in Conns : EmptyFrame(c)
  BY <1>1 DEF EmptyFrame, Closing, AllDone, MainOver, Goroutines, Conns
<1>2. CASE DialFails
  <2>1. pc["main"] = "unborn" BY <1>2 DEF DialFails, Typed, Stages, Conns
  <2> QED BY <1>2, <2>1 DEF DialFails, Goto, Closing, MainOver, Typed, TypeOK, Goroutines
<1>3. CASE HandlerCloses
  <2>1. CASE CloseUpstreams
    <3>1. CASE pc["handler"] \in Late
      <4>1. pc'["handler"] = "closeChan" /\ MainOver'
        BY <1>3, <2>1, <3>1, MainStaysOver
        DEF CloseUpstreams, Goto, Closing, Typed, TypeOK, Goroutines
      <4> QED BY <4>1 DEF Closing
    <3>2. CASE pc["handler"] \notin Late
      <4>1. \/ pc'["handler"] = "closeMain"
            \/ pc'["handler"] \in {"closeErigon", "closeChan"} /\ conn'["main"] = "closed"
        BY <2>1, <3>2 DEF CloseUpstreams, Goto, Typed, TypeOK, Goroutines, Conns
      <4> QED BY <4>1 DEF Closing, MainOver
    <3> QED BY <3>1, <3>2
  <2>2. CASE CloseSession
    <3>1. pc["handler"] \in {"closeChan", "closeClient"} BY <2>2 DEF CloseSession
    <3>2. MainOver' BY <3>1, MainStaysOver DEF Closing
    <3>3. chan' = "closed" \/ AllDone'
      <4>1. CASE pc["handler"] = "closeChan"
        BY <2>2, <4>1 DEF CloseSession
      <4>2. CASE pc["handler"] = "closeClient"
        BY <4>2, ChannelStaysClosed, AllDoneStays DEF Closing
      <4> QED BY <3>1, <4>1, <4>2
    <3> QED BY <3>2, <3>3 DEF Closing
  <2> QED BY <1>3, <2>1, <2>2 DEF HandlerCloses
<1>4. CASE pc'["handler"] = pc["handler"]
  BY <1>4, MainStaysOver, ChannelStaysClosed, AllDoneStays DEF Closing
<1>5. CASE pc'["handler"] \notin Late
  BY <1>5 DEF Closing
<1>6. pc'["handler"] = pc["handler"] \/ pc'["handler"] \notin Late
      \/ HandlerCloses \/ DialFails \/ \E c \in Conns : EmptyFrame(c)
  <2> USE DEF Goroutines, Conns
  <2>1. CASE Dial BY <2>1 DEF Dial
  <2>2. CASE \/ ReadFails \/ ReadNull \/ PingFails \/ ForwardCached \/ ForwardUpstream
             \/ ForwardFails \/ \E r \in Requests : ReadRequest(r)
    <3>1. PICK l \in {"read", "reply", "forward", "send", "replyAndLeave", "setClosed"} :
            Goto("handler", l)
      BY <2>2 DEF ReadFails, ReadNull, PingFails, ForwardCached, ForwardUpstream, ForwardFails,
                  ReadRequest, Return, GotoWith
    <3> QED BY <3>1 DEF Goto, Typed, TypeOK
  <2>3. CASE HandlerSends
    <3>1. HandlerNext[pc["handler"]] \in {"read", "setClosed"}
      BY <2>3 DEF HandlerSends, HandlerNext
    <3> QED BY <2>3, <3>1 DEF HandlerSends, Rendezvous, Typed, TypeOK
  <2>4. CASE WriterStep
    <3>1. \E l : Goto("writer", l)
      BY <2>4 DEF WriterStep, WriterEnds, WriterWrites, WriterFails, Return, GotoWith
    <3> QED BY <3>1 DEF Goto, Typed, TypeOK
  <2>5. ASSUME NEW c \in Conns, ReaderStep(c) \/ ReadNote(c) \/ ReadGarbage(c)
        PROVE  pc'["handler"] = pc["handler"]
    <3>1. \E l : Goto(c, l) \/ Rendezvous(c, l)
      BY <2>5 DEF ReaderStep, ReadReply, ReadNote, ReadGarbage, ReaderFails, ReaderChecks,
         ReaderSends, ReaderRecovers, TakeFrame, LeaveReader, Return, GotoWith
    <3> QED BY <3>1 DEF Goto, Rendezvous, Typed, TypeOK
  <2>6. CASE RunCloses \/ PongFails
    BY <2>6 DEF RunCloses, PongFails, LeaveReader, Goto, Typed, TypeOK
  <2>7. CASE ClientLeaves \/ UNCHANGED vars \/ (\E c \in Conns : NodeDrops(c))
             \/ \E r \in Requests : CacheFills(r)
    BY <2>7 DEF ClientLeaves, vars, NodeDrops, CacheFills
  <2> QED BY <2>1, <2>2, <2>3, <2>4, <2>5, <2>6, <2>7 DEF Next, HandlerStep
<1> QED BY <1>1, <1>2, <1>3, <1>4, <1>5, <1>6

LEMMA InitClosing == Init => Closing
BY DEF Init, Closing, Goroutines

(* When the handler has returned, and however it did, the session does not *)
(* hang: as long as one of the others has not ended, one of them has what  *)
(* it waits for.                                                           *)
THEOREM NoneStrandedHolds == Spec => []NoneStranded
<1>1. Typed /\ Links /\ Closing => NoneStranded
  <2> SUFFICES ASSUME Typed, Links, Closing, HandlerDone, ~AllDone
               PROVE  \E g \in Goroutines : CanGoOn(g)
    BY DEF NoneStranded
  <2> USE DEF Goroutines, Conns
  <2>1. chan = "closed" /\ MainOver BY DEF Closing, HandlerDone
  <2>2. PICK g \in Goroutines : pc[g] \notin {"done", "unborn"} BY DEF AllDone
  <2>3. CASE g = "writer"
    BY <2>1, <2>2, <2>3 DEF CanGoOn, Typed, Stages, Places
  <2>4. CASE g \in Conns /\ (pc[g] # "read" \/ conn[g] # "open")
    BY <2>1, <2>2, <2>4 DEF CanGoOn, Typed, Stages, Places
  <2>5. CASE g = "main" /\ pc[g] = "read" /\ conn[g] = "open"
    BY <2>1, <2>5 DEF MainOver
  <2>6. CASE g = "erigon" /\ pc[g] = "read" /\ conn[g] = "open"
    <3>1. pc["main"] \notin {"unborn", "done"} BY <2>6 DEF Links
    <3> QED BY <2>1, <3>1 DEF CanGoOn, MainOver, Typed, Stages, Places
  <2>7. g # "handler" BY <2>2 DEF HandlerDone
  <2> QED BY <2>3, <2>4, <2>5, <2>6, <2>7
<1> QED BY <1>1, AlwaysTyped, InitLinks, StepLinks, InitClosing, StepClosing, PTL DEF Spec
====
