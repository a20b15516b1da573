---- MODULE IpfsGateway ----
(***************************************************************************)
(* The IPFS gateway: IPFSHandler.Proxy (pkg/handler/ipfs_proxy.go and      *)
(* ipfsHandler.go) with IpfsService.Add (service/ipfsService.go) and the   *)
(* limits of ratelimit/v1/ratelimit_ipfs.go.                               *)
(*                                                                         *)
(* All users share one IPFS node, where an object is pinned or not.  The   *)
(* database knows who added what and who wants it pinned; Redis knows what *)
(* each user has used.  A handler checks the limits, forwards the request, *)
(* then brings database and usage up to date, each in steps of their own;  *)
(* what was added is recorded by a goroutine that may outlive the handler. *)
(* The whole query is forwarded, and the node and the gateway read it and  *)
(* its answer each in their own way.                                       *)
(*                                                                         *)
(* An operator whose name ends in an underscore and a word is a slip this  *)
(* code could have had; it is used by no definition.                       *)
(***************************************************************************)
EXTENDS Integers, Sequences, FiniteSets, FiniteSetsExt, Functions

CONSTANTS
  Handlers,     \* goroutines, one per request in flight
  Users,        \* API keys, one per user
  White,        \* the users in the whitelist
  Cids,         \* objects
  Size,         \* of each object, with all it contains
  Inside,       \* of each object: the objects in it, if it is a directory
  Requests,     \* what users send, see Ops
  Limit,        \* of each kind of usage, by the user's plan
  DefaultUnpin, \* external: what the node does when an update leaves unpin out
  BareCid,      \* external: whether path.NewPath takes a CID without a slash
  MaxRequests,  \* bound of the model: requests that arrive
  MaxFaults     \* bound of the model: commands that fail halfway

Kinds == {"storage", "up", "down"}
(* "read" stands for what only the node is asked: pin/ls, block/stat,       *)
(* dag/resolve, version.                                                   *)
Ops == {"add", "put", "get", "read", "pin/add", "pin/rm", "pin/update"}
Nobody == "nobody"                     \* the user with the id 0

ASSUME ObjectsAssumption ==
  Size \in [Cids -> Nat] /\ Inside \in [Cids -> SUBSET Cids] /\ IsFiniteSet(Cids)

With(c) == {c} \cup Inside[c]

(* A request.                                                              *)
(*   cids   its objects: what is added, or the arguments in their order    *)
(*   odd    those written as a path or in another base than in the database*)
(*   wrap, pin   of add: what the gateway reads of the query               *)
(*   keep   of add and put: what the node pins of it (not with only-hash)  *)
(*   told   of add: the list the gateway reads from the node's answer,     *)
(*          which may leave out objects (silent, quieter, what is not JSON)*)
(*   unpin  of update                                                      *)
(* The node refuses an update of other than two objects.                   *)
ASSUME RequestsAssumption ==
  \A r \in Requests :
    /\ DOMAIN r = {"op", "cids", "odd", "wrap", "pin", "keep", "told", "unpin"}
    /\ r.op \in Ops /\ r.cids \in Seq(Cids) \ {<< >>}
    /\ r.op = "pin/update" => Len(r.cids) = 2
    /\ r.wrap \in BOOLEAN /\ r.pin \in BOOLEAN /\ r.unpin \in {"true", "false", "absent"}
    /\ r.odd \subseteq Cids /\ r.keep \subseteq Range(r.cids)
    /\ r.told \in Seq(Range(r.cids))
ASSUME BoundsAssumption ==
  /\ White \subseteq Users /\ Nobody \notin Users
  /\ Limit \in [Kinds -> Nat] /\ DefaultUnpin \in BOOLEAN /\ BareCid \in BOOLEAN
  /\ MaxRequests \in Nat /\ MaxFaults \in Nat
ASSUME IpfsHandlersAssumption == IsFiniteSet(Handlers)

VARIABLES
  pins,     \* objects pinned at the node
  rows,     \* the database: of each user and object none, pin or unpin
  usage,    \* the Redis hash of each user: the value of each field
  fields,   \* the fields it has
  pc,       \* where each handler is
  req,      \* the request it serves
  who,      \* for which user
  fresh,    \* pinAddFileList is not empty: the user has no such file yet
  job,      \* IpfsService.Add on behalf of each handler
  arrived,  \* requests so far
  faults,   \* failures so far
  tainted,  \* history: objects whose requests overlapped, failed halfway, or
            \* were not read by the gateway as by the node
  miscounted, \* history: users of whom two Adds overlapped, one failed or was
            \* counted again, or the list of a wrapped one was incomplete
  resent    \* history: of each user, uploads that were charged again

handler == <<pc, req, who, fresh>>
redis   == <<usage, fields>>
vars == <<pins, rows, redis, handler, job, arrived, faults, tainted,
          miscounted, resent>>

NoRequest == [op |-> "none", cids |-> << >>, odd |-> {}, wrap |-> FALSE,
              pin |-> FALSE, keep |-> {}, told |-> << >>, unpin |-> "absent"]
NoJob == [pc |-> "none", user |-> Nobody, list |-> << >>, at |-> 1, sum |-> 0,
          wrap |-> FALSE, status |-> "pin"]
Owners == Users \cup {Nobody}

(* The one argument the gateway handles: of an update, what is to be       *)
(* pinned; Old is what is to be unpinned.                                  *)
Subject(r) == r.cids[IF r.op = "pin/update" THEN 2 ELSE 1]
New(h) == Subject(req[h])
Old(h) == req[h].cids[1]

Scope(h) == UNION {With(c) : c \in Range(req[h].cids)}

Total(cs) == SumFunctionOnSet(Size, cs)
Files(cs) == {c \in cs : Inside[c] = {}}
----
Init ==
  /\ pins = {}
  /\ rows = [u \in Owners |-> [c \in Cids |-> "none"]]
  /\ usage = [u \in Users |-> [k \in Kinds |-> 0]]
  /\ \E known \in {{}, Kinds} : fields = [u \in Users |-> known]
  /\ pc = [h \in Handlers |-> "idle"]
  /\ req = [h \in Handlers |-> NoRequest]
  /\ who = [h \in Handlers |-> Nobody]
  /\ fresh = [h \in Handlers |-> FALSE]
  /\ job = [h \in Handlers |-> NoJob]
  /\ arrived = 0
  /\ faults = 0
  /\ tainted = {}
  /\ miscounted = {}
  /\ resent = [u \in Users |-> 0]

Goto(h, l) == pc' = [pc EXCEPT ![h] = l] /\ UNCHANGED <<req, who, fresh>>
Taint(cs) == tainted' = tainted \cup cs

Works == UNCHANGED faults
Fails == faults < MaxFaults /\ faults' = faults + 1

(* Under whose id the database is asked: 0 if the user cannot be looked up.*)
Ids(h) == {who[h], Nobody}
Lookup(h, o) == IF o = who[h] THEN Works ELSE Fails

Arrive(h, u, r) ==
  /\ pc[h] = "idle"
  /\ arrived < MaxRequests
  /\ arrived' = arrived + 1
  /\ pc' = [pc EXCEPT ![h] = "check"]
  /\ req' = [req EXCEPT ![h] = r]
  /\ who' = [who EXCEPT ![h] = u]
  /\ Taint((UNION {Scope(g) : g \in Handlers}) \cap (UNION {With(c) : c \in Range(r.cids)}))
  /\ UNCHANGED <<pins, rows, redis, fresh, job, faults, miscounted, resent>>
----
(* The limits, before anything is forwarded.                               *)

(* What is negative is read as 0.                                          *)
Used(u, k) == Max({0, usage[u][k]})

(* A slip: what the request itself will add is left out.                   *)
Over_Before(u, counted, bytes) == \E k \in fields[u] : Used(u, k) >= Limit[k]

(* Only the fields the hash has are compared; a new user has none.         *)
Over(u, counted, bytes) ==
  \E k \in fields[u] : Used(u, k) + (IF k \in counted THEN bytes ELSE 0) >= Limit[k]

Upload == {"storage", "up"}
IsPin(h) == req[h].op \in {"pin/add", "pin/update"}

(* What is uploaded, or downloaded.                                        *)
BytesOf(r) ==
  IF r.op = "add" THEN Total(Files(Range(r.cids))) ELSE Size[Subject(r)]
Bytes(h) == BytesOf(req[h])

(* A file to be pinned that cannot be looked up counts as a new one, one   *)
(* that is written otherwise as well.                                      *)
IsNew(h) ==
  \/ ~IsPin(h) /\ fresh' = fresh /\ Works
  \/ IsPin(h) /\ \E o \in Ids(h) :
       /\ Lookup(h, o)
       /\ fresh' = [fresh EXCEPT ![h] = New(h) \in req[h].odd \/ rows[o][New(h)] = "none"]
  \/ IsPin(h) /\ Fails /\ fresh' = [fresh EXCEPT ![h] = TRUE]

Check(h) ==
  /\ pc[h] = "check"
  /\ IsNew(h)
  /\ (fresh'[h] \/ req[h].op \in {"add", "put"}) => ~Over(who[h], Upload, Bytes(h))
  /\ req[h].op = "get" => ~Over(who[h], {"down"}, Bytes(h))
  /\ pc' = [pc EXCEPT ![h] = "forward"]
  /\ UNCHANGED <<pins, rows, redis, req, who, job, arrived, tainted, miscounted, resent>>

(* The rate limiter or a limit says no, or the object is not found.        *)
Refuse(h) ==
  /\ pc[h] = "check"
  /\ Goto(h, "done")
  /\ UNCHANGED <<pins, rows, redis, job, arrived, faults, tainted, miscounted, resent>>
----
(* The node, which acts on every argument.                                 *)

Unpins(r) == r.unpin = "true" \/ (r.unpin = "absent" /\ DefaultUnpin)

PinnedBy(r) ==
  CASE r.op \in {"add", "put"} -> r.keep
    [] r.op = "pin/add"        -> Range(r.cids)
    [] r.op = "pin/update"     -> {r.cids[2]}
    [] OTHER                   -> {}
UnpinnedBy(r) ==
  CASE r.op = "pin/rm"                   -> Range(r.cids)
    [] r.op = "pin/update" /\ Unpins(r)  -> {r.cids[1]}
    [] OTHER                             -> {}

(* It does not unpin, or move, a pin that is not there.                    *)
NodeAccepts(r) ==
  /\ r.op = "pin/rm" => Range(r.cids) \subseteq pins
  /\ r.op = "pin/update" => r.cids[1] \in pins

NodeDoes(out, in) == pins' = (pins \ out) \cup in

(* What the node unpins and the gateway will not ask about, or does not    *)
(* pin and the gateway will record as pinned.                              *)
Unasked(r) ==
  CASE r.op = "add" /\ r.pin -> Range(r.told) \ UNION {With(c) : c \in r.keep}
    [] r.op = "pin/rm"       ->
         UNION {With(c) : c \in {d \in Range(r.cids) : d # r.cids[1] \/ d \in r.odd}}
    [] r.op = "pin/update" /\ (r.unpin = "absent" \/ r.cids[1] \in r.odd) ->
         With(r.cids[1])
    [] OTHER                 -> {}

(* The list of what is in a directory names it last, and all that is in it.*)
Complete(list) ==
  /\ list # << >>
  /\ LET dir == list[Len(list)] IN Inside[dir] # {} /\ Range(list) = With(dir)

(* Add begins.  Of a user of whom another one runs, both may count wrong;  *)
(* so may one that takes the last of a list for the directory.             *)
StartJob(h, list, wrap, status) ==
  /\ job' = [job EXCEPT ![h] =
       [pc |-> "resolve", user |-> Nobody, list |-> list, at |-> 1, sum |-> 0,
        wrap |-> wrap, status |-> status]]
  /\ miscounted' =
       IF \/ wrap /\ ~Complete(list)
          \/ \E g \in Handlers : who[g] = who[h] /\ job[g].pc # "none"
       THEN miscounted \cup {who[h]} ELSE miscounted

Forward(h) ==
  /\ pc[h] = "forward"
  /\ NodeAccepts(req[h]) /\ NodeDoes(UnpinnedBy(req[h]), PinnedBy(req[h]))
  /\ Goto(h, CASE IsPin(h) -> "hook" [] req[h].op = "pin/rm" -> "unpin" [] OTHER -> "charge")
  /\ \/ /\ req[h].op = "add"
        /\ StartJob(h, req[h].told, req[h].wrap, IF req[h].pin THEN "pin" ELSE "unpin")
     \/ IsPin(h) /\ fresh[h] /\ StartJob(h, <<New(h)>>, FALSE, "pin")
     \/ req[h].op # "add" /\ ~(IsPin(h) /\ fresh[h]) /\ UNCHANGED <<job, miscounted>>
  /\ Taint(Unasked(req[h]))
  /\ UNCHANGED <<rows, redis, arrived, faults, resent>>

(* It is not reached, or answers with another status than 200.             *)
ForwardFails(h) ==
  /\ pc[h] = "forward"
  /\ Goto(h, "done")
  /\ UNCHANGED <<pins, rows, redis, job, arrived, faults, tainted, miscounted, resent>>

(* It did some of what it was asked before it failed, or its answer is     *)
(* lost.                                                                   *)
ForwardLost(h) ==
  /\ pc[h] = "forward"
  /\ \E out \in SUBSET UnpinnedBy(req[h]), in \in SUBSET PinnedBy(req[h]) :
       NodeDoes(out, in)
  /\ Fails
  /\ Taint(Scope(h))
  /\ Goto(h, "done")
  /\ UNCHANGED <<rows, redis, job, arrived, miscounted, resent>>
----
(* IpfsService.Add, in a goroutine of its own or called by the handler.    *)

Job(h, l) == job[h].pc = l
JobGoes(h, l) == job' = [job EXCEPT ![h].pc = l]
OnlyTheJob == UNCHANGED <<handler, arrived, tainted, resent>>

(* The last of an empty list is asked for.                                 *)
Panics(j) == j.wrap /\ j.list = << >>

(* Whose files they become: nobody's, if the user's id cannot be looked up *)
(* (the goroutine's context ends with the request).                        *)
JobResolve(h) ==
  /\ Job(h, "resolve") /\ ~Panics(job[h])
  /\ \E o \in Ids(h) :
       /\ Lookup(h, o)
       /\ job' = [job EXCEPT ![h].user = o,
            ![h].pc = IF job[h].list = << >> THEN "count" ELSE "select"]
       /\ miscounted' = IF o = Nobody THEN miscounted \cup {who[h]} ELSE miscounted
  /\ UNCHANGED <<pins, rows, redis>> /\ OnlyTheJob

(* What comes after a file.  A slip: one file too many.                    *)
After_Past(j) == IF j.at > Len(j.list) THEN "count" ELSE "select"
After(j) == IF j.at = Len(j.list) THEN "count" ELSE "select"

(* The next file is looked up; what is new, or cannot be, is added up.     *)
JobSelect(h) ==
  LET j == job[h]
      c == j.list[j.at] IN
  /\ Job(h, "select")
  /\ \/ /\ job' = [job EXCEPT ![h].pc = After(j), ![h].at = @ + 1,
            ![h].sum = @ + (IF rows[j.user][c] = "none" THEN Size[c] ELSE 0)]
        /\ Works /\ UNCHANGED miscounted
     \/ /\ job' = [job EXCEPT ![h].pc = After(j), ![h].at = @ + 1, ![h].sum = @ + Size[c]]
        /\ Fails /\ miscounted' = miscounted \cup {who[h]}
  /\ UNCHANGED <<pins, rows, redis>> /\ OnlyTheJob

(* A slip: the last file is taken for a directory.                         *)
DirSize_Last(j) == Size[j.list[Len(j.list)]]
DirSize(j) == IF j.wrap THEN Size[j.list[Len(j.list)]] ELSE 0

Spend(u, k, n) ==
  /\ usage' = [usage EXCEPT ![u][k] = @ + n]
  /\ fields' = [fields EXCEPT ![u] = @ \cup {k}]

(* The directory's size is taken off, whether it was added up or not: a    *)
(* negative sum wraps around as uint64 and back as the int64 Redis adds.   *)
(* Redis is left alone if the database fails; a command whose reply is     *)
(* lost is sent again, up to four times, and may have been done each time. *)
JobCount(h) ==
  /\ Job(h, "count")
  /\ \/ /\ job[h].sum > 0
        /\ Spend(who[h], "storage", job[h].sum - DirSize(job[h]))
        /\ \/ Works /\ JobGoes(h, "create") /\ UNCHANGED miscounted
           \/ Fails /\ UNCHANGED job /\ miscounted' = miscounted \cup {who[h]}
     \/ /\ job[h].sum > 0 /\ Fails /\ UNCHANGED redis
        /\ JobGoes(h, "create") /\ miscounted' = miscounted \cup {who[h]}
     \/ /\ job[h].sum = 0 /\ Works /\ UNCHANGED <<redis, miscounted>>
        /\ JobGoes(h, "create")
  /\ UNCHANGED <<pins, rows>> /\ OnlyTheJob

(* A row that is there is left as it is.                                   *)
JobCreate(h) ==
  LET j == job[h] IN
  /\ Job(h, "create")
  /\ \/ /\ Works
        /\ rows' = [rows EXCEPT ![j.user] = [c \in Cids |->
             IF c \in Range(j.list) /\ @[c] = "none" THEN j.status ELSE @[c]]]
        /\ UNCHANGED miscounted
     \/ Fails /\ miscounted' = miscounted \cup {who[h]} /\ UNCHANGED rows
  /\ job' = [job EXCEPT ![h] = NoJob]
  /\ UNCHANGED <<pins, redis>> /\ OnlyTheJob
----
(* The database and the node brought in line.                              *)

(* The user's row, if there is one that is written so, gets another status.*)
SetStatus(h, c, status) ==
  \/ \E o \in Ids(h) :
       /\ Lookup(h, o)
       /\ rows' = [rows EXCEPT ![o][c] =
                    IF @ = "none" \/ c \in req[h].odd THEN @ ELSE status]
  \/ Fails /\ UNCHANGED rows

(* pinHook: Add has recorded the new file, or the row is marked.           *)
Hook(h) ==
  /\ pc[h] = "hook"
  /\ IF fresh[h] THEN Job(h, "none") /\ Works /\ UNCHANGED rows
     ELSE SetStatus(h, New(h), "pin")
  /\ Goto(h, IF req[h].unpin = "true" THEN "unpin" ELSE "charge")
  /\ UNCHANGED <<pins, redis, job, arrived, tainted, miscounted, resent>>

(* unPinDBWithPined: the user's row is marked; an error is ignored.        *)
Unpin(h) ==
  /\ pc[h] = "unpin"
  /\ SetStatus(h, Old(h), "unpin")
  /\ Goto(h, "ask")
  /\ UNCHANGED <<pins, redis, job, arrived, tainted, miscounted, resent>>

(* Who still wants it pinned.  A slip: only the user's own row counts.     *)
Wanted_Own(h) == Old(h) \notin req[h].odd /\ rows[who[h]][Old(h)] = "pin"
Wanted(h) == Old(h) \notin req[h].odd /\ \E o \in Owners : rows[o][Old(h)] = "pin"

(* If nobody does, the files in a directory lose its pin, whatever their   *)
(* own rows say.  An error is taken for nobody.                            *)
Ask(h) ==
  /\ pc[h] = "ask"
  /\ \/ Wanted(h) /\ Goto(h, "repin") /\ Works /\ UNCHANGED tainted
     \/ ~Wanted(h) /\ Goto(h, "charge") /\ Works /\ Taint(Inside[Old(h)])
     \/ Wanted(h) /\ Goto(h, "charge") /\ Fails /\ Taint(With(Old(h)))
  /\ UNCHANGED <<pins, rows, redis, job, arrived, miscounted, resent>>

(* pinAddObject is given a CID, not a path.  If the library takes that for *)
(* no path (BareCid is FALSE), nothing is ever pinned again: its error, as *)
(* the node's, is only logged.                                             *)
Repin(h) ==
  /\ pc[h] = "repin"
  /\ \/ BareCid /\ pins' = pins \cup {Old(h)} /\ Works /\ UNCHANGED tainted
     \/ UNCHANGED pins /\ (IF BareCid THEN Fails ELSE Works) /\ Taint(With(Old(h)))
  /\ Goto(h, "charge")
  /\ UNCHANGED <<rows, redis, job, arrived, miscounted, resent>>
----
(* BandwidthHook.  A pin of a new file counts as an upload of 0 bytes: the *)
(* size that was checked is a variable of an inner scope.                  *)
Charged(h) ==
  CASE who[h] \in White               -> UNCHANGED redis
    [] who[h] \notin White /\ req[h].op \in {"add", "put"} -> Spend(who[h], "up", Bytes(h))
    [] who[h] \notin White /\ fresh[h] -> Spend(who[h], "up", 0)
    [] who[h] \notin White /\ req[h].op = "get" -> Spend(who[h], "down", Bytes(h))
    [] OTHER                          -> UNCHANGED redis

Charge(h) ==
  /\ pc[h] = "charge"
  /\ \/ Charged(h) /\ Works /\ UNCHANGED resent /\ Goto(h, "done")
     \/ Fails /\ UNCHANGED <<redis, resent>> /\ Goto(h, "done")
     \/ /\ Charged(h) /\ Fails /\ UNCHANGED handler
        /\ resent' = [resent EXCEPT ![who[h]] = @ + 1]
  /\ UNCHANGED <<pins, rows, job, arrived, tainted, miscounted>>

(* The request is over when what it started is.                            *)
Leave(h) ==
  /\ pc[h] = "done" /\ Job(h, "none")
  /\ pc' = [pc EXCEPT ![h] = "idle"]
  /\ req' = [req EXCEPT ![h] = NoRequest]
  /\ who' = [who EXCEPT ![h] = Nobody]
  /\ fresh' = [fresh EXCEPT ![h] = FALSE]
  /\ UNCHANGED <<pins, rows, redis, job, arrived, faults, tainted, miscounted, resent>>

(* The process ends, and systemd starts it again: by a panic of Add, in a  *)
(* goroutine where nothing recovers from it, or at any time.  An Add that  *)
(* has counted its files and not recorded them is miscounted.              *)
Die ==
  /\ pc' = [h \in Handlers |-> "idle"]
  /\ req' = [h \in Handlers |-> NoRequest]
  /\ who' = [h \in Handlers |-> Nobody]
  /\ fresh' = [h \in Handlers |-> FALSE]
  /\ job' = [h \in Handlers |-> NoJob]
  /\ Taint(UNION {Scope(h) : h \in Handlers})
  /\ miscounted' = miscounted \cup {who[h] : h \in {g \in Handlers : Job(g, "create")}}
  /\ UNCHANGED <<pins, rows, redis, arrived, resent>>

JobPanics(h) == Job(h, "resolve") /\ Panics(job[h]) /\ Die /\ Works
Crash == Die /\ Fails

Step(h) ==
  \/ Check(h) \/ Refuse(h)
  \/ Forward(h) \/ ForwardFails(h) \/ ForwardLost(h)
  \/ JobResolve(h) \/ JobSelect(h) \/ JobCount(h) \/ JobCreate(h) \/ JobPanics(h)
  \/ Hook(h) \/ Unpin(h) \/ Ask(h) \/ Repin(h)
  \/ Charge(h) \/ Leave(h)

Next ==
  \/ \E h \in Handlers, u \in Users, r \in Requests : Arrive(h, u, r)
  \/ \E h \in Handlers : Step(h)
  \/ Crash

Spec == Init /\ [][Next]_vars
----
(* The types of the variables.                                             *)
TypeOK ==
  /\ pins \subseteq Cids
  /\ rows \in [Owners -> [Cids -> {"none", "pin", "unpin"}]]
  /\ usage \in [Users -> [Kinds -> Int]]
  /\ fields \in [Users -> SUBSET Kinds]
  /\ pc \in [Handlers -> {"idle", "check", "forward", "hook", "unpin", "ask",
                          "repin", "charge", "done"}]
  /\ req \in [Handlers -> Requests \cup {NoRequest}]
  /\ who \in [Handlers -> Owners]
  /\ fresh \in [Handlers -> BOOLEAN]
  /\ \A h \in Handlers :
       /\ job[h].pc \in {"none", "resolve", "select", "count", "create"}
       /\ job[h].user \in Owners
       /\ job[h].sum \in Nat
       /\ Job(h, "select") => job[h].at \in DOMAIN job[h].list
  /\ arrived \in 0 .. MaxRequests /\ faults \in 0 .. MaxFaults
  /\ tainted \subseteq Cids /\ miscounted \subseteq Users /\ resent \in [Users -> Nat]

Quiet(c) == \A h \in Handlers : c \notin Scope(h)
Holds(c) == c \in pins \/ \E d \in pins : c \in Inside[d]

(* What the database says somebody has pinned is pinned at the node, once  *)
(* its requests are over: one user's unpinning never costs another's pin.  *)
(* Not so if requests for it overlapped, one failed halfway or is Unasked, *)
(* or the directory it is in was unpinned.                                 *)
PinnedKept ==
  \A c \in Cids \ tainted :
    (Quiet(c) /\ \E o \in Owners : rows[o][c] = "pin") => Holds(c)

(* A user's files are in the database no sooner than they are counted: the *)
(* storage used is no less than their sizes, whatever was added alone, in  *)
(* a directory or by pinning, and wherever the process ended; if no Adds   *)
(* of the user overlapped, failed, were counted again or listed in part.   *)
StorageCounted ==
  \A u \in Users \ miscounted :
    Total({c \in Files(Cids) : rows[u][c] # "none"}) <= usage[u]["storage"]

(* The upload limit is overrun by no more than the requests in flight when *)
(* it was reached, and those charged again.  Pins count as 0 bytes.        *)
Largest == Max({0} \cup {BytesOf(r) : r \in {q \in Requests : q.op \in {"add", "put"}}})
InFlight == Cardinality(Handlers)
UploadBounded ==
  \A u \in Users : usage[u]["up"] <=
    Max({Limit["up"] - 1 + (InFlight - 1) * Largest, InFlight * Largest})
      + resent[u] * Largest
====
