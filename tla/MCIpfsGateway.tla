---- MODULE MCIpfsGateway ----
(***************************************************************************)
(* IpfsGateway for TLC: a file and a directory it is in, and two users,    *)
(* with requests that the node and the gateway read in the same way and    *)
(* some that they do not.                                                  *)
(***************************************************************************)
EXTENDS IpfsGateway, TLC

CONSTANTS f, d

MCSize == f :> 1 @@ d :> 2
MCInside == f :> {} @@ d :> {f}

Ask1(op, c) ==
  [op |-> op, cids |-> <<c>>, odd |-> {}, wrap |-> FALSE, pin |-> TRUE, keep |-> {},
   told |-> << >>, unpin |-> "absent"]
Wrapped(keep, told) ==
  [Ask1("add", d) EXCEPT !.cids = <<f, d>>, !.wrap = TRUE, !.keep = keep, !.told = told]
Move(old, new, unpin) ==
  [Ask1("pin/update", old) EXCEPT !.cids = <<old, new>>, !.unpin = unpin]

MCRequests ==
  { [Ask1("add", f) EXCEPT !.keep = {f}, !.told = <<f>>],
    Wrapped({d}, <<f, d>>), Wrapped({}, <<f>>), Wrapped({d}, << >>),
    Ask1("put", d), Ask1("pin/add", d),
    Ask1("pin/rm", d), [Ask1("pin/rm", d) EXCEPT !.cids = <<d, f>>],
    [Move(d, f, "true") EXCEPT !.odd = {f}] }

MCLimit == [k \in Kinds |-> 4]

(* No handler is different from another, and no user.                      *)
Symmetric == Permutations(Handlers) \cup Permutations(Users)

(* "GetIPFSUserUsage query ipfs usage return map, if not exist init data": *)
(* when the limits have been looked at and nothing failed, a user has all  *)
(* the fields that are compared with them.                                 *)
UsageInitialised ==
  \A h \in Handlers :
    (/\ pc[h] = "forward" /\ faults = 0
     /\ req[h].op \in {"add", "put", "get"} \/ fresh[h]) => fields[who[h]] = Kinds
====
