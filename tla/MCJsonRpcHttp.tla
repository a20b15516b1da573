---- MODULE MCJsonRpcHttp ----
(***************************************************************************)
(* JsonRpcHttp for TLC: two questions of one cacheable method, one of      *)
(* erigon, one for whitelisted accounts, one for nobody and one without a  *)
(* method, asked alone, in a batch and by path.                            *)
(***************************************************************************)
EXTENDS JsonRpcHttp, TLC

Ask(m, p) == [method |-> m, params |-> p]
Balance == Ask("getBalance", "x")
Other == Ask("getBalance", "y")
Logs == Ask("getLogs", "x")
Trace == Ask("trace", "x")
Dial == Ask("dial", "x")
None == Ask("", "x")

MCQuestions == {Balance, Other, Logs, Trace, Dial, None}
MCCacheable == {"getBalance"}
MCErigon == {"getLogs"}
MCJustWhite == {"trace"}
MCBlack == {"dial"}

Body(form, calls) == [form |-> form, calls |-> calls]
MCBodies ==
  { Body("single", <<Balance>>), Body("single", <<Other>>),
    Body("single", <<Logs>>), Body("batch", <<Logs, Trace>>),
    Body("batch", <<Balance, Logs>>), Body("batch", << >>),
    Body("batch", <<Balance, Dial>>),
    Body("path", <<Balance>>), Body("path", <<Dial>>), Body("path", <<None>>),
    Body("null", << >>), Body("garbage", << >>) }

(* No handler is different from another.                                   *)
Symmetric == Permutations(Handlers)
====
