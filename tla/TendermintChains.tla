---- MODULE TendermintChains ----
(***************************************************************************)
(* The handlers of the Tendermint chains as pkg/initapp makes them, one    *)
(* function for each chain, and JsonRpcHttp with the lists of one of them. *)
(***************************************************************************)
EXTENDS JsonRpcHttp

CONSTANT Chain   \* the chain whose handler is looked at

tendermintHttpBlackMethods == {"dial_seeds", "dial_peers"}
tendermintWsBlackMethods == {}
tendermintCacheableMethods == {"status"}   \* and twenty more
justWhiteMethods == {}

(* The constructor takes its lists by position.                            *)
NewJsonRpcHandler(httpBlack, erigonMethods, wsBlack, justWhite) ==
  [http |-> httpBlack, erigon |-> erigonMethods, ws |-> wsBlack, white |-> justWhite]

(* The others are made as juno's is.                                       *)
initJunoHandler ==
  NewJsonRpcHandler(tendermintHttpBlackMethods, {},
                    tendermintWsBlackMethods, justWhiteMethods)

initCosmosHandler ==
  NewJsonRpcHandler({}, tendermintHttpBlackMethods,
                    tendermintWsBlackMethods, justWhiteMethods)

HandlerOf == [juno |-> initJunoHandler, cosmos |-> initCosmosHandler]

ChainBlack == HandlerOf[Chain].http
ChainErigon == HandlerOf[Chain].erigon
ChainJustWhite == HandlerOf[Chain].white
----
Ask(m) == [method |-> m, params |-> "x"]
ChainQuestions == {Ask("status"), Ask("dial_seeds")}

(* Over HTTP a call comes as a body or as a path.                          *)
ChainBodies == {[form |-> f, calls |-> <<q>>] : f \in {"single", "path"}, q \in ChainQuestions}

(* What the name tendermintHttpBlackMethods and the comment "black list    *)
(* mode" say of its methods: a call of one gets no answer of a node.       *)
DialsRefused ==
  \A h \in Handlers :
    (pc[h] = "replied" /\ ans[h].status \in Said) =>
      Call(h).method \notin tendermintHttpBlackMethods
====
