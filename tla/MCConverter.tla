------------------------------ MODULE MCConverter ------------------------------
(***************************************************************************)
(* The parts of the llm-converter that hold state, in one run.  They share *)
(* nothing but the process, so that a behaviour is about one of them and   *)
(* leaves the others where they start.                                     *)
(***************************************************************************)
EXTENDS ConversationTurns, ResponsesBridge, MessagesBridge, StreamRelay, ModelsListing,
        StreamSanitizer

VARIABLE focus  \* the part this behaviour is about, never changed

Parts == {"turns", "responses", "messages", "sanitizer", "relay", "listing"}

(* What the parts that stand still are set to. *)
OneChoice ==
  /\ focus # "turns" => backend = "memory" /\ size = [i \in Ids |-> 1]
  /\ focus \in {"responses", "messages"} \/ dialect = "indexed"
  /\ focus = "responses" => dialect # "restating"

ConverterInit ==
  /\ focus \in Parts
  /\ TurnsInit /\ RespInit /\ MsgInit /\ Init /\ RelayInit /\ ListInit
  /\ OneChoice

Part(name, Step, others) == focus = name /\ Step /\ UNCHANGED <<focus, others>>

ConverterNext ==
  \/ Part("turns", TurnsNext, <<respVars, msgVars, vars, relayVars, listVars>>)
  \/ Part("responses", RespNext, <<turnVars, ms, mtodo, mgen, flushed, mstarted, mopen, mnext, msent, vars, relayVars, listVars>>)
  \/ Part("messages", MsgNext, <<turnVars, bridgeVars, vars, relayVars, listVars>>)
  \/ Part("sanitizer", Next, <<turnVars, respVars, msgVars, relayVars, listVars>>)
  \/ Part("relay", RelayNext, <<turnVars, respVars, msgVars, vars, listVars>>)
  \/ Part("listing", ListNext, <<turnVars, respVars, msgVars, vars, relayVars>>)

ConverterSpec == ConverterInit /\ [][ConverterNext]_<<focus, turnVars, respVars, msgVars, vars, relayVars, listVars>>

(* The first transcript fills the budget of the store alone, the second    *)
(* exceeds it, and the third is refused.                                   *)
MCSizes == {<<1, 2, 3>>, <<1, 1, 1>>}
===============================================================================
