----------------------------- MODULE MessagesBridge ----------------------------
(***************************************************************************)
(* openai_stream_to_anthropic_events: the generator that turns the chunks  *)
(* of a Chat Completions stream into the events of an Anthropic stream.    *)
(* Blocks of that stream never overlap, so that calls are held back until  *)
(* they are over.  A chunk with several fields does what a chunk for each  *)
(* of them, in the order of the code, would do.                            *)
(***************************************************************************)
EXTENDS ChatChunks, Sequences

VARIABLES
  ms,       \* the _StreamState of the generator
  mtodo,    \* events built and not yet yielded
  mgen,     \* "run", "ended", "failed"
  flushed,  \* history: the calls sent, each with the fragments it was made of
  mstarted, mopen, mnext, msent  \* what the client has been sent (MessagesStream)

msgVars == <<chunkVars, ms, mtodo, mgen, flushed, mstarted, mopen, mnext, msent>>

Client == INSTANCE MessagesStream WITH
  started <- mstarted, open <- mopen, next <- mnext, sent <- msent

NoCall == 0

MsgInit ==
  /\ ChunksInit /\ Client!Init
  /\ ms = [open_kind |-> Client!NoBlock, open_index |-> -1, pending |-> <<>>,
           current |-> [i \in Calls |-> NoCall], last |-> Missing, started |-> FALSE]
  /\ mtodo = <<>> /\ mgen = "run" /\ flushed = <<>>

-------------------------------------------------------------------------------
(* As in the code, helpers change the state and build events; ours take a  *)
(* state with the events built so far.                                     *)
MsgBuilt(st, kind, type) == [st EXCEPT !.out = Append(@, Client!Event(kind, type, st.open_index))]
Framed(st, kind) == [st EXCEPT !.out = Append(@, Client!Plain(kind))]

CloseBlock(st) ==
  IF st.open_kind = Client!NoBlock THEN st
  ELSE [MsgBuilt(st, "content_block_stop", "-") EXCEPT !.open_kind = Client!NoBlock]

OpenBlock(st, kind) ==
  MsgBuilt([st EXCEPT !.open_index = @ + 1, !.open_kind = kind], "content_block_start", kind)

(* Mutant: the block that is open stays so beside the calls. *)
FlushBeside(st) ==
  IF st.pending = <<>> THEN st
  ELSE [st EXCEPT
          !.out = @ \o [k \in DOMAIN st.pending |->
                         Client!Event("call", st.pending[k].args, st.open_index + k)],
          !.open_index = @ + Len(st.pending),
          !.flushed = @ \o st.pending, !.pending = <<>>, !.current = [i \in Calls |-> NoCall]]

(* The calls held back follow the block that is open, each as a block of   *)
(* its own; in the list an entry of the kind "call" stands for its events. *)
FlushToolCalls(st) ==
  IF st.pending = <<>> THEN st
  ELSE [CloseBlock(st) EXCEPT
          !.out = @ \o [k \in DOMAIN st.pending |->
                         Client!Event("call", st.pending[k].args, st.open_index + k)],
          !.open_index = @ + Len(st.pending),
          !.flushed = @ \o st.pending, !.pending = <<>>, !.current = [i \in Calls |-> NoCall]]

MessageStart(st) ==
  IF st.started THEN st ELSE [Framed(st, "message_start") EXCEPT !.started = TRUE]

(* Thoughts and text: in the open block, if it is of their kind. *)
Speak(st, kind) ==
  LET before == FlushToolCalls(MessageStart(st))
      opened == IF before.open_kind = kind THEN before ELSE OpenBlock(CloseBlock(before), kind)
  IN MsgBuilt(opened, "content_block_delta", IF kind = "text" THEN "text_delta" ELSE "thinking_delta")

(* add_arguments: arguments that are whole are replaced by others that are. *)
AddArguments(args, more) ==
  CASE args = "none" -> more
    [] more = "none" -> args
    [] args = "part" /\ more = "rest" -> "whole"
    [] args = "whole" /\ more = "whole" -> "whole"
    [] OTHER -> "torn"

(* _record_tool_call_delta: the fragment goes to the call its index stands *)
(* for, unless its id says that this is another call.                      *)
RecordToolCall(st, f) ==
  LET i == IF f.index # Missing THEN f.index ELSE IF st.last = Missing THEN 0 ELSE st.last
      k == st.current[i]
      another == k # NoCall /\ st.pending[k].upstream_id \notin {NoName, f.id} /\ f.id # NoName
      fresh == [upstream_id |-> f.id, of |-> {f.of}, args |-> f.args]
      at == [st EXCEPT !.last = i]
  IN IF k = NoCall \/ another
     THEN [at EXCEPT !.pending = Append(@, fresh), !.current[i] = Len(st.pending) + 1]
     ELSE [at EXCEPT !.pending[k] =
            [upstream_id |-> IF f.id # NoName THEN f.id ELSE @.upstream_id,
             of |-> @.of \cup {f.of}, args |-> AddArguments(@.args, f.args)]]

-------------------------------------------------------------------------------
MsgPulling == mgen = "run" /\ mtodo = <<>>
MsgStarted ==
  [open_kind |-> ms.open_kind, open_index |-> ms.open_index, pending |-> ms.pending,
   current |-> ms.current, last |-> ms.last, started |-> ms.started,
   out |-> <<>>, flushed |-> flushed]

MsgBecame(st) ==
  /\ ms' = [open_kind |-> st.open_kind, open_index |-> st.open_index, pending |-> st.pending,
            current |-> st.current, last |-> st.last, started |-> st.started]
  /\ mtodo' = st.out /\ flushed' = st.flushed
  /\ UNCHANGED <<mstarted, mopen, mnext, msent>>

MsgSays(kind) ==
  /\ MsgPulling /\ Speech
  /\ MsgBecame(Speak(MsgStarted, kind))
  /\ UNCHANGED mgen

MsgCallChunk(f) ==
  /\ MsgPulling /\ CallFragment(f)
  /\ MsgBecame(RecordToolCall(MessageStart(MsgStarted), f))
  /\ UNCHANGED mgen

(* The chunks are over. *)
MsgFinish ==
  /\ MsgPulling /\ mgen' = "ended"
  /\ MsgBecame(Framed(Framed(CloseBlock(FlushToolCalls(MessageStart(MsgStarted))),
                             "message_delta"), "message_stop"))
  /\ UNCHANGED chunkVars

(* The upstream streams an error, or something raises: the route ends the  *)
(* stream with an error event (body_iter of /v1/messages).                 *)
MsgRaised ==
  /\ mgen = "run" /\ mgen' = "failed"
  /\ mtodo' = <<Client!Plain("error")>>
  /\ UNCHANGED <<chunkVars, ms, flushed, mstarted, mopen, mnext, msent>>

(* The block of a call: it is opened, filled and closed. *)
BlockOf(call) ==
  LET event(kind, type) == Client!Event(kind, type, call.index)
  IN  <<event("content_block_start", "tool_use")>>
        \o (IF call.type = "none" THEN <<>> ELSE <<event("content_block_delta", "input_json_delta")>>)
        \o <<event("content_block_stop", "-")>>

Due == IF Head(mtodo).kind = "call" THEN BlockOf(Head(mtodo)) \o Tail(mtodo) ELSE mtodo

MsgYield ==
  /\ mtodo # <<>>
  /\ LET e == Head(Due) IN
       /\ msent' = e
       /\ mstarted' = (mstarted \/ e.kind = "message_start")
       /\ mopen' = CASE e.kind = "content_block_start" -> e.type
                    [] e.kind = "content_block_stop" -> Client!NoBlock
                    [] OTHER -> mopen
       /\ mnext' = IF e.kind = "content_block_start" THEN mnext + 1 ELSE mnext
  /\ mtodo' = Tail(Due)
  /\ UNCHANGED <<chunkVars, ms, mgen, flushed>>

MsgNext ==
  \/ \E kind \in {"thinking", "text"} : MsgSays(kind)
  \/ \E f \in Fragment : MsgCallChunk(f)
  \/ MsgFinish \/ MsgRaised \/ MsgYield

MsgSpec == MsgInit /\ [][MsgNext]_msgVars

-------------------------------------------------------------------------------
(* The events of the bridge are a stream a client can read before they     *)
(* reach the sanitizer: every block is closed before the next one or the   *)
(* end of the message, indices are dense, one message_start comes first    *)
(* (docstring).                                                            *)
MessagesAreRead == Client!Spec

(* When the stream ends, every call of the upstream has been sent as one   *)
(* block, with its own arguments and whole when they were: in every        *)
(* dialect, with interleaved, index-less or restated fragments.            *)
CallsAreSentOnce ==
  mgen = "ended" =>
    /\ \A c \in Born : \E j \in DOMAIN flushed : flushed[j].of = {c}
    /\ Len(flushed) = Cardinality(Born)
    /\ \A j \in DOMAIN flushed : flushed[j].args # "torn"

(* Both, of every behaviour of the bridge. *)
MessagesAreFaithful == MessagesAreRead /\ []CallsAreSentOnce
===============================================================================
