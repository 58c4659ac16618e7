---------------------------- MODULE MessagesStream ----------------------------
(***************************************************************************)
(* What a client of the Anthropic Messages API may rely on while it reads  *)
(* a stream: the guarantees that sanitize_events states in its docstring   *)
(* (llm-converter/app/stream_sanitizer.py), as a state machine over the    *)
(* events it is sent.                                                      *)
(***************************************************************************)
EXTENDS Integers

VARIABLES
  started,  \* message_start has been sent
  open,     \* the type of the open content block, or NoBlock
  next,     \* the index of the next content block
  sent      \* the event sent last

vars == <<started, open, next, sent>>

NoBlock == "none"
Untyped == ""   \* a content_block without a type
BlockTypes == {"text", "thinking", "tool_use", "server_tool_use", Untyped}

(* DELTA_COMPATIBLE_BLOCKS: the blocks a delta may appear in. *)
Compatible ==
  [text_delta |-> {"text"}, thinking_delta |-> {"thinking"},
   signature_delta |-> {"thinking"}, input_json_delta |-> {"tool_use", "server_tool_use"}]
Mapped == {"text_delta", "thinking_delta", "signature_delta", "input_json_delta"}
DeltaTypes == Mapped \cup {"citations_delta"}

(* A delta of a type the table does not know fits into every block. *)
Fits(delta, block) == delta \in Mapped => block \in Compatible[delta]

Event(kind, type, index) == [kind |-> kind, type |-> type, index |-> index]
Plain(kind) == Event(kind, "-", -1)

Init == started = FALSE /\ open = NoBlock /\ next = 0 /\ sent = Plain("nothing")

(* message_start comes at most once. *)
MessageStart ==
  /\ ~started
  /\ started' = TRUE
  /\ sent' = Plain("message_start")
  /\ UNCHANGED <<open, next>>

(* A block starts after the one before it has stopped, with the next index. *)
BlockStart(type) ==
  /\ open = NoBlock
  /\ open' = type /\ next' = next + 1
  /\ sent' = Event("content_block_start", type, next)
  /\ UNCHANGED started

(* A delta belongs to the open block, and its type fits. *)
BlockDelta(type) ==
  /\ open # NoBlock /\ Fits(type, open)
  /\ sent' = Event("content_block_delta", type, next - 1)
  /\ UNCHANGED <<started, open, next>>

BlockStop ==
  /\ open # NoBlock
  /\ open' = NoBlock
  /\ sent' = Event("content_block_stop", "-", next - 1)
  /\ UNCHANGED <<started, next>>

(* The message is closed with no block open. *)
MessageEnd(kind) ==
  /\ open = NoBlock
  /\ sent' = Plain(kind)
  /\ UNCHANGED <<started, open, next>>

Other == \E kind \in {"ping", "error"} : sent' = Plain(kind) /\ UNCHANGED <<started, open, next>>

Next ==
  \/ MessageStart \/ BlockStop \/ Other
  \/ \E type \in BlockTypes : BlockStart(type)
  \/ \E type \in DeltaTypes : BlockDelta(type)
  \/ \E kind \in {"message_delta", "message_stop"} : MessageEnd(kind)

Spec == Init /\ [][Next]_vars
===============================================================================
