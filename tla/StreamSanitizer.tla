--------------------------- MODULE StreamSanitizer ----------------------------
(***************************************************************************)
(* sanitize_events: the generator of the llm-converter that turns whatever *)
(* events a bridge produces into a stream a client can read.  Each yield   *)
(* is a step of its own, and the upstream may send any event at any time.  *)
(***************************************************************************)
EXTENDS Integers

CONSTANT MaxEvents  \* bound on the events of the upstream

ASSUME SanitizerAssumption == MaxEvents \in Nat

VARIABLES
  seen_message_start, current_index, current_block_type,  \* as in the code
  evt,       \* the upstream event being handled
  stage,     \* the yield it is at, or "receive"
  received,  \* how many upstream events there were
  sent,      \* the event yielded last
  previous   \* history: the type of the last delta with a payload, unless the
             \* upstream has started or stopped a block or the message since

vars == <<seen_message_start, current_index, current_block_type, evt, stage, received, sent,
          previous>>

Stream == INSTANCE MessagesStream WITH
  started <- seen_message_start, open <- current_block_type, next <- current_index + 1

NoBlock == Stream!NoBlock
Mapped == Stream!Mapped

(* Upstream events; "empty" says that a delta carries no payload. *)
UpstreamEvents ==
  [kind : {"message_start", "content_block_stop", "message_delta", "message_stop", "ping"},
   type : {"-"}, empty : {FALSE}]
  \cup [kind : {"content_block_start"}, type : Stream!BlockTypes, empty : {FALSE}]
  \cup [kind : {"content_block_delta"}, type : Stream!DeltaTypes, empty : BOOLEAN]
Nothing == [kind |-> "nothing", type |-> "-", empty |-> FALSE]
Closing == {"message_delta", "message_stop"}

TypeOK ==
  /\ seen_message_start \in BOOLEAN
  /\ current_index \in Nat \cup {-1}
  /\ current_block_type \in Stream!BlockTypes \cup {NoBlock}
  /\ evt \in UpstreamEvents \cup {Nothing}
  /\ stage \in {"receive", "close", "open", "forward"}
  /\ received \in Nat
  /\ sent.index \in Nat \cup {-1}
  /\ previous \in Stream!DeltaTypes \cup {"-"}

Init ==
  /\ seen_message_start = FALSE /\ current_index = -1 /\ current_block_type = NoBlock
  /\ evt = Nothing /\ stage = "receive" /\ received = 0
  /\ sent = Stream!Plain("nothing") /\ previous = "-"

-------------------------------------------------------------------------------
(* Mutant: every delta counts. *)
NoDeltaIsEmpty(e) == FALSE

(* _is_empty_delta knows the payload of the mapped types only. *)
IsEmptyDelta(e) == e.kind = "content_block_delta" /\ e.type \in Mapped /\ e.empty

(* The open block cannot hold this delta, or there is none. *)
Splits(e) ==
  /\ e.kind = "content_block_delta" /\ e.type \in Mapped
  /\ current_block_type \notin Stream!Compatible[e.type]

(* DELTA_PRIMARY_BLOCK. *)
Primary(delta) ==
  CASE delta = "text_delta" -> "text"
    [] delta \in {"thinking_delta", "signature_delta"} -> "thinking"
    [] OTHER -> "tool_use"

(* Events that go no further. *)
Drops(e) ==
  \/ e.kind = "message_start" /\ seen_message_start
  \/ IsEmptyDelta(e)
  \/ /\ current_block_type = NoBlock
     /\ e.kind = "content_block_stop" \/ (e.kind = "content_block_delta" /\ e.type \notin Mapped)

(* Events before which the open block is closed. *)
ClosesFirst(e) ==
  /\ current_block_type # NoBlock
  /\ e.kind \in {"content_block_start"} \cup Closing \/ Splits(e)

Receive(e) ==
  /\ stage = "receive" /\ received < MaxEvents
  /\ received' = received + 1
  /\ IF Drops(e) THEN UNCHANGED <<evt, stage>>
     ELSE /\ evt' = e
          /\ stage' = IF ClosesFirst(e) THEN "close" ELSE IF Splits(e) THEN "open" ELSE "forward"
  /\ UNCHANGED <<seen_message_start, current_index, current_block_type, sent, previous>>

(* _close_current, ahead of the event. *)
Close ==
  /\ stage = "close"
  /\ sent' = Stream!Event("content_block_stop", "-", current_index)
  /\ current_block_type' = NoBlock
  /\ stage' = IF evt.kind = "content_block_delta" THEN "open" ELSE "forward"
  /\ UNCHANGED <<seen_message_start, current_index, evt, received, previous>>

(* A synthetic block for a delta that has none. *)
Open ==
  /\ stage = "open"
  /\ current_index' = current_index + 1
  /\ current_block_type' = Primary(evt.type)
  /\ sent' = Stream!Event("content_block_start", Primary(evt.type), current_index + 1)
  /\ stage' = "forward"
  /\ UNCHANGED <<seen_message_start, evt, received, previous>>

ForwardMessageStart ==
  /\ evt.kind = "message_start"
  /\ seen_message_start' = TRUE
  /\ sent' = Stream!Plain("message_start")
  /\ UNCHANGED <<current_index, current_block_type>>

(* Mutant: the index of the upstream's block is kept when it is the first. *)
ForwardStartInPlace ==
  /\ evt.kind = "content_block_start"
  /\ current_index' = IF current_index = -1 THEN 0 ELSE current_index
  /\ current_block_type' = evt.type
  /\ sent' = Stream!Event("content_block_start", evt.type, current_index')
  /\ UNCHANGED seen_message_start

ForwardStart ==
  /\ evt.kind = "content_block_start"
  /\ current_index' = current_index + 1
  /\ current_block_type' = evt.type
  /\ sent' = Stream!Event("content_block_start", evt.type, current_index + 1)
  /\ UNCHANGED seen_message_start

ForwardDelta ==
  /\ evt.kind = "content_block_delta"
  /\ sent' = Stream!Event("content_block_delta", evt.type, current_index)
  /\ UNCHANGED <<seen_message_start, current_index, current_block_type>>

ForwardStop ==
  /\ evt.kind = "content_block_stop"
  /\ sent' = Stream!Event("content_block_stop", "-", current_index)
  /\ current_block_type' = NoBlock
  /\ UNCHANGED <<seen_message_start, current_index>>

ForwardOther ==
  /\ evt.kind \in Closing \cup {"ping"}
  /\ sent' = Stream!Plain(evt.kind)
  /\ UNCHANGED <<seen_message_start, current_index, current_block_type>>

Forward ==
  /\ stage = "forward"
  /\ ForwardMessageStart \/ ForwardStart \/ ForwardDelta \/ ForwardStop \/ ForwardOther
  /\ stage' = "receive" /\ evt' = Nothing
  /\ previous' = CASE evt.kind = "content_block_delta" /\ ~evt.empty -> evt.type
                   [] evt.kind \in {"content_block_start", "content_block_stop"} \cup Closing -> "-"
                   [] OTHER -> previous
  /\ UNCHANGED received

Next == (\E e \in UpstreamEvents : Receive(e)) \/ Close \/ Open \/ Forward

Spec == Init /\ [][Next]_vars

-------------------------------------------------------------------------------
(* What the stages rest on: by the time an event is yielded, it is one the *)
(* client may be sent.                                                     *)
StageOK ==
  /\ stage = "close" => current_block_type # NoBlock
                          /\ evt.kind \in {"content_block_start", "content_block_delta"} \cup Closing
  /\ stage = "open" => current_block_type = NoBlock
  /\ stage \in {"close", "open"} /\ evt.kind = "content_block_delta" => evt.type \in Mapped
  /\ stage = "open" => evt.kind = "content_block_delta"
  /\ stage = "forward" =>
       /\ evt \in UpstreamEvents
       /\ evt.kind = "message_start" => ~seen_message_start
       /\ evt.kind \in {"content_block_start"} \cup Closing => current_block_type = NoBlock
       /\ evt.kind \in {"content_block_stop", "content_block_delta"} =>
            current_block_type # NoBlock
       /\ evt.kind = "content_block_delta" => Stream!Fits(evt.type, current_block_type)
  /\ stage # "receive" => evt \in UpstreamEvents

(* Whatever the upstream sends, the client reads a well-formed stream: one *)
(* message_start, blocks numbered from 0 that stop before the next start   *)
(* or the end of the message, deltas inside a block of their type          *)
(* (docstring of sanitize_events).                                         *)
ClientReadsAStream == Stream!Spec

(* Deltas of one type that only empty deltas, pings or duplicate starts of *)
(* the message separate stay in one block: a split never tears a text, a   *)
(* thought or a tool call apart (_is_empty_delta).                         *)
RunsStayInOneBlock == [][stage = "open" /\ stage' # "open" => evt.type # previous]_vars
===============================================================================
