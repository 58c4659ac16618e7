---------------------------- MODULE ResponsesBridge ----------------------------
(***************************************************************************)
(* chat_stream_to_responses_events: the generator that turns the chunks of *)
(* a Chat Completions stream into the events of a Responses stream, and    *)
(* leaves the transcript of the turn in a holder for the route to store.   *)
(* A chunk with several fields does what a chunk for each of them, in the  *)
(* order of the code, would do.                                            *)
(***************************************************************************)
EXTENDS ChatChunks, Sequences

VARIABLES
  rs,         \* the _StreamState of the generator
  rtodo,      \* events built and not yet yielded
  gen,        \* "run", "close" (chunks are over), "ended", "failed", "cancelled"
  holder,     \* the items of the transcript left to the route, or Unset
  phase, items, heard  \* what the client has been sent (ResponsesStream)

bridgeVars == <<rs, rtodo, gen, holder, phase, items, heard>>
respVars == <<chunkVars, bridgeVars>>

Reader == INSTANCE ResponsesStream

NoItem == -1
NoTool == [oi |-> NoItem, upstream_id |-> NoName, of |-> {}, args |-> "none"]
Unset == <<NoTool>>
Entry(i) == [NoTool EXCEPT !.oi = i]

RespInit ==
  /\ ChunksInit /\ Reader!Init
  /\ rs = [seq |-> 2, next_oi |-> 0, reasoning |-> NoItem, text |-> NoItem, kind |-> "-",
          tools |-> [i \in Calls |-> NoTool], tool_order |-> <<>>, output |-> <<>>]
  /\ rtodo = <<Reader!Event("created", -1, 0), Reader!Event("in_progress", -1, 1)>>
  /\ gen = "run" /\ holder = Unset

-------------------------------------------------------------------------------
(* The helpers of the generator take a state and the events built so far,  *)
(* and number what they add (bump).                                        *)
Built(st, types, i) ==
  [st EXCEPT !.seq = @ + Len(types),
             !.out = @ \o [j \in DOMAIN types |-> Reader!Event(types[j], i, st.seq + j - 1)]]

Added(st, kind) == [Built(st, kind, st.next_oi) EXCEPT !.next_oi = @ + 1]

PartDone == <<"done", "part.done", "item.done">>
ToolDone == <<"done", "item.done">>

CloseReasoning(st) ==
  IF st.reasoning = NoItem THEN st
  ELSE [Built(st, PartDone, st.reasoning) EXCEPT !.reasoning = NoItem,
                                                 !.output = Append(@, [Entry(st.reasoning) EXCEPT !.args = "thought"])]

CloseText(st) ==
  IF st.text = NoItem THEN st
  ELSE [Built(st, PartDone, st.text) EXCEPT !.text = NoItem, !.output = Append(@, Entry(st.text))]

CloseTool(st, i) ==
  IF st.tools[i] = NoTool THEN st
  ELSE [Built(st, ToolDone, st.tools[i].oi) EXCEPT
          !.tools[i] = NoTool, !.output = Append(@, st.tools[i])]

(* The positions of S in the order of their keys, as sorted() gives them.  *)
Sorted(S, key) ==
  [n \in 1..Cardinality(S) |->
     CHOOSE k \in S :
       Cardinality({l \in S : key[l] < key[k] \/ (key[l] = key[k] /\ l < k)}) = n - 1]

(* The indices whose items are open, each where tool_order first names it. *)
OpenTools(st) ==
  LET first == {k \in DOMAIN st.tool_order :
                  /\ st.tools[st.tool_order[k]] # NoTool
                  /\ \A l \in 1..(k - 1) : st.tool_order[l] # st.tool_order[k]}
      at == Sorted(first, [k \in first |-> k])
  IN [n \in DOMAIN at |-> st.tool_order[at[n]]]

(* CloseTool for each of them in turn. *)
CloseAllTools(st) ==
  LET which == OpenTools(st)
      event(k) == Reader!Event(ToolDone[IF k % 2 = 1 THEN 1 ELSE 2],
                               st.tools[which[(k + 1) \div 2]].oi, st.seq + k - 1)
  IN [st EXCEPT !.seq = @ + 2 * Len(which),
                !.out = @ \o [k \in 1..(2 * Len(which)) |-> event(k)],
                !.output = @ \o [n \in DOMAIN which |-> st.tools[which[n]]],
                !.tools = [i \in Calls |-> IF \E n \in DOMAIN which : which[n] = i
                                           THEN NoTool ELSE st.tools[i]]]

(* Thoughts are sent as long as nothing else has been. *)
RespReasoning(st) ==
  LET opened == IF st.reasoning = NoItem /\ st.text = NoItem /\ (\A i \in Calls : st.tools[i] = NoTool)
                THEN [Added(st, <<"reasoning", "part.added">>) EXCEPT !.reasoning = st.next_oi]
                ELSE st
  IN IF opened.reasoning = NoItem THEN st ELSE Built(opened, <<"delta">>, opened.reasoning)

(* Mutant: a tool item stays open beside a message. *)
SpeechBeside(st, kind) ==
  LET closed == CloseReasoning(st)
      ready == IF closed.text # NoItem /\ closed.kind # kind THEN CloseText(closed) ELSE closed
      opened == IF ready.text # NoItem THEN ready
                ELSE [Added(ready, <<"message", "part.added">>) EXCEPT !.text = ready.next_oi, !.kind = kind]
  IN Built(opened, <<"delta">>, opened.text)

(* Text, or a refusal: both are messages, of another kind. *)
SpeechOf(st, kind) ==
  LET closed == CloseAllTools(CloseReasoning(st))
      ready == IF closed.text # NoItem /\ closed.kind # kind THEN CloseText(closed) ELSE closed
      opened == IF ready.text # NoItem THEN ready
                ELSE [Added(ready, <<"message", "part.added">>) EXCEPT !.text = ready.next_oi, !.kind = kind]
  IN Built(opened, <<"delta">>, opened.text)

RespIsNewCall(t, f) ==
  t # NoTool /\ t.upstream_id # NoName /\ f.id # NoName /\ f.id # t.upstream_id

(* Arguments are appended: what is whole already is torn by more. *)
Grown(args, more) ==
  CASE args = "none" -> more
    [] more = "none" -> args
    [] args = "part" /\ more = "rest" -> "whole"
    [] OTHER -> "torn"

OpenCall(st, i, f) ==
  [Added(st, <<"call">>) EXCEPT !.tools[i] = [Entry(st.next_oi) EXCEPT !.upstream_id = f.id],
                                !.tool_order = Append(@, i)]

(* An id that comes late is that of the call that is open. *)
Filled(t, f) ==
  [t EXCEPT !.upstream_id = IF @ = NoName THEN f.id ELSE @,
            !.of = @ \cup {f.of}, !.args = Grown(@, f.args)]

ToolCall(st, f) ==
  LET i == f.index
      fresh == RespIsNewCall(st.tools[i], f)
      before == CloseText(CloseReasoning(IF fresh THEN CloseTool(st, i) ELSE st))
      opened == IF st.tools[i] = NoTool \/ fresh THEN OpenCall(before, i, f) ELSE st
      filled == [opened EXCEPT !.tools[i] = Filled(opened.tools[i], f)]
  IN IF f.args = "none" THEN filled ELSE Built(filled, <<"delta">>, filled.tools[i].oi)

RespClosed(st) == CloseAllTools(CloseText(CloseReasoning(st)))

-------------------------------------------------------------------------------
RespPulling == gen = "run" /\ rtodo = <<>>
RespStarted ==
  [seq |-> rs.seq, next_oi |-> rs.next_oi, reasoning |-> rs.reasoning, text |-> rs.text,
   kind |-> rs.kind, tools |-> rs.tools, tool_order |-> rs.tool_order, output |-> rs.output,
   out |-> <<>>]

(* A step of the generator: its new state, and the events to yield. *)
RespBecame(st) ==
  /\ rs' = [seq |-> st.seq, next_oi |-> st.next_oi, reasoning |-> st.reasoning, text |-> st.text,
            kind |-> st.kind, tools |-> st.tools, tool_order |-> st.tool_order, output |-> st.output]
  /\ rtodo' = st.out
  /\ UNCHANGED <<phase, items, heard>>

RespSays(kind) ==
  /\ RespPulling /\ Speech
  /\ RespBecame(IF kind = "reasoning" THEN RespReasoning(RespStarted) ELSE SpeechOf(RespStarted, kind))
  /\ UNCHANGED <<gen, holder>>

(* A fragment without an index is passed over. *)
RespCallChunk(f) ==
  /\ RespPulling /\ CallFragment(f)
  /\ RespBecame(IF f.index = Missing THEN RespStarted ELSE ToolCall(RespStarted, f))
  /\ UNCHANGED <<gen, holder>>

(* The chunks are over: what is open is closed. *)
RespExhausted ==
  /\ RespPulling /\ gen' = "close"
  /\ RespBecame(RespClosed(RespStarted))
  /\ UNCHANGED <<chunkVars, holder>>

(* finalize_holder keeps the messages and the calls, by output index. *)
Transcript(q) ==
  LET kept == {k \in DOMAIN q : q[k].args # "thought"}
      at == Sorted(kept, [k \in kept |-> q[k].oi])
  IN [n \in DOMAIN at |-> q[at[n]]]

(* The transcript is complete before the last event is yielded. *)
RespFinish ==
  /\ gen = "close" /\ rtodo = <<>>
  /\ gen' = "ended"
  /\ holder' = Transcript(rs.output)
  /\ RespBecame(Built(RespStarted, <<"completed">>, -1))
  /\ UNCHANGED chunkVars

(* The upstream streams an error instead of an answer. *)
RespUpstreamError ==
  /\ RespPulling /\ chunks < MaxChunks /\ gen' = "failed"
  /\ RespBecame(Built(RespStarted, <<"failed">>, -1))
  /\ holder' = <<>>
  /\ UNCHANGED chunkVars

(* What has been sent of the items that are still open counts as well, each *)
(* once although tool_order may name its index twice (dict.fromkeys).      *)
Partial ==
  LET said == IF rs.text = NoItem THEN <<>> ELSE <<Entry(rs.text)>>
      open == [n \in DOMAIN OpenTools(rs) |-> rs.tools[OpenTools(rs)[n]]]
  IN Transcript(rs.output \o said \o open)

(* The client goes away while a chunk is awaited. *)
RespCancelled ==
  /\ RespPulling /\ gen' = "cancelled"
  /\ holder' = Partial
  /\ UNCHANGED <<chunkVars, rs, rtodo, phase, items, heard>>

NextNumber == heard.number + 1

(* Anything raises: what was built is not sent, and the route itself sends *)
(* the failure, numbered after what the client has seen.                   *)
RespRaised ==
  /\ gen \in {"run", "close"} /\ gen' = "failed"
  /\ rtodo' = <<Reader!Event("failed", -1, NextNumber)>>
  /\ holder' = Partial
  /\ UNCHANGED <<chunkVars, rs, phase, items, heard>>

(* An event reaches the client. *)
RespYield ==
  /\ rtodo # <<>>
  /\ LET e == Head(rtodo) IN
       /\ heard' = e
       /\ items' =
            CASE e.type \in Reader!Kinds -> Append(items, [kind |-> e.type, part |-> "none"])
              [] e.type = "part.added" -> [items EXCEPT ![e.item + 1].part = "open"]
              [] e.type = "part.done" -> [items EXCEPT ![e.item + 1].part = "closed"]
              [] e.type = "item.done" -> [items EXCEPT ![e.item + 1].part = "done"]
              [] OTHER -> items
       /\ phase' = CASE e.type = "created" -> "created" [] e.type \in {"completed", "failed"} -> "over"
                     [] OTHER -> "running"
  /\ rtodo' = Tail(rtodo)
  /\ UNCHANGED <<chunkVars, rs, gen, holder>>

RespNext ==
  \/ \E kind \in {"reasoning", "text", "refusal"} : RespSays(kind)
  \/ \E f \in Fragment : RespCallChunk(f)
  \/ RespExhausted \/ RespFinish \/ RespUpstreamError \/ RespCancelled \/ RespRaised \/ RespYield

RespSpec == RespInit /\ [][RespNext]_respVars

-------------------------------------------------------------------------------
(* Whatever the upstream sends, and wherever the bridge raises, the client *)
(* reads a well-formed stream: items numbered from 0 and done in order of  *)
(* their parts, a message never beside another item, thoughts first,       *)
(* numbers without a gap, one last event.                                  *)
ResponsesAreRead == Reader!Spec

(* The transcript that may be stored holds every message and call the      *)
(* client was sent, once and in order, also when the client left in the    *)
(* middle of a call whose index was used before (finally).                 *)
TranscriptIsWhatWasSent ==
  gen \in {"ended", "cancelled"} =>
    /\ {holder[j].oi : j \in DOMAIN holder} =
         {i \in 0..(Len(items) - 1) : items[i + 1].kind # "reasoning"}
    /\ \A j, k \in DOMAIN holder : j < k => holder[j].oi < holder[k].oi

(* A call of the upstream is one call of the transcript, and fragments of  *)
(* two calls are never put together, when indexes are used again and when  *)
(* an id comes late (the comments on upstream_id).                         *)
CallsAreKeptApart ==
  gen = "ended" =>
    LET found == {j \in DOMAIN holder : holder[j].of # {}} IN
    /\ \A c \in Born : \E j \in found : holder[j].of = {c}
    /\ Cardinality(found) = Cardinality(Born)
    /\ \A j \in found : holder[j].args # "torn"

(* What the client reads and what the route may store, of every behaviour. *)
ResponsesAreFaithful ==
  ResponsesAreRead /\ []TranscriptIsWhatWasSent /\ []CallsAreKeptApart
===============================================================================
