---------------------------- MODULE ResponsesStream ----------------------------
(***************************************************************************)
(* What a client of the Responses API may rely on while it reads a stream: *)
(* output items numbered from 0 that are added, filled and done, thoughts  *)
(* before everything else, a message never beside another item, one last   *)
(* event, and sequence numbers without a gap                               *)
(* (chat_stream_to_responses_events, llm-converter/app/responses_bridge.py). *)
(***************************************************************************)
EXTENDS Integers, Sequences

VARIABLES
  phase,  \* "new", "created", "running" or "over"
  items,  \* the output items: [kind, part], part is "none" until there is a
          \* content part, "open", "closed", and "done" with the item
  heard   \* the event sent last: [type, item, number]

vars == <<phase, items, heard>>

Kinds == {"reasoning", "message", "call"}
Event(type, i, n) == [type |-> type, item |-> i, number |-> n]
Open(i) == items[i + 1].part # "done"
Ready(i) == items[i + 1].part = IF items[i + 1].kind = "call" THEN "none" ELSE "open"
Hear(type, i) == heard' = Event(type, i, heard.number + 1)
SetPart(i, p) == items' = [items EXCEPT ![i + 1].part = p]
Index == 0..(Len(items) - 1)

Init == phase = "new" /\ items = <<>> /\ heard = Event("nothing", -1, -1)

Begin ==
  \/ phase = "new" /\ phase' = "created" /\ Hear("created", -1) /\ UNCHANGED items
  \/ phase = "created" /\ phase' = "running" /\ Hear("in_progress", -1) /\ UNCHANGED items

(* An item is announced by its kind.  Calls may be open side by side;      *)
(* nothing else may.                                                       *)
ItemAdded(kind) ==
  /\ kind = "reasoning" => items = <<>>
  /\ \A i \in Index : Open(i) => kind = "call" /\ items[i + 1].kind = "call"
  /\ items' = Append(items, [kind |-> kind, part |-> "none"])
  /\ Hear(kind, Len(items))

PartAdded(i) ==
  /\ items[i + 1].kind # "call" /\ items[i + 1].part = "none"
  /\ SetPart(i, "open") /\ Hear("part.added", i)

Said(i) == \E type \in {"delta", "done"} : Ready(i) /\ Hear(type, i) /\ UNCHANGED items

PartDone(i) ==
  /\ items[i + 1].kind # "call" /\ Ready(i)
  /\ SetPart(i, "closed") /\ Hear("part.done", i)

ItemDone(i) ==
  /\ items[i + 1].part = IF items[i + 1].kind = "call" THEN "none" ELSE "closed"
  /\ SetPart(i, "done") /\ Hear("item.done", i)

Running ==
  /\ phase = "running" /\ UNCHANGED phase
  /\ \/ \E kind \in Kinds : ItemAdded(kind)
     \/ \E i \in Index : PartAdded(i) \/ Said(i) \/ PartDone(i) \/ ItemDone(i)

(* An answer ends with every item done; a failure may come at any time. *)
Ended ==
  /\ phase # "over" /\ phase' = "over"
  /\ \/ phase = "running" /\ (\A i \in Index : ~Open(i)) /\ Hear("completed", -1)
     \/ Hear("failed", -1)
  /\ UNCHANGED items

Next == Begin \/ Running \/ Ended

Spec == Init /\ [][Next]_vars
===============================================================================
