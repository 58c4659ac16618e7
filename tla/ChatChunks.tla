------------------------------ MODULE ChatChunks -------------------------------
(***************************************************************************)
(* The upstream of both bridges: a stream of Chat Completions chunks, in   *)
(* the dialects that the comments of the bridges name.  A tool call is     *)
(* sent in fragments of its arguments; which call a fragment belongs to is *)
(* for the bridge to find out from its index and its id.                   *)
(***************************************************************************)
EXTENDS Integers, FiniteSets, FiniteSetsExt

CONSTANTS
  MaxCall,   \* the calls of the answer are 0..MaxCall
  Dialects,  \* the dialects explored
  MaxChunks  \* bound on the chunks

ASSUME ChunksAssumption ==
  /\ MaxChunks \in Nat
  /\ MaxCall \in Nat
  /\ Dialects \subseteq {"indexed", "reusing", "unindexed", "restating"}

VARIABLES
  dialect,   \* how the upstream numbers its calls, never changed
  progress,  \* how far each call is
  chunks     \* how many chunks there were

chunkVars == <<dialect, progress, chunks>>

Calls == 0..MaxCall

Missing == -1   \* a fragment without an index
NoName == -1    \* a fragment without an id

Fragment == [of : Calls, index : Calls \cup {Missing}, id : Calls \cup {NoName},
             args : {"none", "part", "rest", "whole"}]

Born == {c \in Calls : progress[c] # "unborn"}
Latest == Max(Born)

ChunksInit ==
  /\ dialect \in Dialects
  /\ progress = [c \in Calls |-> "unborn"]
  /\ chunks = 0

(* The index: that of the call, always 0, or left out after the first      *)
(* fragment.                                                               *)
IndexOf(c) ==
  CASE dialect = "reusing" -> 0
    [] dialect = "unindexed" /\ c \in Born -> Missing
    [] OTHER -> c

(* The first fragment of a call names it when indexes are used again; it   *)
(* may otherwise do so, or a later one.                                    *)
IdsOf(c) == IF dialect = "reusing" /\ c \notin Born THEN {c} ELSE {c, NoName}

(* Arguments arrive in two parts or at once; in one dialect they are       *)
(* stated again when the call is complete.                                 *)
ArgsOf(c) ==
  CASE progress[c] = "unborn" -> IF dialect = "restating" THEN {"whole"} ELSE {"none", "part", "whole"}
    [] progress[c] = "none"   -> {"part", "whole"}
    [] progress[c] = "part"   -> {"rest"}
    [] progress[c] = "whole"  -> IF dialect = "restating" THEN {"whole"} ELSE {}
    [] OTHER -> {}

Now(args) == IF args = "rest" THEN "whole" ELSE args

(* Calls run side by side only when each has its index in every fragment. *)
InTurn(c) ==
  IF c \in Born THEN dialect \in {"indexed", "restating"} \/ c = Latest
  ELSE c = Cardinality(Born)

FragmentsOf(c) ==
  IF InTurn(c)
  THEN {[of |-> c, index |-> IndexOf(c), id |-> i, args |-> a] : i \in IdsOf(c), a \in ArgsOf(c)}
  ELSE {}

(* Text, thoughts and refusals end the calls that were going on. *)
Speech ==
  /\ chunks < MaxChunks /\ chunks' = chunks + 1
  /\ progress' = [c \in Calls |-> IF c \in Born THEN "over" ELSE progress[c]]
  /\ UNCHANGED dialect

CallFragment(f) ==
  /\ chunks < MaxChunks /\ chunks' = chunks + 1
  /\ f \in FragmentsOf(f.of)
  /\ progress' = [progress EXCEPT ![f.of] = Now(f.args)]
  /\ UNCHANGED dialect
===============================================================================
