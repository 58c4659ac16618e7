------------------------------ MODULE StreamRelay ------------------------------
(***************************************************************************)
(* with_heartbeat (sse.py) around the generator of a streamed answer       *)
(* (body_iter of main.py): a task pulls the next chunk while the relay     *)
(* waits for it and sends a beat whenever that takes too long.  The client *)
(* may leave at any time: only the relay is cancelled, which passes it on, *)
(* and it may be cancelled again while it cleans up.                       *)
(***************************************************************************)
EXTENDS Integers, Sequences

CONSTANTS MaxPieces,  \* bound on the chunks of an answer
          MaxBeats    \* bound on the beats

ASSUME RelayAssumption == MaxPieces \in Nat /\ MaxBeats \in Nat

VARIABLES
  relay,   \* "wait", "chunk" or "beat" (at a yield), "leave", "close", "over"
  pull,    \* the pending pull: "none", "running", "cancelled", or its result,
           \* "chunk" or "stop"
  source,  \* the generator: "idle" (at a yield), "running", "closing", "closed"
  pieces,  \* how many chunks the generator has yielded
  got,     \* the chunks the client got
  beats    \* how many beats it got

relayVars == <<relay, pull, source, pieces, got, beats>>

RelayInit ==
  /\ relay = "wait" /\ pull = "running" /\ source = "running"
  /\ pieces = 0 /\ got = <<>> /\ beats = 0

(* The generator yields a chunk, or comes to an end of either kind. *)
Produce ==
  /\ source = "running" /\ pull = "running"
  /\ \/ /\ pieces < MaxPieces /\ pieces' = pieces + 1
        /\ pull' = "chunk" /\ source' = "idle"
     \/ source' = "closing" /\ UNCHANGED <<pieces, pull>>
  /\ UNCHANGED <<relay, got, beats>>

(* Its finally has closed the upstream and the client of the request. *)
Finalize ==
  /\ source = "closing" /\ source' = "closed"
  /\ pull' = IF pull \in {"running", "cancelled"} THEN "stop" ELSE pull
  /\ UNCHANGED <<relay, pieces, got, beats>>

(* The wait times out; the pull is shielded from that, and stays.  It may  *)
(* come to its result while the beat is sent.                              *)
Beat ==
  /\ relay = "wait" /\ pull = "running" /\ beats < MaxBeats
  /\ relay' = "beat" /\ beats' = beats + 1
  /\ UNCHANGED <<pull, source, pieces, got>>

Resume ==
  /\ relay \in {"chunk", "beat"} /\ relay' = "wait"
  /\ pull' = IF pull = "none" THEN "running" ELSE pull
  /\ source' = IF pull = "none" /\ source = "idle" THEN "running" ELSE source
  /\ UNCHANGED <<pieces, got, beats>>

Deliver ==
  /\ relay = "wait" /\ pull = "chunk"
  /\ relay' = "chunk" /\ pull' = "none"
  /\ got' = Append(got, pieces)
  /\ UNCHANGED <<source, pieces, beats>>

(* The answer is over, or the client leaves: the wait is cancelled, or the *)
(* relay is closed at its yield.                                           *)
Depart ==
  /\ relay \in {"wait", "chunk", "beat"} /\ relay' = "leave"
  /\ pull' = IF pull = "running" THEN "cancelled" ELSE pull
  /\ source' = IF pull = "running" THEN "closing" ELSE source
  /\ UNCHANGED <<pieces, got, beats>>

(* The cancelled pull is waited for, unless the relay is cancelled again. *)
Awaited ==
  /\ relay = "leave" /\ relay' = "close"
  /\ UNCHANGED <<pull, source, pieces, got, beats>>

(* Mutant: nothing is left to close once the pull is cancelled. *)
CloseNothing ==
  /\ relay = "close" /\ relay' = "over"
  /\ UNCHANGED <<pull, source, pieces, got, beats>>

(* aclose: a generator at a yield runs its finally; one that is still      *)
(* running refuses.                                                        *)
CloseSource ==
  /\ relay = "close" /\ relay' = "over"
  /\ source' = IF source = "idle" THEN "closing" ELSE source
  /\ UNCHANGED <<pull, pieces, got, beats>>

RelayNext ==
  Produce \/ Finalize \/ Beat \/ Resume \/ Deliver \/ Depart \/ Awaited \/ CloseSource

RelaySpec == RelayInit /\ [][RelayNext]_relayVars

-------------------------------------------------------------------------------
(* No chunk is lost, doubled or out of order, however beats and chunks     *)
(* meet: what the generator has yielded is with the client, or is the      *)
(* result of the pending pull (the docstring: "so no upstream chunk is     *)
(* lost").                                                                 *)
ChunksArriveOnce ==
  /\ got = [i \in 1..Len(got) |-> i]
  /\ pieces = Len(got) + (IF pull = "chunk" THEN 1 ELSE 0)

(* Wherever the client left, the generator of the answer is closed, and    *)
(* the connection to the upstream with it, or about to be.                 *)
UpstreamIsClosed == relay = "over" => source \in {"closing", "closed"}

(* Both are promises of the docstring of with_heartbeat. *)
RelayIsFaithful == ChunksArriveOnce /\ UpstreamIsClosed
===============================================================================
