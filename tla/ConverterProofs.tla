---------------------------- MODULE ConverterProofs ----------------------------
(***************************************************************************)
(* The parts of the LLM converter that an answer passes on its way to the  *)
(* client: the repair of a Messages stream, the bridge that builds it, the *)
(* heartbeat of a streamed answer, the listing of the models that callers  *)
(* share, and the store of the conversations that answers continue.        *)
(***************************************************************************)
EXTENDS StreamSanitizer, MessagesBridge, StreamRelay, ModelsListing, ConversationTurns, TLAPS,
        FiniteSetTheorems, SequenceTheorems

(***************************************************************************)
(* sanitize_events implements MessagesStream, for any number of upstream   *)
(* events: the inductive invariant says at which yield which events are    *)
(* in order, and every step then is a step of the client's stream or       *)
(* leaves it alone.                                                        *)
(***************************************************************************)
Inv == TypeOK /\ StageOK

LEMMA InitInv == Init => Inv
<1> SUFFICES ASSUME Init PROVE TypeOK /\ StageOK
  BY DEF Inv
<1>1. TypeOK
  BY DEF Init, TypeOK, Stream!Plain, Stream!Event
<1>2. StageOK
  BY DEF Init, StageOK
<1> QED
  BY <1>1, <1>2

(* The block of a synthetic start can hold the delta it is for. *)
LEMMA PrimaryFits ==
  ASSUME NEW delta \in Mapped
  PROVE  /\ Primary(delta) \in Stream!Compatible[delta]
         /\ Primary(delta) \in Stream!BlockTypes
         /\ Primary(delta) # NoBlock
  BY DEF Primary, Mapped, Stream!Mapped, Stream!Compatible, Stream!BlockTypes, Stream!Untyped,
         NoBlock, Stream!NoBlock

LEMMA BlocksAreBlocks == NoBlock \notin Stream!BlockTypes
  BY DEF NoBlock, Stream!NoBlock, Stream!BlockTypes, Stream!Untyped

(* What kinds of events there are. *)
LEMMA Kinds ==
  ASSUME NEW e \in UpstreamEvents
  PROVE  /\ e.kind \in {"message_start", "content_block_start", "content_block_delta",
                        "content_block_stop", "message_delta", "message_stop", "ping"}
         /\ e.kind = "content_block_start" => e.type \in Stream!BlockTypes
         /\ e.kind = "content_block_delta" => e.type \in Stream!DeltaTypes
         /\ e.empty \in BOOLEAN
  BY DEF UpstreamEvents

(* The sets of events and blocks do not change. *)
LEMMA Constants ==
  /\ UpstreamEvents' = UpstreamEvents /\ NoBlock' = NoBlock
  /\ Stream!BlockTypes' = Stream!BlockTypes /\ Stream!DeltaTypes' = Stream!DeltaTypes
  BY DEF UpstreamEvents, NoBlock, Stream!NoBlock, Stream!BlockTypes, Stream!DeltaTypes,
         Stream!Untyped, Stream!Mapped

LEMMA ReceiveInv ==
  ASSUME Inv, NEW e \in UpstreamEvents, Receive(e)
  PROVE  Inv'
<1>1. TypeOK'
  BY Constants DEF Inv, TypeOK, Receive
<1>2. CASE Drops(e)
  BY <1>1, <1>2 DEF Inv, StageOK, Receive, Closing
<1>3. CASE ~Drops(e)
  <2>1. /\ evt' = e
        /\ stage' = IF ClosesFirst(e) THEN "close" ELSE IF Splits(e) THEN "open" ELSE "forward"
        /\ UNCHANGED <<seen_message_start, current_index, current_block_type, sent>>
    BY <1>3 DEF Receive
  <2>2. CASE ClosesFirst(e)
    BY <1>1, <2>1, <2>2, Kinds DEF Inv, StageOK, ClosesFirst, Splits, Closing
  <2>3. CASE ~ClosesFirst(e) /\ Splits(e)
    BY <1>1, <2>1, <2>3, Kinds DEF Inv, StageOK, ClosesFirst, Splits, Closing
  <2>4. CASE ~ClosesFirst(e) /\ ~Splits(e)
    <3>1. e.kind = "message_start" => ~seen_message_start
      BY <1>3 DEF Drops
    <3>2. e.kind \in {"content_block_start"} \cup Closing => current_block_type = NoBlock
      BY <2>4 DEF ClosesFirst
    <3>3. e.kind = "content_block_delta" => Stream!Fits(e.type, current_block_type)
      BY <2>4 DEF Splits, Stream!Fits, Mapped
    <3>4. e.kind = "content_block_delta" /\ e.type \in Mapped => current_block_type # NoBlock
      BY <3>3, BlocksAreBlocks
      DEF Stream!Fits, Mapped, Stream!Mapped, Stream!Compatible, NoBlock, Stream!NoBlock
    <3>5. e.kind \in {"content_block_stop", "content_block_delta"} =>
            current_block_type # NoBlock
      BY <1>3, <3>4 DEF Drops
    <3>6. stage' = "forward"
      BY <2>1, <2>4
    <3> QED
      BY <1>1, <2>1, <3>1, <3>2, <3>3, <3>5, <3>6 DEF Inv, StageOK
  <2> QED
    BY <2>2, <2>3, <2>4
<1> QED
  BY <1>2, <1>3

LEMMA CloseInv == Inv /\ Close => Inv'
<1> SUFFICES ASSUME Inv, Close PROVE Inv'
  OBVIOUS
<1>1. TypeOK'
  BY DEF Inv, TypeOK, Close, Stream!Event
<1>2. StageOK'
  <2>1. evt \in UpstreamEvents /\ evt' = evt /\ current_block_type' = NoBlock
    BY DEF Inv, StageOK, Close
  <2>2. evt.kind \in {"content_block_start", "content_block_delta"} \cup Closing
    BY DEF Inv, StageOK, Close
  <2>3. CASE evt.kind = "content_block_delta"
    BY <2>1, <2>3 DEF Inv, StageOK, Close, Closing
  <2>4. CASE evt.kind # "content_block_delta"
    BY <2>1, <2>2, <2>4 DEF StageOK, Close, Closing
  <2> QED
    BY <2>3, <2>4
<1> QED
  BY <1>1, <1>2 DEF Inv

LEMMA OpenInv == Inv /\ Open => Inv'
<1> SUFFICES ASSUME Inv, Open PROVE Inv'
  OBVIOUS
<1>1. evt \in UpstreamEvents /\ evt.kind = "content_block_delta" /\ evt.type \in Mapped
  BY DEF Inv, StageOK, Open
<1>2. TypeOK'
  BY <1>1, PrimaryFits DEF Inv, TypeOK, Open, Stream!Event
<1>3. StageOK'
  BY <1>1, PrimaryFits DEF StageOK, Open, Stream!Fits, Closing
<1> QED
  BY <1>2, <1>3 DEF Inv

LEMMA ForwardInv == Inv /\ Forward => Inv'
<1> SUFFICES ASSUME Inv, Forward PROVE Inv'
  OBVIOUS
<1>1. evt \in UpstreamEvents /\ stage' = "receive" /\ evt' = Nothing
  BY DEF Inv, StageOK, Forward
<1>2. previous' \in Stream!DeltaTypes \cup {"-"}
  BY <1>1, Kinds DEF Inv, TypeOK, Forward
<1> DEFINE Typed == /\ seen_message_start' \in BOOLEAN
                    /\ current_index' \in Nat \cup {-1}
                    /\ current_block_type' \in Stream!BlockTypes \cup {NoBlock}
                    /\ sent'.index \in Nat \cup {-1}
<1>3. Typed
  <2>1. CASE ForwardMessageStart
    BY <2>1 DEF Inv, TypeOK, ForwardMessageStart, Stream!Event, Stream!Plain
  <2>2. CASE ForwardStart
    <3>1. current_index' \in Nat \cup {-1} /\ sent'.index = current_index'
      BY <2>2 DEF Inv, TypeOK, ForwardStart, Stream!Event
    <3> QED
      BY <1>1, <2>2, <3>1, Kinds DEF Inv, TypeOK, ForwardStart
  <2>3. CASE ForwardDelta
    BY <2>3 DEF Inv, TypeOK, ForwardDelta, Stream!Event
  <2>4. CASE ForwardStop
    BY <2>4 DEF Inv, TypeOK, ForwardStop, Stream!Event
  <2>5. CASE ForwardOther
    BY <2>5 DEF Inv, TypeOK, ForwardOther, Stream!Event, Stream!Plain
  <2> QED
    BY <2>1, <2>2, <2>3, <2>4, <2>5 DEF Forward
<1>4. received' \in Nat
  BY DEF Inv, TypeOK, Forward
<1>5. TypeOK'
  BY <1>1, <1>2, <1>3, <1>4, Constants DEF TypeOK
<1>6. StageOK'
  BY <1>1 DEF StageOK
<1> QED
  BY <1>5, <1>6 DEF Inv

LEMMA NextInv == Inv /\ [Next]_vars => Inv'
<1>1. Inv /\ UNCHANGED vars => Inv'
  BY DEF Inv, TypeOK, StageOK, vars
<1> QED
  BY <1>1, ReceiveInv, CloseInv, OpenInv, ForwardInv DEF Next

(* The locals of sanitize_events keep their types, and each yield is       *)
(* reached only with an event that is in order there.                      *)
THEOREM SanitizerTypeOK == Spec => []TypeOK
<1>1. Spec => []Inv
  BY InitInv, NextInv, PTL DEF Spec
<1> QED
  BY <1>1, PTL DEF Inv

THEOREM SanitizerStages == Spec => []StageOK
<1>1. Spec => []Inv
  BY InitInv, NextInv, PTL DEF Spec
<1> QED
  BY <1>1, PTL DEF Inv

-------------------------------------------------------------------------------
LEMMA InitMaps == Init => Stream!Init
  BY DEF Init, Stream!Init, NoBlock

LEMMA ForwardMaps == Inv /\ Forward => Stream!Next
<1> SUFFICES ASSUME Inv, Forward PROVE Stream!Next
  OBVIOUS
<1>0. /\ evt \in UpstreamEvents /\ current_index \in Nat \cup {-1}
      /\ evt.kind = "message_start" => ~seen_message_start
      /\ evt.kind \in {"content_block_start"} \cup Closing => current_block_type = NoBlock
      /\ evt.kind \in {"content_block_stop", "content_block_delta"} => current_block_type # NoBlock
      /\ evt.kind = "content_block_delta" => Stream!Fits(evt.type, current_block_type)
  BY DEF Inv, TypeOK, StageOK, Forward
<1>1. CASE ForwardMessageStart
  <2>1. Stream!MessageStart
    BY <1>0, <1>1 DEF ForwardMessageStart, Stream!MessageStart
  <2> QED
    BY <2>1 DEF Stream!Next
<1>2. CASE ForwardStart
  <2>1. Stream!BlockStart(evt.type)
    BY <1>0, <1>2 DEF ForwardStart, Stream!BlockStart, NoBlock, Closing
  <2>2. evt.type \in Stream!BlockTypes
    BY <1>0, <1>2, Kinds DEF ForwardStart
  <2> QED
    BY <2>1, <2>2 DEF Stream!Next
<1>3. CASE ForwardDelta
  <2>1. Stream!BlockDelta(evt.type)
    BY <1>0, <1>3 DEF ForwardDelta, Stream!BlockDelta, NoBlock
  <2>2. evt.type \in Stream!DeltaTypes
    BY <1>0, <1>3, Kinds DEF ForwardDelta
  <2> QED
    BY <2>1, <2>2 DEF Stream!Next
<1>4. CASE ForwardStop
  <2>1. Stream!BlockStop
    BY <1>0, <1>4 DEF ForwardStop, Stream!BlockStop, NoBlock
  <2> QED
    BY <2>1 DEF Stream!Next
<1>5. CASE ForwardOther
  <2>1. CASE evt.kind = "ping"
    <3>1. Stream!Other
      BY <1>5, <2>1 DEF ForwardOther, Stream!Other
    <3> QED
      BY <3>1 DEF Stream!Next
  <2>2. CASE evt.kind \in Closing
    <3>1. Stream!MessageEnd(evt.kind)
      BY <1>0, <1>5, <2>2 DEF ForwardOther, Stream!MessageEnd, NoBlock
    <3> QED
      BY <2>2, <3>1 DEF Stream!Next, Closing
  <2> QED
    BY <1>5, <2>1, <2>2 DEF ForwardOther
<1> QED
  BY <1>1, <1>2, <1>3, <1>4, <1>5 DEF Forward

LEMMA NextMaps == Inv /\ [Next]_vars => [Stream!Next]_(Stream!vars)
<1> SUFFICES ASSUME Inv, [Next]_vars PROVE [Stream!Next]_(Stream!vars)
  OBVIOUS
<1>0. current_index \in Nat \cup {-1}
  BY DEF Inv, TypeOK
<1>1. ASSUME NEW e \in UpstreamEvents, Receive(e) PROVE UNCHANGED Stream!vars
  BY <1>1 DEF Receive, Stream!vars
<1>2. CASE Close
  <2>1. Stream!BlockStop
    BY <1>0, <1>2 DEF Inv, StageOK, Close, Stream!BlockStop, NoBlock
  <2> QED
    BY <2>1 DEF Stream!Next
<1>3. CASE Open
  <2>1. evt.type \in Mapped /\ current_block_type = NoBlock
    BY <1>3 DEF Inv, StageOK, Open
  <2>2. Stream!BlockStart(Primary(evt.type))
    BY <1>0, <1>3, <2>1 DEF Open, Stream!BlockStart, NoBlock
  <2> QED
    BY <2>1, <2>2, PrimaryFits DEF Stream!Next
<1>4. CASE Forward
  BY <1>4, ForwardMaps
<1>5. CASE UNCHANGED vars
  BY <1>5 DEF vars, Stream!vars
<1> QED
  BY <1>1, <1>2, <1>3, <1>4, <1>5 DEF Next

(* Whatever the upstream sends, the client reads a well-formed stream.     *)
THEOREM SanitizerImplementsStream == Spec => ClientReadsAStream
<1>1. Spec => []Inv
  BY InitInv, NextInv, PTL DEF Spec
<1> QED
  BY <1>1, InitMaps, NextMaps, PTL DEF Spec, ClientReadsAStream, Stream!Spec

-------------------------------------------------------------------------------
(***************************************************************************)
(* The block that is open can hold the deltas of the run going on, unless  *)
(* the event being handled ends the run; a delta that needs another block  *)
(* does not belong to it.                                                  *)
(***************************************************************************)
EndsTheRun ==
  \/ stage = "open"
  \/ stage = "forward" /\ evt.kind \in {"content_block_start"} \cup Closing
  \/ stage = "forward" /\ evt.kind = "content_block_delta" /\ evt.type \in Mapped

RunInv ==
  /\ stage # "receive" /\ evt.kind = "content_block_delta" /\ evt.type \in Mapped => ~evt.empty
  /\ stage \in {"close", "open"} /\ evt.kind = "content_block_delta" => evt.type # previous
  /\ previous \in Mapped => current_block_type \in Stream!Compatible[previous] \/ EndsTheRun

LEMMA RunInvNext ==
  ASSUME Inv, RunInv, [Next]_vars
  PROVE  RunInv'
<1>0. NoBlock \notin Stream!BlockTypes /\ "-" \notin Mapped
  BY BlocksAreBlocks DEF Mapped, Stream!Mapped
<1>1. ASSUME NEW e \in UpstreamEvents, Receive(e)
      PROVE  RunInv'
  <2>1. stage = "receive" /\ UNCHANGED <<current_block_type, previous>>
    BY <1>1 DEF Receive
  <2>2. previous \in Mapped => current_block_type \in Stream!Compatible[previous]
    BY <2>1 DEF RunInv, EndsTheRun
  <2>3. CASE Drops(e)
    BY <1>1, <2>1, <2>2, <2>3 DEF Receive, RunInv
  <2>4. CASE ~Drops(e)
    <3>1. /\ evt' = e /\ stage' = IF ClosesFirst(e) THEN "close" ELSE IF Splits(e) THEN "open" ELSE "forward"
      BY <1>1, <2>4 DEF Receive
    <3>2. e.kind = "content_block_delta" /\ e.type \in Mapped => ~e.empty
      BY <2>4 DEF Drops, IsEmptyDelta
    <3>3. stage' \in {"close", "open"} /\ e.kind = "content_block_delta" => Splits(e)
      BY <3>1 DEF ClosesFirst, Closing
    <3>4. stage' \in {"close", "open"} /\ e.kind = "content_block_delta" => e.type # previous
      BY <2>2, <3>3 DEF Splits
    <3> QED
      BY <2>1, <2>2, <3>1, <3>2, <3>4 DEF RunInv
  <2> QED
    BY <2>3, <2>4
<1>2. CASE Close
  <2>1. /\ stage = "close" /\ UNCHANGED <<evt, previous>>
        /\ stage' = IF evt.kind = "content_block_delta" THEN "open" ELSE "forward"
    BY <1>2 DEF Close
  <2>2. evt.kind \in {"content_block_start", "content_block_delta"} \cup Closing
    BY <2>1 DEF Inv, StageOK
  <2> QED
    BY <2>1, <2>2 DEF RunInv, EndsTheRun
<1>3. CASE Open
  <2>1. stage = "open" /\ stage' = "forward" /\ UNCHANGED <<evt, previous>>
    BY <1>3 DEF Open
  <2>2. evt.kind = "content_block_delta" /\ evt.type \in Mapped
    BY <2>1 DEF Inv, StageOK
  <2> QED
    BY <2>1, <2>2 DEF RunInv, EndsTheRun
<1>4. CASE Forward
  <2>1. /\ stage = "forward" /\ stage' = "receive"
        /\ previous' = CASE evt.kind = "content_block_delta" /\ ~evt.empty -> evt.type
                         [] evt.kind \in {"content_block_start", "content_block_stop"} \cup Closing -> "-"
                         [] OTHER -> previous
    BY <1>4 DEF Forward
  <2>2. ASSUME previous' \in Mapped
        PROVE  current_block_type' \in Stream!Compatible[previous']
    <3>1. CASE evt.kind = "content_block_delta"
      <4>1. Stream!Fits(evt.type, current_block_type) /\ (evt.type \in Mapped => ~evt.empty)
        BY <2>1, <3>1 DEF Inv, StageOK, RunInv
      <4>2. UNCHANGED current_block_type
        BY <1>4, <3>1 DEF Forward, ForwardMessageStart, ForwardStart, ForwardDelta, ForwardStop, ForwardOther, Closing
      <4>3. CASE ~evt.empty
        <5>1. previous' = evt.type
          BY <2>1, <3>1, <4>3 DEF Closing
        <5> QED
          BY <2>2, <4>1, <4>2, <5>1 DEF Stream!Fits, Mapped
      <4>4. CASE evt.empty
        <5>1. previous' = previous /\ evt.type \notin Mapped
          BY <2>1, <3>1, <4>1, <4>4 DEF Closing
        <5> QED
          BY <2>1, <2>2, <3>1, <4>2, <5>1 DEF RunInv, EndsTheRun, Closing
      <4> QED
        BY <4>3, <4>4
    <3>2. CASE evt.kind \in {"content_block_start", "content_block_stop"} \cup Closing
      BY <1>0, <2>1, <2>2, <3>2 DEF Closing
    <3>3. CASE evt.kind \notin {"content_block_delta", "content_block_start", "content_block_stop"} \cup Closing
      <4>1. previous' = previous
        BY <2>1, <3>3
      <4>2. UNCHANGED current_block_type
        BY <1>4, <3>3 DEF Forward, ForwardMessageStart, ForwardStart, ForwardDelta, ForwardStop, ForwardOther
      <4> QED
        BY <2>1, <2>2, <3>3, <4>1, <4>2 DEF RunInv, EndsTheRun
    <3> QED
      BY <3>1, <3>2, <3>3
  <2> QED
    BY <2>1, <2>2 DEF RunInv
<1>5. CASE UNCHANGED vars
  BY <1>5 DEF RunInv, EndsTheRun, vars
<1> QED
  BY <1>1, <1>2, <1>3, <1>4, <1>5 DEF Next

(***************************************************************************)
(* For any number of events: a run of deltas of one type that only empty   *)
(* deltas, pings and repeated starts of the message separate stays in one  *)
(* block (sanitize_events, _is_empty_delta).                               *)
(***************************************************************************)
THEOREM RunsAreNeverSplit == Spec => RunsStayInOneBlock
<1>1. Init => RunInv
  BY DEF Init, RunInv, Mapped, Stream!Mapped
<1>2. Inv /\ RunInv /\ [Next]_vars => RunInv'
  BY RunInvNext
<1>3. Inv /\ RunInv => (stage = "open" /\ stage' # "open" => evt.type # previous)
  BY DEF Inv, StageOK, RunInv
<1> QED
  BY <1>1, <1>2, <1>3, InitInv, NextInv, PTL DEF Spec, RunsStayInOneBlock

(***************************************************************************)
(* The heartbeat of a streamed answer.                                     *)
(***************************************************************************)
RelayTypes ==
  /\ relay \in {"wait", "chunk", "beat", "leave", "close", "over"}
  /\ pull \in {"none", "running", "cancelled", "chunk", "stop"}
  /\ source \in {"idle", "running", "closing", "closed"}
  /\ pieces \in Nat /\ got \in Seq(Nat)

(* The generator runs only under a pull, and no pull outlives the relay's  *)
(* departure unless it is cancelled.                                       *)
PullIsPending ==
  /\ source = "running" => pull = "running"
  /\ relay \in {"leave", "close", "over"} => pull # "running"

RelayInv == RelayTypes /\ PullIsPending /\ RelayIsFaithful

-------------------------------------------------------------------------------
LEMMA RelayInvInit == RelayInit => RelayInv
BY DEF RelayInit, RelayInv, RelayTypes, PullIsPending, RelayIsFaithful, ChunksArriveOnce, UpstreamIsClosed

LEMMA ChunkIsDelivered ==
  ASSUME RelayInv, Deliver
  PROVE  RelayInv'
<1> USE DEF RelayInv
<1>1. got \in Seq(Nat) /\ pieces \in Nat /\ pieces = Len(got) + 1 /\ got' = Append(got, pieces)
  BY DEF Deliver, RelayTypes, RelayIsFaithful, ChunksArriveOnce
<1>2. got' \in Seq(Nat) /\ Len(got') = pieces /\ \A i \in 1..Len(got) : got'[i] = got[i]
  BY <1>1
<1>3. got' = [i \in 1..Len(got') |-> i]
  <2>1. \A i \in 1..Len(got) : got[i] = i
    BY DEF RelayIsFaithful, ChunksArriveOnce
  <2>2. \A i \in 1..Len(got') : got'[i] = i
    BY <1>1, <1>2, <2>1
  <2>. QED
    BY <1>2, <2>2
<1>4. RelayTypes' /\ PullIsPending' /\ UpstreamIsClosed'
  BY <1>2 DEF Deliver, RelayTypes, PullIsPending, UpstreamIsClosed
<1>5. pieces' = Len(got') + (IF pull' = "chunk" THEN 1 ELSE 0)
  BY <1>1, <1>2 DEF Deliver
<1>. QED
  BY <1>3, <1>4, <1>5 DEF RelayIsFaithful, ChunksArriveOnce

LEMMA RelayInvNext == RelayInv /\ [RelayNext]_relayVars => RelayInv'
<1>. SUFFICES ASSUME RelayInv, [RelayNext]_relayVars PROVE RelayInv'
  OBVIOUS
<1> USE DEF RelayInv, RelayTypes, PullIsPending, RelayIsFaithful, ChunksArriveOnce, UpstreamIsClosed
<1>1. CASE Produce
  BY <1>1 DEF Produce
<1>2. CASE Finalize
  BY <1>2 DEF Finalize
<1>3. CASE Beat
  BY <1>3 DEF Beat
<1>4. CASE Resume
  BY <1>4 DEF Resume
<1>5. CASE Deliver
  BY <1>5, ChunkIsDelivered
<1>6. CASE Depart
  BY <1>6 DEF Depart
<1>7. CASE Awaited
  BY <1>7 DEF Awaited
<1>8. CASE CloseSource
  BY <1>8 DEF CloseSource
<1>9. CASE UNCHANGED relayVars
  BY <1>9 DEF relayVars
<1>. QED
  BY <1>1, <1>2, <1>3, <1>4, <1>5, <1>6, <1>7, <1>8, <1>9 DEF RelayNext

(* For any number of chunks and beats, and whenever the client leaves: no  *)
(* chunk is lost, doubled or reordered by with_heartbeat, and the source   *)
(* is closed in the end.                                                   *)
THEOREM RelayStaysFaithful == RelaySpec => []RelayIsFaithful
<1>1. RelayInv => RelayIsFaithful
  BY DEF RelayInv
<1>. QED
  BY <1>1, RelayInvInit, RelayInvNext, PTL DEF RelaySpec

-------------------------------------------------------------------------------
(***************************************************************************)
(* The shared listing of the models.                                       *)
(***************************************************************************)
Waiters == [stage : {"free", "wait"} \cup Outcomes, snap : Int, joined : Int, at : Int]

ListTypes ==
  /\ clock \in Nat /\ snapshot \in Int /\ flight \in Int
  /\ caller \in [Callers -> Waiters]
  /\ answer \in [Callers -> [kind : {"none"} \cup Outcomes, age : Int]]

(* What is at the upstream is what callers join. *)
FlightIsTheFetch == fetches = IF flight = None THEN {} ELSE {flight}

(* Who was woken with a listing resumes within the same second. *)
ListingIsOfNow == \A c \in Callers : caller[c].stage = "listing" => caller[c].at = clock

ListInv == ListTypes /\ FlightIsTheFetch /\ ListingIsOfNow /\ ListingIsRecent

-------------------------------------------------------------------------------
LEMMA ListInvInit == ListInit => ListInv
<1>. SUFFICES ASSUME ListInit PROVE ListInv
  OBVIOUS
<1>1. Free \in Waiters /\ Free.stage = "free" /\ None \in Int
  BY DEF Free, Waiters, None
<1>2. NoAnswer \in [kind : {"none"} \cup Outcomes, age : Int] /\ NoAnswer.age = 0
  BY DEF NoAnswer
<1>3. ListTypes /\ FlightIsTheFetch /\ ListingIsOfNow
  BY <1>1, <1>2 DEF ListInit, ListTypes, FlightIsTheFetch, ListingIsOfNow
<1>4. ListingIsRecent
  BY <1>2, ListingAssumption DEF ListInit, ListingIsRecent
<1>. QED
  BY <1>3, <1>4 DEF ListInv

(* One caller is answered with a listing of the given age. *)
LEMMA CallerIsAnswered ==
  ASSUME ListInv, NEW c \in Callers, NEW kind \in Outcomes, NEW at \in Int, Reply(c, kind, at),
         UNCHANGED <<clock, snapshot, fetches, flight>>,
         at # None => clock - at <= StaleMax \/ clock - at < CacheTTL
  PROVE  ListInv'
<1> USE DEF ListInv
<1> DEFINE a == [kind |-> kind, age |-> IF at = None THEN 0 ELSE clock - at]
<1>1. a \in [kind : {"none"} \cup Outcomes, age : Int] /\ (a.age <= StaleMax \/ a.age < CacheTTL)
  BY ListingAssumption DEF ListTypes
<1>2. answer' = [answer EXCEPT ![c] = a] /\ caller' = [caller EXCEPT ![c] = Free]
  BY DEF Reply
<1>. HIDE DEF a
<1>3. Free \in Waiters /\ Free.stage = "free"
  BY DEF Free, Waiters, None
<1>4. ListTypes' /\ ListingIsOfNow'
  BY <1>1, <1>2, <1>3 DEF ListTypes, ListingIsOfNow, Outcomes
<1>5. ListingIsRecent'
  BY <1>1, <1>2 DEF ListTypes, ListingIsRecent
<1>. QED
  BY <1>4, <1>5 DEF FlightIsTheFetch

LEMMA CallerAsks ==
  ASSUME ListInv, NEW c \in Callers, Ask(c)
  PROVE  ListInv'
<1> USE DEF ListInv
<1>1. CASE Fresh
  <2>1. "listing" \in Outcomes /\ snapshot \in Int /\ Reply(c, "listing", snapshot)
        /\ UNCHANGED <<clock, snapshot, fetches, flight>> /\ clock - snapshot < CacheTTL
    BY <1>1 DEF Ask, Fresh, Outcomes, ListTypes
  <2>. QED
    BY <2>1, CallerIsAnswered
<1>2. CASE ~Fresh
  <2> DEFINE n == IF Joins THEN flight ELSE NewFetch
             w == [stage |-> "wait", snap |-> snapshot, joined |-> n, at |-> None]
  <2>1. /\ flight' = n /\ fetches' = fetches \cup {n} /\ caller' = [caller EXCEPT ![c] = w]
        /\ answer' = [answer EXCEPT ![c] = NoAnswer] /\ UNCHANGED <<clock, snapshot>>
    BY <1>2 DEF Ask
  <2>2. n \in Int /\ n # None /\ fetches' = {n}
    <3>1. CASE Joins
      BY <2>1, <3>1 DEF Joins, FlightIsTheFetch, ListTypes
    <3>2. CASE ~Joins
      <4>1. fetches = {} /\ Cardinality(fetches) = 0
        BY <3>2, FS_EmptySet DEF Joins, FlightIsTheFetch
      <4>2. \E k \in 0..Cardinality(fetches) : k \notin fetches
        BY <4>1
      <4>3. NewFetch \in 0..Cardinality(fetches)
        BY <4>2 DEF NewFetch
      <4>. QED
        BY <2>1, <3>2, <4>1, <4>3 DEF None
    <3>. QED
      BY <3>1, <3>2
  <2>3. FlightIsTheFetch'
    BY <2>1, <2>2 DEF FlightIsTheFetch
  <2>4. w \in Waiters /\ w.stage = "wait" /\ NoAnswer \in [kind : {"none"} \cup Outcomes, age : Int] /\ NoAnswer.age = 0
    BY <2>2 DEF Waiters, ListTypes, NoAnswer, None
  <2>. HIDE DEF n, w
  <2>5. ListTypes' /\ ListingIsOfNow' /\ ListingIsRecent'
    BY <2>1, <2>2, <2>4, ListingAssumption DEF ListTypes, ListingIsOfNow, ListingIsRecent
  <2>. QED
    BY <2>3, <2>5
<1>. QED
  BY <1>1, <1>2

LEMMA FetchComesBack ==
  ASSUME ListInv, NEW n \in fetches, NEW outcome \in Outcomes, Fetched(n, outcome)
  PROVE  ListInv'
<1> USE DEF ListInv
<1>1. FlightIsTheFetch'
  BY DEF Fetched, FlightIsTheFetch
<1>2. ASSUME NEW c \in Callers
      PROVE  caller'[c] \in Waiters /\ (caller'[c].stage = "listing" => caller'[c].at = clock)
  <2> DEFINE t == IF outcome = "listing" THEN clock ELSE None
  <2>1. t \in Int /\ (outcome = "listing" => t = clock)
    BY DEF ListTypes, None
  <2>. HIDE DEF t
  <2> DEFINE w == [caller[c] EXCEPT !.stage = outcome, !.at = t]
  <2>2. caller'[c] = w \/ caller'[c] = caller[c]
    BY DEF Fetched, t
  <2>3. caller[c] \in Waiters /\ (caller[c].stage = "listing" => caller[c].at = clock)
    BY DEF ListTypes, ListingIsOfNow
  <2>4. w \in Waiters /\ w.stage = outcome /\ w.at = t
    BY <2>1, <2>3 DEF Waiters
  <2>. HIDE DEF w
  <2>. QED
    BY <2>1, <2>2, <2>3, <2>4
<1>3. ListTypes' /\ ListingIsOfNow'
  <2>1. caller' = [c \in Callers |-> caller'[c]]
    BY DEF Fetched
  <2>2. caller' \in [Callers -> Waiters]
    BY <1>2, <2>1
  <2>3. clock' = clock /\ answer' = answer /\ snapshot' \in {clock, snapshot} /\ flight' \in {None, flight}
    BY DEF Fetched
  <2>4. clock \in Int /\ snapshot \in Int /\ flight \in Int /\ None \in Int
    BY DEF ListTypes, None
  <2>. QED
    BY <1>2, <2>2, <2>3, <2>4 DEF ListTypes, ListingIsOfNow
<1>4. ListingIsRecent'
  BY DEF Fetched, ListingIsRecent
<1>. QED
  BY <1>1, <1>3, <1>4

LEMMA CallerGivesUp ==
  ASSUME ListInv, NEW c \in Callers, GiveUp(c)
  PROVE  ListInv'
<1> USE DEF ListInv
<1> DEFINE w == [caller[c] EXCEPT !.stage = "timeout"]
<1>1. w \in Waiters /\ w.stage = "timeout"
  BY DEF ListTypes, Waiters, Outcomes, Transient
<1>2. caller' = [caller EXCEPT ![c] = w]
  BY DEF GiveUp
<1>. HIDE DEF w
<1>3. ListTypes' /\ ListingIsOfNow'
  BY <1>1, <1>2 DEF GiveUp, ListTypes, ListingIsOfNow
<1>. QED
  BY <1>3 DEF GiveUp, FlightIsTheFetch, ListingIsRecent

LEMMA CallerResumes ==
  ASSUME ListInv, NEW c \in Callers, Resumed(c)
  PROVE  ListInv'
<1> USE DEF ListInv
<1>1. /\ caller[c] \in Waiters /\ caller[c].stage \in Outcomes /\ "listing" \in Outcomes /\ None \in Int /\ clock \in Nat
      /\ caller[c].at \in Int /\ caller[c].snap \in Int
      /\ UNCHANGED <<clock, snapshot, fetches, flight>>
  BY DEF Resumed, ListTypes, Waiters, Outcomes, None
<1>2. CASE caller[c].stage = "listing"
  <2>1. Reply(c, "listing", caller[c].at) /\ clock - caller[c].at <= StaleMax
    BY <1>1, <1>2, ListingAssumption DEF Resumed, ListingIsOfNow
  <2>. QED
    BY <1>1, <2>1, CallerIsAnswered
<1>3. CASE caller[c].stage # "listing" /\ StandsIn(c)
  <2>1. Reply(c, "listing", caller[c].snap) /\ clock - caller[c].snap <= StaleMax
    BY <1>3 DEF Resumed, StandsIn
  <2>. QED
    BY <1>1, <2>1, CallerIsAnswered
<1>4. CASE caller[c].stage # "listing" /\ ~StandsIn(c)
  <2>1. Reply(c, caller[c].stage, None)
    BY <1>4 DEF Resumed
  <2>. QED
    BY <1>1, <2>1, CallerIsAnswered
<1>. QED
  BY <1>2, <1>3, <1>4

LEMMA ListInvNext == ListInv /\ [ListNext]_listVars => ListInv'
<1>. SUFFICES ASSUME ListInv, [ListNext]_listVars PROVE ListInv'
  OBVIOUS
<1>1. CASE Tick
  <2>1. \A c \in Callers : caller[c].stage # "listing"
    BY <1>1 DEF Tick, Outcomes
  <2>. QED
    BY <1>1, <2>1 DEF Tick, ListInv, ListTypes, FlightIsTheFetch, ListingIsOfNow, ListingIsRecent
<1>2. CASE UNCHANGED listVars
  BY <1>2 DEF listVars, ListInv, ListTypes, FlightIsTheFetch, ListingIsOfNow, ListingIsRecent
<1>. QED
  BY <1>1, <1>2, CallerAsks, CallerGivesUp, CallerResumes, FetchComesBack DEF ListNext

(* For any number of callers and any ages the settings allow: the upstream *)
(* is asked once at a time, and a listing that callers are answered with   *)
(* is as recent as the settings say.                                       *)
THEOREM ListingStaysShared == ListSpec => []ListingIsShared
<1>1. ListInv => ListingIsShared
  <2>. SUFFICES ASSUME ListInv PROVE OneFetchAtATime
    BY DEF ListInv, ListingIsShared
  <2>1. Cardinality({}) = 0 /\ Cardinality({flight}) = 1
    BY FS_EmptySet, FS_Singleton
  <2>2. fetches = {} \/ fetches = {flight}
    BY DEF ListInv, FlightIsTheFetch
  <2>3. Cardinality(fetches) \in {0, 1}
    BY <2>1, <2>2
  <2>. QED
    BY <2>2, <2>3 DEF OneFetchAtATime
<1>. QED
  BY <1>1, ListInvInit, ListInvNext, PTL DEF ListSpec

(***************************************************************************)
(* The bridge to Messages.  What it has built and not yet yielded takes    *)
(* the client from where it is to where the bridge believes it to be.      *)
(***************************************************************************)
ArgStates == {"none", "part", "rest", "whole", "torn"}
BlockKinds == {"text", "thinking", "tool_use"}
EntryKinds == {"message_start", "content_block_start", "content_block_delta", "content_block_stop",
               "message_delta", "message_stop", "error", "call"}
EntryTypes == {"-", "call"} \cup BlockKinds \cup ArgStates
                \cup {"text_delta", "thinking_delta", "signature_delta", "input_json_delta", "citations_delta"}
Entries == [kind : EntryKinds, type : EntryTypes, index : Int]
View(s, o, n) == [started |-> s, open |-> o, next |-> n]
Views == [started : BOOLEAN, open : BlockKinds \cup {Client!NoBlock}, next : Nat]

(* What an event does to a client, and that it may: an event of the        *)
(* client's stream, or the whole block of a call.                          *)
Moves(v, e, w) ==
  \/ e = Client!Plain("message_start") /\ ~v.started /\ w = View(TRUE, v.open, v.next)
  \/ /\ e.type \in BlockKinds /\ e = Client!Event("content_block_start", e.type, v.next)
     /\ v.open = Client!NoBlock /\ w = View(v.started, e.type, v.next + 1)
  \/ /\ e.type \in Client!DeltaTypes /\ e = Client!Event("content_block_delta", e.type, v.next - 1)
     /\ v.open # Client!NoBlock /\ Client!Fits(e.type, v.open) /\ w = v
  \/ /\ e = Client!Event("content_block_stop", "-", v.next - 1)
     /\ v.open # Client!NoBlock /\ w = View(v.started, Client!NoBlock, v.next)
  \/ /\ e \in {Client!Plain("message_delta"), Client!Plain("message_stop")}
     /\ v.open = Client!NoBlock /\ w = v
  \/ e = Client!Plain("error") /\ w = v
  \/ /\ e.type \in ArgStates /\ e = Client!Event("call", e.type, v.next)
     /\ v.open = Client!NoBlock /\ w = View(v.started, v.open, v.next + 1)

Walk(q, p) == /\ p \in [0..Len(q) -> Views]
              /\ \A j \in 1..Len(q) : Moves(p[j-1], q[j], p[j])

Leads(q, v, w) == \E p : Walk(q, p) /\ p[0] = v /\ p[Len(q)] = w

LEMMA LeadsNowhere ==
  ASSUME NEW v \in Views
  PROVE  Leads(<<>>, v, v)
<1> DEFINE p == [j \in 0..0 |-> v]
<1>1. Walk(<<>>, p) /\ p[0] = v /\ p[Len(<<>>)] = v
  BY DEF Walk
<1> HIDE DEF p
<1> QED
  BY <1>1 DEF Leads

LEMMA LeadsBy ==
  ASSUME NEW e \in Entries, NEW v \in Views, NEW w \in Views, Moves(v, e, w)
  PROVE  Leads(<<e>>, v, w)
<1> DEFINE p == [j \in 0..1 |-> IF j = 0 THEN v ELSE w]
<1>1. Len(<<e>>) = 1 /\ <<e>>[1] = e
  OBVIOUS
<1>2. Walk(<<e>>, p) /\ p[0] = v /\ p[Len(<<e>>)] = w
  BY <1>1 DEF Walk
<1> HIDE DEF p
<1> QED
  BY <1>2 DEF Leads

LEMMA LeadsOn ==
  ASSUME NEW q \in Seq(Entries), NEW r \in Seq(Entries), NEW u, NEW v, NEW w,
         Leads(q, u, v), Leads(r, v, w)
  PROVE  Leads(q \o r, u, w)
<1>1. PICK a : Walk(q, a) /\ a[0] = u /\ a[Len(q)] = v
  BY DEF Leads
<1>2. PICK b : Walk(r, b) /\ b[0] = v /\ b[Len(r)] = w
  BY DEF Leads
<1> DEFINE m == Len(q)
           n == Len(r)
           p == [j \in 0..(m + n) |-> IF j <= m THEN a[j] ELSE b[j - m]]
<1>3. m \in Nat /\ n \in Nat /\ q \o r \in Seq(Entries) /\ Len(q \o r) = m + n
  BY LenProperties, ConcatProperties
<1>4. p \in [0..(m + n) -> Views]
  BY <1>1, <1>2, <1>3 DEF Walk
<1>5. ASSUME NEW j \in 1..(m + n)
      PROVE  Moves(p[j-1], (q \o r)[j], p[j])
  <2>1. CASE j <= m
    <3>1. (q \o r)[j] = q[j] /\ p[j-1] = a[j-1] /\ p[j] = a[j]
      BY <1>3, <2>1, ConcatProperties
    <3> QED
      BY <1>1, <1>3, <2>1, <3>1 DEF Walk
  <2>2. CASE j > m
    <3>1. (q \o r)[j] = r[j - m]
      BY <1>3, <2>2, ConcatProperties
    <3>2. p[j] = b[j - m] /\ p[j-1] = b[(j - m) - 1]
      BY <1>1, <1>2, <1>3, <2>2
    <3>3. j - m \in 1..n
      BY <1>3, <2>2
    <3> QED
      BY <1>2, <3>1, <3>2, <3>3 DEF Walk
  <2> QED
    BY <1>3, <2>1, <2>2
<1>6. p[0] = u /\ p[m + n] = w
  <2>1. 0 \in 0..(m + n) /\ 0 <= m /\ p[0] = a[0]
    BY <1>3
  <2>2. CASE n = 0
    <3>1. m + n = m /\ m \in 0..(m + n) /\ p[m + n] = a[m]
      BY <1>3, <2>2
    <3> QED
      BY <1>1, <1>2, <2>1, <2>2, <3>1
  <2>3. CASE n # 0
    <3>1. ~ (m + n <= m) /\ m + n \in 0..(m + n) /\ (m + n) - m = n
      BY <1>3, <2>3
    <3>2. p[m + n] = b[n]
      BY <3>1
    <3> QED
      BY <1>1, <1>2, <2>1, <3>2
  <2> QED
    BY <2>2, <2>3
<1>7. Walk(q \o r, p) /\ p[0] = u /\ p[Len(q \o r)] = w
  BY <1>3, <1>4, <1>5, <1>6 DEF Walk
<1> HIDE DEF p
<1> QED
  BY <1>7 DEF Leads

LEMMA LeadsFirst ==
  ASSUME NEW q \in Seq(Entries), q # <<>>, NEW v, NEW w, Leads(q, v, w)
  PROVE  /\ v \in Views /\ w \in Views
         /\ \E u \in Views : Moves(v, Head(q), u) /\ Leads(Tail(q), u, w)
<1>1. PICK a : Walk(q, a) /\ a[0] = v /\ a[Len(q)] = w
  BY DEF Leads
<1> DEFINE n == Len(q)
           p == [j \in 0..(n - 1) |-> a[j + 1]]
<1>2. n \in Nat /\ n > 0 /\ Tail(q) \in Seq(Entries) /\ Len(Tail(q)) = n - 1
  BY LenProperties, HeadTailProperties, EmptySeq
<1>3. \A j \in 1..(n - 1) : Tail(q)[j] = q[j + 1]
  BY <1>2
<1>4. p \in [0..(n - 1) -> Views] /\ v \in Views /\ w \in Views /\ a[1] \in Views
  BY <1>1, <1>2 DEF Walk
<1>5. \A j \in 1..(n - 1) : Moves(p[j-1], Tail(q)[j], p[j])
  BY <1>1, <1>2, <1>3 DEF Walk
<1>6. Moves(v, Head(q), a[1])
  BY <1>1, <1>2 DEF Walk
<1>7. Walk(Tail(q), p) /\ p[0] = a[1] /\ p[Len(Tail(q))] = w
  BY <1>1, <1>2, <1>4, <1>5 DEF Walk
<1> HIDE DEF p
<1>8. Leads(Tail(q), a[1], w)
  BY <1>7 DEF Leads
<1> QED
  BY <1>4, <1>6, <1>8

(* The states of the bridge while it builds events. *)
CallRecords == [upstream_id : Calls \cup {NoName}, of : SUBSET Calls, args : ArgStates]
States == [open_kind : BlockKinds \cup {Client!NoBlock}, open_index : Nat \cup {-1},
           pending : Seq(CallRecords), current : [Calls -> Nat], last : Calls \cup {Missing},
           started : BOOLEAN, out : Seq(Entries), flushed : Seq(CallRecords)]
ViewOf(st) == View(st.started, st.open_kind, st.open_index + 1)
Good(st, v) == st \in States /\ Leads(st.out, v, ViewOf(st))

LEMMA ViewsOfStates ==
  ASSUME NEW st \in States
  PROVE  ViewOf(st) \in Views
BY DEF States, View, ViewOf, Views

LEMMA GoodOneMore ==
  ASSUME NEW st, NEW v, Good(st, v), NEW e \in Entries, NEW new \in States,
         new.out = Append(st.out, e), Moves(ViewOf(st), e, ViewOf(new))
  PROVE  Good(new, v)
<1>1. st.out \in Seq(Entries) /\ ViewOf(st) \in Views /\ ViewOf(new) \in Views
  BY ViewsOfStates DEF Good, States
<1>2. Leads(<<e>>, ViewOf(st), ViewOf(new))
  BY <1>1, LeadsBy
<1>3. Leads(st.out \o <<e>>, v, ViewOf(new))
  <2>1. <<e>> \in Seq(Entries)
    OBVIOUS
  <2> QED
    BY <1>1, <1>2, <2>1, LeadsOn DEF Good
<1>4. new.out = st.out \o <<e>>
  BY <1>1, AppendIsConcat
<1> QED
  BY <1>3, <1>4 DEF Good

LEMMA CloseGood ==
  ASSUME NEW st, NEW v, Good(st, v)
  PROVE  /\ Good(CloseBlock(st), v)
         /\ CloseBlock(st).open_kind = Client!NoBlock
         /\ \A f \in {"open_index", "pending", "current", "last", "started", "flushed"} :
              CloseBlock(st)[f] = st[f]
<1>1. CASE st.open_kind = Client!NoBlock
  BY <1>1 DEF CloseBlock
<1>2. CASE st.open_kind # Client!NoBlock
  <2> DEFINE e == Client!Event("content_block_stop", "-", st.open_index)
             new == [st EXCEPT !.out = Append(st.out, e), !.open_kind = Client!NoBlock]
  <2>1. st \in States
    BY DEF Good
  <2>2. CloseBlock(st) = new
    BY <1>2, <2>1 DEF CloseBlock, MsgBuilt, States
  <2>3. e \in Entries /\ new \in States
    <3>1. e \in Entries
      BY <2>1 DEF States, Entries, EntryKinds, EntryTypes, BlockKinds, Client!Event
    <3>2. Append(st.out, e) \in Seq(Entries)
      BY <2>1, <3>1, AppendProperties DEF States
    <3> HIDE DEF e
    <3> QED
      BY <2>1, <3>1, <3>2 DEF States, BlockKinds
  <2>4. Moves(ViewOf(st), e, ViewOf(new))
    BY <1>2, <2>1 DEF Moves, View, ViewOf, States, Client!Event
  <2>5. new.out = Append(st.out, e)
    BY <2>1 DEF States
  <2>6. Good(new, v)
    BY <2>3, <2>4, <2>5, GoodOneMore
  <2> QED
    BY <2>1, <2>2, <2>6 DEF States
<1> QED
  BY <1>1, <1>2

LEMMA OpenGood ==
  ASSUME NEW st, NEW v, Good(st, v), st.open_kind = Client!NoBlock, NEW kind \in BlockKinds
  PROVE  /\ Good(OpenBlock(st, kind), v)
         /\ OpenBlock(st, kind).open_kind = kind
         /\ \A f \in {"pending", "current", "last", "started", "flushed"} :
              OpenBlock(st, kind)[f] = st[f]
<1> DEFINE e == Client!Event("content_block_start", kind, st.open_index + 1)
           new == [st EXCEPT !.out = Append(st.out, e), !.open_kind = kind,
                             !.open_index = st.open_index + 1]
<1>1. st \in States
  BY DEF Good
<1>2. OpenBlock(st, kind) = new
  BY <1>1 DEF OpenBlock, MsgBuilt, States
<1>3. e \in Entries /\ new \in States
  <2>1. e \in Entries
    BY <1>1 DEF States, Entries, EntryKinds, EntryTypes, BlockKinds, Client!Event
  <2>2. Append(st.out, e) \in Seq(Entries)
    BY <1>1, <2>1, AppendProperties DEF States
  <2>3. st.open_index + 1 \in Nat /\ kind \in BlockKinds
    BY <1>1 DEF States
  <2> HIDE DEF e
  <2> QED
    BY <1>1, <2>1, <2>2, <2>3 DEF States
<1>4. Moves(ViewOf(st), e, ViewOf(new))
  <2>1. e.type = kind /\ e = Client!Event("content_block_start", e.type, ViewOf(st).next)
    BY DEF View, ViewOf, Client!Event
  <2>2. ViewOf(st).open = Client!NoBlock
    BY DEF View, ViewOf
  <2>3. ViewOf(new) = View(ViewOf(st).started, kind, ViewOf(st).next + 1)
    <3>1. new.started = st.started /\ new.open_kind = kind /\ new.open_index = st.open_index + 1
      BY <1>1 DEF States
    <3> HIDE DEF new
    <3> QED
      BY <3>1 DEF View, ViewOf
  <2> QED
    BY <2>1, <2>2, <2>3 DEF Moves
<1>5. new.out = Append(st.out, e)
  BY <1>1 DEF States
<1>6. Good(new, v)
  BY <1>3, <1>4, <1>5, GoodOneMore
<1> QED
  BY <1>1, <1>2, <1>6 DEF States

(* A delta that fits. *)
LEMMA DeltaGood ==
  ASSUME NEW st, NEW v, Good(st, v), NEW type \in Client!DeltaTypes,
         st.open_kind # Client!NoBlock, Client!Fits(type, st.open_kind)
  PROVE  /\ Good(MsgBuilt(st, "content_block_delta", type), v)
         /\ \A f \in {"pending", "current", "last", "started", "flushed"} :
              MsgBuilt(st, "content_block_delta", type)[f] = st[f]
<1> DEFINE e == Client!Event("content_block_delta", type, st.open_index)
           new == [st EXCEPT !.out = Append(st.out, e)]
<1>1. st \in States
  BY DEF Good
<1>2. MsgBuilt(st, "content_block_delta", type) = new
  BY <1>1 DEF MsgBuilt, States
<1>3. type \in EntryTypes
  BY DEF Client!DeltaTypes, Client!Mapped, EntryTypes
<1>4. e \in Entries /\ new \in States
  <2>1. e \in Entries
    BY <1>1, <1>3 DEF States, Entries, EntryKinds, EntryTypes, BlockKinds, Client!Event
  <2>2. Append(st.out, e) \in Seq(Entries)
    BY <1>1, <1>3, <2>1, AppendProperties DEF States
  <2> HIDE DEF e
  <2> QED
    BY <1>1, <1>3, <2>1, <2>2 DEF States, BlockKinds
<1>5. Moves(ViewOf(st), e, ViewOf(new))
  BY <1>1 DEF Moves, View, ViewOf, States, Client!Event
<1>6. new.out = Append(st.out, e)
  BY <1>1 DEF States
<1>7. Good(new, v)
  BY <1>4, <1>5, <1>6, GoodOneMore
<1> QED
  BY <1>1, <1>2, <1>7 DEF States

(* An event about the message as a whole. *)
LEMMA FramedGood ==
  ASSUME NEW st, NEW v, Good(st, v), NEW kind \in {"message_delta", "message_stop"},
         st.open_kind = Client!NoBlock
  PROVE  /\ Good(Framed(st, kind), v)
         /\ \A f \in {"open_kind", "pending", "current", "last", "started", "flushed"} :
              Framed(st, kind)[f] = st[f]
<1> DEFINE e == Client!Plain(kind)
           new == [st EXCEPT !.out = Append(st.out, e)]
<1>1. st \in States
  BY DEF Good
<1>2. Framed(st, kind) = new
  BY <1>1 DEF Framed, States
<1>3. e \in Entries /\ new \in States
  <2>1. e \in Entries
    BY <1>1 DEF States, Entries, EntryKinds, EntryTypes, BlockKinds, Client!Event, Client!Plain
  <2>2. Append(st.out, e) \in Seq(Entries)
    BY <1>1, <2>1, AppendProperties DEF States
  <2> HIDE DEF e
  <2> QED
    BY <1>1, <2>1, <2>2 DEF States, BlockKinds
<1>4. Moves(ViewOf(st), e, ViewOf(new))
  BY <1>1 DEF Moves, View, ViewOf, States
<1>5. new.out = Append(st.out, e)
  BY <1>1 DEF States
<1>6. Good(new, v)
  BY <1>3, <1>4, <1>5, GoodOneMore
<1> QED
  BY <1>1, <1>2, <1>6 DEF States

LEMMA StartGood ==
  ASSUME NEW st, NEW v, Good(st, v)
  PROVE  /\ Good(MessageStart(st), v)
         /\ \A f \in {"open_kind", "open_index", "pending", "current", "last", "flushed"} :
              MessageStart(st)[f] = st[f]
<1>1. CASE st.started
  BY <1>1 DEF MessageStart
<1>2. CASE ~st.started
  <2> DEFINE e == Client!Plain("message_start")
             new == [st EXCEPT !.out = Append(st.out, e), !.started = TRUE]
  <2>1. st \in States
    BY DEF Good
  <2>2. MessageStart(st) = new
    BY <1>2, <2>1 DEF MessageStart, Framed, States
  <2>3. e \in Entries /\ new \in States
    <3>1. e \in Entries
      BY <2>1 DEF States, Entries, EntryKinds, EntryTypes, BlockKinds, Client!Event, Client!Plain
    <3>2. Append(st.out, e) \in Seq(Entries)
      BY <2>1, <3>1, AppendProperties DEF States
    <3> HIDE DEF e
    <3> QED
      BY <2>1, <3>1, <3>2 DEF States, BlockKinds
  <2>4. Moves(ViewOf(st), e, ViewOf(new))
    <3>1. ViewOf(new) = View(TRUE, ViewOf(st).open, ViewOf(st).next) /\ ~ViewOf(st).started
      <4>1. new.started /\ new.open_kind = st.open_kind /\ new.open_index = st.open_index
        BY <2>1 DEF States
      <4> HIDE DEF new
      <4> QED
        BY <1>2, <4>1 DEF View, ViewOf
    <3> QED
      BY <3>1 DEF Moves
  <2>5. new.out = Append(st.out, e)
    BY <2>1 DEF States
  <2>6. Good(new, v)
    BY <2>3, <2>4, <2>5, GoodOneMore
  <2> QED
    BY <2>1, <2>2, <2>6 DEF States
<1> QED
  BY <1>1, <1>2

(* The blocks of the calls held back. *)
LEMMA FlushGood ==
  ASSUME NEW st, NEW v, Good(st, v)
  PROVE  /\ Good(FlushToolCalls(st), v)
         /\ FlushToolCalls(st).pending = <<>>
         /\ FlushToolCalls(st).flushed = st.flushed \o st.pending
         /\ FlushToolCalls(st).last = st.last
         /\ FlushToolCalls(st).current =
              IF st.pending = <<>> THEN st.current ELSE [i \in Calls |-> NoCall]
<1>0. st \in States
  BY DEF Good
<1>1. CASE st.pending = <<>>
  BY <1>0, <1>1, ConcatEmptySeq DEF FlushToolCalls, States
<1>2. CASE st.pending # <<>>
  <2> DEFINE c == CloseBlock(st)
             n == Len(st.pending)
             q == [k \in DOMAIN st.pending |->
                     Client!Event("call", st.pending[k].args, st.open_index + k)]
             new == [c EXCEPT !.out = @ \o q, !.open_index = @ + n, !.flushed = @ \o st.pending,
                              !.pending = <<>>, !.current = [i \in Calls |-> NoCall]]
  <2>1. /\ Good(c, v) /\ c \in States /\ c.open_kind = Client!NoBlock
        /\ c.open_index = st.open_index /\ c.flushed = st.flushed /\ c.last = st.last
        /\ c.started = st.started
    BY CloseGood DEF Good
  <2>2. FlushToolCalls(st) = new
    BY <1>2 DEF FlushToolCalls
  <2>3. n \in Nat /\ DOMAIN st.pending = 1..n /\ \A k \in 1..n : st.pending[k] \in CallRecords
    BY <1>0, LenProperties, ElementOfSeq DEF States
  <2>4. \A k \in 1..n : q[k] \in Entries /\ q[k].type \in ArgStates
                        /\ q[k] = Client!Event("call", q[k].type, st.open_index + k)
    BY <1>0, <2>3 DEF States, Entries, EntryKinds, EntryTypes, BlockKinds, CallRecords, ArgStates, Client!Event
  <2>5. q \in Seq(Entries) /\ Len(q) = n
    <3>1. q \in [1..n -> Entries] /\ n \in Nat
      BY <2>3, <2>4
    <3> HIDE DEF q, n
    <3> QED
      BY <3>1
  <2>6. c.out \o q \in Seq(Entries) /\ st.flushed \o st.pending \in Seq(CallRecords)
    BY <1>0, <2>1, <2>5, ConcatProperties DEF States
  <2>7. new \in States
    <3>1. [i \in Calls |-> NoCall] \in [Calls -> Nat]
      BY DEF NoCall
    <3>2. c.open_index + n \in Nat \cup {-1}
      BY <2>1, <2>3 DEF States
    <3> QED
      BY <2>1, <2>6, <3>1, <3>2, EmptySeq DEF States
  <2>8. /\ new.out = c.out \o q /\ new.open_index = c.open_index + n /\ new.started = c.started
        /\ new.open_kind = c.open_kind /\ new.pending = <<>> /\ new.last = c.last
        /\ new.flushed = st.flushed \o st.pending /\ new.current = [i \in Calls |-> NoCall]
    BY <2>1 DEF States
  <2> HIDE DEF c, new
  <2>9. Leads(q, ViewOf(c), ViewOf(new))
    <3> DEFINE at(j) == View(c.started, Client!NoBlock, st.open_index + 1 + j)
               p == [j \in 0..n |-> at(j)]
    <3>1. c.started \in BOOLEAN /\ st.open_index \in Nat \cup {-1} /\ n \in Nat
      BY <1>0, <2>1, <2>3 DEF States
    <3>2. p \in [0..n -> Views]
      BY <3>1 DEF View, Views
    <3>3. ASSUME NEW j \in 1..n
          PROVE  Moves(p[j-1], q[j], p[j])
      <4>1. p[j-1] = at(j - 1) /\ p[j] = at(j)
        BY <3>1
      <4>2. /\ at(j - 1).open = Client!NoBlock /\ at(j - 1).next = st.open_index + j
            /\ at(j) = View(at(j - 1).started, at(j - 1).open, at(j - 1).next + 1)
        BY <3>1 DEF View
      <4> HIDE DEF p, at
      <4> QED
        BY <2>4, <4>1, <4>2 DEF Moves
    <3>4. p[0] = ViewOf(c) /\ p[n] = ViewOf(new)
      <4>1. p[0] = at(0) /\ p[n] = at(n)
        BY <3>1
      <4>2. ViewOf(c) = at(0) /\ ViewOf(new) = at(n)
        BY <2>1, <2>8, <3>1 DEF View, ViewOf
      <4> QED
        BY <4>1, <4>2
    <3> HIDE DEF p, q
    <3>5. Walk(q, p)
      BY <2>5, <3>2, <3>3 DEF Walk
    <3> QED
      BY <2>5, <3>4, <3>5 DEF Leads
  <2>10. Good(new, v)
    <3>1. Leads(c.out, v, ViewOf(c)) /\ c.out \in Seq(Entries)
      BY <2>1 DEF Good, States
    <3>2. Leads(c.out \o q, v, ViewOf(new))
      BY <2>5, <2>9, <3>1, LeadsOn
    <3> QED
      BY <2>7, <2>8, <3>2 DEF Good
  <2> QED
    BY <1>2, <2>1, <2>2, <2>8, <2>10
<1> QED
  BY <1>1, <1>2

LEMMA SpeakGood ==
  ASSUME NEW st, NEW v, Good(st, v), NEW kind \in {"thinking", "text"}
  PROVE  /\ Good(Speak(st, kind), v)
         /\ Speak(st, kind).pending = <<>>
         /\ Speak(st, kind).flushed = st.flushed \o st.pending
         /\ Speak(st, kind).last = st.last
         /\ Speak(st, kind).current =
              IF st.pending = <<>> THEN st.current ELSE [i \in Calls |-> NoCall]
<1> DEFINE told == MessageStart(st)
           before == FlushToolCalls(told)
           opened == IF before.open_kind = kind THEN before ELSE OpenBlock(CloseBlock(before), kind)
           type == IF kind = "text" THEN "text_delta" ELSE "thinking_delta"
<1>1. /\ Good(told, v) /\ told.pending = st.pending /\ told.flushed = st.flushed
      /\ told.last = st.last /\ told.current = st.current
  BY StartGood
<1> HIDE DEF told
<1>2. /\ Good(before, v) /\ before.pending = <<>> /\ before.flushed = st.flushed \o st.pending
      /\ before.last = st.last
      /\ before.current = IF st.pending = <<>> THEN st.current ELSE [i \in Calls |-> NoCall]
  BY <1>1, FlushGood
<1> HIDE DEF before
<1>3. /\ Good(opened, v) /\ opened.open_kind = kind
      /\ \A f \in {"pending", "current", "last", "flushed"} : opened[f] = before[f]
  <2>1. CASE before.open_kind = kind
    BY <1>2, <2>1
  <2>2. CASE before.open_kind # kind
    <3>1. kind \in BlockKinds
      BY DEF BlockKinds
    <3>2. /\ Good(CloseBlock(before), v) /\ CloseBlock(before).open_kind = Client!NoBlock
          /\ \A f \in {"pending", "current", "last", "flushed"} : CloseBlock(before)[f] = before[f]
      BY <1>2, CloseGood
    <3>3. /\ Good(OpenBlock(CloseBlock(before), kind), v)
          /\ OpenBlock(CloseBlock(before), kind).open_kind = kind
          /\ \A f \in {"pending", "current", "last", "flushed"} :
               OpenBlock(CloseBlock(before), kind)[f] = CloseBlock(before)[f]
      BY <3>1, <3>2, OpenGood
    <3> QED
      BY <2>2, <3>2, <3>3
  <2> QED
    BY <2>1, <2>2
<1> HIDE DEF opened
<1>4. type \in Client!DeltaTypes /\ kind # Client!NoBlock /\ Client!Fits(type, kind)
  BY DEF Client!DeltaTypes, Client!Mapped, Client!NoBlock, Client!Fits, Client!Compatible
<1>5. Speak(st, kind) = MsgBuilt(opened, "content_block_delta", type)
  BY DEF Speak, told, before, opened
<1>6. /\ Good(MsgBuilt(opened, "content_block_delta", type), v)
      /\ \A f \in {"pending", "current", "last", "flushed"} :
           MsgBuilt(opened, "content_block_delta", type)[f] = opened[f]
  BY <1>3, <1>4, DeltaGood
<1> QED
  BY <1>2, <1>3, <1>5, <1>6

(* Where the generator stands between two chunks. *)
MsStates == [open_kind : BlockKinds \cup {Client!NoBlock}, open_index : Nat \cup {-1},
             pending : Seq(CallRecords), current : [Calls -> Nat], last : Calls \cup {Missing},
             started : BOOLEAN]

LEMMA StartedFrom ==
  ASSUME ms \in MsStates, flushed \in Seq(CallRecords)
  PROVE  /\ MsgStarted \in States /\ MsgStarted.out = <<>> /\ MsgStarted.flushed = flushed
         /\ \A f \in {"open_kind", "open_index", "pending", "current", "last", "started"} :
              MsgStarted[f] = ms[f]
BY EmptySeq DEF MsgStarted, MsStates, States

Slots(st) == \A i \in Calls : st.current[i] \in 0..Len(st.pending)

(* The call a fragment goes to, and what becomes of it. *)
SlotOf(st, f) == IF f.index # Missing THEN f.index ELSE IF st.last = Missing THEN 0 ELSE st.last
IsAnother(st, f) ==
  LET k == st.current[SlotOf(st, f)]
  IN  k = NoCall \/ (st.pending[k].upstream_id \notin {NoName, f.id} /\ f.id # NoName)

LEMMA ArgumentsAdd ==
  ASSUME NEW a \in ArgStates, NEW b \in ArgStates
  PROVE  AddArguments(a, b) \in ArgStates
BY DEF AddArguments, ArgStates

LEMMA RecordGood ==
  ASSUME NEW st, NEW v, Good(st, v), Slots(st), NEW f \in Fragment
  PROVE  LET i == SlotOf(st, f)
             k == st.current[i]
             new == RecordToolCall(st, f)
         IN  /\ Good(new, v) /\ Slots(new) /\ new.flushed = st.flushed /\ new.last = i /\ i \in Calls
             /\ IF IsAnother(st, f)
                THEN /\ new.pending = Append(st.pending, [upstream_id |-> f.id, of |-> {f.of}, args |-> f.args])
                     /\ new.current = [st.current EXCEPT ![i] = Len(st.pending) + 1]
                ELSE /\ k \in 1..Len(st.pending) /\ new.current = st.current
                     /\ new.pending = [st.pending EXCEPT ![k] =
                          [upstream_id |-> IF f.id # NoName THEN f.id ELSE st.pending[k].upstream_id,
                           of |-> st.pending[k].of \cup {f.of},
                           args |-> AddArguments(st.pending[k].args, f.args)]]
<1> DEFINE i == SlotOf(st, f)
           k == st.current[i]
           n == Len(st.pending)
           fresh == [upstream_id |-> f.id, of |-> {f.of}, args |-> f.args]
           grown == [upstream_id |-> IF f.id # NoName THEN f.id ELSE st.pending[k].upstream_id,
                     of |-> st.pending[k].of \cup {f.of},
                     args |-> AddArguments(st.pending[k].args, f.args)]
           new == RecordToolCall(st, f)
<1>1. st \in States /\ st.pending \in Seq(CallRecords) /\ n \in Nat
  BY LenProperties DEF Good, States
<1>2. i \in Calls
  BY <1>1, ChunksAssumption DEF SlotOf, Fragment, States, Missing, Calls
<1>3. k \in 0..n
  BY <1>2 DEF Slots
<1>4. /\ f.of \in Calls /\ f.id \in Calls \cup {NoName} /\ f.args \in ArgStates
  BY DEF Fragment, ArgStates
<1>5. CASE IsAnother(st, f)
  <2> DEFINE pending == Append(st.pending, fresh)
             current == [st.current EXCEPT ![i] = n + 1]
             made == [st EXCEPT !.last = i, !.pending = pending, !.current = current]
  <2>1. new = made
    BY <1>1, <1>2, <1>5 DEF RecordToolCall, IsAnother, SlotOf, States
  <2>2. fresh \in CallRecords
    BY <1>4 DEF CallRecords
  <2>3. pending \in Seq(CallRecords) /\ Len(pending) = n + 1
    BY <1>1, <2>2, AppendProperties
  <2>4. current \in [Calls -> Nat] /\ \A x \in Calls : current[x] \in 0..(n + 1)
    BY <1>1, <1>2 DEF States, Slots
  <2> HIDE DEF pending, current, i
  <2>5. /\ made \in States /\ made.pending = pending /\ made.current = current /\ made.last = i
        /\ \A g \in {"open_kind", "open_index", "started", "out", "flushed"} : made[g] = st[g]
    BY <1>1, <1>2, <2>3, <2>4 DEF States
  <2> HIDE DEF made
  <2>6. ViewOf(made) = ViewOf(st)
    BY <2>5 DEF ViewOf
  <2>7. Good(made, v) /\ Slots(made)
    BY <2>3, <2>4, <2>5, <2>6 DEF Good, Slots
  <2> QED
    BY <1>2, <1>5, <2>1, <2>5, <2>7 DEF pending, current, i
<1>6. CASE ~IsAnother(st, f)
  <2>0. k \in 1..n /\ k # NoCall
    BY <1>3, <1>6 DEF IsAnother, NoCall
  <2> DEFINE pending == [st.pending EXCEPT ![k] = grown]
             made == [st EXCEPT !.last = i, !.pending = pending]
  <2>1. new = made
    BY <1>1, <1>2, <1>6, <2>0 DEF RecordToolCall, IsAnother, SlotOf, States
  <2>2. st.pending[k] \in CallRecords
    BY <1>1, <2>0, ElementOfSeq
  <2>3. grown \in CallRecords
    BY <1>4, <2>2, ArgumentsAdd DEF CallRecords
  <2>4. pending \in Seq(CallRecords) /\ Len(pending) = n
    BY <1>1, <2>0, <2>3, ExceptSeq
  <2> HIDE DEF pending, i
  <2>5. /\ made \in States /\ made.pending = pending /\ made.last = i
        /\ \A g \in {"open_kind", "open_index", "started", "out", "flushed", "current"} : made[g] = st[g]
    BY <1>1, <1>2, <2>4 DEF States
  <2> HIDE DEF made
  <2>6. ViewOf(made) = ViewOf(st)
    BY <2>5 DEF ViewOf
  <2>7. Good(made, v) /\ Slots(made)
    BY <2>4, <2>5, <2>6 DEF Good, Slots
  <2> QED
    BY <1>2, <1>6, <2>0, <2>1, <2>5, <2>7 DEF pending, i
<1> QED
  BY <1>5, <1>6

Seen == View(mstarted, mopen, mnext)

BridgeInv ==
  /\ ms \in MsStates /\ Slots(ms)
  /\ mtodo \in Seq(Entries) /\ flushed \in Seq(CallRecords) /\ mgen \in {"run", "ended", "failed"}
  /\ \E w : Leads(mtodo, Seen, w) /\ (mgen # "failed" => w = ViewOf(ms))
  /\ Seen \in Views

LEMMA ViewIsViews ==
  ASSUME NEW s, NEW o, NEW n, View(s, o, n) \in Views
  PROVE  s \in BOOLEAN /\ o \in BlockKinds \cup {Client!NoBlock} /\ n \in Nat
BY DEF View, Views

LEMMA LeadsToItself ==
  ASSUME NEW v, NEW w, Leads(<<>>, v, w)
  PROVE  v = w
BY DEF Leads, Walk

(* Between two chunks, nothing is due and the bridge is right. *)
LEMMA PullingIsGood ==
  ASSUME BridgeInv, MsgPulling
  PROVE  /\ Good(MsgStarted, Seen) /\ Slots(MsgStarted)
         /\ MsgStarted.pending = ms.pending /\ MsgStarted.flushed = flushed
         /\ MsgStarted.last = ms.last /\ MsgStarted.current = ms.current
<1>1. Seen = ViewOf(ms)
  BY LeadsToItself DEF BridgeInv, MsgPulling
<1>2. /\ MsgStarted \in States /\ MsgStarted.out = <<>> /\ MsgStarted.flushed = flushed
      /\ \A f \in {"open_kind", "open_index", "pending", "current", "last", "started"} :
           MsgStarted[f] = ms[f]
  BY StartedFrom DEF BridgeInv
<1>3. ViewOf(MsgStarted) = Seen
  BY <1>1, <1>2 DEF ViewOf
<1>4. Leads(<<>>, Seen, Seen)
  BY LeadsNowhere DEF BridgeInv
<1> QED
  BY <1>2, <1>3, <1>4 DEF Good, Slots, BridgeInv

(* What a handler built becomes the state of the bridge. *)
LEMMA BecameGood ==
  ASSUME NEW st, Good(st, Seen), Slots(st), MsgBecame(st), Seen \in Views,
         mgen' \in {"run", "ended", "failed"}
  PROVE  BridgeInv' /\ UNCHANGED <<mstarted, mopen, mnext, msent>>
<1>1. st \in States /\ Leads(st.out, Seen, ViewOf(st))
  BY DEF Good
<1>2. Seen' = Seen /\ UNCHANGED <<mstarted, mopen, mnext, msent>>
  BY DEF MsgBecame, Seen
<1>3. ms' \in MsStates /\ mtodo' \in Seq(Entries) /\ flushed' \in Seq(CallRecords)
  BY <1>1 DEF MsgBecame, MsStates, States
<1>4. ViewOf(ms') = ViewOf(st) /\ ms'.current = st.current /\ ms'.pending = st.pending
  BY DEF MsgBecame, ViewOf
<1>5. Slots(ms')
  BY <1>4 DEF Slots
<1>6. mtodo' = st.out
  BY DEF MsgBecame
<1>7. Leads(mtodo', Seen', ViewOf(ms'))
  BY <1>1, <1>2, <1>4, <1>6
<1>8. \E w : Leads(mtodo, Seen, w)' /\ (mgen' # "failed" => w = ViewOf(ms'))
  BY <1>7 DEF Leads, Walk
<1> QED
  BY <1>2, <1>3, <1>5, <1>7 DEF BridgeInv

LEMMA BridgeSays ==
  ASSUME BridgeInv, NEW kind \in {"thinking", "text"}, MsgSays(kind)
  PROVE  BridgeInv' /\ UNCHANGED <<mstarted, mopen, mnext, msent>>
<1> DEFINE st == Speak(MsgStarted, kind)
<1>1. Good(MsgStarted, Seen) /\ Slots(MsgStarted)
  BY PullingIsGood DEF MsgSays
<1>2. /\ Good(st, Seen) /\ st.pending = <<>>
      /\ st.current = IF MsgStarted.pending = <<>> THEN MsgStarted.current
                      ELSE [i \in Calls |-> NoCall]
  BY <1>1, SpeakGood
<1>3. MsgBecame(st) /\ mgen' \in {"run", "ended", "failed"}
  BY DEF MsgSays, MsgPulling
<1> HIDE DEF st
<1>4. Slots(st)
  BY <1>1, <1>2 DEF Slots, NoCall
<1> QED
  BY <1>2, <1>3, <1>4, BecameGood DEF BridgeInv

LEMMA BridgeRecords ==
  ASSUME BridgeInv, NEW f \in Fragment, MsgCallChunk(f)
  PROVE  BridgeInv' /\ UNCHANGED <<mstarted, mopen, mnext, msent>>
<1> DEFINE begun == MessageStart(MsgStarted)
           st == RecordToolCall(begun, f)
<1>1. Good(MsgStarted, Seen) /\ Slots(MsgStarted)
  BY PullingIsGood DEF MsgCallChunk
<1>2. /\ Good(begun, Seen) /\ begun.pending = MsgStarted.pending
      /\ begun.current = MsgStarted.current
  BY <1>1, StartGood
<1>3. MsgBecame(st) /\ mgen' \in {"run", "ended", "failed"}
  BY DEF MsgCallChunk, MsgPulling
<1> HIDE DEF begun
<1>4. Slots(begun)
  BY <1>1, <1>2 DEF Slots
<1>5. Good(st, Seen) /\ Slots(st)
  BY <1>2, <1>4, RecordGood
<1> HIDE DEF st
<1> QED
  BY <1>3, <1>5, BecameGood DEF BridgeInv

LEMMA BridgeFinishes ==
  ASSUME BridgeInv, MsgFinish
  PROVE  /\ BridgeInv' /\ UNCHANGED <<mstarted, mopen, mnext, msent>>
         /\ flushed' = flushed \o ms.pending /\ ms'.pending = <<>>
<1> DEFINE begun == MessageStart(MsgStarted)
           flushedCalls == FlushToolCalls(begun)
           closed == CloseBlock(flushedCalls)
           told == Framed(closed, "message_delta")
           st == Framed(told, "message_stop")
<1>1. /\ Good(MsgStarted, Seen) /\ Slots(MsgStarted)
      /\ MsgStarted.pending = ms.pending /\ MsgStarted.flushed = flushed
  BY PullingIsGood DEF MsgFinish
<1>2. /\ Good(begun, Seen) /\ begun.pending = MsgStarted.pending
      /\ begun.current = MsgStarted.current /\ begun.flushed = MsgStarted.flushed
  BY <1>1, StartGood
<1>3. MsgBecame(st) /\ mgen' \in {"run", "ended", "failed"}
  BY DEF MsgFinish
<1> HIDE DEF begun
<1>4. /\ Good(flushedCalls, Seen) /\ flushedCalls.pending = <<>> /\ flushedCalls.flushed = begun.flushed \o begun.pending
      /\ flushedCalls.current = IF begun.pending = <<>> THEN begun.current ELSE [i \in Calls |-> NoCall]
  BY <1>2, FlushGood
<1> HIDE DEF flushedCalls
<1>5. /\ Good(closed, Seen) /\ closed.open_kind = Client!NoBlock
      /\ closed.pending = flushedCalls.pending /\ closed.current = flushedCalls.current
      /\ closed.flushed = flushedCalls.flushed
  BY <1>4, CloseGood
<1> HIDE DEF closed
<1>6. /\ Good(told, Seen) /\ told.open_kind = Client!NoBlock
      /\ told.pending = closed.pending /\ told.current = closed.current
      /\ told.flushed = closed.flushed
  BY <1>5, FramedGood
<1> HIDE DEF told
<1>7. /\ Good(st, Seen)
      /\ st.pending = told.pending /\ st.current = told.current
      /\ st.flushed = told.flushed
  BY <1>6, FramedGood
<1> HIDE DEF st
<1>8. Slots(st)
  BY <1>1, <1>2, <1>4, <1>5, <1>6, <1>7 DEF Slots, NoCall
<1>9. ms'.pending = st.pending /\ flushed' = st.flushed
  BY <1>3 DEF MsgBecame
<1> QED
  BY <1>1, <1>2, <1>3, <1>4, <1>5, <1>6, <1>7, <1>8, <1>9, BecameGood DEF BridgeInv

LEMMA BridgeRaises ==
  ASSUME BridgeInv, MsgRaised
  PROVE  BridgeInv' /\ UNCHANGED <<mstarted, mopen, mnext, msent>>
<1> DEFINE e == Client!Plain("error")
<1>1. e \in Entries
  BY DEF Entries, EntryKinds, EntryTypes, BlockKinds, Client!Event, Client!Plain
<1>2. Seen \in Views /\ Moves(Seen, e, Seen)
  BY DEF Moves, BridgeInv
<1> HIDE DEF e
<1>3. Leads(<<e>>, Seen, Seen) /\ <<e>> \in Seq(Entries)
  BY <1>1, <1>2, LeadsBy
<1>4. /\ mtodo' = <<e>> /\ mgen' = "failed"
      /\ UNCHANGED <<ms, flushed, mstarted, mopen, mnext, msent>>
  BY DEF MsgRaised, e
<1>5. Seen' = Seen
  BY <1>4 DEF Seen
<1>6. Leads(mtodo', Seen', Seen)
  BY <1>3, <1>4, <1>5
<1>7. \E w : Leads(mtodo, Seen, w)' /\ (mgen' # "failed" => w = ViewOf(ms'))
  BY <1>4, <1>6 DEF Leads, Walk
<1> QED
  BY <1>3, <1>4, <1>5, <1>6 DEF BridgeInv, Slots

(* The block of a call takes a client past it. *)
LEMMA BlockLeads ==
  ASSUME NEW v \in Views, NEW w \in Views, NEW e \in Entries, Moves(v, e, w), e.kind = "call"
  PROVE  LET first == Head(BlockOf(e))
             rest == Tail(BlockOf(e))
             u == View(v.started, "tool_use", v.next + 1)
         IN  /\ first = Client!Event("content_block_start", "tool_use", v.next)
             /\ v.open = Client!NoBlock /\ u \in Views
             /\ rest \in Seq(Entries) /\ Leads(rest, u, w) /\ BlockOf(e) = <<first>> \o rest
             /\ first \in Entries
<1> DEFINE start == Client!Event("content_block_start", "tool_use", e.index)
           delta == Client!Event("content_block_delta", "input_json_delta", e.index)
           stop == Client!Event("content_block_stop", "-", e.index)
           u == View(v.started, "tool_use", v.next + 1)
           rest == IF e.type = "none" THEN <<stop>> ELSE <<delta>> \o <<stop>>
<1>1. /\ e.index = v.next /\ v.open = Client!NoBlock
      /\ w = View(v.started, Client!NoBlock, v.next + 1)
  <2>1. ASSUME NEW k, NEW t, NEW n, k # "call"
        PROVE  e # Client!Event(k, t, n)
    BY <2>1 DEF Client!Event
  <2>2. ASSUME NEW k, k # "call"
        PROVE  e # Client!Plain(k)
    BY <2>1, <2>2 DEF Client!Plain
  <2>3. /\ e = Client!Event("call", e.type, v.next)
        /\ v.open = Client!NoBlock /\ w = View(v.started, v.open, v.next + 1)
    BY <2>1, <2>2 DEF Moves
  <2> QED
    BY <2>3 DEF Client!Event
<1>2. /\ v.started \in BOOLEAN /\ v.next \in Nat /\ v.next + 1 \in Nat
      /\ v.next + 1 - 1 = v.next
  BY DEF Views
<1>3. start \in Entries /\ delta \in Entries /\ stop \in Entries
  BY <1>1, <1>2 DEF Entries, EntryKinds, EntryTypes, BlockKinds, Client!Event
<1>4. /\ u \in Views /\ u.started = v.started /\ u.open = "tool_use" /\ u.next = v.next + 1
  BY <1>2 DEF View, Views, BlockKinds
<1>5. Moves(u, stop, w)
  <2>1. stop = Client!Event("content_block_stop", "-", u.next - 1)
    BY <1>1, <1>2, <1>4
  <2>2. u.open # Client!NoBlock /\ w = View(u.started, Client!NoBlock, u.next)
    BY <1>1, <1>4 DEF Client!NoBlock
  <2> HIDE DEF stop, u
  <2> QED
    BY <2>1, <2>2 DEF Moves
<1>6. Moves(u, delta, u)
  <2>1. "input_json_delta" \in Client!DeltaTypes /\ Client!Fits("input_json_delta", "tool_use")
    BY DEF Client!DeltaTypes, Client!Mapped, Client!Fits, Client!Compatible
  <2>2. delta.type = "input_json_delta" /\ delta = Client!Event("content_block_delta", delta.type, u.next - 1)
    BY <1>1, <1>2, <1>4 DEF Client!Event
  <2>3. u.open # Client!NoBlock
    BY <1>4 DEF Client!NoBlock
  <2> HIDE DEF delta, u
  <2> QED
    BY <1>4, <2>1, <2>2, <2>3 DEF Moves
<1>7. BlockOf(e) = <<start>> \o rest
  BY <1>3 DEF BlockOf
<1> HIDE DEF start, delta, stop, u
<1>8. Leads(<<stop>>, u, w) /\ Leads(<<delta>>, u, u)
  BY <1>3, <1>4, <1>5, <1>6, LeadsBy
<1>9. <<stop>> \in Seq(Entries) /\ <<delta>> \in Seq(Entries)
  BY <1>3
<1>10. rest \in Seq(Entries) /\ Leads(rest, u, w)
  <2>1. Leads(<<delta>> \o <<stop>>, u, w)
    BY <1>8, <1>9, LeadsOn
  <2>2. <<delta>> \o <<stop>> \in Seq(Entries)
    BY <1>9, ConcatProperties
  <2> QED
    BY <1>8, <1>9, <2>1, <2>2
<1> HIDE DEF rest
<1>11. Head(BlockOf(e)) = start /\ Tail(BlockOf(e)) = rest
  <2>1. <<start>> \in Seq(Entries) /\ Len(<<start>>) = 1 /\ <<start>>[1] = start /\ <<start>> # <<>>
    BY <1>3
  <2>2. Head(<<start>> \o rest) = start
    BY <1>10, <2>1, ConcatProperties
  <2>3. Tail(<<start>> \o rest) = rest
    BY <1>3, <1>10
  <2> QED
    BY <1>7, <2>2, <2>3
<1> QED
  BY <1>1, <1>3, <1>4, <1>7, <1>10, <1>11 DEF start, u

(* The client is sent the event e. *)
Sends(e) ==
  /\ msent' = e
  /\ mstarted' = (mstarted \/ e.kind = "message_start")
  /\ mopen' = CASE e.kind = "content_block_start" -> e.type
               [] e.kind = "content_block_stop" -> Client!NoBlock
               [] OTHER -> mopen
  /\ mnext' = IF e.kind = "content_block_start" THEN mnext + 1 ELSE mnext

LEMMA SentIsRead ==
  ASSUME Seen \in Views, NEW e, e.kind # "call", NEW u, Moves(Seen, e, u), Sends(e)
  PROVE  Client!Next /\ Seen' = u
<1>0. /\ mstarted \in BOOLEAN /\ Seen.started = mstarted /\ Seen.open = mopen /\ Seen.next = mnext
  BY ViewIsViews DEF Seen, View
<1>1. CASE e = Client!Plain("message_start") /\ ~Seen.started /\ u = View(TRUE, Seen.open, Seen.next)
  <2>1. e.kind = "message_start"
    BY <1>1 DEF Client!Plain, Client!Event
  <2>2. mstarted' = TRUE /\ mopen' = mopen /\ mnext' = mnext
    BY <2>1 DEF Sends
  <2>3. Client!MessageStart
    BY <1>0, <1>1, <2>2 DEF Sends, Client!MessageStart
  <2> QED
    BY <1>0, <1>1, <2>2, <2>3 DEF Client!Next, Seen
<1>2. CASE /\ e.type \in BlockKinds /\ e = Client!Event("content_block_start", e.type, Seen.next)
           /\ Seen.open = Client!NoBlock /\ u = View(Seen.started, e.type, Seen.next + 1)
  <2>1. e.kind = "content_block_start"
    BY <1>2 DEF Client!Event
  <2>2. mstarted' = mstarted /\ mopen' = e.type /\ mnext' = mnext + 1
    BY <1>0, <2>1 DEF Sends
  <2>3. Client!BlockStart(e.type) /\ e.type \in Client!BlockTypes
    BY <1>0, <1>2, <2>2 DEF Sends, Client!BlockStart, Client!BlockTypes, BlockKinds
  <2> QED
    BY <1>0, <1>2, <2>2, <2>3 DEF Client!Next, Seen
<1>3. CASE /\ e.type \in Client!DeltaTypes /\ e = Client!Event("content_block_delta", e.type, Seen.next - 1)
           /\ Seen.open # Client!NoBlock /\ Client!Fits(e.type, Seen.open) /\ u = Seen
  <2>1. e.kind = "content_block_delta"
    BY <1>3 DEF Client!Event
  <2>2. mstarted' = mstarted /\ mopen' = mopen /\ mnext' = mnext
    BY <1>0, <2>1 DEF Sends
  <2>3. Client!BlockDelta(e.type)
    BY <1>0, <1>3, <2>2 DEF Sends, Client!BlockDelta
  <2> QED
    BY <1>3, <2>2, <2>3 DEF Client!Next, Seen
<1>4. CASE /\ e = Client!Event("content_block_stop", "-", Seen.next - 1)
           /\ Seen.open # Client!NoBlock /\ u = View(Seen.started, Client!NoBlock, Seen.next)
  <2>1. e.kind = "content_block_stop"
    BY <1>4 DEF Client!Event
  <2>2. mstarted' = mstarted /\ mopen' = Client!NoBlock /\ mnext' = mnext
    BY <1>0, <2>1 DEF Sends
  <2>3. Client!BlockStop
    BY <1>0, <1>4, <2>2 DEF Sends, Client!BlockStop
  <2> QED
    BY <1>0, <1>4, <2>2, <2>3 DEF Client!Next, Seen
<1>5. CASE /\ e \in {Client!Plain("message_delta"), Client!Plain("message_stop")}
           /\ Seen.open = Client!NoBlock /\ u = Seen
  <2>1. PICK kind \in {"message_delta", "message_stop"} : e = Client!Plain(kind)
    BY <1>5
  <2>2. e.kind = kind
    BY <2>1 DEF Client!Plain, Client!Event
  <2>3. mstarted' = mstarted /\ mopen' = mopen /\ mnext' = mnext
    BY <1>0, <2>2 DEF Sends
  <2>4. Client!MessageEnd(kind)
    BY <1>0, <1>5, <2>1, <2>3 DEF Sends, Client!MessageEnd
  <2> QED
    BY <1>5, <2>3, <2>4 DEF Client!Next, Seen
<1>6. CASE e = Client!Plain("error") /\ u = Seen
  <2>1. e.kind = "error"
    BY <1>6 DEF Client!Plain, Client!Event
  <2>2. mstarted' = mstarted /\ mopen' = mopen /\ mnext' = mnext
    BY <1>0, <2>1 DEF Sends
  <2>3. Client!Other
    BY <1>6, <2>2 DEF Sends, Client!Other
  <2> QED
    BY <1>6, <2>2, <2>3 DEF Client!Next, Seen
<1>7. CASE e.type \in ArgStates /\ e = Client!Event("call", e.type, Seen.next)
  BY <1>7 DEF Client!Event
<1> QED
  BY <1>1, <1>2, <1>3, <1>4, <1>5, <1>6, <1>7 DEF Moves

LEMMA BridgeYields ==
  ASSUME BridgeInv, MsgYield
  PROVE  BridgeInv' /\ Client!Next
<1> DEFINE e == Head(mtodo)
<1>1. /\ mtodo \in Seq(Entries) /\ mtodo # <<>> /\ Seen \in Views
      /\ ms \in MsStates /\ Slots(ms) /\ flushed \in Seq(CallRecords)
      /\ mgen \in {"run", "ended", "failed"}
  BY DEF BridgeInv, MsgYield
<1>2. PICK w : Leads(mtodo, Seen, w) /\ (mgen # "failed" => w = ViewOf(ms))
  BY DEF BridgeInv
<1>3. PICK u \in Views : Moves(Seen, e, u) /\ Leads(Tail(mtodo), u, w)
  BY <1>1, <1>2, LeadsFirst
<1>4. e \in Entries /\ Tail(mtodo) \in Seq(Entries)
  BY <1>1, HeadTailProperties
<1>5. Sends(Head(Due)) /\ mtodo' = Tail(Due) /\ UNCHANGED <<ms, mgen, flushed>>
  BY DEF MsgYield, Sends
<1>6. /\ Client!Next /\ mtodo' \in Seq(Entries)
      /\ Seen' \in Views /\ Leads(mtodo', Seen', w)
  <2>1. CASE e.kind # "call"
    <3>1. Due = mtodo
      BY <2>1 DEF Due
    <3>2. Client!Next /\ Seen' = u
      BY <1>1, <1>3, <1>5, <2>1, <3>1, SentIsRead
    <3> QED
      BY <1>3, <1>4, <1>5, <3>1, <3>2
  <2>2. CASE e.kind = "call"
    <3> DEFINE first == Head(BlockOf(e))
               rest == Tail(BlockOf(e))
               x == View(Seen.started, "tool_use", Seen.next + 1)
    <3>1. /\ first = Client!Event("content_block_start", "tool_use", Seen.next)
          /\ Seen.open = Client!NoBlock /\ x \in Views /\ rest \in Seq(Entries)
          /\ Leads(rest, x, u) /\ BlockOf(e) = <<first>> \o rest /\ first \in Entries
      BY <1>1, <1>3, <1>4, <2>2, BlockLeads
    <3> HIDE DEF first, rest
    <3>2. Due = (<<first>> \o rest) \o Tail(mtodo)
      BY <2>2, <3>1 DEF Due
    <3>3. Head(Due) = first /\ Tail(Due) = rest \o Tail(mtodo)
      BY <1>4, <3>1, <3>2, SMTT(30)
    <3>4. first.kind = "content_block_start" /\ first.type = "tool_use" /\ "tool_use" \in BlockKinds
      BY <3>1 DEF Client!Event, BlockKinds
    <3>5. Moves(Seen, first, x)
      BY <3>1, <3>4 DEF Moves
    <3>6. Client!Next /\ Seen' = x
      BY <1>1, <1>5, <3>3, <3>4, <3>5, SentIsRead
    <3>7. Leads(rest \o Tail(mtodo), x, w)
      BY <1>3, <1>4, <3>1, LeadsOn
    <3>8. rest \o Tail(mtodo) \in Seq(Entries)
      BY <1>4, <3>1, ConcatProperties
    <3> QED
      BY <1>5, <3>1, <3>3, <3>6, <3>7, <3>8
  <2> QED
    BY <2>1, <2>2
<1>7. \E z : Leads(mtodo, Seen, z)' /\ (mgen' # "failed" => z = ViewOf(ms'))
  BY <1>2, <1>5, <1>6 DEF Leads, Walk
<1> QED
  BY <1>1, <1>5, <1>6, <1>7 DEF BridgeInv, Slots

(* The calls of the upstream are 0, 1, ... in the order they begin.  Those *)
(* sent come first, then those held back, each at its place, with what has *)
(* come of its arguments.                                                  *)
Sent == Len(flushed)
Held == Len(ms.pending)
Coming == {"none", "part", "whole"}

CallsAreCounted ==
  /\ dialect \in Dialects /\ progress \in [Calls -> Coming \cup {"unborn", "over"}]
  /\ Born = 0..(Sent + Held - 1)
SentAreWhole == \A j \in 1..Sent : flushed[j].of = {j - 1} /\ flushed[j].args \in Coming
HeldIsTheCall(k, c) ==
  /\ ms.pending[k].of = {c} /\ ms.pending[k].args = progress[c] /\ progress[c] \in Coming
  /\ ms.pending[k].upstream_id \in {NoName, c}
  /\ dialect = "reusing" => ms.pending[k].upstream_id = c
HeldAreTheCalls == \A k \in 1..Held : HeldIsTheCall(k, Sent + k - 1)
CallsAreFound ==
  mgen = "run" =>
    /\ \A c \in 0..(Sent - 1) : progress[c] = "over"
    /\ dialect # "reusing" => \A i \in Calls :
         ms.current[i] = IF i >= Sent /\ i < Sent + Held THEN i - Sent + 1 ELSE NoCall
    /\ dialect = "reusing" => ms.current[0] = Held
    /\ dialect = "unindexed" /\ Sent + Held > 0 => ms.last = Sent + Held - 1
NoneIsHeldAtTheEnd == mgen = "ended" => ms.pending = <<>>

CallsInv ==
  /\ CallsAreCounted /\ SentAreWhole /\ HeldAreTheCalls /\ CallsAreFound /\ NoneIsHeldAtTheEnd

LEMMA CallsAreThen ==
  ASSUME BridgeInv, CallsInv
  PROVE  CallsAreSentOnce
<1> SUFFICES ASSUME mgen = "ended" PROVE
      /\ \A c \in Born : \E j \in DOMAIN flushed : flushed[j].of = {c}
      /\ Len(flushed) = Cardinality(Born)
      /\ \A j \in DOMAIN flushed : flushed[j].args # "torn"
  BY DEF CallsAreSentOnce
<1>1. ms.pending = <<>> /\ Held = 0
  BY EmptySeq DEF CallsInv, NoneIsHeldAtTheEnd, Held
<1>2. Sent \in Nat /\ DOMAIN flushed = 1..Sent
  BY LenProperties DEF BridgeInv, Sent
<1>3. Born = 0..(Sent - 1)
  BY <1>1, <1>2 DEF CallsInv, CallsAreCounted
<1>4. Cardinality(Born) = Sent
  BY <1>2, <1>3, FS_Interval
<1>5. \A j \in 1..Sent : flushed[j].of = {j - 1} /\ flushed[j].args \in Coming
  BY DEF CallsInv, SentAreWhole
<1>6. ASSUME NEW c \in Born
      PROVE  \E j \in DOMAIN flushed : flushed[j].of = {c}
  <2>1. c + 1 \in 1..Sent /\ (c + 1) - 1 = c
    BY <1>2, <1>3
  <2> QED
    BY <1>2, <1>5, <2>1
<1> QED
  BY <1>2, <1>4, <1>5, <1>6 DEF Sent, Coming

(* What comes of the calls held back when they are sent. *)
LEMMA FlushedAreTheCalls ==
  ASSUME BridgeInv, CallsInv, NEW q, q = flushed \o ms.pending
  PROVE  /\ Len(q) = Sent + Held
         /\ \A j \in 1..(Sent + Held) : q[j].of = {j - 1} /\ q[j].args \in Coming
<1>1. /\ flushed \in Seq(CallRecords) /\ ms.pending \in Seq(CallRecords)
      /\ Sent \in Nat /\ Held \in Nat
  BY LenProperties DEF BridgeInv, MsStates, Sent, Held
<1>2. Len(q) = Sent + Held
  BY <1>1, ConcatProperties DEF Sent, Held
<1>3. ASSUME NEW j \in 1..(Sent + Held)
      PROVE  q[j].of = {j - 1} /\ q[j].args \in Coming
  <2>1. CASE j <= Sent
    <3>1. q[j] = flushed[j] /\ j \in 1..Sent
      BY <1>1, <2>1, ConcatProperties DEF Sent, Held
    <3> QED
      BY <3>1 DEF CallsInv, SentAreWhole
  <2>2. CASE j > Sent
    <3>1. q[j] = ms.pending[j - Sent] /\ j - Sent \in 1..Held /\ Sent + (j - Sent) - 1 = j - 1
      BY <1>1, <2>2, ConcatProperties DEF Sent, Held
    <3>2. HeldIsTheCall(j - Sent, j - 1)
      BY <3>1 DEF CallsInv, HeldAreTheCalls
    <3> QED
      BY <3>1, <3>2 DEF HeldIsTheCall
  <2> QED
    <3>1. j <= Sent \/ j > Sent
      BY <1>1
    <3> QED
      BY <2>1, <2>2, <3>1
<1> QED
  BY <1>2, <1>3

LEMMA CallsFinish ==
  ASSUME BridgeInv, CallsInv, MsgFinish
  PROVE  CallsInv'
<1>1. /\ flushed' = flushed \o ms.pending /\ ms'.pending = <<>> /\ mgen' = "ended"
      /\ UNCHANGED <<dialect, progress>>
  BY BridgeFinishes DEF MsgFinish, chunkVars
<1>2. Sent' = Sent + Held /\ Held' = 0 /\ Sent \in Nat /\ Held \in Nat
  BY <1>1, FlushedAreTheCalls, EmptySeq, LenProperties DEF Sent, Held, BridgeInv, MsStates
<1>3. Born' = Born
  BY <1>1 DEF Born
<1>4. CallsAreCounted'
  BY <1>1, <1>2, <1>3 DEF CallsAreCounted, CallsInv
<1>5. SentAreWhole'
  BY <1>1, <1>2, FlushedAreTheCalls DEF SentAreWhole
<1> QED
  BY <1>1, <1>2, <1>4, <1>5 DEF CallsInv, HeldAreTheCalls, CallsAreFound, NoneIsHeldAtTheEnd

LEMMA CallsSpeak ==
  ASSUME BridgeInv, CallsInv, NEW kind \in {"thinking", "text"}, MsgSays(kind)
  PROVE  CallsInv'
<1> DEFINE st == Speak(MsgStarted, kind)
<1>1. /\ Good(MsgStarted, Seen) /\ Slots(MsgStarted) /\ MsgStarted.pending = ms.pending
      /\ MsgStarted.flushed = flushed /\ MsgStarted.last = ms.last /\ MsgStarted.current = ms.current
  BY PullingIsGood DEF MsgSays
<1>2. /\ st.pending = <<>> /\ st.flushed = flushed \o ms.pending /\ st.last = ms.last
      /\ st.current = IF ms.pending = <<>> THEN ms.current ELSE [i \in Calls |-> NoCall]
  <2>1. /\ st.pending = <<>> /\ st.flushed = MsgStarted.flushed \o MsgStarted.pending
        /\ st.last = MsgStarted.last
        /\ st.current = IF MsgStarted.pending = <<>> THEN MsgStarted.current
                        ELSE [i \in Calls |-> NoCall]
    BY <1>1, SpeakGood
  <2> HIDE DEF st
  <2> QED
    BY <1>1, <2>1
<1>3. MsgBecame(st) /\ mgen' = mgen /\ mgen = "run" /\ Speech
  BY DEF MsgSays, MsgPulling
<1> HIDE DEF st
<1>4. /\ ms'.pending = <<>> /\ flushed' = flushed \o ms.pending /\ ms'.last = ms.last
      /\ ms'.current = IF ms.pending = <<>> THEN ms.current ELSE [i \in Calls |-> NoCall]
  BY <1>2, <1>3 DEF MsgBecame
<1>5. /\ dialect' = dialect
      /\ progress' = [c \in Calls |-> IF c \in Born THEN "over" ELSE progress[c]]
  BY <1>3 DEF Speech
<1>6. Sent' = Sent + Held /\ Held' = 0 /\ Sent \in Nat /\ Held \in Nat
  BY <1>4, FlushedAreTheCalls, EmptySeq, LenProperties DEF Sent, Held, BridgeInv, MsStates
<1>7. Born' = Born /\ Born = 0..(Sent + Held - 1) /\ Born \subseteq Calls
  BY <1>5 DEF Born, CallsInv, CallsAreCounted
<1>8. CallsAreCounted'
  BY <1>5, <1>6, <1>7 DEF CallsAreCounted, CallsInv
<1>9. SentAreWhole'
  BY <1>4, <1>6, FlushedAreTheCalls DEF SentAreWhole
<1>10. \A c \in 0..(Sent' - 1) : progress'[c] = "over"
  BY <1>5, <1>6, <1>7
<1>11. ASSUME NEW i \in Calls, dialect # "reusing"
       PROVE  ms'.current[i] = NoCall
  <2>1. CASE ms.pending = <<>>
    <3>1. Held = 0
      BY <2>1, EmptySeq DEF Held
    <3>2. \A x \in Calls :
            ms.current[x] = IF x >= Sent /\ x < Sent + Held THEN x - Sent + 1 ELSE NoCall
      BY <1>3, <1>11 DEF CallsInv, CallsAreFound
    <3>3. i \in Int
      BY ChunksAssumption DEF Calls
    <3> QED
      BY <1>4, <1>6, <2>1, <3>1, <3>2, <3>3
  <2>2. CASE ms.pending # <<>>
    BY <1>4, <2>2
  <2> QED
    BY <2>1, <2>2
<1>12. ASSUME dialect = "reusing"
       PROVE  ms'.current[0] = 0
  <2>1. CASE ms.pending = <<>>
    <3>1. Held = 0
      BY <2>1, EmptySeq DEF Held
    <3> QED
      BY <1>3, <1>4, <1>12, <2>1, <3>1 DEF CallsInv, CallsAreFound
  <2>2. CASE ms.pending # <<>>
    <3>1. 0 \in Calls
      BY ChunksAssumption DEF Calls
    <3> QED
      BY <1>4, <2>2, <3>1 DEF NoCall
  <2> QED
    BY <2>1, <2>2
<1>13. Sent' + Held' = Sent + Held
  BY <1>6
<1>14. CallsAreFound'
  <2>1. ASSUME dialect # "reusing", NEW i \in Calls
        PROVE  ms'.current[i] = IF i >= Sent' /\ i < Sent' + Held' THEN i - Sent' + 1 ELSE NoCall
    <3>1. i \in Int /\ Sent' \in Int
      BY <1>6, ChunksAssumption DEF Calls
    <3> QED
      BY <1>6, <1>11, <2>1, <3>1
  <2>2. dialect = "unindexed" /\ Sent' + Held' > 0 => ms'.last = Sent' + Held' - 1
    <3>1. dialect = "unindexed" /\ Sent + Held > 0 => ms.last = Sent + Held - 1
      BY <1>3 DEF CallsInv, CallsAreFound
    <3>2. ms'.last = ms.last
      BY <1>4
    <3> QED
      BY <1>6, <3>1, <3>2
  <2> QED
    BY <1>3, <1>5, <1>6, <1>10, <1>12, <2>1, <2>2 DEF CallsAreFound
<1> QED
  BY <1>4, <1>6, <1>8, <1>9, <1>14 DEF CallsInv, HeldAreTheCalls, NoneIsHeldAtTheEnd

LEMMA LatestIsLast ==
  ASSUME NEW n \in Nat, n > 0, Born = 0..(n - 1)
  PROVE  Latest = n - 1
<1>1. n - 1 \in Born /\ \A y \in Born : n - 1 >= y
  OBVIOUS
<1>2. \A x \in Born : (\A y \in Born : x >= y) => x = n - 1
  BY <1>1
<1> QED
  BY <1>1, <1>2 DEF Latest, Max

(* A fragment of a call that has begun is recorded with that call. *)
LEMMA FragmentFindsItsCall ==
  ASSUME BridgeInv, CallsInv, mgen = "run", NEW f \in Fragment, f \in FragmentsOf(f.of), f.of \in Born
  PROVE  LET k == f.of - Sent + 1
         IN  /\ k \in 1..Held /\ ms.current[SlotOf(ms, f)] = k /\ ~IsAnother(ms, f)
             /\ SlotOf(ms, f) \in Calls
             /\ f.id \in {f.of, NoName} /\ progress[f.of] \in Coming
             /\ AddArguments(progress[f.of], f.args) = Now(f.args) /\ Now(f.args) \in Coming
             /\ (dialect = "unindexed" => SlotOf(ms, f) = Sent + Held - 1)
<1> DEFINE c == f.of
           k == c - Sent + 1
<1>1. Sent \in Nat /\ Held \in Nat /\ Born = 0..(Sent + Held - 1) /\ c \in Calls /\ c \in Int
  <2>1. c \in Calls
    BY DEF Fragment
  <2> QED
    BY <2>1, LenProperties, ChunksAssumption
       DEF BridgeInv, MsStates, Sent, Held, CallsInv, CallsAreCounted, Calls
<1>2. /\ InTurn(c) /\ f.index = IndexOf(c) /\ f.id \in IdsOf(c) /\ f.args \in ArgsOf(c)
  BY DEF FragmentsOf
<1>3. c >= 0 /\ c < Sent + Held
  BY <1>1
<1>4. progress[c] # "over" /\ progress[c] # "unborn"
  BY <1>2 DEF ArgsOf, Born
<1>5. k \in 1..Held
  <2>1. \A x \in 0..(Sent - 1) : progress[x] = "over"
    BY DEF CallsInv, CallsAreFound
  <2>2. c >= Sent
    BY <1>1, <1>3, <1>4, <2>1
  <2> QED
    BY <1>1, <1>3, <2>2
<1>6. HeldIsTheCall(k, c)
  <2>1. Sent + k - 1 = c
    BY <1>1
  <2> HIDE DEF k
  <2> QED
    BY <1>5, <2>1 DEF CallsInv, HeldAreTheCalls
<1>7. f.id \in {c, NoName}
  BY <1>2 DEF IdsOf
<1>8. c = Sent + Held - 1 \/ dialect \in {"indexed", "restating"}
  <2>1. Latest = Sent + Held - 1
    BY <1>1, <1>3, LatestIsLast
  <2> QED
    BY <1>2, <2>1 DEF InTurn
<1>9. /\ ms.current[SlotOf(ms, f)] = k /\ SlotOf(ms, f) \in Calls
      /\ (dialect = "unindexed" => SlotOf(ms, f) = Sent + Held - 1)
  <2>1. CASE dialect = "reusing"
    <3>1. f.index = 0 /\ SlotOf(ms, f) = 0 /\ 0 \in Calls
      BY <1>2, <2>1, ChunksAssumption DEF IndexOf, SlotOf, Missing, Calls
    <3>2. ms.current[0] = Held
      BY <2>1 DEF CallsInv, CallsAreFound
    <3>3. c = Sent + Held - 1
      BY <1>8, <2>1
    <3>4. k = Held
      BY <1>1, <3>3
    <3> HIDE DEF c, k
    <3> QED
      BY <2>1, <3>1, <3>2, <3>4
  <2>2. CASE dialect # "reusing"
    <3>1. ms.current[c] = k
      <4>1. ms.current[c] = IF c >= Sent /\ c < Sent + Held THEN c - Sent + 1 ELSE NoCall
        BY <1>1, <2>2 DEF CallsInv, CallsAreFound
      <4> QED
        BY <1>1, <1>3, <1>5, <4>1
    <3>2. SlotOf(ms, f) = c
      <4>1. CASE dialect = "unindexed"
        <5>1. f.index = Missing /\ ms.last = Sent + Held - 1
          BY <1>1, <1>2, <1>3, <4>1 DEF IndexOf, CallsInv, CallsAreFound
        <5> QED
          BY <1>1, <1>3, <1>8, <4>1, <5>1 DEF SlotOf, Missing
      <4>2. CASE dialect # "unindexed"
        <5>1. f.index = c
          BY <1>2, <2>2, <4>2 DEF IndexOf
        <5> QED
          BY <1>1, <1>3, <5>1 DEF SlotOf, Missing
      <4> QED
        BY <4>1, <4>2
    <3> QED
      BY <1>1, <1>8, <3>1, <3>2
  <2> QED
    BY <2>1, <2>2
<1>10. ~IsAnother(ms, f)
  <2>1. ms.pending[k].upstream_id \in {NoName, c} /\ k # NoCall
    BY <1>5, <1>6 DEF HeldIsTheCall, NoCall
  <2> HIDE DEF k
  <2> QED
    BY <1>7, <1>9, <2>1 DEF IsAnother
<1>11. /\ progress[c] \in Coming
       /\ AddArguments(progress[c], f.args) = Now(f.args) /\ Now(f.args) \in Coming
  <2>1. progress[c] \in Coming
    BY <1>6 DEF HeldIsTheCall
  <2> QED
    BY <1>2, <2>1 DEF ArgsOf, AddArguments, Now, Coming
<1> QED
  BY <1>5, <1>7, <1>9, <1>10, <1>11

(* The first fragment of a call begins a call of the bridge. *)
LEMMA FirstFragmentIsAnother ==
  ASSUME BridgeInv, CallsInv, mgen = "run", NEW f \in Fragment, f \in FragmentsOf(f.of), f.of \notin Born
  PROVE  /\ f.of = Sent + Held /\ IsAnother(ms, f)
         /\ SlotOf(ms, f) = (IF dialect = "reusing" THEN 0 ELSE f.of)
         /\ f.id \in {f.of, NoName} /\ (dialect = "reusing" => f.id = f.of)
         /\ f.args \in Coming /\ Now(f.args) = f.args
<1> DEFINE c == f.of
<1>1. /\ Sent \in Nat /\ Held \in Nat /\ Born = 0..(Sent + Held - 1) /\ c \in Calls /\ c \in Nat
      /\ progress \in [Calls -> Coming \cup {"unborn", "over"}]
  <2>1. c \in Calls
    BY DEF Fragment
  <2> QED
    BY <2>1, LenProperties, ChunksAssumption
       DEF BridgeInv, MsStates, Sent, Held, CallsInv, CallsAreCounted, Calls
<1>2. /\ InTurn(c) /\ f.index = IndexOf(c) /\ f.id \in IdsOf(c) /\ f.args \in ArgsOf(c)
  BY DEF FragmentsOf
<1>3. c = Sent + Held
  <2>1. Cardinality(Born) = Sent + Held
    BY <1>1, FS_Interval
  <2> QED
    BY <1>2, <2>1 DEF InTurn
<1>4. SlotOf(ms, f) = IF dialect = "reusing" THEN 0 ELSE c
  BY <1>1, <1>2 DEF IndexOf, SlotOf, Missing
<1>5. f.id \in {c, NoName} /\ (dialect = "reusing" => f.id = c)
  BY <1>2 DEF IdsOf
<1>6. f.args \in Coming /\ Now(f.args) = f.args
  <2>1. progress[c] = "unborn"
    BY <1>1 DEF Born
  <2> QED
    BY <1>2, <2>1 DEF ArgsOf, Coming, Now
<1>7. IsAnother(ms, f)
  <2>1. CASE dialect = "reusing"
    <3>1. ms.current[0] = Held
      BY <2>1 DEF CallsInv, CallsAreFound
    <3>2. CASE Held = 0
      BY <1>4, <2>1, <3>1, <3>2 DEF IsAnother, NoCall
    <3>3. CASE Held # 0
      <4>1. HeldIsTheCall(Held, Sent + Held - 1)
        BY <1>1, <3>3 DEF CallsInv, HeldAreTheCalls
      <4>2. ms.pending[Held].upstream_id = Sent + Held - 1
        BY <2>1, <4>1 DEF HeldIsTheCall
      <4>3. f.id = Sent + Held /\ f.id # NoName /\ Sent + Held - 1 # NoName
        BY <1>1, <1>3, <1>5, <2>1, <3>3 DEF NoName
      <4>4. ms.pending[Held].upstream_id \notin {NoName, f.id}
        BY <1>1, <4>2, <4>3
      <4> QED
        BY <1>4, <2>1, <3>1, <4>3, <4>4 DEF IsAnother
    <3> QED
      BY <3>2, <3>3
  <2>2. CASE dialect # "reusing"
    <3>1. ms.current[c] = IF c >= Sent /\ c < Sent + Held THEN c - Sent + 1 ELSE NoCall
      BY <1>1, <2>2 DEF CallsInv, CallsAreFound
    <3>2. ms.current[c] = NoCall
      BY <1>1, <1>3, <3>1
    <3> QED
      BY <1>4, <2>2, <3>2 DEF IsAnother
  <2> QED
    BY <2>1, <2>2
<1> QED
  BY <1>3, <1>4, <1>5, <1>6, <1>7

(* What a chunk with a fragment changes. *)
LEMMA RecordedIs ==
  ASSUME BridgeInv, NEW f \in Fragment, MsgCallChunk(f)
  PROVE  LET i == SlotOf(ms, f)
             k == ms.current[i]
         IN  /\ mgen = "run" /\ mgen' = "run" /\ dialect' = dialect
             /\ f \in FragmentsOf(f.of) /\ progress' = [progress EXCEPT ![f.of] = Now(f.args)]
             /\ flushed' = flushed /\ ms'.last = i /\ i \in Calls
             /\ IF IsAnother(ms, f)
                THEN /\ ms'.pending = Append(ms.pending, [upstream_id |-> f.id, of |-> {f.of}, args |-> f.args])
                     /\ ms'.current = [ms.current EXCEPT ![i] = Held + 1]
                ELSE /\ k \in 1..Held /\ ms'.current = ms.current
                     /\ ms'.pending = [ms.pending EXCEPT ![k] =
                          [upstream_id |-> IF f.id # NoName THEN f.id ELSE ms.pending[k].upstream_id,
                           of |-> ms.pending[k].of \cup {f.of},
                           args |-> AddArguments(ms.pending[k].args, f.args)]]
<1> DEFINE begun == MessageStart(MsgStarted)
           st == RecordToolCall(begun, f)
<1>1. /\ Good(MsgStarted, Seen) /\ Slots(MsgStarted) /\ MsgStarted.pending = ms.pending
      /\ MsgStarted.flushed = flushed /\ MsgStarted.last = ms.last /\ MsgStarted.current = ms.current
  BY PullingIsGood DEF MsgCallChunk
<1>2. /\ Good(begun, Seen) /\ begun.pending = ms.pending /\ begun.last = ms.last
      /\ begun.current = ms.current /\ begun.flushed = flushed
  BY <1>1, StartGood
<1>3. MsgBecame(st) /\ mgen' = mgen /\ mgen = "run" /\ CallFragment(f)
  BY DEF MsgCallChunk, MsgPulling
<1> HIDE DEF begun
<1>4. Slots(begun)
  BY <1>1, <1>2 DEF Slots
<1>5. SlotOf(begun, f) = SlotOf(ms, f) /\ (IsAnother(begun, f) <=> IsAnother(ms, f))
  BY <1>2 DEF SlotOf, IsAnother
<1>6. LET i == SlotOf(begun, f)
          k == begun.current[i]
      IN  /\ st.flushed = begun.flushed /\ st.last = i /\ i \in Calls
          /\ IF IsAnother(begun, f)
             THEN /\ st.pending = Append(begun.pending, [upstream_id |-> f.id, of |-> {f.of}, args |-> f.args])
                  /\ st.current = [begun.current EXCEPT ![i] = Len(begun.pending) + 1]
             ELSE /\ k \in 1..Len(begun.pending) /\ st.current = begun.current
                  /\ st.pending = [begun.pending EXCEPT ![k] =
                       [upstream_id |-> IF f.id # NoName THEN f.id ELSE begun.pending[k].upstream_id,
                        of |-> begun.pending[k].of \cup {f.of},
                        args |-> AddArguments(begun.pending[k].args, f.args)]]
  BY <1>2, <1>4, RecordGood, SMTT(30)
<1> HIDE DEF st
<1>7. ms'.pending = st.pending /\ ms'.current = st.current /\ ms'.last = st.last /\ flushed' = st.flushed
  BY <1>3 DEF MsgBecame
<1>8. /\ dialect' = dialect /\ f \in FragmentsOf(f.of)
      /\ progress' = [progress EXCEPT ![f.of] = Now(f.args)]
  BY <1>3 DEF CallFragment
<1> QED
  BY <1>2, <1>3, <1>5, <1>6, <1>7, <1>8 DEF Held

LEMMA CallsRecord ==
  ASSUME BridgeInv, CallsInv, NEW f \in Fragment, MsgCallChunk(f)
  PROVE  CallsInv'
<1> DEFINE c == f.of
           i == SlotOf(ms, f)
<1>1. /\ mgen = "run" /\ mgen' = "run" /\ dialect' = dialect /\ f \in FragmentsOf(c)
      /\ progress' = [progress EXCEPT ![c] = Now(f.args)]
      /\ flushed' = flushed /\ ms'.last = i /\ i \in Calls
  BY RecordedIs
<1>2. /\ Sent \in Nat /\ Held \in Nat /\ Sent' = Sent /\ c \in Calls /\ c \in Nat
      /\ Born = 0..(Sent + Held - 1) /\ progress \in [Calls -> Coming \cup {"unborn", "over"}]
      /\ ms.pending \in Seq(CallRecords) /\ DOMAIN ms.pending = 1..Held
      /\ ms.current \in [Calls -> Nat] /\ dialect \in Dialects
  <2>1. c \in Calls
    BY DEF Fragment
  <2> QED
    BY <1>1, <2>1, LenProperties, ChunksAssumption
       DEF BridgeInv, MsStates, Sent, Held, CallsInv, CallsAreCounted, Calls
<1>3. SentAreWhole'
  BY <1>1, <1>2 DEF CallsInv, SentAreWhole
<1>4. NoneIsHeldAtTheEnd'
  BY <1>1 DEF NoneIsHeldAtTheEnd
<1>5. CASE c \in Born
  <2> DEFINE k == c - Sent + 1
             grown == [upstream_id |-> IF f.id # NoName THEN f.id ELSE ms.pending[k].upstream_id,
                       of |-> ms.pending[k].of \cup {f.of},
                       args |-> AddArguments(ms.pending[k].args, f.args)]
  <2>1. /\ k \in 1..Held /\ ms.current[i] = k /\ ~IsAnother(ms, f)
        /\ f.id \in {c, NoName} /\ progress[c] \in Coming
        /\ AddArguments(progress[c], f.args) = Now(f.args) /\ Now(f.args) \in Coming
        /\ (dialect = "unindexed" => i = Sent + Held - 1)
    BY <1>1, <1>5, FragmentFindsItsCall
  <2>2. ms'.current = ms.current /\ ms'.pending = [ms.pending EXCEPT ![k] = grown]
    BY <2>1, RecordedIs
  <2>3. HeldIsTheCall(k, c)
    <3>1. Sent + k - 1 = c
      BY <1>2
    <3> HIDE DEF k
    <3> QED
      BY <2>1, <3>1 DEF CallsInv, HeldAreTheCalls
  <2>4. /\ grown.of = {c} /\ grown.args = Now(f.args) /\ grown.upstream_id \in {NoName, c}
        /\ (dialect = "reusing" => grown.upstream_id = c)
    BY <2>1, <2>3 DEF HeldIsTheCall
  <2> HIDE DEF grown
  <2>5. Len(ms'.pending) = Held /\ Held' = Held
    BY <1>2, <2>2 DEF Held
  <2>6. ms'.pending[k] = grown /\ \A x \in 1..Held : x # k => ms'.pending[x] = ms.pending[x]
    BY <1>2, <2>1, <2>2
  <2>7. progress'[c] = Now(f.args) /\ \A x \in Calls : x # c => progress'[x] = progress[x]
    BY <1>1, <1>2
  <2>8. Born' = Born
    <3>1. \A x \in Calls : progress'[x] # "unborn" <=> progress[x] # "unborn"
      BY <1>2, <2>1, <2>7 DEF Coming
    <3> QED
      BY <3>1 DEF Born
  <2>9. CallsAreCounted'
    <3>1. progress' \in [Calls -> Coming \cup {"unborn", "over"}]
      BY <1>1, <1>2, <2>1
    <3> QED
      BY <1>1, <1>2, <2>5, <2>8, <3>1 DEF CallsAreCounted
  <2>10. HeldAreTheCalls'
    <3>1. ASSUME NEW x \in 1..Held
          PROVE  HeldIsTheCall(x, Sent + x - 1)'
      <4>1. CASE x = k
        <5>1. Sent + x - 1 = c
          BY <1>2, <4>1
        <5>2. ms'.pending[x] = grown
          BY <2>6, <4>1
        <5>3. HeldIsTheCall(x, c)'
          BY <1>1, <2>1, <2>4, <2>7, <5>2 DEF HeldIsTheCall
        <5> QED
          BY <1>2, <5>1, <5>3
      <4>2. CASE x # k
        <5>1. Sent + x - 1 # c /\ Sent + x - 1 \in Calls
          <6>1. Born \subseteq Calls
            BY DEF Born
          <6>2. Sent + x - 1 \in Born
            BY <1>2
          <6>3. Sent + x - 1 # c
            BY <1>2, <4>2
          <6> QED
            BY <6>1, <6>2, <6>3
        <5>2. HeldIsTheCall(x, Sent + x - 1)
          BY DEF CallsInv, HeldAreTheCalls
        <5>3. ms'.pending[x] = ms.pending[x] /\ progress'[Sent + x - 1] = progress[Sent + x - 1]
          BY <2>6, <2>7, <4>2, <5>1
        <5> QED
          BY <1>1, <1>2, <5>2, <5>3 DEF HeldIsTheCall
      <4> QED
        BY <4>1, <4>2
    <3> QED
      BY <1>2, <2>5, <3>1 DEF HeldAreTheCalls
  <2>11. CallsAreFound'
    <3>1. c >= Sent
      BY <1>2, <2>1
    <3>2. \A x \in 0..(Sent - 1) : progress'[x] = "over"
      <4>1. \A x \in 0..(Sent - 1) : progress[x] = "over" /\ x # c /\ x \in Calls
        <5>1. Born \subseteq Calls
          BY DEF Born
        <5> QED
          BY <1>1, <1>2, <3>1, <5>1 DEF CallsInv, CallsAreFound
      <4> QED
        BY <2>7, <4>1
    <3>3. dialect = "unindexed" => ms'.last = Sent + Held - 1
      BY <1>1, <2>1
    <3> QED
      BY <1>1, <1>2, <2>2, <2>5, <3>2, <3>3 DEF CallsInv, CallsAreFound
  <2> QED
    BY <1>3, <1>4, <2>9, <2>10, <2>11 DEF CallsInv
<1>6. CASE c \notin Born
  <2> DEFINE fresh == [upstream_id |-> f.id, of |-> {c}, args |-> f.args]
  <2>1. /\ c = Sent + Held /\ IsAnother(ms, f) /\ i = (IF dialect = "reusing" THEN 0 ELSE c)
        /\ f.id \in {c, NoName} /\ (dialect = "reusing" => f.id = c)
        /\ f.args \in Coming /\ Now(f.args) = f.args
    BY <1>1, <1>6, FirstFragmentIsAnother
  <2>2. ms'.pending = Append(ms.pending, fresh) /\ ms'.current = [ms.current EXCEPT ![i] = Held + 1]
    BY <2>1, RecordedIs
  <2>3. fresh.of = {c} /\ fresh.args = f.args /\ fresh.upstream_id = f.id
    OBVIOUS
  <2> HIDE DEF fresh
  <2>4. /\ Held' = Held + 1 /\ ms'.pending[Held + 1] = fresh
        /\ \A x \in 1..Held : ms'.pending[x] = ms.pending[x]
    BY <1>2, <2>2 DEF Held
  <2>5. progress'[c] = f.args /\ \A x \in Calls : x # c => progress'[x] = progress[x]
    BY <1>1, <1>2, <2>1
  <2>6. Born' = 0..(Sent + Held)
    <3>1. Born' = Born \cup {c}
      <4>1. \A x \in Calls : progress'[x] # "unborn" <=> (progress[x] # "unborn" \/ x = c)
        BY <2>1, <2>5 DEF Coming
      <4> QED
        BY <1>2, <4>1 DEF Born
    <3> QED
      BY <1>2, <2>1, <3>1
  <2>7. CallsAreCounted'
    <3>1. progress' \in [Calls -> Coming \cup {"unborn", "over"}]
      BY <1>1, <1>2, <2>1
    <3>2. Sent' + Held' - 1 = Sent + Held
      BY <1>2, <2>4
    <3> QED
      BY <1>1, <1>2, <2>6, <3>1, <3>2 DEF CallsAreCounted
  <2>8. HeldAreTheCalls'
    <3>1. ASSUME NEW x \in 1..(Held + 1)
          PROVE  HeldIsTheCall(x, Sent + x - 1)'
      <4>1. CASE x = Held + 1
        <5>1. Sent + x - 1 = c
          BY <1>2, <2>1, <4>1
        <5>2. HeldIsTheCall(x, c)'
          BY <1>1, <2>1, <2>3, <2>4, <2>5, <4>1 DEF HeldIsTheCall
        <5> QED
          BY <1>2, <5>1, <5>2
      <4>2. CASE x \in 1..Held
        <5>1. Sent + x - 1 # c /\ Sent + x - 1 \in Calls
          <6>1. Born \subseteq Calls
            BY DEF Born
          <6>2. Sent + x - 1 \in Born
            BY <1>2, <4>2
          <6>3. Sent + x - 1 # c
            BY <1>2, <2>1, <4>2
          <6> QED
            BY <6>1, <6>2, <6>3
        <5>2. HeldIsTheCall(x, Sent + x - 1)
          BY <4>2 DEF CallsInv, HeldAreTheCalls
        <5>3. ms'.pending[x] = ms.pending[x] /\ progress'[Sent + x - 1] = progress[Sent + x - 1]
          BY <2>4, <2>5, <4>2, <5>1
        <5> QED
          BY <1>1, <1>2, <5>2, <5>3 DEF HeldIsTheCall
      <4> QED
        BY <1>2, <4>1, <4>2
    <3> QED
      BY <1>2, <2>4, <3>1 DEF HeldAreTheCalls
  <2>9. CallsAreFound'
    <3>1. \A x \in 0..(Sent - 1) : progress'[x] = "over"
      <4>1. \A x \in 0..(Sent - 1) : progress[x] = "over" /\ x # c /\ x \in Calls
        <5>1. \A x \in 0..(Sent - 1) : progress[x] = "over"
          BY <1>1 DEF CallsInv, CallsAreFound
        <5>2. \A x \in 0..(Sent - 1) : x # c
          BY <1>2, <2>1
        <5>3. \A x \in 0..(Sent - 1) : x \in Calls
          <6>1. Born \subseteq Calls
            BY DEF Born
          <6>2. \A x \in 0..(Sent - 1) : x \in Born
            BY <1>2
          <6> QED
            BY <6>1, <6>2
        <5> QED
          BY <5>1, <5>2, <5>3
      <4> QED
        BY <2>5, <4>1
    <3>2. ASSUME dialect # "reusing", NEW x \in Calls
          PROVE  ms'.current[x] = IF x >= Sent /\ x < Sent + (Held + 1) THEN x - Sent + 1 ELSE NoCall
      <4>1. ms.current[x] = IF x >= Sent /\ x < Sent + Held THEN x - Sent + 1 ELSE NoCall
        BY <1>1, <3>2 DEF CallsInv, CallsAreFound
      <4>2. ms'.current[x] = IF x = c THEN Held + 1 ELSE ms.current[x]
        BY <1>2, <2>1, <2>2, <3>2
      <4>3. x \in Nat
        BY ChunksAssumption DEF Calls
      <4>4. CASE x = c
        <5>1. Sent <= c /\ c < Sent + (Held + 1) /\ c - Sent + 1 = Held + 1
          BY <1>2, <2>1
        <5> QED
          BY <4>2, <4>4, <5>1
      <4>5. CASE x # c
        <5>1. x >= Sent /\ x < Sent + Held <=> x >= Sent /\ x < Sent + (Held + 1)
          BY <1>2, <2>1, <4>3, <4>5
        <5> QED
          BY <4>1, <4>2, <4>5, <5>1
      <4> QED
        BY <4>4, <4>5
    <3>3. dialect = "reusing" => ms'.current[0] = Held + 1
      BY <1>1, <1>2, <2>1, <2>2
    <3>4. dialect = "unindexed" => ms'.last = Sent + (Held + 1) - 1
      BY <1>1, <1>2, <2>1
    <3> QED
      BY <1>1, <1>2, <2>4, <3>1, <3>2, <3>3, <3>4 DEF CallsAreFound
  <2> QED
    BY <1>3, <1>4, <2>7, <2>8, <2>9 DEF CallsInv
<1> QED
  BY <1>5, <1>6

LEMMA BridgeInits ==
  ASSUME MsgInit
  PROVE  BridgeInv /\ CallsInv /\ Client!Init
<1>1. /\ Client!Init /\ mtodo = <<>> /\ mgen = "run" /\ flushed = <<>>
      /\ ms = [open_kind |-> Client!NoBlock, open_index |-> -1, pending |-> <<>>,
               current |-> [i \in Calls |-> NoCall], last |-> Missing, started |-> FALSE]
  BY DEF MsgInit
<1>2. ms \in MsStates /\ Slots(ms)
  <2>1. [i \in Calls |-> NoCall] \in [Calls -> Nat] /\ <<>> \in Seq(CallRecords)
    BY EmptySeq DEF NoCall
  <2> QED
    BY <1>1, <2>1 DEF MsStates, Slots, NoCall
<1>3. Seen = View(FALSE, Client!NoBlock, 0) /\ Seen \in Views
  BY <1>1 DEF Seen, View, Views, Client!Init
<1>4. ViewOf(ms) = Seen
  BY <1>1, <1>3 DEF ViewOf
<1>5. Leads(mtodo, Seen, ViewOf(ms))
  BY <1>1, <1>3, <1>4, LeadsNowhere
<1>6. dialect \in Dialects /\ progress = [c \in Calls |-> "unborn"]
  BY DEF MsgInit, ChunksInit
<1>7. Sent = 0 /\ Held = 0 /\ Born = {}
  BY <1>1, <1>6, EmptySeq DEF Sent, Held, Born
<1>8. ms.pending = <<>> /\ ms.current = [i \in Calls |-> NoCall] /\ 0 \in Calls
  BY <1>1, ChunksAssumption DEF Calls
<1>9. CallsAreCounted
  BY <1>6, <1>7 DEF CallsAreCounted
<1>10. SentAreWhole /\ HeldAreTheCalls
  BY <1>7 DEF SentAreWhole, HeldAreTheCalls
<1>11. CallsAreFound
  BY <1>7, <1>8, ChunksAssumption DEF CallsAreFound, Calls, NoCall
<1> QED
  BY <1>1, <1>2, <1>3, <1>5, <1>9, <1>10, <1>11, EmptySeq DEF BridgeInv, CallsInv, NoneIsHeldAtTheEnd

LEMMA BridgeSteps ==
  ASSUME BridgeInv, CallsInv, [MsgNext]_msgVars
  PROVE  BridgeInv' /\ CallsInv' /\ [Client!Next]_Client!vars
<1>0. ASSUME UNCHANGED <<dialect, progress, ms, mgen, flushed>>
      PROVE  CallsInv'
  <2>1. Sent' = Sent /\ Held' = Held /\ Born' = Born
    BY <1>0 DEF Sent, Held, Born
  <2>2. CallsAreCounted' /\ SentAreWhole' /\ CallsAreFound' /\ NoneIsHeldAtTheEnd'
    BY <1>0, <2>1
       DEF CallsInv, CallsAreCounted, SentAreWhole, CallsAreFound, NoneIsHeldAtTheEnd
  <2>3. HeldAreTheCalls'
    BY <1>0, <2>1 DEF CallsInv, HeldAreTheCalls, HeldIsTheCall
  <2> QED
    BY <2>2, <2>3 DEF CallsInv
<1>1. ASSUME NEW kind \in {"thinking", "text"}, MsgSays(kind)
      PROVE  BridgeInv' /\ CallsInv' /\ [Client!Next]_Client!vars
  BY <1>1, BridgeSays, CallsSpeak DEF Client!vars
<1>2. ASSUME NEW f \in Fragment, MsgCallChunk(f)
      PROVE  BridgeInv' /\ CallsInv' /\ [Client!Next]_Client!vars
  BY <1>2, BridgeRecords, CallsRecord DEF Client!vars
<1>3. CASE MsgFinish
  BY <1>3, BridgeFinishes, CallsFinish DEF Client!vars
<1>4. CASE MsgRaised
  <2>1. CallsInv'
    <3>1. UNCHANGED <<dialect, progress, ms, flushed>> /\ mgen' = "failed"
      BY <1>4 DEF MsgRaised, chunkVars
    <3>2. Sent' = Sent /\ Held' = Held /\ Born' = Born
      BY <3>1 DEF Sent, Held, Born
    <3>3. CallsAreCounted' /\ SentAreWhole' /\ CallsAreFound' /\ NoneIsHeldAtTheEnd'
      BY <3>1, <3>2
         DEF CallsInv, CallsAreCounted, SentAreWhole, CallsAreFound, NoneIsHeldAtTheEnd
    <3>4. HeldAreTheCalls'
      BY <3>1, <3>2 DEF CallsInv, HeldAreTheCalls, HeldIsTheCall
    <3> QED
      BY <3>3, <3>4 DEF CallsInv
  <2> QED
    BY <1>4, <2>1, BridgeRaises DEF Client!vars
<1>5. CASE MsgYield
  <2>1. UNCHANGED <<dialect, progress, ms, mgen, flushed>>
    BY <1>5 DEF MsgYield, chunkVars
  <2> QED
    BY <1>0, <1>5, <2>1, BridgeYields
<1>6. CASE UNCHANGED msgVars
  <2>1. UNCHANGED <<dialect, progress, ms, mtodo, mgen, flushed, mstarted, mopen, mnext, msent>>
    BY <1>6 DEF msgVars, chunkVars
  <2>2. Seen' = Seen
    BY <2>1 DEF Seen
  <2>3. PICK w : Leads(mtodo, Seen, w) /\ (mgen # "failed" => w = ViewOf(ms))
    BY DEF BridgeInv
  <2>4. Leads(mtodo', Seen', w)
    BY <2>1, <2>2, <2>3
  <2>5. \E z : Leads(mtodo, Seen, z)' /\ (mgen' # "failed" => z = ViewOf(ms'))
    BY <2>1, <2>3, <2>4 DEF Leads, Walk
  <2> QED
    BY <1>0, <2>1, <2>2, <2>5 DEF BridgeInv, Slots, Client!vars
<1> QED
  BY <1>1, <1>2, <1>3, <1>4, <1>5, <1>6 DEF MsgNext

(***************************************************************************)
(* However many calls and chunks, and in every dialect: at the end of the  *)
(* stream each call of the upstream has been sent once, as a block of its  *)
(* own whose arguments are its own (_record_tool_call_delta,               *)
(* _flush_tool_calls).                                                     *)
(***************************************************************************)
THEOREM EveryCallIsSentOnce == MsgSpec => []CallsAreSentOnce
<1>1. BridgeInv /\ CallsInv /\ [MsgNext]_msgVars => BridgeInv' /\ CallsInv'
  BY BridgeSteps
<1>2. MsgInit => BridgeInv /\ CallsInv
  BY BridgeInits
<1>3. BridgeInv /\ CallsInv => CallsAreSentOnce
  BY CallsAreThen
<1> QED
  BY <1>1, <1>2, <1>3, PTL DEF MsgSpec

(***************************************************************************)
(* openai_stream_to_anthropic_events implements MessagesStream before the  *)
(* sanitizer sees it: whatever the upstream sends, and wherever it fails,  *)
(* what is yielded has one message_start, dense indices, blocks that never *)
(* overlap and deltas that fit them, and no message end with a block open. *)
(***************************************************************************)
THEOREM MessagesImplementStream == MsgSpec => MessagesAreRead
<1>1. BridgeInv /\ CallsInv /\ [MsgNext]_msgVars
        => BridgeInv' /\ CallsInv' /\ [Client!Next]_Client!vars
  BY BridgeSteps
<1>2. MsgInit => BridgeInv /\ CallsInv /\ Client!Init
  BY BridgeInits
<1> QED
  BY <1>1, <1>2, PTL DEF MsgSpec, MessagesAreRead, Client!Spec

(***************************************************************************)
(* The bridge to Messages as a whole, for every value of the constants.    *)
(***************************************************************************)
THEOREM MessagesStayFaithful == MsgSpec => MessagesAreFaithful
BY MessagesImplementStream, EveryCallIsSentOnce DEF MessagesAreFaithful

-------------------------------------------------------------------------------
(***************************************************************************)
(* The store of conversations.  Recency is a total order of those it       *)
(* knows.                                                                  *)
(***************************************************************************)
Members == Ids \cup Turns

IsOrder(q) ==
  /\ q \subseteq Members \X Members
  /\ \A x, y \in Members : <<x, y>> \in q => x \in Known(q) /\ y \in Known(q)
  /\ \A x, y \in Known(q) : <<x, y>> \in q \/ <<y, x>> \in q
  /\ \A x, y \in Members : <<x, y>> \in q /\ <<y, x>> \in q => x = y
  /\ \A x, y, z \in Members : <<x, y>> \in q /\ <<y, z>> \in q => <<x, z>> \in q

LEMMA KnownIs ==
  ASSUME NEW q, NEW x
  PROVE  x \in Known(q) <=> x \in Members /\ <<x, x>> \in q
BY DEF Known, Members

LEMMA WithoutIs ==
  ASSUME NEW q, NEW S, NEW x, NEW y
  PROVE  <<x, y>> \in Without(q, S) <=> <<x, y>> \in q /\ x \notin S /\ y \notin S
BY DEF Without

LEMMA OrderWithout ==
  ASSUME NEW q, IsOrder(q), NEW S
  PROVE  IsOrder(Without(q, S)) /\ Known(Without(q, S)) = Known(q) \ S
<1> DEFINE r == Without(q, S)
<1>1. \A x, y : <<x, y>> \in r <=> <<x, y>> \in q /\ x \notin S /\ y \notin S
  BY WithoutIs
<1>2. r \subseteq Members \X Members
  BY DEF Without, IsOrder
<1> HIDE DEF r
<1>3. Known(r) = Known(q) \ S
  BY <1>1 DEF Known
<1>4. IsOrder(r)
  BY <1>1, <1>2, <1>3 DEF IsOrder
<1> QED
  BY <1>3, <1>4 DEF r

LEMMA OrderMoved ==
  ASSUME NEW q, IsOrder(q), NEW z \in Members
  PROVE  IsOrder(MovedToEnd(q, z)) /\ Known(MovedToEnd(q, z)) = Known(q) \cup {z}
<1> DEFINE r == MovedToEnd(q, z)
<1>1. \A x, y : <<x, y>> \in r <=> \/ <<x, y>> \in q /\ x # z /\ y # z
                                   \/ y = z /\ x \in Known(q) \cup {z}
  <2> SUFFICES ASSUME NEW x, NEW y
               PROVE  <<x, y>> \in r <=> \/ <<x, y>> \in q /\ x # z /\ y # z
                                         \/ y = z /\ x \in Known(q) \cup {z}
    OBVIOUS
  <2>1. <<x, y>> \in Without(q, {z}) <=> <<x, y>> \in q /\ x # z /\ y # z
    BY WithoutIs
  <2> QED
    BY <2>1 DEF MovedToEnd
<1>2. r \subseteq Members \X Members
  <2>1. Without(q, {z}) \subseteq Members \X Members
    BY DEF Without, IsOrder
  <2>2. Known(q) \subseteq Members
    BY DEF Known, Members
  <2> QED
    BY <2>1, <2>2 DEF MovedToEnd
<1> HIDE DEF r
<1>3. Known(r) = Known(q) \cup {z}
  BY <1>1, KnownIs
<1>4. IsOrder(r)
  <2>1. \A x, y \in Members : <<x, y>> \in r => x \in Known(r) /\ y \in Known(r)
    BY <1>1, <1>3 DEF IsOrder
  <2>2. \A x, y \in Known(r) : <<x, y>> \in r \/ <<y, x>> \in r
    BY <1>1, <1>3 DEF IsOrder
  <2>3. \A x, y \in Members : <<x, y>> \in r /\ <<y, x>> \in r => x = y
    BY <1>1 DEF IsOrder
  <2>4. \A x, y, w \in Members : <<x, y>> \in r /\ <<y, w>> \in r => <<x, w>> \in r
    BY <1>1 DEF IsOrder
  <2> QED
    BY <1>2, <2>1, <2>2, <2>3, <2>4 DEF IsOrder
<1> QED
  BY <1>3, <1>4 DEF r

LEMMA OrderInPlace ==
  ASSUME NEW q, IsOrder(q), NEW t \in Turns, NEW id \in Ids
  PROVE  /\ IsOrder(InPlaceOf(q, t, id))
         /\ Known(InPlaceOf(q, t, id)) =
              (Known(q) \ {t, id}) \cup (IF t \in Known(q) THEN {id} ELSE {})
<1> DEFINE r == InPlaceOf(q, t, id)
           new(x) == IF x = t THEN id ELSE x
           old(x) == IF x = id THEN t ELSE x
<1>0. t # id /\ t \in Members /\ id \in Members
  BY TurnsAssumption DEF Ids, Members
<1>1. \A x, y : <<x, y>> \in r <=> x # t /\ y # t /\ <<old(x), old(y)>> \in q
  <2> SUFFICES ASSUME NEW x, NEW y
               PROVE  <<x, y>> \in r <=> x # t /\ y # t /\ <<old(x), old(y)>> \in q
    OBVIOUS
  <2>1. ASSUME <<x, y>> \in r
        PROVE  x # t /\ y # t /\ <<old(x), old(y)>> \in q
    <3>1. PICK p \in Without(q, {id}) : x = new(p[1]) /\ y = new(p[2])
      BY <2>1 DEF InPlaceOf
    <3>2. p \in q /\ p[1] # id /\ p[2] # id
      BY <3>1 DEF Without
    <3>3. p = <<p[1], p[2]>>
      BY <3>2 DEF IsOrder
    <3> QED
      BY <1>0, <3>1, <3>2, <3>3
  <2>2. ASSUME x # t, y # t, <<old(x), old(y)>> \in q
        PROVE  <<x, y>> \in r
    <3>1. <<old(x), old(y)>> \in Without(q, {id})
      BY <1>0, <2>2, WithoutIs
    <3>2. <<new(old(x)), new(old(y))>> \in r
      BY <3>1 DEF InPlaceOf
    <3> QED
      BY <2>2, <3>2
  <2> QED
    BY <2>1, <2>2
<1>2. r \subseteq Members \X Members
  <2>1. Without(q, {id}) \subseteq Members \X Members
    BY DEF Without, IsOrder
  <2> QED
    BY <1>0, <2>1 DEF InPlaceOf
<1> HIDE DEF r
<1>3. Known(r) = (Known(q) \ {t, id}) \cup (IF t \in Known(q) THEN {id} ELSE {})
  BY <1>0, <1>1, KnownIs
<1>4. IsOrder(r)
  <2>1. \A x, y \in Members : <<x, y>> \in r => x \in Known(r) /\ y \in Known(r)
    BY <1>0, <1>1, <1>3 DEF IsOrder
  <2>2. \A x, y \in Known(r) : <<x, y>> \in r \/ <<y, x>> \in r
    <3>1. \A x \in Known(r) : old(x) \in Known(q) /\ x # t
      BY <1>0, <1>3
    <3> QED
      BY <1>1, <3>1 DEF IsOrder
  <2>3. \A x, y \in Members : <<x, y>> \in r /\ <<y, x>> \in r => x = y
    BY <1>0, <1>1 DEF IsOrder
  <2>4. \A x, y, w \in Members : <<x, y>> \in r /\ <<y, w>> \in r => <<x, w>> \in r
    BY <1>0, <1>1 DEF IsOrder
  <2> QED
    BY <1>2, <2>1, <2>2, <2>3, <2>4 DEF IsOrder
<1> QED
  BY <1>3, <1>4 DEF r

Room(i) == {i} \X (1..size[i])
Rooms(S) == UNION {Room(i) : i \in S}

LEMMA IdsAreFinite ==
  ASSUME NEW S, S \subseteq Ids
  PROVE  IsFiniteSet(S)
<1>1. IsFiniteSet(1..MaxIds)
  BY TurnsAssumption, FS_Interval
<1> QED
  BY <1>1, FS_Subset DEF Ids

LEMMA RoomsAreFinite ==
  ASSUME size \in [Ids -> Nat], NEW S, S \subseteq Ids
  PROVE  IsFiniteSet(Rooms(S)) /\ Bytes(S) = Cardinality(Rooms(S)) /\ Bytes(S) \in Nat
<1>1. IsFiniteSet(S)
  BY IdsAreFinite
<1> DEFINE T == {Room(i) : i \in S}
           f == [i \in S |-> Room(i)]
<1>2. IsFiniteSet(T)
  <2>1. f \in Surjection(S, T)
    BY DEF Surjection
  <2> QED
    BY <1>1, <2>1, FS_Surjection
<1>3. \A X \in T : IsFiniteSet(X)
  <2> SUFFICES ASSUME NEW i \in S
               PROVE  IsFiniteSet(Room(i))
    OBVIOUS
  <2>1. IsFiniteSet(1..size[i])
    BY FS_Interval
  <2> QED
    BY <2>1, FS_Singleton, FS_Product DEF Room
<1>4. IsFiniteSet(Rooms(S))
  BY <1>2, <1>3, FS_UNION DEF Rooms
<1>5. Bytes(S) = Cardinality(Rooms(S))
  BY DEF Bytes, Rooms, Room
<1> QED
  BY <1>4, <1>5, FS_CardinalityType

LEMMA BytesOfNothing == Bytes({}) = 0
<1>1. UNION {Room(i) : i \in {}} = {}
  OBVIOUS
<1> QED
  BY <1>1, FS_EmptySet DEF Bytes, Room

LEMMA BytesOfOne ==
  ASSUME size \in [Ids -> Nat], NEW i \in Ids
  PROVE  Bytes({i}) = size[i]
<1>1. Rooms({i}) = {i} \X (1..size[i])
  BY DEF Rooms, Room
<1>2. IsFiniteSet(1..size[i]) /\ Cardinality(1..size[i]) = size[i]
  <2>1. size[i] \in Nat
    OBVIOUS
  <2> QED
    BY <2>1, FS_Interval
<1>3. Cardinality({i} \X (1..size[i])) = Cardinality({i}) * Cardinality(1..size[i])
  BY <1>2, FS_Product, FS_Singleton
<1>4. Cardinality({i}) = 1 /\ size[i] \in Nat
  BY FS_Singleton
<1>5. Bytes({i}) = Cardinality(Rooms({i}))
  BY RoomsAreFinite
<1>6. \A k \in Nat : 1 * k = k
  OBVIOUS
<1> QED
  BY <1>1, <1>2, <1>3, <1>4, <1>5, <1>6

LEMMA BytesAdd ==
  ASSUME size \in [Ids -> Nat], NEW S, S \subseteq Ids, NEW T, T \subseteq Ids, S \cap T = {}
  PROVE  Bytes(S \cup T) = Bytes(S) + Bytes(T)
<1>1. IsFiniteSet(Rooms(S)) /\ IsFiniteSet(Rooms(T))
  BY RoomsAreFinite
<1>2. Rooms(S \cup T) = Rooms(S) \cup Rooms(T)
  BY DEF Rooms
<1>3. Rooms(S) \cap Rooms(T) = {}
  <2> SUFFICES ASSUME NEW x \in Rooms(S), x \in Rooms(T)
               PROVE  FALSE
    OBVIOUS
  <2>1. PICK i \in S : x \in Room(i)
    BY DEF Rooms
  <2>2. PICK j \in T : x \in Room(j)
    BY DEF Rooms
  <2>3. x[1] = i /\ x[1] = j
    BY <2>1, <2>2 DEF Room
  <2> QED
    BY <2>3
<1>4. Cardinality(Rooms(S) \cup Rooms(T)) =
        Cardinality(Rooms(S)) + Cardinality(Rooms(T)) - Cardinality(Rooms(S) \cap Rooms(T))
  BY <1>1, FS_Union
<1>5. /\ Bytes(S) = Cardinality(Rooms(S)) /\ Bytes(S) \in Nat
      /\ Bytes(T) = Cardinality(Rooms(T)) /\ Bytes(T) \in Nat
      /\ Bytes(S \cup T) = Cardinality(Rooms(S \cup T))
  BY RoomsAreFinite
<1>6. Cardinality({}) = 0
  BY FS_EmptySet
<1>7. Bytes(S \cup T) = Bytes(S) + Bytes(T) - 0
  BY <1>2, <1>3, <1>4, <1>5, <1>6
<1> QED
  BY <1>5, <1>7

LEMMA BytesLess ==
  ASSUME size \in [Ids -> Nat], NEW S, S \subseteq Ids, NEW T, T \subseteq S
  PROVE  Bytes(S \ T) = Bytes(S) - Bytes(T)
<1>1. Bytes((S \ T) \cup T) = Bytes(S \ T) + Bytes(T)
  BY BytesAdd
<1>2. (S \ T) \cup T = S
  OBVIOUS
<1>3. Bytes(S \ T) \in Nat /\ Bytes(T) \in Nat
  BY RoomsAreFinite
<1>4. Bytes(S) = Bytes(S \ T) + Bytes(T)
  BY <1>1, <1>2
<1> QED
  BY <1>3, <1>4

(***************************************************************************)
(* _prune stops when the store is within its limits: what it leaves begins *)
(* with an entry that was not too old to stay.                             *)
(***************************************************************************)
LEMMA EvictionSuffices ==
  ASSUME size \in [Ids -> Nat], NEW q, IsOrder(q)
  PROVE  LET S == EntriesOf(q)
             out == Evicted(q, Bytes(S))
             left == S \ out
         IN  /\ S \subseteq Ids /\ out \subseteq S
             /\ Bytes(left) = Bytes(S) - Bytes(out)
             /\ Cardinality(left) <= MaxEntries
             /\ MaxBytes > 0 /\ Bytes(left) > MaxBytes => Cardinality(left) <= 1
<1> DEFINE S == EntriesOf(q)
           out == Evicted(q, Bytes(S))
           left == S \ out
           Before(i) == {j \in S \ {i} : <<j, i>> \in q}
           Oldest(i) == \/ Cardinality(S \ Before(i)) > MaxEntries
                        \/ /\ MaxBytes > 0 /\ Bytes(S) - Bytes(Before(i)) > MaxBytes
                           /\ Cardinality(S \ Before(i)) > 1
<1>1. S \subseteq Ids /\ S \subseteq Known(q) /\ S \subseteq Members /\ IsFiniteSet(S)
  BY IdsAreFinite DEF EntriesOf, Members
<1>2. out = {i \in S : Oldest(i)}
  BY DEF Evicted
<1>3. Bytes(left) = Bytes(S) - Bytes(out)
  BY <1>1, <1>2, BytesLess
<1>4. MaxEntries \in Nat /\ MaxEntries > 0 /\ MaxBytes \in Nat
  BY TurnsAssumption
<1>5. CASE left = {}
  <2>1. Cardinality(left) = 0
    BY <1>5, FS_EmptySet
  <2> QED
    BY <1>1, <1>2, <1>3, <1>4, <2>1
<1>6. CASE left # {}
  <2> DEFINE B == {Before(i) : i \in left}
  <2>1. \E X \in B : \A Y \in B : ~(<<Y, X>> \in StrictSubsetOrdering(S))
    <3>1. IsWellFoundedOn(StrictSubsetOrdering(S), SUBSET S)
      BY <1>1, FS_StrictSubsetOrderingWellFounded, FS_FiniteSubsetsOfFinite
    <3>2. B \subseteq SUBSET S /\ B # {}
      <4>1. \A i \in left : Before(i) \in SUBSET S
        OBVIOUS
      <4> HIDE DEF Before, left, S
      <4> QED
        BY <1>6, <4>1
    <3> HIDE DEF B
    <3> QED
      BY <3>1, <3>2, WFMin
  <2>2. PICK i \in left : \A j \in left : ~(<<Before(j), Before(i)>> \in StrictSubsetOrdering(S))
    BY <2>1
  <2>3. \A j \in left : ~(Before(j) \subseteq Before(i) /\ Before(j) # Before(i))
    <3>1. \A j \in left : Before(j) \in SUBSET S
      OBVIOUS
    <3> HIDE DEF Before, left, S
    <3> QED
      BY <2>2, <3>1 DEF StrictSubsetOrdering
  <2>4. left \cap Before(i) = {}
    <3> SUFFICES ASSUME NEW j \in left, j \in Before(i)
                 PROVE  FALSE
      OBVIOUS
    <3>1. j \in S /\ j # i /\ <<j, i>> \in q
      OBVIOUS
    <3>2. Before(j) \subseteq Before(i)
      <4> SUFFICES ASSUME NEW k \in Before(j)
                   PROVE  k \in Before(i)
        OBVIOUS
      <4>1. k \in S /\ k # j /\ <<k, j>> \in q
        OBVIOUS
      <4>2. <<k, i>> \in q
        BY <1>1, <3>1, <4>1 DEF IsOrder
      <4>3. k # i
        BY <1>1, <3>1, <4>1 DEF IsOrder
      <4> QED
        BY <4>1, <4>2, <4>3
    <3>3. j \notin Before(j)
      OBVIOUS
    <3> QED
      BY <2>3, <3>2, <3>3
  <2>5. Before(i) \subseteq out
    BY <2>4
  <2>6. out \subseteq Before(i)
    <3> SUFFICES ASSUME NEW j \in out, j \notin Before(i)
                 PROVE  FALSE
      OBVIOUS
    <3>1. j \in S /\ i \in S /\ Oldest(j) /\ ~Oldest(i)
      BY <1>2
    <3>2. j # i
      BY <3>1
    <3>3. <<i, j>> \in q
      BY <1>1, <3>1, <3>2 DEF IsOrder
    <3>4. Before(i) \subseteq Before(j)
      <4> SUFFICES ASSUME NEW k \in Before(i)
                   PROVE  k \in Before(j)
        OBVIOUS
      <4>1. k \in S /\ k # i /\ <<k, i>> \in q
        OBVIOUS
      <4>2. <<k, j>> \in q
        BY <1>1, <3>1, <3>3, <4>1 DEF IsOrder
      <4>3. k # j
        BY <1>1, <3>1, <3>3, <4>1 DEF IsOrder
      <4> QED
        BY <4>1, <4>2, <4>3
    <3>5. /\ Cardinality(S \ Before(j)) <= Cardinality(S \ Before(i))
          /\ Cardinality(S \ Before(j)) \in Nat /\ Cardinality(S \ Before(i)) \in Nat
      <4>1. IsFiniteSet(S \ Before(i)) /\ S \ Before(j) \in SUBSET (S \ Before(i))
        BY <1>1, <3>4, FS_Difference
      <4> HIDE DEF Before, S
      <4> QED
        BY <4>1, FS_Subset, FS_CardinalityType
    <3>6. /\ Bytes(Before(i)) \in Nat /\ Bytes(Before(j)) \in Nat
          /\ Bytes(Before(i)) <= Bytes(Before(j)) /\ Bytes(S) \in Nat
      <4>1. Before(j) \subseteq Ids /\ Before(i) \subseteq Ids /\ Before(j) \ Before(i) \subseteq Ids
        BY <1>1
      <4>2. Bytes(Before(j) \ Before(i)) = Bytes(Before(j)) - Bytes(Before(i))
        BY <3>4, <4>1, BytesLess
      <4>3. /\ Bytes(Before(j) \ Before(i)) \in Nat
            /\ Bytes(Before(j)) \in Nat /\ Bytes(Before(i)) \in Nat /\ Bytes(S) \in Nat
        BY <1>1, <4>1, RoomsAreFinite
      <4> HIDE DEF Before, S
      <4> QED
        BY <4>2, <4>3
    <3> HIDE DEF Before, S, out, left
    <3> QED
      BY <1>4, <3>1, <3>5, <3>6
  <2>7. out = Before(i) /\ left = S \ Before(i) /\ ~Oldest(i)
    BY <1>2, <2>5, <2>6
  <2>8. IsFiniteSet(left) /\ Cardinality(left) \in Nat
    BY <1>1, FS_Difference, FS_CardinalityType
  <2>9. out \subseteq S
    BY <1>2
  <2>10. Cardinality(left) <= MaxEntries
    <3> HIDE DEF Before, S, out, left
    <3> QED
      BY <1>4, <2>7, <2>8
  <2>11. MaxBytes > 0 /\ Bytes(left) > MaxBytes => Cardinality(left) <= 1
    <3> HIDE DEF Before, S, out, left
    <3> QED
      BY <1>3, <1>4, <2>7, <2>8
  <2> HIDE DEF Before
  <2> QED
    BY <1>1, <1>3, <2>9, <2>10, <2>11
<1> QED
  BY <1>5, <1>6

Turn == [stage : {"free", "lookup", "upstream", "stream", "put", "drop", "tell"},
         id : Ids \cup {NoId}, prev : Ids \cup {NoId}, plain : BOOLEAN,
         due : BOOLEAN, client : {"here", "left", "gone"}]

TurnTypes ==
  /\ size \in [Ids -> Nat] /\ minted \in 0..MaxIds
  /\ turn \in [Turns -> Turn] /\ shown \subseteq 1..minted /\ outdated \subseteq Ids
  /\ \A t \in Turns : turn[t].id <= minted

(* A call of the store that waits has its place; a client left in a call.  *)
CallsWait ==
  /\ IsOrder(recency)
  /\ \A t \in Turns : turn[t].stage \in {"lookup", "put"} => t \in Known(recency)
  /\ \A t \in Turns : turn[t].client = "left" => turn[t].stage \in {"put", "drop"}

TurnsAreNumbered ==
  /\ \A t \in Turns :
       /\ turn[t].stage \in {"stream", "put", "drop", "tell"} => turn[t].id # NoId
       /\ turn[t].stage \in {"lookup", "drop"} => turn[t].prev # NoId
  /\ \A t, u \in Turns : turn[t].id = turn[u].id /\ turn[t].id # NoId => t = u

(* What a turn is about to answer with, or drop its parent for, is kept.   *)
HasBeenKept(t) ==
  \/ turn[t].stage = "drop"
  \/ turn[t].stage = "tell" /\ turn[t].due /\ ~TooLarge(turn[t].id)

KeptOrLost ==
  \A t \in Turns : HasBeenKept(t) => turn[t].id \in Stored \cup lost

TurnsInv ==
  /\ TurnTypes /\ CallsWait /\ TurnsAreNumbered
  /\ KeptOrLost /\ \A t \in Turns : turn[t].stage = "drop" => ~TooLarge(turn[t].id)
  /\ AnswersCanBeContinued /\ StoreWithinLimits

-------------------------------------------------------------------------------
LEMMA StoredIs == Stored = Known(recency) \cap Ids /\ Stored \subseteq Ids
BY DEF Stored, EntriesOf

LEMMA NotBoth == ASSUME NEW t \in Turns PROVE t \notin Ids /\ t \in Members
BY TurnsAssumption DEF Ids, Members

LEMMA AskedIs ==
  ASSUME NEW q, IsOrder(q), NEW t \in Turns
  PROVE  /\ IsOrder(Asked(q, t)) /\ Known(Asked(q, t)) = Known(q) \cup {t}
         /\ EntriesOf(Asked(q, t)) = EntriesOf(q)
<1>1. IsOrder(MovedToEnd(q, t)) /\ Known(MovedToEnd(q, t)) = Known(q) \cup {t}
  BY NotBoth, OrderMoved
<1> QED
  BY <1>1, NotBoth DEF Asked, EntriesOf

LEMMA SavesAgainIs ==
  ASSUME NEW q, IsOrder(q), NEW t \in Turns
  PROVE  /\ IsOrder(SavesAgain(q, t)) /\ EntriesOf(SavesAgain(q, t)) = EntriesOf(q)
         /\ Known(q) \subseteq Known(SavesAgain(q, t))
         /\ turn[t].client = "left" => t \in Known(SavesAgain(q, t))
BY AskedIs DEF SavesAgain

LEMMA AnsweredIs ==
  ASSUME NEW q, IsOrder(q), NEW t \in Turns, t \in Known(q), NEW id \in Ids
  PROVE  /\ IsOrder(Answered(q, t, id))
         /\ Known(Answered(q, t, id)) = (Known(q) \ {t}) \cup {id}
<1>1. CASE backend = "memory"
  <2>1. IsOrder(Without(q, {t})) /\ Known(Without(q, {t})) = Known(q) \ {t}
    BY OrderWithout
  <2>2. id \in Members
    BY DEF Members
  <2>3. /\ IsOrder(MovedToEnd(Without(q, {t}), id))
        /\ Known(MovedToEnd(Without(q, {t}), id)) = Known(Without(q, {t})) \cup {id}
    BY <2>1, <2>2, OrderMoved
  <2> QED
    BY <1>1, <2>1, <2>3 DEF Answered
<1>2. CASE backend # "memory"
  <2>1. /\ IsOrder(InPlaceOf(q, t, id))
        /\ Known(InPlaceOf(q, t, id)) = (Known(q) \ {t, id}) \cup {id}
    BY OrderInPlace
  <2> QED
    BY <1>2, <2>1 DEF Answered
<1> QED
  BY <1>1, <1>2

(***************************************************************************)
(* What a call of the store does to the rest: what it drops is no longer   *)
(* promised, and remembered as lost if a turn is about it.                 *)
(***************************************************************************)
Dropped(S) ==
  /\ IsOrder(recency') /\ Stored \ S \subseteq Stored'
  /\ outdated' \subseteq outdated /\ handed' \subseteq handed \ S
  /\ \A i \in lost \cup S : (\E t \in Turns : turn[t].id = i) => i \in lost'

WithinLimits(S, bytes) ==
  /\ bytes = Bytes(S) /\ Cardinality(S) <= MaxEntries
  /\ MaxBytes > 0 /\ bytes > MaxBytes => Cardinality(S) <= 1

OnlyLeaves(t) ==
  \A u \in Turns \ {t} : u \in Known(recency) => u \in Known(recency')

LEMMA ForgetIs ==
  ASSUME NEW S, Forget(S)
  PROVE  /\ outdated' \subseteq outdated /\ handed' \subseteq handed \ S
         /\ \A i \in lost \cup S : (\E t \in Turns : turn[t].id = i) => i \in lost'
BY DEF Forget

LEMMA FewerIsWithin ==
  ASSUME size \in [Ids -> Nat], NEW S, S \subseteq Ids, NEW i, NEW bytes,
         WithinLimits(S, bytes)
  PROVE  WithinLimits(S \ {i}, IF i \in S THEN bytes - size[i] ELSE bytes)
<1>1. CASE i \notin S
  <2>1. S \ {i} = S
    BY <1>1
  <2> QED
    BY <1>1, <2>1
<1>2. CASE i \in S
  <2>1. Bytes(S \ {i}) = Bytes(S) - size[i]
    BY <1>2, BytesLess, BytesOfOne
  <2>2. Bytes(S) \in Nat /\ size[i] \in Nat
    BY <1>2, RoomsAreFinite
  <2>3. IsFiniteSet(S) /\ Cardinality(S) \in Nat
    BY IdsAreFinite, FS_CardinalityType
  <2>4. Cardinality(S \ {i}) = Cardinality(S) - 1
    BY <1>2, <2>3, FS_RemoveElement
  <2>5. MaxEntries \in Nat /\ MaxBytes \in Nat
    BY TurnsAssumption
  <2>6. Bytes(S \ {i}) = bytes - size[i]
    BY <2>1 DEF WithinLimits
  <2>7. Cardinality(S \ {i}) <= MaxEntries
    BY <2>3, <2>4, <2>5 DEF WithinLimits
  <2>8. MaxBytes > 0 /\ bytes - size[i] > MaxBytes => Cardinality(S \ {i}) <= 1
    <3>1. bytes \in Nat /\ Cardinality(S) - 1 \in Int
      BY <2>2, <2>3 DEF WithinLimits
    <3> QED
      BY <2>2, <2>3, <2>4, <2>5, <3>1 DEF WithinLimits
  <2> QED
    BY <1>2, <2>6, <2>7, <2>8 DEF WithinLimits
<1> QED
  BY <1>1, <1>2

LEMMA GetIs ==
  ASSUME size \in [Ids -> Nat], WithinLimits(Stored, total), IsOrder(recency),
         NEW t \in Turns, t \in Known(recency), NEW prev \in Ids, Get(t, prev)
  PROVE  /\ \E S \in SUBSET Ids : Dropped(S)
         /\ OnlyLeaves(t)
         /\ \E S \in SUBSET Ids : EntriesOf(recency') = S /\ WithinLimits(S, total')
<1>1. CASE Found(prev)
  <2>1. recency' = Answered(recency, t, prev) /\ UNCHANGED <<total, outdated, handed, lost>>
    BY <1>1 DEF Get
  <2>2. /\ IsOrder(recency') /\ Known(recency') = (Known(recency) \ {t}) \cup {prev}
    BY <2>1, AnsweredIs
  <2>3. EntriesOf(recency') = Stored /\ Stored' = Stored
    BY <1>1, <2>2, NotBoth DEF Found, Stored, EntriesOf
  <2>4. Dropped({})
    BY <2>1, <2>2, <2>3 DEF Dropped
  <2> QED
    BY <2>1, <2>2, <2>3, <2>4, StoredIs DEF OnlyLeaves
<1>2. CASE ~Found(prev)
  <2> DEFINE S == IF prev \in Stored THEN {prev} ELSE {}
  <2>1. /\ recency' = Without(recency, {t, prev})
        /\ total' = IF prev \in Stored THEN total - size[prev] ELSE total
        /\ Forget(S)
    BY <1>2 DEF Get
  <2>2. IsOrder(recency') /\ Known(recency') = Known(recency) \ {t, prev}
    BY <2>1, OrderWithout
  <2>3. EntriesOf(recency') = Stored \ {prev} /\ Stored' = Stored \ {prev}
    BY <2>2, NotBoth DEF Stored, EntriesOf
  <2>4. Dropped(S)
    <3> HIDE DEF S
    <3>1. Stored \ S \subseteq Stored'
      BY <2>3 DEF S
    <3> QED
      BY <2>1, <2>2, <3>1, ForgetIs DEF Dropped
  <2>5. WithinLimits(Stored \ {prev}, total')
    BY <2>1, FewerIsWithin, StoredIs
  <2>6. OnlyLeaves(t)
    BY <2>2, NotBoth DEF OnlyLeaves
  <2>7. S \in SUBSET Ids
    OBVIOUS
  <2> QED
    BY <2>3, <2>4, <2>5, <2>6, <2>7, StoredIs
<1> QED
  BY <1>1, <1>2

LEMMA DeleteIs ==
  ASSUME size \in [Ids -> Nat], WithinLimits(Stored, total), IsOrder(recency),
         NEW t \in Turns, NEW id \in Ids, Delete(t, id)
  PROVE  /\ \E S \in SUBSET Ids : Dropped(S)
         /\ OnlyLeaves(t)
         /\ turn[t].client = "left" => t \in Known(recency')
         /\ \E S \in SUBSET Ids : EntriesOf(recency') = S /\ WithinLimits(S, total')
<1> DEFINE q == Without(recency, {id})
<1>1. IsOrder(q) /\ Known(q) = Known(recency) \ {id}
  BY OrderWithout
<1>2. /\ recency' = SavesAgain(q, t)
      /\ total' = IF id \in Stored THEN total - size[id] ELSE total
      /\ Forget({id})
  BY DEF Delete
<1> HIDE DEF q
<1>3. /\ IsOrder(recency') /\ EntriesOf(recency') = EntriesOf(q)
      /\ Known(q) \subseteq Known(recency')
      /\ turn[t].client = "left" => t \in Known(recency')
  BY <1>1, <1>2, SavesAgainIs
<1>4. EntriesOf(recency') = Stored \ {id} /\ Stored' = Stored \ {id}
  BY <1>1, <1>3 DEF Stored, EntriesOf
<1>5. Dropped({id})
  BY <1>2, <1>3, <1>4, ForgetIs DEF Dropped
<1>6. WithinLimits(Stored \ {id}, total')
  BY <1>2, FewerIsWithin, StoredIs
<1>7. OnlyLeaves(t)
  BY <1>1, <1>3, NotBoth DEF OnlyLeaves
<1> QED
  BY <1>3, <1>4, <1>5, <1>6, <1>7, StoredIs

LEMMA PutIs ==
  ASSUME size \in [Ids -> Nat], WithinLimits(Stored, total), IsOrder(recency),
         outdated \subseteq Ids,
         NEW t \in Turns, t \in Known(recency), NEW id \in Ids, turn[t].id = id, Put(t, id)
  PROVE  /\ \E S \in SUBSET Ids : Dropped(S)
         /\ OnlyLeaves(t) /\ id \in Stored' \cup lost'
         /\ turn[t].client = "left" => t \in Known(recency')
         /\ \E S \in SUBSET Ids : EntriesOf(recency') = S /\ WithinLimits(S, total')
<1> DEFINE late == IF backend = "sqlite" THEN outdated \ {id} ELSE {}
           p == Answered(recency, t, id)
           q == Without(p, late)
           bytes == IF backend = "memory" THEN CountedWithout(id) + size[id]
                    ELSE Bytes(EntriesOf(q))
           out == Evicted(q, bytes)
           gone == late \cup out \cup (outdated \cap {id})
           r == Without(q, out)
<1>1. /\ recency' = SavesAgain(r, t) /\ total' = bytes - Bytes(out)
      /\ Forget(gone)
  BY DEF Put
<1>2. IsOrder(p) /\ Known(p) = (Known(recency) \ {t}) \cup {id}
  BY AnsweredIs
<1>3. late \subseteq Ids \ {id} /\ (backend = "memory" => late = {})
  OBVIOUS
<1>4. IsOrder(q) /\ Known(q) = Known(p) \ late
  <2> HIDE DEF p, late
  <2> QED
    BY <1>2, OrderWithout
<1>5. EntriesOf(q) = (Stored \cup {id}) \ late
  BY <1>2, <1>4, NotBoth DEF Stored, EntriesOf
<1>6. bytes = Bytes(EntriesOf(q))
  <2>1. CASE backend = "memory"
    <3>1. EntriesOf(q) = (Stored \ {id}) \cup {id}
      BY <1>3, <1>5, <2>1
    <3>2. Bytes((Stored \ {id}) \cup {id}) = Bytes(Stored \ {id}) + size[id]
      <4>1. Bytes({id}) = size[id]
        BY BytesOfOne
      <4>2. Stored \ {id} \subseteq Ids /\ {id} \subseteq Ids /\ (Stored \ {id}) \cap {id} = {}
        BY StoredIs
      <4>3. Bytes((Stored \ {id}) \cup {id}) = Bytes(Stored \ {id}) + Bytes({id})
        BY <4>2, BytesAdd
      <4> QED
        BY <4>1, <4>3
    <3>3. WithinLimits(Stored \ {id}, CountedWithout(id))
      BY FewerIsWithin, StoredIs DEF CountedWithout
    <3> HIDE DEF q
    <3> QED
      BY <2>1, <3>1, <3>2, <3>3 DEF WithinLimits
  <2>2. CASE backend # "memory"
    BY <2>2
  <2> QED
    BY <2>1, <2>2
<1> DEFINE left == EntriesOf(q) \ out
<1>7. /\ EntriesOf(q) \subseteq Ids /\ out \subseteq EntriesOf(q)
      /\ Bytes(left) = Bytes(EntriesOf(q)) - Bytes(out)
      /\ Cardinality(left) <= MaxEntries
      /\ MaxBytes > 0 /\ Bytes(left) > MaxBytes => Cardinality(left) <= 1
  <2> HIDE DEF q, bytes
  <2> QED
    BY <1>4, <1>6, EvictionSuffices
<1>8. WithinLimits(left, total')
  <2> HIDE DEF left, out, q, bytes
  <2> QED
    BY <1>1, <1>6, <1>7 DEF WithinLimits
<1>9. IsOrder(r) /\ Known(r) = Known(q) \ out
  <2> HIDE DEF q, out
  <2> QED
    BY <1>4, OrderWithout
<1> HIDE DEF r, q, p, out, late, bytes
<1>10. /\ IsOrder(recency') /\ EntriesOf(recency') = EntriesOf(r)
       /\ Known(r) \subseteq Known(recency')
       /\ turn[t].client = "left" => t \in Known(recency')
  BY <1>1, <1>9, SavesAgainIs
<1>11. EntriesOf(recency') = left /\ Stored' = left
  BY <1>9, <1>10 DEF Stored, EntriesOf
<1>12. gone \in SUBSET Ids
  BY <1>3, <1>7
<1>13. Stored \ gone \subseteq Stored'
  BY <1>5, <1>11
<1>14. OnlyLeaves(t)
  BY <1>2, <1>3, <1>4, <1>7, <1>9, <1>10, NotBoth DEF OnlyLeaves
<1>15. id \in Stored' \cup lost'
  <2>1. CASE id \in out
    <3>1. \A i \in gone : (\E u \in Turns : turn[u].id = i) => i \in lost'
      <4> HIDE DEF gone
      <4> QED
        BY <1>1, ForgetIs
    <3> QED
      BY <2>1, <3>1
  <2>2. CASE id \notin out
    BY <1>3, <1>5, <1>11, <2>2
  <2> QED
    BY <2>1, <2>2
<1>16. Dropped(gone)
  <2> HIDE DEF gone, left
  <2> QED
    BY <1>1, <1>10, <1>13, ForgetIs DEF Dropped
<1> HIDE DEF left, gone
<1> QED
  BY <1>7, <1>8, <1>10, <1>11, <1>12, <1>14, <1>15, <1>16 DEF left

(* What an action of t does to its turn ... *)
TurnGoesOn(t) ==
  /\ turn' \in [Turns -> Turn] /\ \A u \in Turns \ {t} : turn'[u] = turn[u]
  /\ minted' \in {minted, minted + 1} /\ minted' <= MaxIds /\ shown' \subseteq 1..minted'
  /\ turn'[t].id \in {NoId, turn[t].id} \/ (turn'[t].id = minted + 1 /\ minted' = minted + 1)
  /\ turn'[t].stage \in {"lookup", "put"} => t \in Known(recency')
  /\ turn'[t].client = "left" => turn'[t].stage \in {"put", "drop"}
  /\ turn'[t].stage \in {"stream", "put", "drop", "tell"} => turn'[t].id # NoId
  /\ turn'[t].stage \in {"lookup", "drop"} => turn'[t].prev # NoId
  /\ turn'[t].stage = "drop" => ~TooLarge(turn'[t].id) /\ turn'[t].id \in Stored' \cup lost'
  /\ turn'[t].stage = "tell" /\ turn'[t].due /\ ~TooLarge(turn'[t].id)
       => turn'[t].id \in Stored' \cup lost'

(* ... and to the store, for the others. *)
StoreGoesOn(t) ==
  /\ UNCHANGED size /\ IsOrder(recency') /\ OnlyLeaves(t) /\ outdated' \subseteq Ids
  /\ handed' \subseteq Stored'
  /\ \A u \in Turns \ {t} : HasBeenKept(u) => turn[u].id \in Stored' \cup lost'
  /\ \E S \in SUBSET Ids : EntriesOf(recency') = S /\ WithinLimits(S, total')

LEMMA LimitsPrimed ==
  ASSUME UNCHANGED size, NEW S, EntriesOf(recency') = S, WithinLimits(S, total')
  PROVE  StoreWithinLimits'
<1>1. Stored' = S
  BY DEF Stored, EntriesOf
<1>2. Bytes(S) = Bytes(Stored)'
  BY <1>1 DEF Bytes
<1> QED
  BY <1>1, <1>2 DEF WithinLimits, StoreWithinLimits

LEMMA StepKeeps ==
  ASSUME TurnsInv, NEW t \in Turns, TurnGoesOn(t), StoreGoesOn(t)
  PROVE  TurnsInv'
<1>0. TurnTypes /\ CallsWait /\ TurnsAreNumbered /\ KeptOrLost
  BY DEF TurnsInv
<1>1. \A u \in Turns \ {t} : turn'[u] = turn[u]
  BY DEF TurnGoesOn
<1>2. \A u \in Turns : turn[u].id \in Nat /\ turn[u].id <= minted
  BY <1>0, TurnsAssumption DEF TurnTypes, Turn, Ids, NoId
<1>3. minted \in Nat /\ minted' \in Nat /\ minted <= minted' /\ minted' <= MaxIds
  BY <1>0, TurnsAssumption DEF TurnTypes, TurnGoesOn
<1>4. TurnTypes'
  <2>1. \A u \in Turns : turn'[u].id <= minted'
    BY <1>0, <1>1, <1>2, <1>3, TurnsAssumption DEF TurnGoesOn, NoId
  <2> QED
    BY <1>0, <1>3, <2>1, TurnsAssumption DEF TurnTypes, TurnGoesOn, StoreGoesOn
<1>5. CallsWait'
  <2>1. \A u \in Turns : turn'[u].stage \in {"lookup", "put"} => u \in Known(recency')
    BY <1>0, <1>1 DEF CallsWait, TurnGoesOn, StoreGoesOn, OnlyLeaves
  <2>2. \A u \in Turns : turn'[u].client = "left" => turn'[u].stage \in {"put", "drop"}
    BY <1>0, <1>1 DEF CallsWait, TurnGoesOn
  <2> QED
    BY <2>1, <2>2 DEF CallsWait, StoreGoesOn
<1>6. TurnsAreNumbered'
  <2>1. \A u \in Turns :
          /\ turn'[u].stage \in {"stream", "put", "drop", "tell"} => turn'[u].id # NoId
          /\ turn'[u].stage \in {"lookup", "drop"} => turn'[u].prev # NoId
    BY <1>0, <1>1 DEF TurnsAreNumbered, TurnGoesOn
  <2>2. \A u \in Turns \ {t} : turn'[t].id # NoId => turn'[t].id # turn'[u].id
    BY <1>0, <1>1, <1>2, <1>3 DEF TurnsAreNumbered, TurnGoesOn
  <2>3. \A u, v \in Turns : turn'[u].id = turn'[v].id /\ turn'[u].id # NoId => u = v
    BY <1>0, <1>1, <2>2 DEF TurnsAreNumbered
  <2> QED
    BY <2>1, <2>3 DEF TurnsAreNumbered
<1>7. KeptOrLost' /\ \A u \in Turns : turn'[u].stage = "drop" => ~TooLarge(turn[u].id)'
  <2> SUFFICES ASSUME NEW u \in Turns
               PROVE  /\ HasBeenKept(u)' => turn'[u].id \in Stored' \cup lost'
                      /\ turn'[u].stage = "drop" => ~TooLarge(turn[u].id)'
    BY DEF KeptOrLost
  <2>1. size' = size
    BY DEF StoreGoesOn
  <2>2. CASE u = t
    BY <2>1, <2>2 DEF HasBeenKept, TurnGoesOn, TooLarge
  <2>3. CASE u # t
    <3>1. turn'[u] = turn[u]
      BY <1>1, <2>3
    <3>2. HasBeenKept(u) => turn[u].id \in Stored' \cup lost'
      BY <2>3 DEF StoreGoesOn
    <3>3. turn[u].stage = "drop" => ~TooLarge(turn[u].id)
      BY DEF TurnsInv
    <3> QED
      BY <2>1, <3>1, <3>2, <3>3 DEF HasBeenKept, TooLarge
  <2> QED
    BY <2>2, <2>3
<1>8. AnswersCanBeContinued'
  BY DEF AnswersCanBeContinued, StoreGoesOn
<1>9. StoreWithinLimits'
  BY LimitsPrimed DEF StoreGoesOn
<1> QED
  BY <1>4, <1>5, <1>6, <1>7, <1>8, <1>9 DEF TurnsInv

LEMMA DroppingGoesOn ==
  ASSUME TurnsInv, NEW t \in Turns, UNCHANGED size,
         \E S \in SUBSET Ids : Dropped(S),
         OnlyLeaves(t),
         \E S \in SUBSET Ids : EntriesOf(recency') = S /\ WithinLimits(S, total')
  PROVE  StoreGoesOn(t)
<1>1. PICK S \in SUBSET Ids : Dropped(S)
  OBVIOUS
<1>2. handed' \subseteq Stored'
  BY <1>1 DEF Dropped, TurnsInv, AnswersCanBeContinued
<1>3. \A u \in Turns : HasBeenKept(u) => turn[u].id \in Stored' \cup lost'
  BY <1>1 DEF Dropped, TurnsInv, KeptOrLost
<1>4. outdated' \subseteq Ids
  BY <1>1 DEF Dropped, TurnsInv, TurnTypes
<1> QED
  BY <1>1, <1>2, <1>3, <1>4 DEF StoreGoesOn, Dropped

(* An action that only waits, or leaves the store alone. *)
LEMMA WaitingGoesOn ==
  ASSUME TurnsInv, NEW t \in Turns, UNCHANGED <<size, total, outdated, handed, lost>>,
         IsOrder(recency'), EntriesOf(recency') = Stored, OnlyLeaves(t)
  PROVE  StoreGoesOn(t) /\ Stored' = Stored
<1>1. Stored' = Stored
  BY DEF Stored, EntriesOf
<1>2. Dropped({})
  BY <1>1 DEF Dropped
<1>3. WithinLimits(Stored, total')
  BY DEF TurnsInv, StoreWithinLimits, WithinLimits
<1> QED
  BY <1>1, <1>2, <1>3, DroppingGoesOn, StoredIs

LEMMA StoreOf ==
  ASSUME TurnsInv
  PROVE  /\ size \in [Ids -> Nat] /\ WithinLimits(Stored, total) /\ IsOrder(recency)
         /\ outdated \subseteq Ids /\ minted \in Nat /\ shown \subseteq 1..minted
         /\ shown \subseteq Ids
         /\ \A t \in Turns : turn[t].id \in Nat /\ turn[t].id <= minted
<1>1. TurnTypes /\ CallsWait /\ StoreWithinLimits
  BY DEF TurnsInv
<1>2. minted \in Nat /\ minted <= MaxIds /\ MaxIds \in Nat
  BY <1>1, TurnsAssumption DEF TurnTypes
<1>3. shown \subseteq Ids
  BY <1>1, <1>2 DEF TurnTypes, Ids
<1>4. \A t \in Turns : turn[t].id \in Nat /\ turn[t].id <= minted
  BY <1>1, TurnsAssumption DEF TurnTypes, Turn, Ids, NoId
<1> QED
  BY <1>1, <1>2, <1>3, <1>4 DEF TurnTypes, CallsWait, StoreWithinLimits, WithinLimits

LEMMA TurnOf ==
  ASSUME TurnsInv, NEW t \in Turns
  PROVE  /\ turn \in [Turns -> Turn] /\ turn[t] \in Turn /\ Idle \in Turn
         /\ (turn[t].stage \in {"lookup", "put"} => t \in Known(recency))
         /\ (turn[t].client = "left" => turn[t].stage \in {"put", "drop"})
         /\ (turn[t].stage \in {"stream", "put", "drop", "tell"} =>
               turn[t].id # NoId /\ turn[t].id \in Ids)
         /\ (turn[t].stage \in {"lookup", "drop"} =>
               turn[t].prev # NoId /\ turn[t].prev \in Ids)
<1>1. TurnTypes /\ CallsWait /\ TurnsAreNumbered
  BY DEF TurnsInv
<1>2. turn \in [Turns -> Turn] /\ turn[t] \in Turn
  BY <1>1 DEF TurnTypes
<1>3. Idle \in Turn
  BY DEF Idle, Turn
<1> QED
  BY <1>1, <1>2, <1>3 DEF CallsWait, TurnsAreNumbered, Turn

(* A turn that is over, and nothing else of it. *)
LEMMA EndGoesOn ==
  ASSUME TurnsInv, NEW t \in Turns, End(t), UNCHANGED minted,
         shown' \subseteq 1..minted
  PROVE  TurnGoesOn(t)
<1>1. turn \in [Turns -> Turn] /\ Idle \in Turn
  BY TurnOf
<1>2. turn' = [turn EXCEPT ![t] = Idle]
  BY DEF End
<1>3. turn' \in [Turns -> Turn] /\ turn'[t] = Idle /\ \A u \in Turns \ {t} : turn'[u] = turn[u]
  BY <1>1, <1>2
<1>4. turn'[t].stage = "free" /\ turn'[t].id = NoId /\ turn'[t].client = "here"
  BY <1>3 DEF Idle
<1>5. minted \in {minted, minted + 1} /\ minted <= MaxIds
  BY TurnsAssumption DEF TurnsInv, TurnTypes
<1> QED
  BY <1>3, <1>4, <1>5 DEF TurnGoesOn

(* A turn that goes on to another stage with its id, in a call or not.     *)
LEMMA GotoGoesOn ==
  ASSUME TurnsInv, NEW t \in Turns, NEW to \in {"upstream", "drop", "tell"},
         Goto(t, to), UNCHANGED <<minted, shown>>,
         turn[t].stage \in {"lookup", "put", "drop"},
         to \in {"drop", "tell"} => turn[t].stage # "lookup",
         turn[t].client # "left",
         to = "drop" => turn[t].prev # NoId /\ ~TooLarge(turn[t].id),
         to \in {"drop", "tell"} /\ ~TooLarge(turn[t].id)
           => turn[t].id \in Stored' \cup lost'
  PROVE  TurnGoesOn(t)
<1>1. turn \in [Turns -> Turn] /\ turn[t] \in Turn
  BY TurnOf
<1>2. turn'[t] = [turn[t] EXCEPT !.stage = to]
  BY <1>1 DEF Goto
<1>3. /\ turn'[t].stage = to /\ turn'[t].id = turn[t].id /\ turn'[t].prev = turn[t].prev
      /\ turn'[t].client = turn[t].client /\ turn'[t] \in Turn
  BY <1>1, <1>2 DEF Turn
<1>4. turn' \in [Turns -> Turn] /\ \A u \in Turns \ {t} : turn'[u] = turn[u]
  BY <1>1, <1>3 DEF Goto
<1>5. minted \in {minted, minted + 1} /\ minted <= MaxIds /\ shown \subseteq 1..minted
  BY TurnsAssumption DEF TurnsInv, TurnTypes
<1>6. turn[t].stage # "lookup" => turn[t].id # NoId
  BY TurnOf
<1> QED
  BY <1>3, <1>4, <1>5, <1>6 DEF TurnGoesOn

(* A turn whose transcript the store is asked to keep, as its client left. *)
LEMMA AgainGoesOn ==
  ASSUME TurnsInv, NEW t \in Turns, NEW r,
         turn' = [turn EXCEPT ![t] = r], r \in Turn, r.stage = "put", r.id = turn[t].id,
         turn[t].id # NoId, UNCHANGED <<minted, shown>>, t \in Known(recency')
  PROVE  TurnGoesOn(t)
<1>1. turn \in [Turns -> Turn]
  BY TurnOf
<1>2. turn'[t] = r /\ turn' \in [Turns -> Turn] /\ \A u \in Turns \ {t} : turn'[u] = turn[u]
  BY <1>1
<1>3. minted \in {minted, minted + 1} /\ minted <= MaxIds /\ shown \subseteq 1..minted
  BY TurnsAssumption DEF TurnsInv, TurnTypes
<1> QED
  BY <1>2, <1>3 DEF TurnGoesOn

LEMMA OverGoesOn ==
  ASSUME TurnsInv, NEW t \in Turns, turn[t].stage \in {"put", "drop"}, Over(t),
         turn[t].client = "left" => t \in Known(recency'),
         ~TooLarge(turn[t].id) => turn[t].id \in Stored' \cup lost',
         UNCHANGED <<minted, shown>>
  PROVE  TurnGoesOn(t)
<1>1. turn[t].client \in {"here", "left", "gone"}
  BY TurnOf DEF Turn
<1>2. CASE turn[t].client = "here"
  <2>1. Goto(t, "tell")
    BY <1>2 DEF Over
  <2> QED
    BY <1>2, <2>1, GotoGoesOn
<1>3. CASE turn[t].client = "left"
  <2> DEFINE r == [turn[t] EXCEPT !.stage = "put", !.client = "gone"]
  <2>1. turn \in [Turns -> Turn] /\ turn[t] \in Turn /\ turn[t].id # NoId
    BY TurnOf
  <2>2. r \in Turn /\ r.stage = "put" /\ r.id = turn[t].id
    BY <2>1 DEF Turn
  <2>3. turn' = [turn EXCEPT ![t] = r]
    BY <1>3, <2>1 DEF Over
  <2> HIDE DEF r
  <2> QED
    BY <1>3, <2>1, <2>2, <2>3, AgainGoesOn
<1>4. CASE turn[t].client = "gone"
  <2>1. End(t)
    BY <1>4 DEF Over
  <2> QED
    BY <2>1, EndGoesOn, StoreOf
<1> QED
  BY <1>1, <1>2, <1>3, <1>4

LEMMA BeginKeeps ==
  ASSUME TurnsInv, NEW t \in Turns, Begin(t), UNCHANGED <<backend, size>>
  PROVE  TurnsInv'
<1>1. PICK prev \in shown \cup {NoId}, plain \in BOOLEAN :
        LET first == IF prev = NoId THEN "upstream" ELSE "lookup" IN
        /\ turn' = [turn EXCEPT ![t] = [Idle EXCEPT !.stage = first, !.prev = prev, !.plain = plain]]
        /\ recency' = IF prev = NoId THEN recency ELSE Asked(recency, t)
  BY DEF Begin
<1> DEFINE r == [Idle EXCEPT !.stage = IF prev = NoId THEN "upstream" ELSE "lookup",
                             !.prev = prev, !.plain = plain]
<1>2. turn \in [Turns -> Turn] /\ prev \in Ids \cup {NoId}
  BY StoreOf, TurnOf
<1>3. /\ r \in Turn /\ r.id = NoId /\ r.prev = prev /\ r.client = "here"
      /\ r.stage = IF prev = NoId THEN "upstream" ELSE "lookup"
  BY <1>2 DEF Idle, Turn
<1>4. turn' = [turn EXCEPT ![t] = r]
  BY <1>1
<1> HIDE DEF r
<1>5. turn'[t] = r /\ turn' \in [Turns -> Turn] /\ \A u \in Turns \ {t} : turn'[u] = turn[u]
  BY <1>2, <1>3, <1>4
<1>6. /\ IsOrder(recency') /\ EntriesOf(recency') = Stored
      /\ Known(recency) \subseteq Known(recency')
      /\ prev # NoId => t \in Known(recency')
  <2>1. CASE prev = NoId
    BY <1>1, <2>1, StoreOf DEF Stored
  <2>2. CASE prev # NoId
    BY <1>1, <2>2, StoreOf, AskedIs DEF Stored
  <2> QED
    BY <2>1, <2>2
<1>7. minted' = minted /\ shown' = shown /\ minted <= MaxIds
  BY StoreOf, TurnsAssumption DEF Begin, TurnsInv, TurnTypes
<1>8. TurnGoesOn(t)
  BY <1>3, <1>5, <1>6, <1>7, StoreOf DEF TurnGoesOn
<1>9. StoreGoesOn(t)
  BY <1>6, WaitingGoesOn DEF Begin, OnlyLeaves
<1> QED
  BY <1>8, <1>9, StepKeeps

LEMMA LookupKeeps ==
  ASSUME TurnsInv, NEW t \in Turns, Lookup(t), UNCHANGED <<backend, size>>
  PROVE  TurnsInv'
<1>1. turn[t].stage = "lookup" /\ Get(t, turn[t].prev) /\ UNCHANGED <<minted, shown>>
  BY DEF Lookup, At
<1>2. turn[t].prev \in Ids /\ t \in Known(recency) /\ turn[t].client # "left"
  BY <1>1, TurnOf
<1>3. StoreGoesOn(t)
  <2>1. /\ \E S \in SUBSET Ids : Dropped(S)
        /\ OnlyLeaves(t)
        /\ \E S \in SUBSET Ids : EntriesOf(recency') = S /\ WithinLimits(S, total')
    BY <1>1, <1>2, StoreOf, GetIs
  <2> QED
    BY <2>1, DroppingGoesOn
<1>4. TurnGoesOn(t)
  <2>1. CASE Found(turn[t].prev)
    <3>1. Goto(t, "upstream")
      BY <2>1 DEF Lookup
    <3> QED
      BY <1>1, <1>2, <3>1, GotoGoesOn
  <2>2. CASE ~Found(turn[t].prev)
    <3>1. End(t)
      BY <2>2 DEF Lookup
    <3> QED
      BY <1>1, <3>1, EndGoesOn, StoreOf
  <2> QED
    BY <2>1, <2>2
<1> QED
  BY <1>3, <1>4, StepKeeps

LEMMA QuietGoesOn ==
  ASSUME TurnsInv, NEW t \in Turns, StoreKept, UNCHANGED size
  PROVE  StoreGoesOn(t) /\ Stored' = Stored
<1>1. recency' = recency
  BY DEF StoreKept
<1> QED
  BY <1>1, StoreOf, WaitingGoesOn DEF StoreKept, Stored, OnlyLeaves

LEMMA RefusedKeeps ==
  ASSUME TurnsInv, NEW t \in Turns, Refused(t) \/ Broken(t), UNCHANGED <<backend, size>>
  PROVE  TurnsInv'
<1>1. End(t) /\ StoreKept /\ UNCHANGED <<minted, shown>>
  BY DEF Refused, Broken
<1>2. TurnGoesOn(t)
  BY <1>1, EndGoesOn, StoreOf
<1>3. StoreGoesOn(t)
  BY <1>1, QuietGoesOn
<1> QED
  BY <1>2, <1>3, StepKeeps

LEMMA CreatedKeeps ==
  ASSUME TurnsInv, NEW t \in Turns, Created(t), UNCHANGED <<backend, size>>
  PROVE  TurnsInv'
<1>1. turn' = [turn EXCEPT ![t].stage = "stream", ![t].id = minted + 1]
  BY DEF Created
<1>2. turn \in [Turns -> Turn] /\ turn[t] \in Turn /\ minted + 1 \in Ids
  BY StoreOf, TurnOf, TurnsAssumption DEF Created, Ids
<1>3. turn'[t] = [turn[t] EXCEPT !.stage = "stream", !.id = minted + 1]
  BY <1>1, <1>2
<1>4. /\ turn'[t].stage = "stream" /\ turn'[t].id = minted + 1 /\ turn'[t] \in Turn
      /\ turn'[t].client # "left"
  <2>1. turn[t].client # "left"
    BY TurnOf DEF Created, At
  <2> QED
    BY <1>2, <1>3, <2>1 DEF Turn
<1>5. turn' \in [Turns -> Turn] /\ \A u \in Turns \ {t} : turn'[u] = turn[u]
  BY <1>1, <1>2, <1>4
<1>6. minted' = minted + 1 /\ minted + 1 <= MaxIds /\ shown' \subseteq 1..(minted + 1)
  BY StoreOf, TurnsAssumption DEF Created
<1>7. minted + 1 # NoId
  BY StoreOf DEF NoId
<1>8. TurnGoesOn(t)
  BY <1>4, <1>5, <1>6, <1>7 DEF TurnGoesOn
<1>9. StoreGoesOn(t)
  BY QuietGoesOn DEF Created
<1> QED
  BY <1>8, <1>9, StepKeeps

(* A transcript is complete: its id is old, or the next one.               *)
LEMMA SaveKeeps ==
  ASSUME TurnsInv, NEW t \in Turns, NEW id \in Ids, NEW due \in BOOLEAN, Save(t, id, due),
         \/ id = turn[t].id /\ minted' = minted
         \/ id = minted + 1 /\ minted' = minted + 1,
         turn[t].stage \in {"stream", "upstream"},
         UNCHANGED <<shown, size, total, outdated, handed, lost>>
  PROVE  TurnsInv'
<1>1. turn' = [turn EXCEPT ![t].stage = IF due THEN "put" ELSE "tell", ![t].id = id, ![t].due = due]
  BY DEF Save
<1>2. turn \in [Turns -> Turn] /\ turn[t] \in Turn
  BY TurnOf
<1>3. turn'[t] = [turn[t] EXCEPT !.stage = IF due THEN "put" ELSE "tell", !.id = id, !.due = due]
  BY <1>1, <1>2
<1>4. /\ turn'[t].stage = (IF due THEN "put" ELSE "tell") /\ turn'[t].id = id
      /\ turn'[t].due = due /\ turn'[t] \in Turn /\ turn'[t].client # "left"
  <2>1. turn[t].client # "left"
    BY TurnOf
  <2> QED
    BY <1>2, <1>3, <2>1 DEF Turn
<1>5. turn' \in [Turns -> Turn] /\ \A u \in Turns \ {t} : turn'[u] = turn[u]
  BY <1>1, <1>2, <1>4
<1>6. /\ minted' \in {minted, minted + 1} /\ minted' <= MaxIds /\ shown' \subseteq 1..minted'
      /\ id # NoId
  BY StoreOf, TurnsAssumption DEF TurnsInv, TurnTypes, Ids, NoId
<1>7. /\ IsOrder(recency') /\ EntriesOf(recency') = Stored
      /\ Known(recency) \subseteq Known(recency')
      /\ due => t \in Known(recency')
  BY StoreOf, AskedIs DEF Save, Stored
<1>8. TurnGoesOn(t)
  BY <1>4, <1>5, <1>6, <1>7 DEF TurnGoesOn
<1>9. StoreGoesOn(t)
  BY <1>7, WaitingGoesOn DEF OnlyLeaves
<1> QED
  BY <1>8, <1>9, StepKeeps

LEMMA CompletedKeeps ==
  ASSUME TurnsInv, NEW t \in Turns, Completed(t) \/ CompletedPlain(t), UNCHANGED <<backend, size>>
  PROVE  TurnsInv'
<1>1. CASE Completed(t)
  <2>1. PICK due \in BOOLEAN : Save(t, turn[t].id, due)
    BY <1>1 DEF Completed
  <2>2. turn[t].stage = "stream" /\ turn[t].id \in Ids /\ UNCHANGED <<minted, shown, size, total, outdated, handed, lost>>
    BY <1>1, TurnOf DEF Completed, At
  <2> QED
    BY <2>1, <2>2, SaveKeeps
<1>2. CASE CompletedPlain(t)
  <2>1. PICK due \in BOOLEAN : Save(t, minted + 1, due)
    BY <1>2 DEF CompletedPlain
  <2>2. /\ turn[t].stage = "upstream" /\ minted + 1 \in Ids /\ minted' = minted + 1
        /\ UNCHANGED <<shown, size, total, outdated, handed, lost>>
    BY <1>2, StoreOf, TurnsAssumption DEF CompletedPlain, Ids, At
  <2> QED
    BY <2>1, <2>2, SaveKeeps
<1> QED
  BY <1>1, <1>2

LEMMA StoreTurnKeeps ==
  ASSUME TurnsInv, NEW t \in Turns, StoreTurn(t), UNCHANGED <<backend, size>>
  PROVE  TurnsInv'
<1>1. turn[t].stage = "put" /\ UNCHANGED <<minted, shown>>
  BY DEF StoreTurn, At
<1>2. /\ t \in Known(recency) /\ turn[t].id \in Ids /\ turn[t].id # NoId
      /\ size \in [Ids -> Nat] /\ IsOrder(recency)
  BY <1>1, TurnOf, StoreOf
<1>3. /\ StoreGoesOn(t)
      /\ turn[t].client = "left" => t \in Known(recency')
      /\ ~TooLarge(turn[t].id) => turn[t].id \in Stored' \cup lost'
  <2>1. CASE TooLarge(turn[t].id)
    <3> DEFINE q == Without(recency, {t})
    <3>1. IsOrder(q) /\ Known(q) = Known(recency) \ {t}
      BY <1>2, OrderWithout
    <3>2. recency' = SavesAgain(q, t) /\ UNCHANGED <<size, total, outdated, handed, lost>>
      BY <2>1 DEF StoreTurn
    <3> HIDE DEF q
    <3>3. /\ IsOrder(recency') /\ EntriesOf(recency') = EntriesOf(q)
          /\ Known(q) \subseteq Known(recency')
          /\ turn[t].client = "left" => t \in Known(recency')
      BY <3>1, <3>2, SavesAgainIs
    <3>4. EntriesOf(recency') = Stored
      BY <3>1, <3>3, NotBoth DEF EntriesOf, Stored
    <3>5. OnlyLeaves(t)
      BY <3>1, <3>3 DEF OnlyLeaves
    <3> QED
      BY <2>1, <3>2, <3>3, <3>4, <3>5, WaitingGoesOn
  <2>2. CASE ~TooLarge(turn[t].id)
    <3>1. Put(t, turn[t].id)
      BY <2>2 DEF StoreTurn
    <3>2. /\ \E S \in SUBSET Ids : Dropped(S)
          /\ OnlyLeaves(t) /\ turn[t].id \in Stored' \cup lost'
          /\ turn[t].client = "left" => t \in Known(recency')
          /\ \E S \in SUBSET Ids : EntriesOf(recency') = S /\ WithinLimits(S, total')
      BY <1>2, <3>1, StoreOf, PutIs
    <3> QED
      BY <3>2, DroppingGoesOn
  <2> QED
    BY <2>1, <2>2
<1>4. TurnGoesOn(t)
  <2>1. CASE Supersedes(t)
    <3>1. Goto(t, "drop")
      BY <2>1 DEF StoreTurn
    <3> QED
      BY <1>1, <1>3, <2>1, <3>1, GotoGoesOn DEF Supersedes
  <2>2. CASE ~Supersedes(t)
    <3>1. Over(t)
      BY <2>2 DEF StoreTurn
    <3> QED
      BY <1>1, <1>3, <3>1, OverGoesOn
  <2> QED
    BY <2>1, <2>2
<1> QED
  BY <1>3, <1>4, StepKeeps

LEMMA DropParentKeeps ==
  ASSUME TurnsInv, NEW t \in Turns, DropParent(t), UNCHANGED <<backend, size>>
  PROVE  TurnsInv'
<1>1. /\ turn[t].stage = "drop" /\ Delete(t, turn[t].prev) /\ Over(t)
      /\ UNCHANGED <<minted, shown>>
  BY DEF DropParent, At
<1>2. turn[t].prev \in Ids
  BY <1>1, TurnOf
<1>3. /\ \E S \in SUBSET Ids : Dropped(S)
      /\ OnlyLeaves(t)
      /\ turn[t].client = "left" => t \in Known(recency')
      /\ \E S \in SUBSET Ids : EntriesOf(recency') = S /\ WithinLimits(S, total')
  BY <1>1, <1>2, StoreOf, DeleteIs
<1>4. StoreGoesOn(t)
  BY <1>3, DroppingGoesOn
<1>5. turn[t].id \in Stored' \cup lost'
  <2>1. turn[t].id \in Stored \cup lost
    BY <1>1 DEF TurnsInv, KeptOrLost, HasBeenKept
  <2>2. PICK S \in SUBSET Ids : Dropped(S)
    BY <1>3
  <2> QED
    BY <2>1, <2>2 DEF Dropped
<1>6. TurnGoesOn(t)
  BY <1>1, <1>3, <1>5, OverGoesOn
<1> QED
  BY <1>4, <1>6, StepKeeps

LEMMA TellKeeps ==
  ASSUME TurnsInv, NEW t \in Turns, Tell(t), UNCHANGED <<backend, size>>
  PROVE  TurnsInv'
<1> DEFINE id == turn[t].id
<1>1. /\ turn[t].stage = "tell" /\ End(t) /\ shown' = shown \cup {id}
      /\ handed' = IF turn[t].due /\ ~TooLarge(id) /\ id \notin lost
                   THEN handed \cup {id} ELSE handed
      /\ lost' = lost \ {id} /\ UNCHANGED <<recency, total, outdated, minted>>
  BY DEF Tell, At
<1>2. id \in Ids /\ id # NoId /\ id <= minted
  BY <1>1, TurnOf, StoreOf
<1>3. TurnGoesOn(t)
  <2>1. id \in 1..minted
    BY <1>2, StoreOf DEF Ids
  <2>2. shown' \subseteq 1..minted
    BY <1>1, <2>1, StoreOf
  <2> QED
    BY <1>1, <2>2, EndGoesOn
<1>4. Stored' = Stored
  BY <1>1 DEF Stored, EntriesOf, Known
<1>5. handed' \subseteq Stored'
  <2>1. turn[t].due /\ ~TooLarge(id) => id \in Stored \cup lost
    BY <1>1 DEF TurnsInv, KeptOrLost, HasBeenKept
  <2> QED
    BY <1>1, <1>4, <2>1 DEF TurnsInv, AnswersCanBeContinued
<1>6. ASSUME NEW u \in Turns \ {t}, HasBeenKept(u)
      PROVE  turn[u].id \in Stored' \cup lost'
  <2>1. turn[u].id \in Stored \cup lost
    BY <1>6 DEF TurnsInv, KeptOrLost
  <2>2. turn[u].id # id
    BY <1>2 DEF TurnsInv, TurnsAreNumbered
  <2> QED
    BY <1>1, <1>4, <2>1, <2>2
<1>7. StoreGoesOn(t)
  <2>1. EntriesOf(recency') = Stored /\ WithinLimits(Stored, total')
    BY <1>1, StoreOf DEF Stored
  <2>2. OnlyLeaves(t)
    BY <1>1 DEF OnlyLeaves
  <2> QED
    BY <1>1, <1>5, <1>6, <2>1, <2>2, StoreOf, StoredIs DEF StoreGoesOn
<1> QED
  BY <1>3, <1>7, StepKeeps

LEMMA LeaveKeeps ==
  ASSUME TurnsInv, NEW t \in Turns, Leave(t), UNCHANGED <<backend, size>>
  PROVE  TurnsInv'
<1>1. UNCHANGED <<total, outdated, lost, minted, shown, handed, size>>
  BY DEF Leave
<1>2. turn \in [Turns -> Turn] /\ turn[t] \in Turn
  BY TurnOf
<1>3. ASSUME UNCHANGED recency
      PROVE  StoreGoesOn(t) /\ Stored' = Stored
  BY <1>1, <1>3, QuietGoesOn DEF StoreKept
<1>4. CASE /\ At(t, "stream")
           /\ turn' = [turn EXCEPT ![t].stage = "put", ![t].client = "gone", ![t].due = TRUE]
           /\ recency' = Asked(recency, t)
  <2> DEFINE r == [turn[t] EXCEPT !.stage = "put", !.client = "gone", !.due = TRUE]
  <2>1. r \in Turn /\ r.stage = "put" /\ r.id = turn[t].id
    BY <1>2 DEF Turn
  <2>2. turn' = [turn EXCEPT ![t] = r]
    BY <1>2, <1>4
  <2>3. turn[t].id # NoId
    BY <1>4, TurnOf DEF At
  <2>4. /\ IsOrder(recency') /\ EntriesOf(recency') = Stored
        /\ Known(recency') = Known(recency) \cup {t}
    BY <1>4, StoreOf, AskedIs DEF Stored
  <2> HIDE DEF r
  <2>5. TurnGoesOn(t)
    BY <1>1, <2>1, <2>2, <2>3, <2>4, AgainGoesOn
  <2>6. StoreGoesOn(t)
    BY <1>1, <2>4, WaitingGoesOn DEF OnlyLeaves
  <2> QED
    BY <2>5, <2>6, StepKeeps
<1>5. CASE End(t) /\ UNCHANGED recency
  <2>1. TurnGoesOn(t)
    BY <1>1, <1>5, StoreOf, EndGoesOn
  <2> QED
    BY <1>3, <1>5, <2>1, StepKeeps
<1>6. CASE /\ turn[t].stage \in {"put", "drop"}
           /\ turn' = [turn EXCEPT ![t].client = "left"] /\ UNCHANGED recency
  <2>1. turn'[t] = [turn[t] EXCEPT !.client = "left"]
    BY <1>2, <1>6
  <2>2. /\ turn'[t].stage = turn[t].stage /\ turn'[t].id = turn[t].id
        /\ turn'[t].prev = turn[t].prev /\ turn'[t] \in Turn
    BY <1>2, <2>1 DEF Turn
  <2>3. turn' \in [Turns -> Turn] /\ \A u \in Turns \ {t} : turn'[u] = turn[u]
    BY <1>2, <1>6, <2>2
  <2>4. minted \in {minted, minted + 1} /\ minted <= MaxIds /\ shown \subseteq 1..minted
    BY TurnsAssumption DEF TurnsInv, TurnTypes
  <2>5. turn[t].stage = "drop" => ~TooLarge(turn[t].id) /\ turn[t].id \in Stored \cup lost
    BY DEF TurnsInv, KeptOrLost, HasBeenKept
  <2>6. turn[t].id # NoId /\ (turn[t].stage = "drop" => turn[t].prev # NoId)
    BY <1>6, TurnOf
  <2>7. turn[t].stage = "put" => t \in Known(recency)
    BY TurnOf
  <2>8. Stored' = Stored /\ recency' = recency /\ lost' = lost
    BY <1>1, <1>3, <1>6
  <2>9. TurnGoesOn(t)
    BY <1>1, <1>6, <2>2, <2>3, <2>4, <2>5, <2>6, <2>7, <2>8 DEF TurnGoesOn
  <2> QED
    BY <1>3, <1>6, <2>9, StepKeeps
<1> QED
  BY <1>4, <1>5, <1>6 DEF Leave

LEMMA StoreFailsKeeps ==
  ASSUME TurnsInv, NEW t \in Turns, StoreFails(t), UNCHANGED <<backend, size>>
  PROVE  TurnsInv'
<1> DEFINE q == Without(recency, {t})
<1>1. /\ turn[t].stage \in {"lookup", "put", "drop"} /\ recency' = SavesAgain(q, t)
      /\ IF turn[t].client = "left" THEN Over(t) ELSE End(t)
      /\ UNCHANGED <<size, total, outdated, handed, lost, minted, shown>>
  BY DEF StoreFails
<1>2. IsOrder(q) /\ Known(q) = Known(recency) \ {t}
  BY StoreOf, OrderWithout
<1> HIDE DEF q
<1>3. /\ IsOrder(recency') /\ EntriesOf(recency') = EntriesOf(q)
      /\ Known(q) \subseteq Known(recency')
      /\ turn[t].client = "left" => t \in Known(recency')
  BY <1>1, <1>2, SavesAgainIs
<1>4. EntriesOf(recency') = Stored
  BY <1>2, <1>3, NotBoth DEF EntriesOf, Stored
<1>5. OnlyLeaves(t)
  BY <1>2, <1>3 DEF OnlyLeaves
<1>6. StoreGoesOn(t)
  BY <1>1, <1>3, <1>4, <1>5, WaitingGoesOn
<1>7. TurnGoesOn(t)
  <2>1. CASE turn[t].client = "left"
    <3> DEFINE r == [turn[t] EXCEPT !.stage = "put", !.client = "gone"]
    <3>1. turn \in [Turns -> Turn] /\ turn[t] \in Turn /\ turn[t].id # NoId
      BY <2>1, TurnOf
    <3>2. r \in Turn /\ r.stage = "put" /\ r.id = turn[t].id
      BY <3>1 DEF Turn
    <3>3. turn' = [turn EXCEPT ![t] = r]
      BY <1>1, <2>1, <3>1 DEF Over
    <3> HIDE DEF r
    <3> QED
      BY <1>1, <1>3, <2>1, <3>1, <3>2, <3>3, AgainGoesOn
  <2>2. CASE turn[t].client # "left"
    BY <1>1, <2>2, EndGoesOn, StoreOf
  <2> QED
    BY <2>1, <2>2
<1> QED
  BY <1>6, <1>7, StepKeeps

LEMMA ExpireKeeps ==
  ASSUME TurnsInv, NEW id \in Ids, Expire(id)
  PROVE  TurnsInv'
<1>1. /\ outdated' = outdated \cup {id}
      /\ UNCHANGED <<recency, total, size, turn, minted, shown, handed, lost>>
  BY DEF Expire
<1>2. TurnTypes' /\ CallsWait' /\ TurnsAreNumbered'
  BY <1>1 DEF TurnsInv, TurnTypes, CallsWait, TurnsAreNumbered
<1>3. Stored' = Stored
  BY <1>1 DEF Stored
<1>4. StoreWithinLimits'
  BY <1>1, <1>3, StoreOf, LimitsPrimed DEF Stored
<1>5. KeptOrLost' /\ AnswersCanBeContinued'
  BY <1>1, <1>3 DEF TurnsInv, KeptOrLost, HasBeenKept, TooLarge, AnswersCanBeContinued
<1>6. \A t \in Turns : (turn[t].stage = "drop")' => ~TooLarge(turn[t].id)'
  BY <1>1 DEF TurnsInv, TooLarge
<1> QED
  BY <1>2, <1>4, <1>5, <1>6 DEF TurnsInv

LEMMA NothingIsOrdered ==
  /\ IsOrder({}) /\ Known({}) = {} /\ EntriesOf({}) = {}
  /\ (size \in [Ids -> Nat] => WithinLimits({}, 0))
<1>1. IsOrder({}) /\ Known({}) = {} /\ EntriesOf({}) = {}
  BY DEF IsOrder, Known, EntriesOf
<1>2. Cardinality({}) = 0 /\ Bytes({}) = 0
  BY FS_EmptySet, BytesOfNothing
<1> QED
  BY <1>1, <1>2, TurnsAssumption DEF WithinLimits

LEMMA RestartKeeps ==
  ASSUME TurnsInv, Restart
  PROVE  TurnsInv'
<1>1. turn' = [t \in Turns |-> Idle] /\ UNCHANGED <<size, minted, shown>>
  BY DEF Restart
<1>2. Idle \in Turn /\ Idle.stage = "free" /\ Idle.id = NoId /\ Idle.client = "here"
  BY DEF Idle, Turn
<1>3. \E S : /\ EntriesOf(recency') = S /\ IsOrder(recency') /\ WithinLimits(S, total')
             /\ handed' \subseteq S /\ outdated' \subseteq Ids
  <2>1. CASE backend = "memory"
    <3>1. recency' = {} /\ total' = 0 /\ Forget(Stored)
      BY <2>1 DEF Restart
    <3>2. handed' \subseteq {} /\ outdated' \subseteq Ids
      BY <3>1, StoreOf DEF Forget, TurnsInv, AnswersCanBeContinued
    <3> QED
      BY <3>1, <3>2, StoreOf, NothingIsOrdered
  <2>2. CASE backend # "memory"
    <3> DEFINE q == Without(recency, Turns)
    <3>1. IsOrder(q) /\ Known(q) = Known(recency) \ Turns
      BY StoreOf, OrderWithout
    <3>2. recency' = q /\ UNCHANGED <<total, outdated, handed, lost>>
      BY <2>2 DEF Restart
    <3> HIDE DEF q
    <3>3. EntriesOf(recency') = Stored
      BY <3>1, <3>2, NotBoth DEF EntriesOf, Stored
    <3> QED
      BY <3>1, <3>2, <3>3, StoreOf DEF TurnsInv, AnswersCanBeContinued
  <2> QED
    BY <2>1, <2>2
<1>4. PICK S : /\ EntriesOf(recency') = S /\ IsOrder(recency') /\ WithinLimits(S, total')
               /\ handed' \subseteq S /\ outdated' \subseteq Ids
  BY <1>3
<1>5. TurnTypes'
  <2>1. NoId <= minted
    BY StoreOf DEF NoId
  <2> QED
    BY <1>1, <1>2, <1>4, <2>1 DEF TurnsInv, TurnTypes
<1>6. CallsWait' /\ TurnsAreNumbered' /\ KeptOrLost'
  BY <1>1, <1>2, <1>4 DEF CallsWait, TurnsAreNumbered, KeptOrLost, HasBeenKept
<1>7. \A t \in Turns : (turn[t].stage = "drop")' => ~TooLarge(turn[t].id)'
  BY <1>1, <1>2
<1>8. AnswersCanBeContinued'
  BY <1>4 DEF AnswersCanBeContinued, Stored, EntriesOf
<1>9. StoreWithinLimits'
  BY <1>1, <1>4, LimitsPrimed
<1> QED
  BY <1>5, <1>6, <1>7, <1>8, <1>9 DEF TurnsInv

LEMMA TurnsInvHolds == TurnsSpec => []TurnsInv
<1>1. TurnsInit => TurnsInv
  <2> SUFFICES ASSUME TurnsInit PROVE TurnsInv
    OBVIOUS
  <2>1. Idle \in Turn /\ Idle.stage = "free" /\ Idle.id = NoId /\ Idle.client = "here"
    BY DEF Idle, Turn
  <2>2. TurnTypes
    BY <2>1, TurnsAssumption DEF TurnsInit, TurnTypes, Ids, NoId
  <2>3. IsOrder(recency) /\ Stored = {} /\ WithinLimits({}, total)
    BY <2>2, NothingIsOrdered DEF TurnsInit, Stored, TurnTypes
  <2>4. CallsWait /\ TurnsAreNumbered /\ KeptOrLost
    BY <2>1, <2>3 DEF TurnsInit, CallsWait, TurnsAreNumbered, KeptOrLost, HasBeenKept
  <2>5. \A t \in Turns : turn[t].stage # "drop"
    BY <2>1 DEF TurnsInit
  <2>6. AnswersCanBeContinued /\ StoreWithinLimits
    BY <2>3 DEF TurnsInit, AnswersCanBeContinued, StoreWithinLimits, WithinLimits
  <2> QED
    BY <2>2, <2>4, <2>5, <2>6 DEF TurnsInv
<1>2. TurnsInv /\ [TurnsNext]_turnVars => TurnsInv'
  <2> SUFFICES ASSUME TurnsInv, [TurnsNext]_turnVars PROVE TurnsInv'
    OBVIOUS
  <2>1. ASSUME NEW t \in Turns, Serve(t) PROVE TurnsInv'
    <3> UNCHANGED <<backend, size>>
      BY <2>1 DEF Serve
    <3> QED
      BY <2>1, BeginKeeps, LookupKeeps, RefusedKeeps, CreatedKeeps, CompletedKeeps,
         StoreTurnKeeps, DropParentKeeps, TellKeeps, LeaveKeeps, StoreFailsKeeps DEF Serve
  <2>2. CASE UNCHANGED turnVars
    <3>1. UNCHANGED <<recency, total, outdated, size, turn, minted, shown, handed, lost>>
      BY <2>2 DEF turnVars
    <3>2. Stored' = Stored
      BY <3>1 DEF Stored
    <3>3. StoreWithinLimits'
      BY <3>1, <3>2, StoreOf, LimitsPrimed DEF Stored
    <3>4. /\ TurnTypes' /\ CallsWait' /\ TurnsAreNumbered' /\ KeptOrLost'
          /\ AnswersCanBeContinued'
      BY <3>1, <3>2 DEF TurnsInv, TurnTypes, CallsWait, TurnsAreNumbered, KeptOrLost,
         HasBeenKept, TooLarge, AnswersCanBeContinued
    <3>5. \A t \in Turns : (turn[t].stage = "drop")' => ~TooLarge(turn[t].id)'
      BY <3>1 DEF TurnsInv, TooLarge
    <3> QED
      BY <3>3, <3>4, <3>5 DEF TurnsInv
  <2> QED
    BY <2>1, <2>2, ExpireKeeps, RestartKeeps DEF TurnsNext
<1> QED
  BY <1>1, <1>2, PTL DEF TurnsSpec

(***************************************************************************)
(* ConversationsAreKept (responses_state.py, main.py).                     *)
(***************************************************************************)
THEOREM ConversationsStayKept == TurnsSpec => []ConversationsAreKept
<1>1. TurnsInv => ConversationsAreKept
  BY DEF TurnsInv, ConversationsAreKept, NoChainIsCut, KeptOrLost, HasBeenKept,
     ParentHasAnHeir, At
<1> QED
  BY <1>1, TurnsInvHolds, PTL
===============================================================================
