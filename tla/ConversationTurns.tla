--------------------------- MODULE ConversationTurns ---------------------------
(***************************************************************************)
(* The turns of the Responses API in the llm-converter (the route          *)
(* /v1/responses, main.py) and the store they are continued from           *)
(* (responses_state.py), in memory or in a SQLite file that survives a     *)
(* restart.  Every turn gets a fresh id; a turn that continues another     *)
(* reads its transcript first, and replaces it once its own is stored.     *)
(***************************************************************************)
EXTENDS Integers, FiniteSets

CONSTANTS
  Turns,            \* slots for requests that are served at the same time
  MaxIds,           \* bound on the ids minted
  MaxEntries, MaxBytes, MaxEntryBytes,  \* limits of the store
  SizeChoices,      \* the transcripts' sizes that are explored, each [Ids -> Nat]
  MaxTurnFaults     \* bound on restarts and failures of the store together

ASSUME TurnsAssumption ==
  /\ MaxIds \in Nat /\ MaxEntries \in Nat \ {0}
  /\ MaxBytes \in Nat /\ MaxEntryBytes \in Nat /\ MaxTurnFaults \in Nat
  /\ SizeChoices \subseteq [1..MaxIds -> Nat]
  /\ Turns \cap 1..MaxIds = {}

VARIABLES
  backend,    \* "memory" or "sqlite" (response_store_path), never changed
  recency,    \* who was used no later than whom: the entries, and the turns
              \* whose call of the store has read the clock and waits
  total,      \* _total_bytes, the running sum of the in-memory store
  outdated,   \* entries past their time to live
  size,       \* the size of each transcript
  turn,       \* the requests being served
  minted,     \* how many ids there are
  shown,      \* ids a client has seen
  turnFaults, \* restarts and failures so far
  handed,     \* history: ids that clients were answered with and may expect to
              \* continue, as long as the store has not dropped them since
  lost        \* history: ids of turns being served that the store has dropped

turnVars ==
  <<backend, recency, total, outdated, size, turn, minted, shown, turnFaults, handed,
    lost>>

Ids == 1..MaxIds
NoId == 0
Idle == [stage |-> "free", id |-> NoId, prev |-> NoId, plain |-> FALSE,
         due |-> FALSE, client |-> "here"]

Known(q) == {x \in Ids \cup Turns : <<x, x>> \in q}
Without(q, S) == {p \in q : p[1] \notin S /\ p[2] \notin S}
MovedToEnd(q, x) == Without(q, {x}) \cup ((Known(q) \cup {x}) \X {x})
InPlaceOf(q, t, id) ==
  LET new(x) == IF x = t THEN id ELSE x
  IN  {<<new(p[1]), new(p[2])>> : p \in Without(q, {id})}

EntriesOf(q) == Known(q) \cap Ids
Stored == EntriesOf(recency)
Bytes(S) == Cardinality(UNION {{i} \X (1..size[i]) : i \in S})
At(t, stage) == turn[t].stage = stage

TurnsInit ==
  /\ backend \in {"memory", "sqlite"}
  /\ recency = {} /\ total = 0 /\ outdated = {}
  /\ size \in SizeChoices
  /\ turn = [t \in Turns |-> Idle] /\ minted = 0 /\ shown = {} /\ turnFaults = 0
  /\ handed = {} /\ lost = {}

-------------------------------------------------------------------------------
(* The store.  A call reads the clock before it waits for the lock: the    *)
(* place of t in recency is the time its entry will carry.  The in-memory  *)
(* store orders its entries by when they were written instead.             *)
Asked(q, t) == MovedToEnd(q, t)

Answered(q, t, id) ==
  IF backend = "memory" THEN MovedToEnd(Without(q, {t}), id) ELSE InPlaceOf(q, t, id)

(* _prune: the least recently used entries go, down to MaxEntries, and     *)
(* while there are too many bytes and more than one entry.                 *)
Evicted(q, bytes) ==
  LET Before(i) == {j \in EntriesOf(q) \ {i} : <<j, i>> \in q}
      Left(i) == Cardinality(EntriesOf(q) \ Before(i))
      Oldest(i) == \/ Left(i) > MaxEntries
                   \/ MaxBytes > 0 /\ bytes - Bytes(Before(i)) > MaxBytes /\ Left(i) > 1
  IN {i \in EntriesOf(q) : Oldest(i)}

(* What leaves the store is lost to its clients. *)
Forget(S) ==
  /\ outdated' = outdated \ S
  /\ handed' = handed \ S
  /\ lost' = {i \in lost \cup S : \E t \in Turns : turn[t].id = i}

(* get: an expired entry is dropped, a live one becomes the latest. *)
Found(prev) == prev \in Stored /\ prev \notin outdated

Get(t, prev) ==
  IF Found(prev)
  THEN recency' = Answered(recency, t, prev) /\ UNCHANGED <<total, outdated, handed, lost>>
  ELSE /\ recency' = Without(recency, {t, prev})
       /\ total' = IF prev \in Stored THEN total - size[prev] ELSE total
       /\ Forget(IF prev \in Stored THEN {prev} ELSE {})

TooLarge(id) == MaxEntryBytes > 0 /\ size[id] > MaxEntryBytes

CountedWithout(id) == IF id \in Stored THEN total - size[id] ELSE total

(* A client that left during the call cancelled the wait for it: the       *)
(* generator saves once more on its way out.                               *)
SavesAgain(q, t) == IF turn[t].client = "left" THEN Asked(q, t) ELSE q

(* put, of an entry that is not too large. *)
Put(t, id) ==
  LET late == IF backend = "sqlite" THEN outdated \ {id} ELSE {}
      q == Without(Answered(recency, t, id), late)
      bytes == IF backend = "memory" THEN CountedWithout(id) + size[id] ELSE Bytes(EntriesOf(q))
      out == Evicted(q, bytes)
  IN /\ recency' = SavesAgain(Without(q, out), t)
     /\ total' = bytes - Bytes(out)
     /\ Forget(late \cup out \cup (outdated \cap {id}))

(* delete of a turn that was continued. *)
Delete(t, id) ==
  /\ recency' = SavesAgain(Without(recency, {id}), t)
  /\ total' = IF id \in Stored THEN total - size[id] ELSE total
  /\ Forget({id})

Expire(id) ==
  /\ id \in Stored \ outdated
  /\ outdated' = outdated \cup {id}
  /\ UNCHANGED <<backend, recency, total, size, turn, minted, shown, turnFaults, handed,
                 lost>>

-------------------------------------------------------------------------------
(* The turns. *)
StoreKept == UNCHANGED <<recency, total, outdated, handed, lost>>
Goto(t, stage) == turn' = [turn EXCEPT ![t].stage = stage]
End(t) == turn' = [turn EXCEPT ![t] = Idle]

Begin(t) ==
  /\ At(t, "free") /\ minted < MaxIds
  /\ \E prev \in shown \cup {NoId}, plain \in BOOLEAN :
       LET first == IF prev = NoId THEN "upstream" ELSE "lookup" IN
       /\ turn' = [turn EXCEPT ![t] = [Idle EXCEPT !.stage = first, !.prev = prev, !.plain = plain]]
       /\ recency' = IF prev = NoId THEN recency ELSE Asked(recency, t)
  /\ UNCHANGED <<total, outdated, lost, minted, shown, turnFaults, handed>>

(* previous_response_id is looked up: without it the request is refused,   *)
(* with it the turn gets its own id.                                       *)
Lookup(t) ==
  /\ At(t, "lookup")
  /\ IF Found(turn[t].prev) THEN Goto(t, "upstream") ELSE End(t)
  /\ Get(t, turn[t].prev)
  /\ UNCHANGED <<minted, shown, turnFaults>>

(* The upstream refuses, is not reachable, is too slow or answers with     *)
(* something that is not an answer: it is passed on.                       *)
Refused(t) ==
  /\ At(t, "upstream") /\ End(t)
  /\ StoreKept
  /\ UNCHANGED <<minted, shown, turnFaults>>

(* response.created carries the id. *)
Created(t) ==
  /\ At(t, "upstream") /\ ~turn[t].plain /\ minted < MaxIds
  /\ minted' = minted + 1 /\ shown' = shown \cup {minted + 1}
  /\ turn' = [turn EXCEPT ![t].stage = "stream", ![t].id = minted + 1]
  /\ StoreKept
  /\ UNCHANGED turnFaults

(* A transcript is complete.  It is due to be stored if there is output and *)
(* the client does not want it otherwise: before the client is answered.    *)
Save(t, id, due) ==
  /\ turn' = [turn EXCEPT ![t].stage = IF due THEN "put" ELSE "tell", ![t].id = id, ![t].due = due]
  /\ recency' = IF due THEN Asked(recency, t) ELSE recency

(* Mutant: the client sees the last event before the store is asked. *)
CompletedTold(t) ==
  /\ At(t, "stream")
  /\ turn' = [turn EXCEPT ![t].stage = "tell", ![t].due = TRUE]
  /\ StoreKept
  /\ UNCHANGED <<minted, shown, turnFaults>>

Completed(t) ==
  /\ At(t, "stream")
  /\ \E due \in BOOLEAN : Save(t, turn[t].id, due)
  /\ UNCHANGED <<total, outdated, lost, minted, shown, turnFaults, handed>>

CompletedPlain(t) ==
  /\ At(t, "upstream") /\ turn[t].plain /\ minted < MaxIds
  /\ minted' = minted + 1
  /\ \E due \in BOOLEAN : Save(t, minted + 1, due)
  /\ UNCHANGED <<total, outdated, lost, shown, turnFaults, handed>>

(* The call of the store is over. *)
Over(t) ==
  CASE turn[t].client = "here" -> Goto(t, "tell")
    [] turn[t].client = "left" ->
         turn' = [turn EXCEPT ![t].stage = "put", ![t].client = "gone"]
    [] OTHER -> End(t)

Supersedes(t) == turn[t].prev # NoId /\ turn[t].client # "left" /\ ~TooLarge(turn[t].id)

StoreTurn(t) ==
  /\ At(t, "put")
  /\ IF TooLarge(turn[t].id)
     THEN recency' = SavesAgain(Without(recency, {t}), t) /\ UNCHANGED <<total, outdated, handed, lost>>
     ELSE Put(t, turn[t].id)
  /\ IF Supersedes(t) THEN Goto(t, "drop") ELSE Over(t)
  /\ UNCHANGED <<minted, shown, turnFaults>>
(* The transcript the turn continued is superseded by its own. *)
DropParent(t) ==
  /\ At(t, "drop")
  /\ Delete(t, turn[t].prev)
  /\ Over(t)
  /\ UNCHANGED <<minted, shown, turnFaults>>

(* The answer, or the last event of the stream. *)
Tell(t) ==
  /\ At(t, "tell") /\ End(t)
  /\ shown' = shown \cup {turn[t].id}
  /\ handed' = IF turn[t].due /\ ~TooLarge(turn[t].id) /\ turn[t].id \notin lost
               THEN handed \cup {turn[t].id} ELSE handed
  /\ lost' = lost \ {turn[t].id}
  /\ UNCHANGED <<recency, total, outdated, minted, turnFaults>>

(* The bridge raises, or the upstream streams an error: response.failed,   *)
(* and nothing of the turn is kept.                                        *)
Broken(t) ==
  /\ At(t, "stream") /\ End(t)
  /\ StoreKept
  /\ UNCHANGED <<minted, shown, turnFaults>>

(* The client of a stream goes away.  While the next chunk is awaited, the *)
(* generator is cancelled and keeps what it has sent; between two chunks   *)
(* it is closed with nothing to keep.                                      *)
Leave(t) ==
  /\ ~turn[t].plain /\ turn[t].client = "here"
  /\ \/ /\ At(t, "stream")
        /\ turn' = [turn EXCEPT ![t].stage = "put", ![t].client = "gone", ![t].due = TRUE]
        /\ recency' = Asked(recency, t)
     \/ /\ turn[t].stage \in {"stream", "tell"} /\ End(t) /\ UNCHANGED recency
     \/ /\ turn[t].stage \in {"put", "drop"}
        /\ turn' = [turn EXCEPT ![t].client = "left"] /\ UNCHANGED recency
  /\ UNCHANGED <<total, outdated, lost, minted, shown, turnFaults, handed>>

(* A call of the SQLite store raises (the file is locked or full). *)
StoreFails(t) ==
  /\ backend = "sqlite" /\ turnFaults < MaxTurnFaults
  /\ turn[t].stage \in {"lookup", "put", "drop"}
  /\ turnFaults' = turnFaults + 1
  /\ recency' = SavesAgain(Without(recency, {t}), t)
  /\ IF turn[t].client = "left" THEN Over(t) ELSE End(t)
  /\ UNCHANGED <<total, outdated, lost, minted, shown, handed>>

(* The converter restarts: what is in memory is gone. *)
Restart ==
  /\ turnFaults < MaxTurnFaults /\ turnFaults' = turnFaults + 1
  /\ turn' = [t \in Turns |-> Idle]
  /\ IF backend = "memory"
     THEN recency' = {} /\ total' = 0 /\ Forget(Stored)
     ELSE recency' = Without(recency, Turns) /\ UNCHANGED <<total, outdated, handed, lost>>
  /\ UNCHANGED <<backend, size, minted, shown>>

Serve(t) ==
  /\ \/ Begin(t) \/ Lookup(t) \/ Refused(t) \/ Created(t) \/ Completed(t) \/ CompletedPlain(t)
     \/ StoreTurn(t) \/ DropParent(t) \/ Tell(t) \/ Broken(t) \/ Leave(t) \/ StoreFails(t)
  /\ UNCHANGED <<backend, size>>

TurnsNext == (\E t \in Turns : Serve(t)) \/ (\E id \in Ids : Expire(id)) \/ Restart

TurnsSpec == TurnsInit /\ [][TurnsNext]_turnVars

-------------------------------------------------------------------------------
(* An id that a client was given as answered can be continued, unless the  *)
(* store has dropped it since: a client that follows up at once is never   *)
(* told that the id does not exist (body_iter persists before it yields).  *)
AnswersCanBeContinued == handed \subseteq Stored

(* A transcript is only given up for one that has taken its place: a turn  *)
(* the store refused does not cost the conversation (put, "Callers should  *)
(* only delete a chained-from parent after True").                         *)
ParentHasAnHeir == \A t \in Turns : At(t, "drop") => turn[t].id \in Stored \cup lost

(* The count, the byte budget and the running sum agree after every call,  *)
(* a turn saved twice included; one entry may exceed the budget alone.     *)
StoreWithinLimits ==
  /\ total = Bytes(Stored)
  /\ Cardinality(Stored) <= MaxEntries
  /\ MaxBytes > 0 /\ total > MaxBytes => Cardinality(Stored) <= 1

(* Together: whoever goes on at once where an answer left off can do so. *)
NoChainIsCut == AnswersCanBeContinued /\ ParentHasAnHeir

(* ... and the store that keeps them stays within its limits. *)
ConversationsAreKept == NoChainIsCut /\ StoreWithinLimits
===============================================================================
