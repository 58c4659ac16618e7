----------------------------- MODULE ModelsListing -----------------------------
(***************************************************************************)
(* GET /v1/models of the llm-converter (main.py): callers share one fetch  *)
(* of the upstream's listing, each waits for it for a while only, and the  *)
(* last good listing stands in when the upstream is slow or broken.        *)
(***************************************************************************)
EXTENDS Integers, FiniteSets

CONSTANTS Callers,      \* requests at the same time
          CacheTTL,     \* models_cache_ttl
          StaleMax,     \* models_stale_max
          MaxClock      \* bound on the clock

ASSUME ListingAssumption == CacheTTL \in Nat /\ StaleMax \in Nat /\ MaxClock \in Nat

VARIABLES
  clock,
  snapshot,  \* when the last good listing was fetched, or None
  fetches,   \* the fetches that are at the upstream
  flight,    \* _listing_fetch: the fetch that callers join, or None
  caller,    \* each request: its stage, the snapshot it read, the fetch it joined
  answer     \* what each was answered

listVars == <<clock, snapshot, fetches, flight, caller, answer>>

None == -1
Free == [stage |-> "free", snap |-> None, joined |-> None, at |-> None]
Transient == {"timeout", "unreachable", "error5xx"}
Outcomes == {"listing", "refused"} \cup Transient
NoAnswer == [kind |-> "none", age |-> 0]

ListInit ==
  /\ clock = 0 /\ snapshot = None /\ fetches = {} /\ flight = None
  /\ caller = [c \in Callers |-> Free]
  /\ answer = [c \in Callers |-> NoAnswer]

(* Callers that know their outcome resume before the next second. *)
Tick ==
  /\ \A c \in Callers : caller[c].stage \notin Outcomes
  /\ clock < MaxClock /\ clock' = clock + 1
  /\ UNCHANGED <<snapshot, fetches, flight, caller, answer>>

(* An answer, and how old its listing is when it is given. *)
Reply(c, kind, at) ==
  /\ answer' = [answer EXCEPT ![c] = [kind |-> kind, age |-> IF at = None THEN 0 ELSE clock - at]]
  /\ caller' = [caller EXCEPT ![c] = Free]

Fresh == snapshot # None /\ CacheTTL > 0 /\ clock - snapshot < CacheTTL

(* Mutant: every caller asks for itself. *)
JoinsNothing == FALSE

Joins == flight # None

(* A fetch is known by a number that is not in use. *)
NewFetch == CHOOSE n \in 0..Cardinality(fetches) : n \notin fetches

(* A listing that is young enough answers at once; otherwise the caller    *)
(* joins the fetch in flight or starts one, with the snapshot it has read. *)
Ask(c) ==
  /\ caller[c].stage = "free"
  /\ IF Fresh THEN Reply(c, "listing", snapshot) /\ UNCHANGED <<fetches, flight>>
     ELSE LET n == IF Joins THEN flight ELSE NewFetch IN
          /\ flight' = n /\ fetches' = fetches \cup {n}
          /\ caller' = [caller EXCEPT ![c] = [stage |-> "wait", snap |-> snapshot, joined |-> n,
                                              at |-> None]]
          /\ answer' = [answer EXCEPT ![c] = NoAnswer]
  /\ UNCHANGED <<clock, snapshot>>

(* _fetch_listing comes back, and wakes those who still wait for it. *)
Fetched(n, outcome) ==
  /\ n \in fetches /\ fetches' = fetches \ {n}
  /\ flight' = IF flight = n THEN None ELSE flight
  /\ snapshot' = IF outcome = "listing" THEN clock ELSE snapshot
  /\ caller' = [c \in Callers |->
       IF caller[c].stage = "wait" /\ caller[c].joined = n
       THEN [caller[c] EXCEPT !.stage = outcome, !.at = IF outcome = "listing" THEN clock ELSE None]
       ELSE caller[c]]
  /\ UNCHANGED <<clock, answer>>

(* models_timeout: the caller stops waiting, the fetch goes on. *)
GiveUp(c) ==
  /\ caller[c].stage = "wait"
  /\ caller' = [caller EXCEPT ![c].stage = "timeout"]
  /\ UNCHANGED <<clock, snapshot, fetches, flight, answer>>

(* A transient failure is covered by the snapshot the caller has read, if  *)
(* that is not too old by now.                                             *)
StandsIn(c) ==
  /\ caller[c].snap # None /\ caller[c].stage \in Transient
  /\ StaleMax > 0 /\ clock - caller[c].snap <= StaleMax

Resumed(c) ==
  /\ caller[c].stage \in Outcomes
  /\ IF caller[c].stage = "listing" THEN Reply(c, "listing", caller[c].at)
     ELSE IF StandsIn(c) THEN Reply(c, "listing", caller[c].snap)
     ELSE Reply(c, caller[c].stage, None)
  /\ UNCHANGED <<clock, snapshot, fetches, flight>>

ListNext ==
  \/ Tick
  \/ \E c \in Callers : Ask(c) \/ GiveUp(c) \/ Resumed(c)
  \/ \E n \in fetches, outcome \in Outcomes : Fetched(n, outcome)

ListSpec == ListInit /\ [][ListNext]_listVars

-------------------------------------------------------------------------------
(* The upstream is asked once at a time, and goes on being asked once when *)
(* callers give up and others come ("Concurrent misses share one upstream  *)
(* fetch").                                                                *)
OneFetchAtATime == Cardinality(fetches) <= 1

(* A listing that callers are answered with is never older than the        *)
(* settings allow at that moment, whenever its snapshot was read and       *)
(* however long the fetch was waited for (docstring of models).            *)
ListingIsRecent ==
  \A c \in Callers : answer[c].age <= StaleMax \/ answer[c].age < CacheTTL

(* The listing is cheap to ask for and safe to believe. *)
ListingIsShared == OneFetchAtATime /\ ListingIsRecent
===============================================================================
