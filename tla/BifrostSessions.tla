---------------------------- MODULE BifrostSessions ----------------------------
(***************************************************************************)
(* Signing in to the Bifrost UI through UniBridge: the sign-in handoff     *)
(* (routers/bifrost_sso.py) obtains a session of 30 days, records it, and  *)
(* hands it to a browser against a one-time code; a loop of the active     *)
(* color (services/bifrost_sessions.py) logs it out when it is due.        *)
(***************************************************************************)
EXTENDS Naturals, Sequences, FiniteSets, SequencesExt

CONSTANTS Sites,          \* the processes: the two colors
          FirstKey,       \* the ENCRYPTION_KEY of both ...
          LaterKeys,      \* ... and others one may be restarted with
          MaxSignIns, MaxPending,   \* MAX_PENDING_HANDOFFS
          MaxRestarts     \* bound on restarts of a process

Tokens == 1..MaxSignIns

ASSUME SessionsAssumption ==
  /\ MaxSignIns \in Nat /\ MaxPending \in Nat \ {0}
  /\ MaxRestarts \in Nat

VARIABLES
  session,   \* each token at Bifrost: "none", "valid" or "over"
  handoff,   \* the sign-in that obtained it: how far it is, and where
  recorded,  \* bifrost_sso_sessions, as [token, key, due]
  codes,     \* _pending of each process, the oldest first
  browsers,  \* how many browsers were given each token
  purge,     \* the pass of each process: its due rows, the ones to delete
  secret,    \* the ENCRYPTION_KEY of each process
  restarts,
  (* History. *)
  unreadable  \* tokens whose row was dropped under another key

sessionVars == <<session, handoff, recorded, codes, browsers, purge, secret, restarts, unreadable>>

Ended == [at |-> "ended"]
NoPurge == [on |-> FALSE, todo |-> {}, gone |-> {}]

SessionsInit ==
  /\ session = [t \in Tokens |-> "none"] /\ handoff = [t \in Tokens |-> Ended]
  /\ recorded = {} /\ browsers = [t \in Tokens |-> 0]
  /\ codes = [c \in Sites |-> <<>>] /\ purge = [c \in Sites |-> NoPurge]
  /\ secret = [c \in Sites |-> FirstKey]
  /\ restarts = 0 /\ unreadable = {}

loop == <<purge, secret, restarts, unreadable>>

(* A call to Bifrost or a commit fails, or its answer is lost. *)
Outcomes == {"ok", "failed", "lost"}

-------------------------------------------------------------------------------
(* create_bifrost_sso_handoff.  A sign-in whose answer is lost leaves a    *)
(* session that nobody holds.                                              *)
SignIn(t, c, outcome) ==
  /\ session[t] = "none" /\ \A u \in Tokens : u < t => session[u] # "none"
  /\ outcome # "failed"
  /\ session' = [session EXCEPT ![t] = "valid"]
  /\ handoff' = [handoff EXCEPT ![t] = IF outcome = "ok" THEN [at |-> "record", in |-> c] ELSE Ended]
  /\ UNCHANGED <<recorded, codes, browsers, loop>>

(* Mutant: a session is handed out whether or not it was recorded. *)
HandOutAnyway(outcome) == "code"
AfterRecord(outcome) == IF outcome = "ok" THEN "code" ELSE "drop"

(* record_session.  What could not be recorded is not handed out. *)
Record(t, outcome) ==
  /\ handoff[t].at = "record"
  /\ recorded' = IF outcome = "failed" THEN recorded
                 ELSE recorded \cup {[token |-> t, key |-> secret[handoff[t].in], due |-> FALSE]}
  /\ handoff' = [handoff EXCEPT ![t].at = AfterRecord(outcome)]
  /\ UNCHANGED <<session, codes, browsers, loop>>

LogOutUnrecorded(t, outcome) ==
  /\ handoff[t].at = "drop"
  /\ session' = IF outcome = "failed" THEN session ELSE [session EXCEPT ![t] = "over"]
  /\ handoff' = [handoff EXCEPT ![t] = Ended]
  /\ UNCHANGED <<recorded, codes, browsers, loop>>

(* _drop_stale makes room by dropping the oldest codes. *)
Room(queue) == IF Len(queue) < MaxPending THEN queue ELSE SubSeq(queue, Len(queue) - MaxPending + 2, Len(queue))
MakeCode(t) ==
  /\ handoff[t].at = "code"
  /\ codes' = [codes EXCEPT ![handoff[t].in] = Append(Room(@), t)]
  /\ handoff' = [handoff EXCEPT ![t] = Ended]
  /\ UNCHANGED <<session, recorded, browsers, loop>>

Spent(queue, t) == RemoveFirst(queue, t)

(* _redeem_code, by the process that the browser is routed to; a code of   *)
(* the other one is unknown there.                                         *)
Redeem(t, c) ==
  /\ Contains(codes[c], t)
  /\ browsers' = [browsers EXCEPT ![t] = IF @ < 2 THEN @ + 1 ELSE @]
  /\ codes' = [codes EXCEPT ![c] = Spent(@, t)]
  /\ UNCHANGED <<session, handoff, recorded, loop>>

(* The minute of a code passes: it is answered as one that was used. *)
CodeExpires(t, c) ==
  /\ Contains(codes[c], t) /\ codes' = [codes EXCEPT ![c] = RemoveFirst(@, t)]
  /\ UNCHANGED <<session, handoff, recorded, browsers, loop>>

(* BIFROST_SSO_SESSION_HOURS pass. *)
RowFallsDue(row) ==
  /\ ~row.due /\ recorded' = (recorded \ {row}) \cup {[row EXCEPT !.due = TRUE]}
  /\ UNCHANGED <<session, handoff, codes, browsers, loop>>

-------------------------------------------------------------------------------
handoffs == <<handoff, codes, browsers, secret, restarts>>

(* run_revoke_loop: a color that cannot reach APISIX takes itself for the  *)
(* active one, so that both may be at it.                                  *)
StartPurge(c) ==
  /\ ~purge[c].on /\ \E row \in recorded : row.due
  /\ purge' = [purge EXCEPT ![c] = [on |-> TRUE, gone |-> {},
                                    todo |-> {row \in recorded : row.due}]]
  /\ UNCHANGED <<session, recorded, unreadable, handoffs>>

LoggedOut(outcome, over) == outcome = "ok" /\ over

(* log_out of one row: the logout may not reach Bifrost, or Bifrost may    *)
(* answer it without a logout ("failed"); the check that follows tells     *)
(* whether it took effect, unless its answer is "lost".                    *)
PurgeRow(c, row, reached, outcome) ==
  /\ purge[c].on /\ row \in purge[c].todo
  /\ \A r \in purge[c].todo : row.token <= r.token
  /\ IF row.key # secret[c]
     THEN /\ purge' = [purge EXCEPT ![c].todo = @ \ {row}, ![c].gone = @ \cup {row}]
          /\ UNCHANGED session
     ELSE LET over == reached \/ session[row.token] = "over" IN
          /\ session' = IF over THEN [session EXCEPT ![row.token] = "over"] ELSE session
          /\ purge' = [purge EXCEPT ![c].todo = @ \ {row},
                                    ![c].gone = IF LoggedOut(outcome, over) THEN @ \cup {row} ELSE @]
  /\ UNCHANGED <<recorded, unreadable, handoffs>>

(* The rows go in one commit at the end; those that the pass of the other  *)
(* color deleted are no longer there.                                      *)
EndPurge(c, outcome) ==
  /\ purge[c].on /\ purge[c].todo = {}
  /\ recorded' = IF outcome = "failed" THEN recorded ELSE recorded \ purge[c].gone
  /\ unreadable' = IF outcome = "failed" THEN unreadable
                   ELSE unreadable \cup {row.token : row \in {r \in purge[c].gone : r.key # secret[c]}}
  /\ purge' = [purge EXCEPT ![c] = NoPurge]
  /\ UNCHANGED <<session, handoffs>>

(* An administrator logs out in the Bifrost UI, or the 30 days pass. *)
LogsOutAlone(t) ==
  /\ session[t] = "valid" /\ session' = [session EXCEPT ![t] = "over"]
  /\ UNCHANGED <<recorded, purge, unreadable, handoffs>>

-------------------------------------------------------------------------------
(* A process is restarted, perhaps under another key: its codes, its pass  *)
(* and its requests are gone.                                              *)
RestartSite(c, key) ==
  /\ restarts < MaxRestarts /\ restarts' = restarts + 1
  /\ secret' = [secret EXCEPT ![c] = key]
  /\ codes' = [codes EXCEPT ![c] = <<>>]
  /\ purge' = [purge EXCEPT ![c] = NoPurge]
  /\ handoff' = [t \in Tokens |-> IF handoff[t].at # "ended" /\ handoff[t].in = c THEN Ended ELSE handoff[t]]
  /\ UNCHANGED <<session, recorded, browsers, unreadable>>

SessionsNext ==
  \/ \E t \in Tokens, c \in Sites : \/ (\E outcome \in Outcomes : SignIn(t, c, outcome))
                                     \/ Redeem(t, c) \/ CodeExpires(t, c)
  \/ \E t \in Tokens : \/ MakeCode(t) \/ LogsOutAlone(t)
                        \/ \E outcome \in Outcomes : Record(t, outcome) \/ LogOutUnrecorded(t, outcome)
  \/ \E row \in recorded : RowFallsDue(row)
  \/ \E c \in Sites :
       \/ StartPurge(c) \/ (\E outcome \in Outcomes : EndPurge(c, outcome))
       \/ \E row \in purge[c].todo, reached \in BOOLEAN, outcome \in {"ok", "lost"} : PurgeRow(c, row, reached, outcome)
       \/ \E key \in {secret[c]} \cup LaterKeys : RestartSite(c, key)

SessionsSpec == SessionsInit /\ [][SessionsNext]_sessionVars

-------------------------------------------------------------------------------
Offered(t) == browsers[t] > 0 \/ \E c \in Sites : Contains(codes[c], t)

(* A session that a browser holds or may still fetch is on record for as   *)
(* long as Bifrost accepts it, and one browser at most was given it,       *)
(* whatever calls fail and whichever process dies on the way; only a row   *)
(* written under another key is given up (create_bifrost_sso_handoff,      *)
(* _redeem_code, revoke_due_sessions).                                     *)
HandedOutIsRecorded ==
  \A t \in Tokens :
    /\ browsers[t] <= 1
    /\ Offered(t) /\ session[t] = "valid" /\ t \notin unreadable => \E row \in recorded : row.token = t
===============================================================================
