---------------------------- MODULE AlertPipeline -----------------------------
(***************************************************************************)
(* The health-check loop of unibridge-service                              *)
(* (app/services/alert_checker.py): each cycle snapshots the mutes, and    *)
(* takes the targets one after the other through                           *)
(*                                                                         *)
(*   update -> mute gate -> persist -> dispatch -> result -> persist       *)
(*                                                                         *)
(* with an await, and so a place to crash, at every persist and dispatch.  *)
(* Writes may fail (they are only logged), sends may fail or find nobody   *)
(* to send to, and a restart reloads the persisted rows.                   *)
(*                                                                         *)
(* One checker runs at a time here; two colors sharing the database are    *)
(* AlertFailover's subject.                                                *)
(***************************************************************************)
EXTENDS AlertState

CONSTANTS
  Targets,      \* monitored (alert_type, target) pairs
  Graded,       \* those whose signal carries a severity and may repeat
  Repeat,       \* alert_settings.repeat_alert_after_cycles
  MaxCrashes    \* bound on crashes of the process

ASSUME PipelineAssumption ==
  /\ Graded \subseteq Targets
  /\ Repeat \in Nat
  /\ MaxCrashes \in Nat

VARIABLES
  mem,      \* AlertStateManager._states
  db,       \* the alert_states table
  muted,    \* targets an unexpired mute (global or their own) covers
  cond,     \* what the next look at each target would see
  pc,       \* where the checker is
  todo,     \* targets this cycle has not reached
  snap,     \* the MuteIndex of this cycle
  cur,      \* the target in hand and what was decided about it
  crashes,  \* crashes so far
  (* History: what recipients know. *)
  told,     \* highest severity delivered for the incident, or NotTold
  opened,   \* severity the incident opened at
  torn      \* targets whose incident a crash hit while it was being announced

vars == <<mem, db, muted, cond, pc, todo, snap, cur, crashes, told, opened, torn>>
history == <<told, opened, torn>>

NotTold == -1
RepeatOf(t) == IF t \in Graded THEN Repeat ELSE 0
ObservationOf(t) == IF t \in Graded THEN {Up, 1, 2} ELSE {Up, 0}

Job == [target : Targets, send : {"none", "triggered", "resolved"}, announced : BOOLEAN]

TypeOK ==
  /\ mem \in [Targets -> Entry]
  /\ db \in [Targets -> Entry]
  /\ muted \subseteq Targets
  /\ cond \in [Targets -> Observation]
  /\ pc \in {"down", "idle", "cycle", "save", "dispatch", "resave"}
  /\ todo \subseteq Targets
  /\ snap \subseteq Targets
  /\ cur \in Job
  /\ crashes \in Nat
  /\ told \in [Targets -> Severity \cup {NotTold}]
  /\ opened \in [Targets -> Severity]
  /\ torn \subseteq Targets

(* A row left by a release that did not track peaks: its severity was the *)
(* announced one.                                                         *)
LegacyRow == [status |-> "alert", fail |-> TriggerAfter, succ |-> 0, sev |-> 1,
              cycles |-> 0, pending |-> FALSE, peak |-> Untracked]

Init ==
  /\ db \in {f \in [Targets -> {NoEntry, LegacyRow}] :
               \A t \in Targets \ Graded : f[t] = NoEntry}
  /\ mem = db
  /\ muted = {}
  /\ cond = [t \in Targets |-> Up]
  /\ pc = "idle"
  /\ todo = {} /\ snap = {}
  /\ cur \in [target : Targets, send : {"none"}, announced : {FALSE}]
  /\ crashes = 0
  /\ told = [t \in Targets |-> IF db[t].status = "alert" THEN db[t].sev ELSE NotTold]
  /\ opened = [t \in Targets |-> db[t].sev]
  /\ torn = {}

-------------------------------------------------------------------------------
(* The world: a target changes condition, mutes are set, lifted or expire. *)
CondChanges(t) ==
  /\ \E o \in ObservationOf(t) \ {cond[t]} : cond' = [cond EXCEPT ![t] = o]
  /\ UNCHANGED <<mem, db, muted, pc, todo, snap, cur, crashes, history>>

MutesChange ==
  /\ \E m \in SUBSET Targets : m # muted /\ muted' = m
  /\ UNCHANGED <<mem, db, cond, pc, todo, snap, cur, crashes, history>>

-------------------------------------------------------------------------------
(* A cycle starts with load_mute_index; when the mutes cannot be read every *)
(* target counts as unmuted.                                                *)
BeginCycle ==
  /\ pc = "idle"
  /\ snap' \in {muted, {}}
  /\ todo' = Targets
  /\ pc' = "cycle"
  /\ UNCHANGED <<mem, db, muted, cond, cur, crashes, history>>

EndCycle ==
  /\ pc = "cycle" /\ todo = {}
  /\ pc' = "idle"
  /\ UNCHANGED <<mem, db, muted, cond, todo, snap, cur, crashes, history>>

(* update, _is_announced and _outbound_alert_type run without an await. *)
Observe(t) ==
  /\ pc = "cycle" /\ t \in todo
  /\ LET ev == Evaluated(mem[t], cond[t], RepeatOf(t), t \in snap)
         opens == mem[t].status # "alert" /\ ev.entry.status = "alert"
     IN  /\ mem' = [mem EXCEPT ![t] = ev.entry]
         /\ cur' = [target |-> t, send |-> ev.send, announced |-> ev.announced]
         /\ told' = IF opens THEN [told EXCEPT ![t] = NotTold] ELSE told
         /\ opened' = IF opens THEN [opened EXCEPT ![t] = ev.entry.sev] ELSE opened
         /\ torn' = IF opens THEN torn \ {t} ELSE torn
  /\ todo' = todo \ {t}
  /\ pc' = "save"
  /\ UNCHANGED <<db, muted, cond, snap, crashes>>

(* No reading for the target: mark_unavailable annotates the entry it has,  *)
(* and the entry is persisted as it stands.                                 *)
Unavailable(t) ==
  /\ pc = "cycle" /\ t \in todo
  /\ mem[t].status # "none"
  /\ cur' = [target |-> t, send |-> "none", announced |-> FALSE]
  /\ todo' = todo \ {t}
  /\ pc' = "save"
  /\ UNCHANGED <<mem, db, muted, cond, snap, crashes, history>>

(* The check the target belongs to was skipped, or the cycle ended early. *)
Skip(t) ==
  /\ pc = "cycle" /\ t \in todo
  /\ todo' = todo \ {t}
  /\ UNCHANGED <<mem, db, muted, cond, pc, snap, cur, crashes, history>>

(* _persist_state_safely: the write lands, or its failure is only logged. *)
Persisted(ok) ==
  IF ok THEN db' = [db EXCEPT ![cur.target] = Row(mem[cur.target])] ELSE UNCHANGED db

Save(ok) ==
  /\ pc = "save"
  /\ Persisted(ok)
  /\ pc' = IF cur.send = "none" THEN "cycle" ELSE "dispatch"
  /\ UNCHANGED <<mem, muted, cond, todo, snap, cur, crashes, history>>

(* dispatch_alert and _handle_dispatch_result: "skipped" means there was    *)
(* nobody to deliver to, and counts as announced.                           *)
Dispatched(result) ==
  LET t == cur.target
      e == mem[t]
      handled == CASE cur.send = "triggered" /\ result # "failed" -> MarkAnnounced(e)
                   [] cur.send = "triggered" /\ result = "failed" /\ ~cur.announced ->
                        [e EXCEPT !.pending = TRUE]
                   [] OTHER -> e
      rearms  == cur.send = "triggered" /\ result = "failed" /\ ~cur.announced
  IN  /\ pc = "dispatch"
      /\ mem' = [mem EXCEPT ![t] = handled]
      /\ pc' = IF rearms \/ handled # e THEN "resave" ELSE "cycle"
      /\ told' = IF cur.send = "triggered" /\ result # "failed" /\ e.sev > told[t]
                 THEN [told EXCEPT ![t] = e.sev] ELSE told
      /\ UNCHANGED <<db, muted, cond, todo, snap, cur, crashes, opened, torn>>

Resave(ok) ==
  /\ pc = "resave"
  /\ Persisted(ok)
  /\ pc' = "cycle"
  /\ UNCHANGED <<mem, muted, cond, todo, snap, cur, crashes, history>>

-------------------------------------------------------------------------------
(* The opening announcement of t is decided on but not yet sent. *)
Announcing(t) ==
  /\ pc \in {"save", "dispatch"}
  /\ cur.target = t /\ cur.send = "triggered" /\ ~cur.announced

(* A crash loses the memory.  It tears the incident of a target that was    *)
(* being announced, or whose row does not hold what the memory held.        *)
Crash ==
  /\ pc # "down" /\ crashes < MaxCrashes
  /\ torn' = torn \cup {t \in Targets : Announcing(t) \/ db[t] # Row(mem[t])}
  /\ crashes' = crashes + 1
  /\ pc' = "down"
  /\ mem' = [t \in Targets |-> NoEntry]
  /\ todo' = {} /\ snap' = {}
  /\ cur' = [cur EXCEPT !.send = "none", !.announced = FALSE]
  /\ UNCHANGED <<db, muted, cond, told, opened>>

(* lifespan: load_alert_state_from_db before the loop starts. *)
Restart ==
  /\ pc = "down"
  /\ mem' = db
  /\ pc' = "idle"
  /\ UNCHANGED <<db, muted, cond, todo, snap, cur, crashes, history>>

Checker ==
  \/ BeginCycle
  \/ EndCycle
  \/ \E t \in Targets : Observe(t) \/ Unavailable(t) \/ Skip(t)
  \/ \E ok \in BOOLEAN : Save(ok)
  \/ \E result \in {"delivered", "skipped", "failed"} : Dispatched(result)
  \/ \E ok \in BOOLEAN : Resave(ok)
  \/ Restart

Next ==
  \/ Checker
  \/ Crash
  \/ \E t \in Targets : CondChanges(t)
  \/ MutesChange

Spec == Init /\ [][Next]_vars

(* The loop keeps turning, a check that keeps running is not skipped every  *)
(* time, and the mail gateway does not refuse every message.                *)
Fairness ==
  /\ WF_vars(Checker)
  /\ \A t \in Targets : SF_vars(Observe(t))
  /\ SF_vars(Dispatched("delivered"))

FairSpec == Spec /\ Fairness

-------------------------------------------------------------------------------
(* The trigger of t is on its way to recipients. *)
InFlight(t) ==
  pc \in {"save", "dispatch"} /\ cur.target = t /\ cur.send = "triggered"

Incident(t) == mem[t].status = "alert" /\ t \notin torn

(* "pending_notify means exactly: this incident has not been announced."    *)
(* Holds between notifications through mutes, failed sends, failed writes   *)
(* and every crash that does not tear the incident.                         *)
PendingExact ==
  \A t \in Targets :
    Incident(t) /\ ~InFlight(t) => (mem[t].pending <=> told[t] = NotTold)

(* The peak an incident escalates against is the severity it opened at or  *)
(* the highest one delivered since, whichever is higher; it survives       *)
(* restarts and never runs ahead of what recipients were sent.             *)
PeakExact ==
  \A t \in Targets :
    Incident(t) =>
      EffectivePeak(mem[t]) = (IF told[t] > opened[t] THEN told[t] ELSE opened[t])

(* A recovery is never announced for an incident nobody was told about     *)
(* (_outbound_alert_type).                                                 *)
NoRecoveryOutOfTheBlue ==
  pc \in {"save", "dispatch"} /\ cur.send = "resolved" /\ cur.target \notin torn
    => told[cur.target] # NotTold

(* An announced incident that closes always gets its recovery sent, muted  *)
(* or not (_outbound_alert_type).                                          *)
RecoveryFollowsAnnouncement ==
  [][\A t \in Targets :
       Incident(t) /\ told[t] # NotTold /\ pc = "cycle" /\ mem'[t].status = "ok"
         => cur'.target = t /\ cur'.send = "resolved"]_vars

(* A target that stays broken and unmuted is announced in the end, whatever *)
(* was withheld, failed or skipped before (pending_notify, re-arming).      *)
FiringIsAnnounced ==
  \A t \in Targets :
    <>[](cond[t] # Up /\ t \notin muted /\ t \notin torn) => <>(told[t] # NotTold)

(* An escalation recipients have not heard of gets through to them while it *)
(* lasts, whatever sends failed before (mark_announced, escalation branch); *)
(* an incident that opened at that severity owes only its opening.          *)
EscalationIsDelivered ==
  \A t \in Graded :
    <>[](cond[t] = 2 /\ t \notin muted /\ t \notin torn)
      => <>(told[t] = 2 \/ opened[t] = 2)

(* Without a repeat cadence nobody is told the same thing twice: a value    *)
(* hovering around a threshold mails again only above what was delivered.   *)
NoRepeatedPage ==
  \A t \in Targets :
    RepeatOf(t) = 0 /\ InFlight(t) /\ t \notin torn /\ told[t] # NotTold
      => mem[t].sev > told[t]
===============================================================================
