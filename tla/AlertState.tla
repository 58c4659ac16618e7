------------------------------ MODULE AlertState ------------------------------
(***************************************************************************)
(* The per-target alert state machine of unibridge-service                 *)
(* (app/services/alert_state.py, AlertStateManager) and the notification   *)
(* gate the checker puts behind it (app/services/alert_checker.py,         *)
(* _outbound_alert_type), as operators on one entry.                       *)
(*                                                                         *)
(* A severity is its rank in _SEVERITY_RANK: 0 stands for None, 1 for      *)
(* "warning", 2 for "critical".  Timestamps, display names and the         *)
(* recorded evidence decide nothing and are left out.                      *)
(***************************************************************************)
EXTENDS Integers

CONSTANTS
  TriggerAfter,   \* alert_settings.trigger_after_failures
  ResolveAfter    \* alert_settings.resolve_after_successes

ASSUME DampingAssumption ==
  TriggerAfter \in Nat \ {0} /\ ResolveAfter \in Nat \ {0}

Severity == 0 .. 2

Untracked == -1   \* "details" has no peak_severity key
Peak == Severity \cup {Untracked}

(* An observation is Up, or the severity of a failing signal. *)
Up == -1
Observation == Severity \cup {Up}

(* An entry of AlertStateManager._states; "none" is a key that is missing. *)
Entry == [status  : {"none", "ok", "alert"},
          fail    : Nat,
          succ    : Nat,
          sev     : Severity,
          cycles  : Nat,
          pending : BOOLEAN,
          peak    : Peak]

NoEntry == [status |-> "none", fail |-> 0, succ |-> 0, sev |-> 0,
            cycles |-> 0, pending |-> FALSE, peak |-> Untracked]

(* What save_alert_state_to_db writes and set_entry restores: every field *)
(* but cycles_in_alert.                                                   *)
Row(e) == [e EXCEPT !.cycles = 0]

(* Mutant: the peak follows what was observed, delivered or not. *)
ObservedPeak(e) ==
  IF e.peak = Untracked \/ e.sev > e.peak THEN e.sev ELSE e.peak

(* Highest severity the entry counts as announced, with the fallback for *)
(* rows saved before peaks were tracked.                                 *)
EffectivePeak(e) == IF e.peak = Untracked THEN e.sev ELSE e.peak

-------------------------------------------------------------------------------
(* _update, healthy branch. *)
Healthy(e) ==
  LET calm == [e EXCEPT !.fail = 0, !.cycles = 0]
  IN  IF e.status # "alert"
      THEN [entry |-> [calm EXCEPT !.status = "ok", !.succ = 0],
            transition |-> "none"]
      ELSE IF e.succ + 1 < ResolveAfter
      THEN [entry |-> [calm EXCEPT !.succ = e.succ + 1],
            transition |-> "none"]
      ELSE [entry |-> [calm EXCEPT !.status = "ok", !.succ = 0,
                                   !.sev = 0, !.peak = Untracked],
            transition |-> "resolved"]

(* _update, unhealthy branch for a target that is not alerting.  A brand   *)
(* new entry records its peak only when the signal carries a severity.     *)
Failing(e, sev) ==
  LET counted == [e EXCEPT !.status = "ok", !.succ = 0, !.fail = e.fail + 1]
  IN  IF counted.fail < TriggerAfter
      THEN [entry |-> counted, transition |-> "none"]
      ELSE [entry |-> [counted EXCEPT
                         !.status = "alert", !.sev = sev, !.cycles = 0,
                         !.peak = IF e.status = "none" /\ sev = 0
                                  THEN Untracked ELSE sev],
            transition |-> "triggered"]

(* _update, unhealthy branch for a target that is alerting: escalation     *)
(* above the announced peak re-fires, then the repeat cadence does.        *)
StillFailing(e, sev, repeat) ==
  LET capped  == [e EXCEPT !.succ = 0,
                           !.fail = IF e.fail + 1 < TriggerAfter
                                    THEN e.fail + 1 ELSE TriggerAfter]
      graded  == IF sev = 0 THEN capped
                 ELSE [capped EXCEPT !.sev = sev, !.peak = EffectivePeak(e)]
      counted == graded.cycles + 1
  IN  IF sev # 0 /\ sev > graded.peak
      THEN [entry |-> [graded EXCEPT !.cycles = 0], transition |-> "triggered"]
      ELSE IF repeat = 0
      THEN [entry |-> graded, transition |-> "none"]
      ELSE IF counted < repeat
      THEN [entry |-> [graded EXCEPT !.cycles = counted], transition |-> "none"]
      ELSE [entry |-> [graded EXCEPT !.cycles = 0], transition |-> "triggered"]

Update(e, obs, repeat) ==
  IF obs = Up THEN Healthy(e)
  ELSE IF e.status = "alert" THEN StillFailing(e, obs, repeat)
  ELSE Failing(e, obs)

(* Mutants: the latest delivery overwrites a higher one; nothing is         *)
(* recorded.                                                                *)
MarkLatest(e) == IF e.status = "alert" THEN [e EXCEPT !.peak = e.sev] ELSE e
MarkNothing(e) == e

(* mark_announced: a delivered notification raises the announced peak. *)
MarkAnnounced(e) ==
  LET known == IF e.peak = Untracked THEN 0 ELSE e.peak
  IN  IF e.status = "alert" /\ e.sev > known THEN [e EXCEPT !.peak = e.sev] ELSE e

-------------------------------------------------------------------------------
(* Mutant: an open incident is taken for an announced one. *)
IsOpen(wasAlerting, e) == wasAlerting

(* _is_announced: recipients already know about the open incident. *)
IsAnnounced(wasAlerting, e) == wasAlerting /\ ~e.pending

(* _outbound_alert_type: what to notify, and the pending_notify flag it    *)
(* leaves behind.  A mute withholds triggers, never recoveries.            *)
Withhold(e)  == [entry |-> e, send |-> "none"]
Notify(e, what) == [entry |-> [e EXCEPT !.pending = FALSE], send |-> what]

(* Mutants: a muted repeat re-arms an announced incident; a recovery goes   *)
(* out whatever was announced; a mute withholds recoveries too.             *)
RearmOnAnyMute(e, transition, wasAlerting, muted) ==
  IF transition = "triggered" /\ muted THEN Withhold([e EXCEPT !.pending = TRUE])
  ELSE IF transition # "none"
  THEN Notify(e, IF transition = "resolved" /\ e.pending THEN "none" ELSE transition)
  ELSE IF e.pending /\ ~muted /\ e.status = "alert" /\ e.fail > 0
  THEN Notify(e, "triggered")
  ELSE Withhold(e)

AlwaysRecover(e, transition, wasAlerting, muted) ==
  IF transition = "triggered" /\ muted
  THEN Withhold(IF wasAlerting THEN e ELSE [e EXCEPT !.pending = TRUE])
  ELSE IF transition # "none" THEN Notify(e, transition)
  ELSE IF e.pending /\ ~muted /\ e.status = "alert" /\ e.fail > 0
  THEN Notify(e, "triggered")
  ELSE Withhold(e)

MuteRecoveries(e, transition, wasAlerting, muted) ==
  IF muted
  THEN Withhold(IF transition = "triggered" /\ ~wasAlerting
                THEN [e EXCEPT !.pending = TRUE] ELSE e)
  ELSE IF transition # "none"
  THEN Notify(e, IF transition = "resolved" /\ e.pending THEN "none" ELSE transition)
  ELSE IF e.pending /\ e.status = "alert" /\ e.fail > 0
  THEN Notify(e, "triggered")
  ELSE Withhold(e)

Outbound(e, transition, wasAlerting, muted) ==
  IF transition = "triggered"
  THEN IF ~muted THEN Notify(e, "triggered")
       ELSE Withhold(IF wasAlerting THEN e ELSE [e EXCEPT !.pending = TRUE])
  ELSE IF transition = "resolved"
  THEN Notify(e, IF e.pending THEN "none" ELSE "resolved")
  ELSE IF e.pending /\ ~muted /\ e.status = "alert" /\ e.fail > 0
  THEN Notify(e, "triggered")
  ELSE Withhold(e)

(* One target's synchronous stretch of a check cycle, from the status read *)
(* before the update up to the entry that is persisted.                    *)
Evaluated(e, obs, repeat, muted) ==
  LET was     == e.status = "alert"
      updated == Update(e, obs, repeat)
      out     == Outbound(updated.entry, updated.transition, was, muted)
  IN  [entry |-> out.entry, send |-> out.send,
       announced |-> IsAnnounced(was, updated.entry)]
===============================================================================
