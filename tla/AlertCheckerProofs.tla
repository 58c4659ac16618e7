------------------------- MODULE AlertCheckerProofs --------------------------
(***************************************************************************)
(* What the alert checker promises: its announcements (AlertPipeline), for *)
(* any number of targets, any damping and repeat settings and any number   *)
(* of crashes; its status page, its scrape targets and its open incidents  *)
(* (AlertRegistry), for any hosts, services, answers of Prometheus and     *)
(* requests of either color.                                               *)
(***************************************************************************)
EXTENDS AlertPipeline, AlertRegistry, TLAPS

LEMMA Ranks ==
  /\ {0, 1, 2} \subseteq Severity
  /\ Severity \subseteq Peak
  /\ Untracked \in Peak
  /\ Severity \subseteq Int
  /\ \A e \in Entry : EffectivePeak(e) \in Severity
BY DEF Severity, Peak, Untracked, Entry, EffectivePeak

-------------------------------------------------------------------------------
(* What every branch of AlertStateManager._update has in common: it leaves *)
(* the pending flag to its caller, opens an incident only by "triggered"   *)
(* and closes one only by "resolved", and never moves the announced peak   *)
(* of an incident that stays open.                                         *)
UpdateContract(e, u) ==
  /\ u.entry \in Entry
  /\ u.entry.status \in {"ok", "alert"}
  /\ u.transition \in {"none", "triggered", "resolved"}
  /\ u.entry.pending = e.pending
  /\ u.transition = "triggered" => u.entry.status = "alert"
  /\ u.transition = "resolved" <=> (e.status = "alert" /\ u.entry.status = "ok")
  /\ e.status = "alert" /\ u.entry.status = "alert" =>
       EffectivePeak(u.entry) = EffectivePeak(e)
  /\ e.status # "alert" /\ u.entry.status = "alert" =>
       u.transition = "triggered" /\ EffectivePeak(u.entry) = u.entry.sev

LEMMA HealthyFacts ==
  ASSUME NEW e \in Entry
  PROVE  UpdateContract(e, Healthy(e))
<1>1. e.succ + 1 \in Nat
  BY DEF Entry
<1>2. Healthy(e).entry \in Entry
  <2>1. CASE e.status # "alert"
    BY <2>1 DEF Healthy, Entry
  <2>2. CASE e.status = "alert" /\ e.succ + 1 < ResolveAfter
    BY <1>1, <2>2 DEF Healthy, Entry
  <2>3. CASE e.status = "alert" /\ ~(e.succ + 1 < ResolveAfter)
    BY Ranks, <2>3 DEF Healthy, Entry
  <2>. QED
    BY <2>1, <2>2, <2>3
<1>. QED
  BY <1>2 DEF UpdateContract, Healthy, Entry, EffectivePeak, Untracked

LEMMA FailingFacts ==
  ASSUME NEW e \in Entry, e.status # "alert", NEW sev \in Severity
  PROVE  UpdateContract(e, Failing(e, sev))
<1>1. e.fail + 1 \in Nat
  BY DEF Entry
<1>2. Failing(e, sev).entry \in Entry
  BY <1>1, Ranks DEF Failing, Entry
<1>. QED
  BY <1>2 DEF UpdateContract, Failing, Entry, EffectivePeak, Untracked, Severity

LEMMA StillFailingFacts ==
  ASSUME NEW e \in Entry, e.status = "alert", NEW sev \in Severity, NEW repeat \in Nat
  PROVE  UpdateContract(e, StillFailing(e, sev, repeat))
<1>1. /\ e.fail + 1 \in Nat
      /\ e.cycles + 1 \in Nat
      /\ TriggerAfter \in Nat
  BY DampingAssumption DEF Entry
<1>2. EffectivePeak(e) \in Peak /\ EffectivePeak(e) # Untracked
  BY Ranks DEF Severity, Untracked
<1>3. StillFailing(e, sev, repeat).entry \in Entry
  BY <1>1, <1>2, Ranks DEF StillFailing, Entry
<1>4. /\ StillFailing(e, sev, repeat).entry.status = "alert"
      /\ StillFailing(e, sev, repeat).entry.pending = e.pending
      /\ StillFailing(e, sev, repeat).transition \in {"none", "triggered"}
  BY DEF StillFailing, Entry
<1>5. EffectivePeak(StillFailing(e, sev, repeat).entry) = EffectivePeak(e)
  <2>1. CASE sev = 0
    BY <2>1 DEF StillFailing, Entry, EffectivePeak
  <2>2. CASE sev # 0
    <3>1. StillFailing(e, sev, repeat).entry.peak = EffectivePeak(e)
      BY <2>2 DEF StillFailing, Entry
    <3>. QED
      BY <3>1, <1>2 DEF EffectivePeak
  <2>. QED
    BY <2>1, <2>2
<1>. QED
  BY <1>3, <1>4, <1>5 DEF UpdateContract

LEMMA UpdateFacts ==
  ASSUME NEW e \in Entry, NEW obs \in Observation, NEW repeat \in Nat
  PROVE  UpdateContract(e, Update(e, obs, repeat))
<1>1. obs = Up \/ obs \in Severity
  BY DEF Observation
<1>. QED
  BY <1>1, HealthyFacts, FailingFacts, StillFailingFacts DEF Update

-------------------------------------------------------------------------------
(* What one target's synchronous stretch of a cycle (update, _is_announced, *)
(* _outbound_alert_type) does to its entry.                                 *)
EvaluatedContract(e, hushed, ev) ==
  /\ ev.entry \in Entry
  /\ ev.entry.status \in {"ok", "alert"}
  /\ ev.send \in {"none", "triggered", "resolved"}
  /\ ev.announced \in BOOLEAN
  (* opening *)
  /\ e.status # "alert" /\ ev.entry.status = "alert" =>
       /\ ev.announced = FALSE
       /\ ev.entry.pending = hushed
       /\ ev.send = IF hushed THEN "none" ELSE "triggered"
       /\ EffectivePeak(ev.entry) = ev.entry.sev
  (* staying open *)
  /\ e.status = "alert" /\ ev.entry.status = "alert" =>
       /\ EffectivePeak(ev.entry) = EffectivePeak(e)
       /\ ev.send \in {"none", "triggered"}
       /\ ev.send = "none" => ev.entry.pending = e.pending
       /\ ev.send = "triggered" => /\ ev.entry.pending = FALSE
                                   /\ ev.announced = ~e.pending
  (* closing, or staying closed *)
  /\ ev.entry.status = "ok" =>
       ev.send = IF e.status = "alert" /\ ~e.pending THEN "resolved" ELSE "none"

(* What _outbound_alert_type does with a transition. *)
GateContract(e, transition, was, hushed, out) ==
  /\ out.entry \in Entry
  /\ out.send \in {"none", "triggered", "resolved"}
  /\ out.entry.status = e.status
  /\ out.entry.sev = e.sev
  /\ EffectivePeak(out.entry) = EffectivePeak(e)
  /\ out.send = "triggered" => out.entry.pending = FALSE
  /\ out.send = "resolved" <=> (transition = "resolved" /\ ~e.pending)
  /\ transition = "none" /\ e.status # "alert" => out.send = "none"
  /\ transition = "resolved" => out.send # "triggered"
  /\ transition = "triggered" =>
       /\ out.send = IF hushed THEN "none" ELSE "triggered"
       /\ hushed => out.entry.pending = (~was \/ e.pending)
  /\ transition = "none" /\ out.send = "none" => out.entry.pending = e.pending

LEMMA GateFacts ==
  ASSUME NEW e \in Entry, NEW transition \in {"none", "triggered", "resolved"},
         NEW was \in BOOLEAN, NEW hushed \in BOOLEAN
  PROVE  GateContract(e, transition, was, hushed, Outbound(e, transition, was, hushed))
BY DEF GateContract, Outbound, Notify, Withhold, Entry, EffectivePeak

LEMMA EvaluatedFacts ==
  ASSUME NEW e \in Entry, NEW obs \in Observation, NEW repeat \in Nat,
         NEW hushed \in BOOLEAN
  PROVE  EvaluatedContract(e, hushed, Evaluated(e, obs, repeat, hushed))
<1> DEFINE was == e.status = "alert"
           u   == Update(e, obs, repeat)
           out == Outbound(u.entry, u.transition, was, hushed)
           ev  == Evaluated(e, obs, repeat, hushed)
<1>1. UpdateContract(e, u)
  BY UpdateFacts
<1>2. ev = [entry |-> out.entry, send |-> out.send, announced |-> IsAnnounced(was, u.entry)]
  BY DEF Evaluated
<1>3. u.entry \in Entry /\ u.transition \in {"none", "triggered", "resolved"} /\ was \in BOOLEAN
  BY <1>1 DEF UpdateContract
<1>. HIDE DEF u, was
<1>4. GateContract(u.entry, u.transition, was, hushed, out)
  BY <1>3, GateFacts
<1>. HIDE DEF out, ev
<1>5. ev.announced = (was /\ ~u.entry.pending)
  BY <1>2 DEF IsAnnounced
<1>6. ev.entry = out.entry /\ ev.send = out.send
  BY <1>2
<1>7. e.pending \in BOOLEAN /\ u.entry.pending = e.pending /\ out.entry.pending \in BOOLEAN
  BY <1>1, <1>4 DEF UpdateContract, GateContract, Entry
<1>8. /\ ev.entry \in Entry
      /\ ev.entry.status \in {"ok", "alert"}
      /\ ev.send \in {"none", "triggered", "resolved"}
      /\ ev.announced \in BOOLEAN
  BY <1>1, <1>3, <1>4, <1>5, <1>6 DEF UpdateContract, GateContract
<1>9. ASSUME e.status # "alert", ev.entry.status = "alert"
      PROVE  /\ ev.announced = FALSE
             /\ ev.entry.pending = hushed
             /\ ev.send = IF hushed THEN "none" ELSE "triggered"
             /\ EffectivePeak(ev.entry) = ev.entry.sev
  <2>1. u.transition = "triggered" /\ EffectivePeak(u.entry) = u.entry.sev
    BY <1>9, <1>1, <1>4, <1>6 DEF UpdateContract, GateContract
  <2>2. was = FALSE
    BY <1>9 DEF was
  <2>. QED
    BY <2>1, <2>2, <1>4, <1>5, <1>6, <1>7 DEF GateContract
<1>10. ASSUME e.status = "alert", ev.entry.status = "alert"
       PROVE  /\ EffectivePeak(ev.entry) = EffectivePeak(e)
              /\ ev.send \in {"none", "triggered"}
              /\ ev.send = "none" => ev.entry.pending = e.pending
              /\ ev.send = "triggered" => /\ ev.entry.pending = FALSE
                                          /\ ev.announced = ~e.pending
  <2>1. /\ u.transition \in {"none", "triggered"}
        /\ EffectivePeak(u.entry) = EffectivePeak(e)
    BY <1>10, <1>1, <1>4, <1>6 DEF UpdateContract, GateContract
  <2>2. was = TRUE
    BY <1>10 DEF was
  <2>. QED
    BY <2>1, <2>2, <1>4, <1>5, <1>6, <1>7 DEF GateContract
<1>11. ASSUME ev.entry.status = "ok"
       PROVE  ev.send = IF e.status = "alert" /\ ~e.pending THEN "resolved" ELSE "none"
  <2>1. /\ u.entry.status = "ok"
        /\ u.transition = "resolved" <=> e.status = "alert"
        /\ u.transition # "triggered"
    BY <1>11, <1>1, <1>4, <1>6 DEF UpdateContract, GateContract
  <2>. QED
    BY <2>1, <1>1, <1>4, <1>6, <1>7 DEF GateContract, UpdateContract
<1>. QED
  BY <1>8, <1>9, <1>10, <1>11 DEF EvaluatedContract, ev

(* A delivered notification lifts the peak to the severity delivered. *)
LEMMA MarkFacts ==
  ASSUME NEW e \in Entry
  PROVE  /\ MarkAnnounced(e) \in Entry
         /\ MarkAnnounced(e).status = e.status
         /\ MarkAnnounced(e).pending = e.pending
         /\ e.status = "alert" =>
              EffectivePeak(MarkAnnounced(e)) =
                IF e.sev > EffectivePeak(e) THEN e.sev ELSE EffectivePeak(e)
<1>1. e.sev \in Severity /\ e.sev \in Peak /\ e.peak \in Peak
  BY Ranks DEF Entry
<1>2. MarkAnnounced(e) \in Entry
  BY <1>1 DEF MarkAnnounced, Entry
<1>3. /\ MarkAnnounced(e).status = e.status
      /\ MarkAnnounced(e).pending = e.pending
      /\ MarkAnnounced(e).sev = e.sev
  BY DEF MarkAnnounced, Entry
<1>4. MarkAnnounced(e).peak =
        IF e.status = "alert" /\ e.sev > (IF e.peak = Untracked THEN 0 ELSE e.peak)
        THEN e.sev ELSE e.peak
  BY DEF MarkAnnounced, Entry
<1>. QED
  BY <1>1, <1>2, <1>3, <1>4 DEF EffectivePeak, Severity, Peak, Untracked

-------------------------------------------------------------------------------
LEMMA ObserveFacts ==
  ASSUME TypeOK, NEW t \in Targets
  PROVE  EvaluatedContract(mem[t], t \in snap,
                           Evaluated(mem[t], cond[t], RepeatOf(t), t \in snap))
<1>1. mem[t] \in Entry /\ cond[t] \in Observation
  BY DEF TypeOK
<1>2. RepeatOf(t) \in Nat
  BY PipelineAssumption DEF RepeatOf
<1>3. (t \in snap) \in BOOLEAN
  OBVIOUS
<1>. QED
  BY <1>1, <1>2, <1>3, EvaluatedFacts

(* The variables keep their types: entries stay entries through every      *)
(* update, gate decision, re-arming and reload.                            *)
THEOREM PipelineTypeOK == Spec => []TypeOK
<1>1. Init => TypeOK
  <2> SUFFICES ASSUME Init PROVE TypeOK
    OBVIOUS
  <2>1. NoEntry \in Entry /\ LegacyRow \in Entry
    BY Ranks, DampingAssumption DEF NoEntry, LegacyRow, Entry
  <2>2. db \in [Targets -> Entry]
    BY <2>1 DEF Init
  <2>3. \A t \in Targets : db[t].sev \in Severity
    BY <2>2 DEF Entry
  <2>4. /\ told \in [Targets -> Severity \cup {NotTold}]
        /\ opened \in [Targets -> Severity]
    BY <2>3 DEF Init
  <2>5. cur \in Job
    BY DEF Init, Job
  <2>. QED
    BY <2>2, <2>4, <2>5 DEF Init, TypeOK, Observation
<1>2. TypeOK /\ [Next]_vars => TypeOK'
  <2> SUFFICES ASSUME TypeOK, [Next]_vars PROVE TypeOK'
    OBVIOUS
  <2>1. ASSUME NEW t \in Targets, CondChanges(t) PROVE TypeOK'
    BY <2>1, Ranks DEF CondChanges, TypeOK, ObservationOf, Observation, history
  <2>2. CASE MutesChange
    BY <2>2 DEF MutesChange, TypeOK, history
  <2>3. CASE BeginCycle
    BY <2>3 DEF BeginCycle, TypeOK, history
  <2>4. CASE EndCycle
    BY <2>4 DEF EndCycle, TypeOK, history
  <2>5. ASSUME NEW t \in Targets, Observe(t) PROVE TypeOK'
    <3> DEFINE ev == Evaluated(mem[t], cond[t], RepeatOf(t), t \in snap)
    <3>1. EvaluatedContract(mem[t], t \in snap, ev)
      BY <2>5, ObserveFacts
    <3>. HIDE DEF ev
    <3>2. /\ ev.entry \in Entry
          /\ ev.entry.sev \in Severity
          /\ ev.send \in {"none", "triggered", "resolved"}
          /\ ev.announced \in BOOLEAN
      BY <3>1 DEF EvaluatedContract, Entry
    <3>3. /\ mem' = [mem EXCEPT ![t] = ev.entry]
          /\ cur' = [target |-> t, send |-> ev.send, announced |-> ev.announced]
          /\ told' \in {told, [told EXCEPT ![t] = NotTold]}
          /\ opened' \in {opened, [opened EXCEPT ![t] = ev.entry.sev]}
          /\ torn' \in {torn, torn \ {t}}
      BY <2>5 DEF Observe, ev
    <3>4. cur' \in Job
      BY <3>2, <3>3 DEF Job
    <3>. QED
      BY <2>5, <3>2, <3>3, <3>4 DEF Observe, TypeOK
  <2>6. ASSUME NEW t \in Targets, Unavailable(t) PROVE TypeOK'
    <3>1. cur' \in Job
      BY <2>6 DEF Unavailable, Job
    <3>. QED
      BY <2>6, <3>1 DEF Unavailable, TypeOK, history
  <2>7. ASSUME NEW t \in Targets, Skip(t) PROVE TypeOK'
    BY <2>7 DEF Skip, TypeOK, history
  <2>8. ASSUME NEW ok \in BOOLEAN, Persisted(ok) PROVE db' \in [Targets -> Entry]
    <3>1. cur.target \in Targets /\ mem[cur.target] \in Entry
      BY DEF TypeOK, Job
    <3>2. Row(mem[cur.target]) \in Entry
      BY <3>1 DEF Row, Entry
    <3>. QED
      BY <2>8, <3>1, <3>2 DEF Persisted, TypeOK
  <2>9. ASSUME NEW ok \in BOOLEAN, Save(ok) PROVE TypeOK'
    BY <2>8, <2>9 DEF Save, TypeOK, history
  <2>10. ASSUME NEW ok \in BOOLEAN, Resave(ok) PROVE TypeOK'
    BY <2>8, <2>10 DEF Resave, TypeOK, history
  <2>11. ASSUME NEW result, Dispatched(result) PROVE TypeOK'
    <3>1. cur.target \in Targets /\ mem[cur.target] \in Entry
      BY DEF TypeOK, Job
    <3>2. /\ MarkAnnounced(mem[cur.target]) \in Entry
          /\ [mem[cur.target] EXCEPT !.pending = TRUE] \in Entry
          /\ mem[cur.target].sev \in Severity
      BY <3>1, MarkFacts DEF Entry
    <3>3. \E e \in Entry : mem' = [mem EXCEPT ![cur.target] = e]
      BY <2>11, <3>1, <3>2 DEF Dispatched
    <3>4. told' \in [Targets -> Severity \cup {NotTold}]
      BY <2>11, <3>1, <3>2 DEF Dispatched, TypeOK
    <3>5. pc' \in {"resave", "cycle"}
      BY <2>11 DEF Dispatched
    <3>. QED
      BY <2>11, <3>3, <3>4, <3>5 DEF Dispatched, TypeOK
  <2>12. CASE Crash
    <3>1. NoEntry \in Entry
      BY Ranks DEF NoEntry, Entry
    <3>2. cur' \in Job
      BY <2>12 DEF Crash, TypeOK, Job
    <3>. QED
      BY <2>12, <3>1, <3>2 DEF Crash, TypeOK
  <2>13. CASE Restart
    BY <2>13 DEF Restart, TypeOK, history
  <2>14. CASE UNCHANGED vars
    BY <2>14 DEF vars, TypeOK
  <2>. QED
    BY <2>1, <2>2, <2>3, <2>4, <2>5, <2>6, <2>7, <2>9, <2>10, <2>11, <2>12,
       <2>13, <2>14 DEF Next, Checker
<1>. QED
  BY <1>1, <1>2, PTL DEF Spec

-------------------------------------------------------------------------------
(***************************************************************************)
(* The announcement invariant.  PendingExact speaks of the memory between  *)
(* notifications; to be inductive it has to follow a trigger while it is   *)
(* being saved and sent (the flag is already cleared, and "announced"      *)
(* remembers what it said), a recovery on its way out, and the database    *)
(* row while the process is down.                                          *)
(***************************************************************************)
PeakOf(e, t) ==
  EffectivePeak(e) = (IF told[t] > opened[t] THEN told[t] ELSE opened[t])

Exact(e, t) ==
  e.status = "alert" => (e.pending <=> told[t] = NotTold) /\ PeakOf(e, t)

AnnouncementInv(t) ==
  t \notin torn =>
    /\ pc = "down" => Exact(db[t], t) /\ mem[t].status # "alert"
    /\ InFlight(t) =>
         /\ mem[t].status = "alert" /\ mem[t].pending = FALSE
         /\ cur.announced <=> told[t] # NotTold
         /\ PeakOf(mem[t], t)
    /\ pc # "down" /\ ~InFlight(t) => Exact(mem[t], t)
    /\ pc \in {"save", "dispatch"} /\ cur.target = t /\ cur.send = "resolved" =>
         told[t] # NotTold

AnnouncementInvariant == \A t \in Targets : AnnouncementInv(t)

LEMMA AnnouncementInit == Init => AnnouncementInvariant
<1> SUFFICES ASSUME Init, NEW t \in Targets PROVE AnnouncementInv(t)
  BY DEF AnnouncementInvariant
<1>1. db[t] = NoEntry \/ db[t] = LegacyRow
  BY DEF Init
<1>2. /\ mem = db /\ pc = "idle"
      /\ told[t] = (IF db[t].status = "alert" THEN db[t].sev ELSE NotTold)
      /\ opened[t] = db[t].sev
  BY DEF Init
<1>. QED
  BY <1>1, <1>2 DEF AnnouncementInv, InFlight, Exact, PeakOf, NoEntry, LegacyRow,
                    EffectivePeak, NotTold, Untracked

(* A step that keeps a target's entry and history, and neither starts nor  *)
(* ends a notification of it, keeps its invariant.                         *)
LEMMA Frame ==
  ASSUME NEW t \in Targets, AnnouncementInv(t),
         mem'[t] = mem[t], db'[t] = db[t],
         told'[t] = told[t], opened'[t] = opened[t], t \in torn' <=> t \in torn,
         pc # "down", pc' # "down",
         cur.target = t => pc \notin {"save", "dispatch"},
         cur'.target = t /\ pc' \in {"save", "dispatch"} => cur'.send = "none"
  PROVE  AnnouncementInv(t)'
BY DEF AnnouncementInv, InFlight, Exact, PeakOf

LEMMA ObserveStep ==
  ASSUME TypeOK, AnnouncementInvariant, NEW t \in Targets, Observe(t)
  PROVE  AnnouncementInvariant'
<1> DEFINE ev == Evaluated(mem[t], cond[t], RepeatOf(t), t \in snap)
           opens == mem[t].status # "alert" /\ ev.entry.status = "alert"
<1>1. EvaluatedContract(mem[t], t \in snap, ev)
  BY ObserveFacts
<1>2. /\ mem' = [mem EXCEPT ![t] = ev.entry]
      /\ cur' = [target |-> t, send |-> ev.send, announced |-> ev.announced]
      /\ told' = IF opens THEN [told EXCEPT ![t] = NotTold] ELSE told
      /\ opened' = IF opens THEN [opened EXCEPT ![t] = ev.entry.sev] ELSE opened
      /\ torn' = IF opens THEN torn \ {t} ELSE torn
      /\ db' = db /\ pc = "cycle" /\ pc' = "save"
  BY DEF Observe
<1>. HIDE DEF ev
<1>3. ASSUME NEW x \in Targets, x # t PROVE AnnouncementInv(x)'
  <2>1. /\ mem'[x] = mem[x] /\ told'[x] = told[x] /\ opened'[x] = opened[x]
        /\ x \in torn' <=> x \in torn
        /\ cur'.target = t
    BY <1>2, <1>3 DEF TypeOK
  <2>. QED
    BY <2>1, <1>2, <1>3, Frame DEF AnnouncementInvariant
<1>4. AnnouncementInv(t)'
  <2>1. /\ mem'[t] = ev.entry
        /\ cur'.target = t /\ cur'.send = ev.send /\ cur'.announced = ev.announced
        /\ ev.entry \in Entry /\ mem[t] \in Entry
    BY <1>1, <1>2 DEF TypeOK, EvaluatedContract
  <2>2. CASE opens
    <3>1. told'[t] = NotTold /\ opened'[t] = ev.entry.sev /\ ev.entry.sev \in Severity
      BY <1>2, <2>1, <2>2 DEF TypeOK, Entry
    <3>2. PeakOf(mem[t], t)'
      BY <1>1, <2>1, <2>2, <3>1 DEF EvaluatedContract, PeakOf, Severity, NotTold
    <3>3. /\ ev.announced = FALSE
          /\ ev.entry.pending = (t \in snap)
          /\ ev.send = IF t \in snap THEN "none" ELSE "triggered"
          /\ ev.entry.status = "alert"
      BY <1>1, <2>2 DEF EvaluatedContract
    <3>4. CASE t \in snap
      <4>1. ev.send = "none" /\ ev.entry.pending = TRUE
        BY <3>3, <3>4
      <4>. QED
        BY <1>2, <2>1, <3>1, <3>2, <3>3, <4>1 DEF AnnouncementInv, InFlight, Exact
    <3>5. CASE t \notin snap
      <4>1. ev.send = "triggered" /\ ev.entry.pending = FALSE
        <5>1. (t \in snap) = FALSE
          BY <3>5
        <5>. QED
          BY <3>3, <5>1
      <4>. QED
        BY <1>2, <2>1, <3>1, <3>2, <3>3, <4>1 DEF AnnouncementInv, InFlight
    <3>. QED
      BY <3>4, <3>5
  <2>3. CASE mem[t].status = "alert" /\ ev.entry.status = "alert"
    <3>1. told' = told /\ opened' = opened /\ torn' = torn
      BY <1>2, <2>3
    <3>2. t \notin torn => Exact(mem[t], t)
      BY <1>2 DEF AnnouncementInvariant, AnnouncementInv, InFlight
    <3>3. /\ EffectivePeak(ev.entry) = EffectivePeak(mem[t])
          /\ ev.send \in {"none", "triggered"}
          /\ ev.send = "none" => ev.entry.pending = mem[t].pending
          /\ ev.send = "triggered" => /\ ev.entry.pending = FALSE
                                      /\ ev.announced = ~mem[t].pending
      BY <1>1, <2>3 DEF EvaluatedContract
    <3>4. t \notin torn => PeakOf(mem[t], t)' /\ (mem[t].pending <=> told[t] = NotTold)
      BY <2>1, <2>3, <3>1, <3>2, <3>3 DEF Exact, PeakOf
    <3>5. CASE ev.send = "none"
      BY <1>2, <2>1, <2>3, <3>1, <3>3, <3>4, <3>5 DEF AnnouncementInv, InFlight, Exact
    <3>6. CASE ev.send = "triggered"
      <4>1. t \notin torn => (ev.announced <=> told[t] # NotTold)
        BY <3>3, <3>4, <3>6
      <4>. QED
        BY <1>2, <2>1, <2>3, <3>1, <3>3, <3>4, <3>6, <4>1 DEF AnnouncementInv, InFlight
    <3>. QED
      BY <3>3, <3>5, <3>6
  <2>4. CASE ev.entry.status = "ok"
    <3>1. told' = told /\ opened' = opened /\ torn' = torn
      BY <1>2, <2>4
    <3>2. ev.send = IF mem[t].status = "alert" /\ ~mem[t].pending THEN "resolved" ELSE "none"
      BY <1>1, <2>4 DEF EvaluatedContract
    <3>3. t \notin torn => Exact(mem[t], t)
      BY <1>2 DEF AnnouncementInvariant, AnnouncementInv, InFlight
    <3>. QED
      BY <1>2, <2>1, <2>4, <3>1, <3>2, <3>3 DEF AnnouncementInv, InFlight, Exact
  <2>5. ev.entry.status \in {"ok", "alert"}
    BY <1>1 DEF EvaluatedContract
  <2>. QED
    BY <2>2, <2>3, <2>4, <2>5
<1>. QED
  BY <1>3, <1>4 DEF AnnouncementInvariant

(* dispatch_alert answers: a delivered or skipped trigger makes the incident *)
(* told, a failed first one is re-armed.                                     *)
LEMMA DispatchStep ==
  ASSUME TypeOK, AnnouncementInvariant,
         NEW result \in {"delivered", "skipped", "failed"}, Dispatched(result)
  PROVE  AnnouncementInvariant'
<1>0. PICK t \in Targets : t = cur.target
  BY DEF TypeOK, Job
<1> DEFINE e == mem[t]
           sent == cur.send = "triggered" /\ result # "failed"
           rearms == cur.send = "triggered" /\ result = "failed" /\ ~cur.announced
           handled == IF sent THEN MarkAnnounced(e)
                      ELSE IF rearms THEN [e EXCEPT !.pending = TRUE] ELSE e
           told_t == IF sent /\ e.sev > told[t] THEN e.sev ELSE told[t]
<1>1. e \in Entry /\ told[t] \in Severity \cup {NotTold} /\ opened[t] \in Severity
  BY DEF TypeOK, Job
<1>2. /\ mem' = [mem EXCEPT ![t] = handled]
      /\ told' = [told EXCEPT ![t] = told_t]
      /\ pc = "dispatch" /\ pc' \in {"resave", "cycle"}
      /\ db' = db /\ cur' = cur /\ opened' = opened /\ torn' = torn
  BY <1>0, <1>1 DEF Dispatched, TypeOK
<1>3. ASSUME NEW x \in Targets, x # t PROVE AnnouncementInv(x)'
  <2>1. mem'[x] = mem[x] /\ told'[x] = told[x]
    BY <1>2, <1>3 DEF TypeOK
  <2>. QED
    BY <2>1, <1>0, <1>2, <1>3, Frame DEF AnnouncementInvariant
<1>4. AnnouncementInv(t)'
  <2>1. mem'[t] = handled /\ told'[t] = told_t
    BY <1>1, <1>2 DEF TypeOK
  <2>2. SUFFICES ASSUME t \notin torn, handled.status = "alert"
                 PROVE  (handled.pending <=> told_t = NotTold) /\ PeakOf(mem[t], t)'
    BY <2>1, <1>2 DEF AnnouncementInv, InFlight, Exact
  <2>3. e.status = "alert" /\ e.pending \in BOOLEAN /\ e.sev \in Severity /\ EffectivePeak(e) \in Severity
    BY <2>2, <1>1, MarkFacts, Ranks DEF Entry
  <2>4. CASE cur.send = "triggered"
    <3>1. /\ e.pending = FALSE
          /\ cur.announced <=> told[t] # NotTold
          /\ PeakOf(e, t)
      BY <1>0, <1>1, <1>2, <2>2, <2>4 DEF AnnouncementInvariant, AnnouncementInv, InFlight
    <3>2. CASE sent
      <4>1. /\ handled.pending = FALSE
            /\ EffectivePeak(handled) = IF e.sev > EffectivePeak(e) THEN e.sev ELSE EffectivePeak(e)
        BY <1>1, <2>3, <3>1, <3>2, MarkFacts
      <4>2. told_t # NotTold
        BY <1>1, <2>3, <3>2 DEF Severity, NotTold
      <4>3. EffectivePeak(handled) = IF told_t > opened[t] THEN told_t ELSE opened[t]
        BY <1>1, <2>3, <3>1, <3>2, <4>1 DEF PeakOf, Severity, NotTold
      <4>. QED
        BY <1>2, <2>1, <4>1, <4>2, <4>3 DEF PeakOf
    <3>3. CASE ~sent /\ rearms
      <4>1. told_t = told[t] /\ told[t] = NotTold /\ handled = [e EXCEPT !.pending = TRUE]
        BY <3>1, <3>3
      <4>2. handled.pending = TRUE /\ EffectivePeak(handled) = EffectivePeak(e)
        BY <1>1, <4>1 DEF Entry, EffectivePeak
      <4>. QED
        BY <1>2, <2>1, <3>1, <4>1, <4>2 DEF PeakOf
    <3>4. CASE ~sent /\ ~rearms
      BY <1>2, <2>1, <2>4, <3>1, <3>4 DEF PeakOf
    <3>. QED
      BY <3>2, <3>3, <3>4
  <2>5. CASE cur.send # "triggered"
    <3>1. Exact(e, t)
      BY <1>0, <1>1, <1>2, <2>2, <2>5 DEF AnnouncementInvariant, AnnouncementInv, InFlight
    <3>2. handled = e /\ told_t = told[t]
      BY <2>5
    <3>. QED
      BY <1>2, <2>1, <2>3, <3>1, <3>2 DEF Exact, PeakOf
  <2>. QED
    BY <2>4, <2>5
<1>. QED
  BY <1>3, <1>4 DEF AnnouncementInvariant

(* A crash leaves exact rows for every incident it does not tear. *)
LEMMA CrashStep ==
  ASSUME TypeOK, AnnouncementInvariant, Crash
  PROVE  AnnouncementInvariant'
<1> SUFFICES ASSUME NEW t \in Targets, t \notin torn' PROVE AnnouncementInv(t)'
  BY DEF AnnouncementInvariant, AnnouncementInv
<1>1. /\ pc' = "down" /\ pc # "down" /\ db' = db /\ told' = told /\ opened' = opened
      /\ t \notin torn /\ ~Announcing(t) /\ db[t] = Row(mem[t])
  BY DEF Crash
<1>2. /\ db[t].status = mem[t].status
      /\ db[t].pending = mem[t].pending
      /\ EffectivePeak(db[t]) = EffectivePeak(mem[t])
  <2>1. mem[t] \in Entry
    BY DEF TypeOK
  <2>. QED
    BY <1>1, <2>1 DEF Row, Entry, EffectivePeak
<1>3. Exact(mem[t], t)
  BY <1>1 DEF AnnouncementInvariant, AnnouncementInv, InFlight, Announcing, Exact
<1>4. mem'[t].status # "alert"
  BY DEF Crash, NoEntry
<1>. QED
  BY <1>1, <1>2, <1>3, <1>4 DEF AnnouncementInv, InFlight, Exact, PeakOf

LEMMA AnnouncementNext ==
  ASSUME TypeOK, AnnouncementInvariant, [Next]_vars
  PROVE  AnnouncementInvariant'
<1> USE DEF AnnouncementInvariant, AnnouncementInv, InFlight, Exact, PeakOf
<1>1. ASSUME NEW t \in Targets, CondChanges(t) PROVE AnnouncementInvariant'
  BY <1>1 DEF CondChanges, history
<1>2. CASE MutesChange
  BY <1>2 DEF MutesChange, history
<1>3. CASE BeginCycle
  BY <1>3 DEF BeginCycle, history
<1>4. CASE EndCycle
  BY <1>4 DEF EndCycle, history
<1>5. ASSUME NEW t \in Targets, Unavailable(t) PROVE AnnouncementInvariant'
  BY <1>5 DEF Unavailable, history
<1>6. ASSUME NEW t \in Targets, Skip(t) PROVE AnnouncementInvariant'
  BY <1>6 DEF Skip, history
<1>7. ASSUME NEW ok \in BOOLEAN, Save(ok) PROVE AnnouncementInvariant'
  BY <1>7 DEF Save, Persisted, history
<1>8. ASSUME NEW ok \in BOOLEAN, Resave(ok) PROVE AnnouncementInvariant'
  BY <1>8 DEF Resave, Persisted, history
<1>9. CASE Restart
  BY <1>9 DEF Restart, history
<1>10. CASE UNCHANGED vars
  BY <1>10 DEF vars
<1>. QED
  BY <1>1, <1>2, <1>3, <1>4, <1>5, <1>6, <1>7, <1>8, <1>9, <1>10,
     ObserveStep, DispatchStep, CrashStep DEF Next, Checker

LEMMA PipelineAnnouncement == Spec => []AnnouncementInvariant
<1>1. TypeOK /\ AnnouncementInvariant /\ [Next]_vars => AnnouncementInvariant'
  BY AnnouncementNext
<1>. QED
  BY <1>1, AnnouncementInit, PipelineTypeOK, PTL DEF Spec

-------------------------------------------------------------------------------
(* "pending_notify means exactly: this incident has not been announced"    *)
(* (_outbound_alert_type), for every incident no crash tore.               *)
THEOREM PipelinePendingExact == Spec => []PendingExact
<1>1. AnnouncementInvariant => PendingExact
  <2> SUFFICES ASSUME AnnouncementInvariant, NEW t \in Targets, Incident(t), ~InFlight(t),
                      mem[t].status = "alert"
               PROVE  mem[t].pending <=> told[t] = NotTold
    BY DEF PendingExact, Incident
  <2>. QED
    BY DEF AnnouncementInvariant, AnnouncementInv, Exact, Incident
<1>. QED
  BY <1>1, PipelineAnnouncement, PTL

(* The severity an open incident escalates against (peak_severity) is the  *)
(* highest of the one it opened at and those delivered since.              *)
THEOREM PipelinePeakExact == Spec => []PeakExact
<1>1. AnnouncementInvariant => PeakExact
  BY DEF AnnouncementInvariant, AnnouncementInv, Exact, PeakOf, Incident, PeakExact
<1>. QED
  BY <1>1, PipelineAnnouncement, PTL

(* No recovery leaves for an incident nobody was told about. *)
THEOREM PipelineNoRecoveryOutOfTheBlue == Spec => []NoRecoveryOutOfTheBlue
<1>1. TypeOK /\ AnnouncementInvariant => NoRecoveryOutOfTheBlue
  BY DEF AnnouncementInvariant, AnnouncementInv, NoRecoveryOutOfTheBlue, TypeOK, Job
<1>. QED
  BY <1>1, PipelineTypeOK, PipelineAnnouncement, PTL

(* When an announced incident closes, its recovery is sent, muted or not. *)
THEOREM PipelineRecoveryFollows == Spec => RecoveryFollowsAnnouncement
<1> DEFINE Closing(t) ==
      Incident(t) /\ told[t] # NotTold /\ pc = "cycle" /\ mem'[t].status = "ok"
        => cur'.target = t /\ cur'.send = "resolved"
<1>1. ASSUME TypeOK, AnnouncementInvariant, [Next]_vars
      PROVE  [\A t \in Targets : Closing(t)]_vars
  <2> SUFFICES ASSUME NEW t \in Targets, Incident(t), told[t] # NotTold, pc = "cycle",
                      mem'[t].status = "ok"
               PROVE  cur'.target = t /\ cur'.send = "resolved"
    OBVIOUS
  <2>1. mem[t].status = "alert" /\ mem[t].pending = FALSE
    <3>1. mem[t] \in Entry
      BY <1>1 DEF TypeOK
    <3>. QED
      BY <1>1, <3>1 DEF Incident, AnnouncementInvariant, AnnouncementInv, InFlight, Exact, Entry
  <2>2. mem' # mem
    BY <2>1
  <2>3. ~Crash /\ ~Restart
    BY DEF Crash, Restart, NoEntry
  <2>4. PICK x \in Targets : Observe(x)
    BY <1>1, <2>2, <2>3 DEF Next, Checker, vars, history, CondChanges, MutesChange, BeginCycle, EndCycle,
                Unavailable, Skip, Save, Resave, Dispatched
  <2> DEFINE ev == Evaluated(mem[x], cond[x], RepeatOf(x), x \in snap)
  <2>5. /\ mem' = [mem EXCEPT ![x] = ev.entry]
        /\ cur' = [target |-> x, send |-> ev.send, announced |-> ev.announced]
    BY <2>4 DEF Observe
  <2>6. EvaluatedContract(mem[x], x \in snap, ev)
    BY <1>1, ObserveFacts
  <2>. HIDE DEF ev
  <2>7. x = t /\ ev.entry.status = "ok"
    BY <2>1, <2>5, <1>1 DEF TypeOK
  <2>. QED
    BY <2>1, <2>5, <2>6, <2>7 DEF EvaluatedContract
<1>2. TypeOK /\ AnnouncementInvariant /\ [Next]_vars => [\A t \in Targets : Closing(t)]_vars
  BY <1>1
<1>. QED
  BY <1>2, PipelineTypeOK, PipelineAnnouncement, PTL DEF Spec, RecoveryFollowsAnnouncement

-------------------------------------------------------------------------------
(***************************************************************************)
(* Without a repeat cadence only an escalation re-fires: the damping and   *)
(* hysteresis of _update never page twice for one level.                   *)
(***************************************************************************)
LEMMA OnlyEscalationsRefire ==
  ASSUME NEW e \in Entry, e.status = "alert", e.pending = FALSE,
         NEW obs \in Observation, NEW hushed \in BOOLEAN,
         Evaluated(e, obs, 0, hushed).send = "triggered"
  PROVE  Evaluated(e, obs, 0, hushed).entry.sev > EffectivePeak(e)
<1> DEFINE u   == Update(e, obs, 0)
           out == Outbound(u.entry, u.transition, TRUE, hushed)
<1>1. UpdateContract(e, u)
  BY UpdateFacts
<1>2. u.entry \in Entry /\ u.entry.pending = FALSE
  BY <1>1 DEF UpdateContract
<1>3. out.send = "triggered" /\ Evaluated(e, obs, 0, hushed).entry = out.entry
  BY DEF Evaluated
<1>4. u.transition = "triggered" /\ out.entry.sev = u.entry.sev
  <2>. HIDE DEF u
  <2>1. u.transition \in {"none", "triggered", "resolved"}
    BY <1>1 DEF UpdateContract
  <2>. QED
    BY <1>2, <1>3, <2>1 DEF Outbound, Notify, Withhold, Entry
<1>5. obs \in Severity /\ u = StillFailing(e, obs, 0)
  <2>1. obs # Up
    BY <1>4 DEF Update, Healthy
  <2>. QED
    BY <2>1 DEF Update, Observation
<1>6. obs # 0 /\ u.entry.sev = obs /\ obs > EffectivePeak(e)
  <2> DEFINE capped == [e EXCEPT !.succ = 0,
                                 !.fail = IF e.fail + 1 < TriggerAfter
                                          THEN e.fail + 1 ELSE TriggerAfter]
             graded == [capped EXCEPT !.sev = obs, !.peak = EffectivePeak(e)]
  <2>1. StillFailing(e, obs, 0).transition = "triggered"
    BY <1>4, <1>5
  <2>2. obs # 0
    BY <2>1 DEF StillFailing
  <2>3. obs > graded.peak /\ u.entry = [graded EXCEPT !.cycles = 0]
    <3>1. StillFailing(e, obs, 0) =
            IF obs > graded.peak
            THEN [entry |-> [graded EXCEPT !.cycles = 0], transition |-> "triggered"]
            ELSE [entry |-> graded, transition |-> "none"]
      BY <2>2 DEF StillFailing
    <3>. HIDE DEF graded
    <3>2. obs > graded.peak
      BY <2>1, <3>1
    <3>. QED
      BY <1>5, <3>1, <3>2
  <2>4. graded.peak = EffectivePeak(e) /\ graded.sev = obs
    <3>1. e.fail + 1 \in Nat /\ TriggerAfter \in Nat
      BY DampingAssumption DEF Entry
    <3>2. capped \in Entry
      BY <3>1 DEF Entry
    <3>3. ASSUME NEW c \in Entry, NEW p
          PROVE  /\ [c EXCEPT !.sev = obs, !.peak = p].sev = obs
                 /\ [c EXCEPT !.sev = obs, !.peak = p].peak = p
      BY DEF Entry
    <3>. HIDE DEF capped
    <3>. QED
      BY <3>2, <3>3
  <2>5. [graded EXCEPT !.cycles = 0].sev = graded.sev
    OBVIOUS
  <2>. QED
    BY <2>2, <2>3, <2>4, <2>5
<1>. QED
  BY <1>3, <1>4, <1>6

LEMMA RepeatedPageNext ==
  ASSUME TypeOK, AnnouncementInvariant, NoRepeatedPage, [Next]_vars
  PROVE  NoRepeatedPage'
<1> USE DEF NoRepeatedPage, InFlight
<1>1. ASSUME NEW x \in Targets, Observe(x) PROVE NoRepeatedPage'
  <2> SUFFICES ASSUME NEW t \in Targets, RepeatOf(t) = 0, InFlight(t)', t \notin torn',
                      told'[t] # NotTold
               PROVE  mem'[t].sev > told'[t]
    BY DEF RepeatOf
  <2> DEFINE ev == Evaluated(mem[x], cond[x], RepeatOf(x), x \in snap)
             opens == mem[x].status # "alert" /\ ev.entry.status = "alert"
  <2>1. /\ mem' = [mem EXCEPT ![x] = ev.entry]
        /\ cur' = [target |-> x, send |-> ev.send, announced |-> ev.announced]
        /\ told' = IF opens THEN [told EXCEPT ![x] = NotTold] ELSE told
        /\ opened' = IF opens THEN [opened EXCEPT ![x] = ev.entry.sev] ELSE opened
        /\ torn' = IF opens THEN torn \ {x} ELSE torn
        /\ pc = "cycle" /\ pc' = "save"
    BY <1>1 DEF Observe
  <2>2. EvaluatedContract(mem[x], x \in snap, ev)
    BY ObserveFacts
  <2>3. mem[x] \in Entry /\ cond[x] \in Observation /\ (x \in snap) \in BOOLEAN
    BY DEF TypeOK
  <2>. HIDE DEF ev
  <2>4. x = t /\ ev.send = "triggered" /\ ~opens /\ told' = told /\ torn' = torn
    BY <2>1 DEF TypeOK
  <2>5. mem[t].status = "alert" /\ ev.entry.status = "alert"
    BY <2>2, <2>4 DEF EvaluatedContract
  <2>6. Exact(mem[t], t)
    BY <2>1, <2>4 DEF AnnouncementInvariant, AnnouncementInv
  <2>7. mem[t].pending = FALSE /\ EffectivePeak(mem[t]) >= told[t]
    <3>1. told[t] \in Severity /\ opened[t] \in Severity
      BY <2>4 DEF TypeOK
    <3>. QED
      BY <2>3, <2>4, <2>5, <2>6, <3>1 DEF Exact, PeakOf, Entry, Severity
  <2>8. ev.entry.sev > EffectivePeak(mem[t])
    BY <2>3, <2>4, <2>5, <2>7, OnlyEscalationsRefire DEF ev
  <2>9. ev.entry.sev \in Severity /\ EffectivePeak(mem[t]) \in Severity /\ told[t] \in Severity
    BY <2>2, <2>3, <2>4, Ranks DEF EvaluatedContract, Entry, TypeOK
  <2>. QED
    BY <2>1, <2>4, <2>7, <2>8, <2>9 DEF TypeOK, Severity
<1>2. ASSUME NEW result, Dispatched(result) PROVE NoRepeatedPage'
  BY <1>2 DEF Dispatched
<1>3. ASSUME NEW ok \in BOOLEAN, Save(ok) \/ Resave(ok) PROVE NoRepeatedPage'
  BY <1>3 DEF Save, Resave, history, RepeatOf
<1>4. ASSUME NEW t \in Targets, Unavailable(t) \/ Skip(t) PROVE NoRepeatedPage'
  BY <1>4 DEF Unavailable, Skip, history, RepeatOf
<1>5. CASE BeginCycle \/ EndCycle \/ Restart \/ Crash
  BY <1>5 DEF BeginCycle, EndCycle, Restart, Crash, history, RepeatOf
<1>6. ASSUME NEW t \in Targets, CondChanges(t) PROVE NoRepeatedPage'
  BY <1>6 DEF CondChanges, history, RepeatOf
<1>7. CASE MutesChange \/ UNCHANGED vars
  BY <1>7 DEF MutesChange, vars, history, RepeatOf
<1>. QED
  BY <1>1, <1>2, <1>3, <1>4, <1>5, <1>6, <1>7 DEF Next, Checker

(* Without a repeat cadence recipients who know of an incident hear of it   *)
(* again only when it is worse than everything delivered about it: a value  *)
(* that hovers around its thresholds does not mail at each crossing (the    *)
(* escalation branch of _update against peak_severity), whatever was muted, *)
(* failed or restarted in between, for every incident no crash tore.        *)
THEOREM PipelineNoRepeatedPage == Spec => []NoRepeatedPage
<1>1. Init => NoRepeatedPage
  BY DEF Init, NoRepeatedPage, InFlight
<1>2. TypeOK /\ AnnouncementInvariant /\ NoRepeatedPage /\ [Next]_vars => NoRepeatedPage'
  BY RepeatedPageNext
<1>. QED
  BY <1>1, <1>2, PipelineTypeOK, PipelineAnnouncement, PTL DEF Spec
-------------------------------------------------------------------------------
(***************************************************************************)
(* The registry of hosts and services: the invariants.                     *)
(***************************************************************************)

(* Types. *)
Keys == HostKeys \cup ServiceKeys
Kinds == {"node", "gpu", "service"}
InDetour == {"save", "send", "erase"}
(* Where a cycle is, a detour for one entry being part of where it began. *)
Place == IF step \in InDetour THEN cycle.back ELSE step
Steps == {"idle", "retire", "drop", "sweep", "query", "work", "services", "files", "write"} \cup InDetour
Stages == {"none", "refresh", "sync", "forget", "remove", "lost", "write"}

IsCycle(c) ==
  c = [hosts |-> c.hosts, names |-> c.names, off |-> c.off, s |-> c.s, part |-> c.part, todo |-> c.todo,
       key |-> c.key, entry |-> c.entry, send |-> c.send, announced |-> c.announced,
       back |-> c.back, content |-> c.content]

CycleTypes ==
  /\ DOMAIN states \subseteq Keys /\ DOMAIN saved \subseteq Keys
  /\ step \in Steps /\ IsCycle(cycle) /\ cycle.part \in {"hosts", "services"}
  /\ DOMAIN cycle.hosts \subseteq Hosts /\ cycle.names \subseteq ServiceNames /\ cycle.off \subseteq HostKeys
  /\ step \in {"save", "send"} => cycle.back \in {"drop", "work"}
  /\ step = "erase" => cycle.back \in {"retire", "sweep"}
  /\ step \in {"save", "send", "drop", "erase"} => cycle.key \in Keys
  /\ Place \in {"retire", "drop"} =>
       cycle.part = "hosts" /\ cycle.todo \subseteq cycle.off /\ (Place = "drop" => cycle.key \in cycle.off)
  /\ Place = "work" => \A x \in cycle.todo : x[1] \in OfPart(cycle.part)
  /\ step \in {"services", "idle"} => cycle = NoCycle

HostRows == HostBodies \cup {Absent}
ServiceRows == {ServiceRow(n, on) : n \in ServiceNames, on \in BOOLEAN} \cup {Absent}

IsRequest(r) ==
  /\ r = [op |-> r.op, of |-> r.of, had |-> r.had, was |-> r.was, stage |-> r.stage,
          keys |-> r.keys, content |-> r.content]
  /\ r.stage \in Stages
  /\ r.stage = "none" => r = NoRequest
  /\ r.stage # "none" => r.op \in {"hosts", "services"}
  /\ r.stage \in {"refresh", "forget", "remove", "lost"} =>
       \/ r.op = "hosts" /\ r.of \in Hosts
       \/ r.op = "services" /\ r.of \in Slots
  /\ r.stage = "refresh" /\ r.op = "services" => r.was \in ServiceNames

TableTypes ==
  /\ hosts \in [Hosts -> HostRows] /\ services \in [Slots -> ServiceRows] /\ settings \in Settings
  /\ DOMAIN request = Handlers /\ \A c \in Handlers : IsRequest(request[c])
  /\ DOMAIN lock = {"here", "there"}
  /\ asked \in Nat /\ accidents \in Nat

(* Every row is of an entry in memory, was left behind, or is about to go. *)
Losing(c) == request[c].stage \in {"forget", "remove", "lost"}
Known(k) ==
  \/ k \in DOMAIN states \/ k \in strays \/ (step = "erase" /\ k = cycle.key)
  \/ \E c \in Near : Losing(c) /\ k \in request[c].keys
RowsAreKnown == \A k \in DOMAIN saved : Known(k)

(* Targets files. *)
KindsOf(part) == IF part = "hosts" THEN {"node", "gpu"} ELSE {"service"}
Underway(c, f, stages) == request[c].stage \in stages /\ f \in KindsOf(request[c].op)
ToRead == {"refresh", "forget", "sync"}
(* What a writer holds of a file is of now, or a request will write again. *)
Fresh(content, f, c) ==
  \/ f \in drift
  \/ content[f] = Rendered[f]
  \/ \E d \in Handlers \ {c} : Underway(d, f, ToRead)

(* Whoever writes holds the lock of its color. *)
LockInv ==
  /\ DOMAIN files = Kinds
  /\ \A c \in Handlers : lock[Color(c)] = c <=> request[c].stage = "write"
  /\ lock["here"] = "cycle" <=> step = "write"
  /\ \A color \in {"here", "there"} : lock[color] \in {"free", "cycle"} \cup Handlers
  /\ lock["there"] # "cycle"

WriterInv ==
  /\ \A c \in Handlers : request[c].stage = "write" =>
       /\ DOMAIN request[c].content = KindsOf(request[c].op)
       /\ \A f \in DOMAIN request[c].content : Fresh(request[c].content, f, c)
  /\ step = "write" =>
       /\ DOMAIN cycle.content = KindsOf(cycle.part)
       /\ \A f \in DOMAIN cycle.content : Fresh(cycle.content, f, "cycle")
       /\ calm => cycle.content = Snapshot(cycle.part)

(* A file that is right, may have missed a write, or will be written. *)
FilesInv ==
  \A f \in Kinds : f \in drift \/ files[f] = Rendered[f] \/ \E c \in Handlers : Underway(c, f, ToRead \cup {"write"})

(* What an undisturbed cycle has loaded, and has judged. *)
Shown(part) == DOMAIN states \cap OfPart(part)
WatchedNow == Watched(hosts, services, settings)
Scan == {"retire", "drop", "sweep", "query", "work"}
In(part) == Place \in Scan /\ cycle.part = part
HostsAreLoaded ==
  /\ cycle.s = settings /\ cycle.hosts = Restrict(hosts, Enabled(hosts))
  /\ \A h \in Enabled(hosts), t \in HostTypes :
       <<t, h>> \in cycle.off <=> t \in DisabledSignals(hosts[h], settings)
SeenOrDue ==
  /\ Shown(cycle.part) \subseteq WatchedNow
  /\ \A x \in cycle.todo : x[1] \in WatchedNow \/ x[2] = Unseen
  /\ \A k \in Shown(cycle.part) : k \in judged \/ \E x \in cycle.todo : x[1] = k /\ x[2] # Unseen
PartIsTrue(part) == Shown(part) \subseteq WatchedNow \cap judged

(* What an undisturbed cycle knows at each of its awaits. *)
LoadedRight ==
  /\ In("hosts") => HostsAreLoaded
  /\ In("services") => cycle.names = EnabledNames(services)
RetiringRight ==
  /\ Place \in {"retire", "drop"} =>
       \A k \in cycle.off \cap DOMAIN states : k \in cycle.todo \/ (Place = "drop" /\ k = cycle.key)
  /\ Place \in {"sweep", "query"} => cycle.off \cap DOMAIN states = {}
JudgingRight ==
  /\ step = "query" => Shown(cycle.part) \subseteq WatchedNow
  /\ Place = "work" => SeenOrDue
PartsAreTrue ==
  /\ ~In("hosts") => PartIsTrue("hosts")
  /\ step \in {"files", "write", "idle"} => PartIsTrue("services")

CalmInv == calm => Quiet /\ LoadedRight /\ RetiringRight /\ JudgingRight /\ PartsAreTrue

-------------------------------------------------------------------------------
(* Helpers on functions and on the locals of a cycle. *)

LEMMA Puts ==
  ASSUME NEW m, NEW k, NEW e
  PROVE  DOMAIN Put(m, k, e) = {k} \cup DOMAIN m
BY DEF Over, Put

LEMMA Restricted ==
  ASSUME NEW m, NEW S
  PROVE  DOMAIN Restrict(m, S) = S /\ (\A k \in S : Restrict(m, S)[k] = m[k]) /\ DOMAIN Without(m, S) = DOMAIN m \ S
BY DEF Restrict, Without

LEMMA NoCycleIs ==
  /\ IsCycle(NoCycle) /\ NoCycle.part = "hosts" /\ NoCycle.todo = {} /\ NoCycle.off = {} /\ NoCycle.names = {}
  /\ DOMAIN NoCycle.hosts = {} /\ NoCycle.content = <<>>
BY DEF IsCycle, NoCycle

LEMMA Chosen == ASSUME NEW S, S # {} PROVE NextOf(S) \in S
BY DEF NextOf

(* The locals of a cycle that a detour leaves alone. *)
Same(c, d) == /\ c.hosts = d.hosts /\ c.names = d.names /\ c.off = d.off /\ c.s = d.s
              /\ c.part = d.part /\ c.content = d.content

LEMMA DiscardedFacts ==
  ASSUME NEW k, NEW c, IsCycle(c), Discarded(k, c)
  PROVE  /\ DOMAIN states' = DOMAIN states \ {k} /\ step' = "erase" /\ IsCycle(cycle')
         /\ Same(cycle', c) /\ cycle'.key = k /\ cycle'.back = c.back /\ cycle'.todo = c.todo
<1>1. states' = Without(states, {k}) /\ step' = "erase" /\ cycle' = [c EXCEPT !.key = k]
  BY DEF Discarded, Goes
<1>2. DOMAIN states' = DOMAIN states \ {k} BY <1>1, Restricted
<1>3. IsCycle(cycle') /\ Same(cycle', c) /\ cycle'.key = k /\ cycle'.back = c.back /\ cycle'.todo = c.todo
  BY <1>1 DEF IsCycle, Same
<1> QED BY <1>1, <1>2, <1>3

LEMMA ProcessFacts ==
  ASSUME NEW k, NEW e, NEW c, IsCycle(c), Process(k, e, c)
  PROVE  /\ DOMAIN states' = {k} \cup DOMAIN states /\ step' = "save" /\ IsCycle(cycle')
         /\ Same(cycle', c) /\ cycle'.key = k /\ cycle'.back = c.back /\ cycle'.todo = c.todo
<1>1. /\ states' = Put(states, k, e.entry) /\ step' = "save"
      /\ cycle' = [c EXCEPT !.key = k, !.entry = e.entry, !.send = e.send, !.announced = e.announced]
  BY DEF Process, Goes
<1>2. DOMAIN states' = {k} \cup DOMAIN states BY <1>1, Puts
<1>3. IsCycle(cycle') /\ Same(cycle', c) /\ cycle'.key = k /\ cycle'.back = c.back /\ cycle'.todo = c.todo
  BY <1>1 DEF IsCycle, Same
<1> QED BY <1>1, <1>2, <1>3

LEMMA ReturnsFacts ==
  ASSUME IsCycle(cycle), Returns
  PROVE  /\ step' = cycle.back /\ IsCycle(cycle') /\ Same(cycle', cycle) /\ cycle'.todo = cycle.todo
         /\ cycle.back = "drop" => cycle'.key = cycle.key /\ cycle'.back = "drop"
<1>1. CASE cycle.back = "drop" BY <1>1 DEF Returns, Goes, Same
<1>2. CASE cycle.back # "drop" BY <1>2 DEF Returns, Goes, Same, IsCycle
<1> QED BY <1>1, <1>2
-------------------------------------------------------------------------------
(* What each step of a cycle does to it. *)
LEMMA KeyKinds ==
  /\ HostKeys \cap ServiceKeys = {} /\ OfPart("hosts") = HostKeys /\ OfPart("services") = ServiceKeys
  /\ \A k \in HostKeys : k[1] \in HostTypes /\ k[2] \in Hosts /\ k = <<k[1], k[2]>> /\ k[1] # ServiceType
  /\ \A k \in ServiceKeys : k[1] = ServiceType /\ k[2] \in ServiceNames /\ k = <<k[1], k[2]>> /\ k[1] \notin HostTypes
  /\ HostKeys \subseteq Keys /\ ServiceKeys \subseteq Keys
BY DEF HostKeys, ServiceKeys, OfPart, HostTypes, GpuTypes, ServiceType, Keys

RegTypes == TableTypes /\ CycleTypes

LEMMA HostsOn ==
  ASSUME TableTypes
  PROVE  /\ Enabled(hosts) \subseteq Hosts /\ Enabled(services) \subseteq Slots
         /\ EnabledNames(services) \subseteq ServiceNames
         /\ \A h \in Enabled(hosts) : hosts[h] \in HostBodies /\ IsRow(hosts[h])
         /\ \A i \in Enabled(services) : IsRow(services[i]) /\ services[i].name \in ServiceNames
<1>1. Enabled(hosts) \subseteq Hosts /\ Enabled(services) \subseteq Slots BY DEF Enabled, TableTypes
<1>2. \A h \in Enabled(hosts) : hosts[h] \in HostBodies /\ IsRow(hosts[h])
  BY <1>1, RegistryAssumption DEF Enabled, TableTypes, HostRows, Absent
<1>3. ASSUME NEW i \in Enabled(services) PROVE IsRow(services[i]) /\ services[i].name \in ServiceNames
  <2>1. services[i] \in ServiceRows /\ services[i].on BY <1>1 DEF Enabled, TableTypes
  <2>2. services[i] # Absent BY <2>1 DEF Absent
  <2>3. PICK n \in ServiceNames, on \in BOOLEAN : services[i] = ServiceRow(n, on)
    BY <2>1, <2>2 DEF ServiceRows
  <2> QED BY <2>3 DEF Absent, ServiceRow, IsRow
<1> QED BY <1>1, <1>2, <1>3 DEF EnabledNames

LEMMA LoadHostsTypes ==
  ASSUME RegTypes, LoadHosts PROVE CycleTypes'
<1>1. DOMAIN states' \subseteq Keys /\ DOMAIN saved' \subseteq Keys BY DEF LoadHosts, RegTypes, CycleTypes
<1> DEFINE on == Restrict(hosts, Enabled(hosts))
           off == SwitchedOff
           c  == [NoCycle EXCEPT !.hosts = on, !.s = settings, !.off = off, !.todo = off]
<1>2. CASE step' = "retire" /\ cycle' = c
  <2>1. off \subseteq HostKeys
    <3>2. \A k \in DOMAIN states : k[1] = "server_disk_forecast" => k \in HostKeys
      BY KeyKinds DEF RegTypes, CycleTypes, Keys, ServiceType
    <3> QED BY <3>2, HostsOn DEF SwitchedOff, HostKeys, RegTypes
  <2>2. IsCycle(c) /\ c.part = "hosts" /\ c.off = off /\ c.todo = off /\ c.hosts = on /\ c.names = {}
    <3> HIDE DEF on, off
    <3>1. PICK d : d = c OBVIOUS
    <3>2. IsCycle(d) /\ d.part = "hosts" /\ d.off = off /\ d.todo = off /\ d.hosts = on /\ d.names = {}
      BY <3>1, NoCycleIs DEF IsCycle
    <3> QED BY <3>1, <3>2
  <2>3. DOMAIN on \subseteq Hosts
    <3>1. DOMAIN on = Enabled(hosts) BY Restricted
    <3> QED BY <3>1, HostsOn DEF RegTypes
  <2>4. Place' = "retire" BY <1>2 DEF Place, InDetour
  <2> HIDE DEF c, off, on
  <2> QED BY <1>1, <1>2, <2>1, <2>2, <2>3, <2>4 DEF CycleTypes, Steps
<1>3. CASE step' = "services" /\ cycle' = NoCycle
  <2>4. Place' = "services" BY <1>3 DEF Place, InDetour
  <2> QED BY <1>1, <1>3, <2>4, NoCycleIs DEF CycleTypes, Steps
<1>4. (step' = "retire" /\ cycle' = c) \/ (step' = "services" /\ cycle' = NoCycle)
  BY DEF LoadHosts, Goes
<1> HIDE DEF c
<1> QED BY <1>2, <1>3, <1>4

(* What RetireSignal does. *)
LEMMA RetireSignalFacts ==
  ASSUME RegTypes, RetireSignal
  PROVE  \/ /\ cycle.todo \cap DOMAIN states = {} /\ step' = "sweep" /\ cycle' = cycle /\ states' = states
         \/ \E k \in cycle.todo \cap DOMAIN states :
              /\ IsCycle(cycle') /\ Same(cycle', cycle) /\ cycle'.key = k
              /\ cycle'.todo = (cycle.todo \cap DOMAIN states) \ {k}
              /\ \/ /\ step' = "erase" /\ cycle'.back = "retire" /\ DOMAIN states' = DOMAIN states \ {k}
                    /\ states[k].status = "ok"
                 \/ step' = "save" /\ cycle'.back = "drop" /\ DOMAIN states' = DOMAIN states
<1> DEFINE left == cycle.todo \cap DOMAIN states
           k == NextOf(left)
           c == [cycle EXCEPT !.todo = left \ {k}]
           c1 == [c EXCEPT !.back = "retire"]
           c2 == [c EXCEPT !.back = "drop"]
<1>1. CASE left = {} BY <1>1 DEF RetireSignal, Goes
<1>2. CASE left # {}
  <2>0. IsCycle(cycle) BY DEF RegTypes, CycleTypes
  <2>1. k \in left BY <1>2, Chosen
  <2>2. IsCycle(c1) /\ Same(c1, cycle) /\ c1.todo = left \ {k} /\ c1.back = "retire"
    <3>1. PICK d : d = c1 OBVIOUS
    <3>2. IsCycle(d) /\ Same(d, cycle) /\ d.todo = left \ {k} /\ d.back = "retire" BY <2>0, <3>1 DEF IsCycle, Same
    <3> QED BY <3>1, <3>2
  <2>3. IsCycle(c2) /\ Same(c2, cycle) /\ c2.todo = left \ {k} /\ c2.back = "drop"
    <3>1. PICK d : d = c2 OBVIOUS
    <3>2. IsCycle(d) /\ Same(d, cycle) /\ d.todo = left \ {k} /\ d.back = "drop" BY <2>0, <3>1 DEF IsCycle, Same
    <3> QED BY <3>1, <3>2
  <2>4. \/ states[k].status = "ok" /\ Discarded(k, c1)
        \/ Process(k, Plain!Evaluated(states[k], Well, 0, FALSE), c2)
    BY <1>2 DEF RetireSignal
  <2> HIDE DEF k, c1, c2
  <2>5. CASE states[k].status = "ok" /\ Discarded(k, c1)
    <3>1. /\ DOMAIN states' = DOMAIN states \ {k} /\ step' = "erase" /\ IsCycle(cycle')
          /\ Same(cycle', c1) /\ cycle'.key = k /\ cycle'.back = c1.back /\ cycle'.todo = c1.todo
      BY <2>2, <2>5, DiscardedFacts
    <3>2. Same(cycle', cycle) BY <3>1, <2>2 DEF Same
    <3> QED BY <3>1, <3>2, <2>1, <2>2, <2>5
  <2>6. CASE Process(k, Plain!Evaluated(states[k], Well, 0, FALSE), c2)
    <3>1. /\ DOMAIN states' = {k} \cup DOMAIN states /\ step' = "save" /\ IsCycle(cycle')
          /\ Same(cycle', c2) /\ cycle'.key = k /\ cycle'.back = c2.back /\ cycle'.todo = c2.todo
      BY <2>3, <2>6, ProcessFacts
    <3>2. Same(cycle', cycle) BY <3>1, <2>3 DEF Same
    <3> QED BY <3>1, <3>2, <2>1, <2>3
  <2> QED BY <2>4, <2>5, <2>6
<1> QED BY <1>1, <1>2

LEMMA RetireSignalTypes ==
  ASSUME RegTypes, RetireSignal PROVE CycleTypes'
<1>1. saved' = saved /\ step = "retire" /\ Place = "retire" BY DEF RetireSignal, Place, InDetour
<1>2. /\ DOMAIN states \subseteq Keys /\ DOMAIN saved \subseteq Keys /\ IsCycle(cycle)
      /\ cycle.part = "hosts" /\ DOMAIN cycle.hosts \subseteq Hosts /\ cycle.names \subseteq ServiceNames
      /\ cycle.off \subseteq HostKeys /\ cycle.todo \subseteq cycle.off
  BY <1>1 DEF RegTypes, CycleTypes
<1>3. CASE step' = "sweep" /\ cycle' = cycle /\ states' = states
  <2>1. Place' = "sweep" BY <1>3 DEF Place, InDetour
  <2> QED BY <1>1, <1>2, <1>3, <2>1 DEF CycleTypes, Steps
<1>4. CASE \E k \in cycle.todo \cap DOMAIN states :
             /\ IsCycle(cycle') /\ Same(cycle', cycle) /\ cycle'.key = k
             /\ cycle'.todo = (cycle.todo \cap DOMAIN states) \ {k}
             /\ \/ /\ step' = "erase" /\ cycle'.back = "retire" /\ DOMAIN states' = DOMAIN states \ {k}
                   /\ states[k].status = "ok"
                \/ step' = "save" /\ cycle'.back = "drop" /\ DOMAIN states' = DOMAIN states
  <2>1. PICK k \in cycle.todo \cap DOMAIN states :
             /\ IsCycle(cycle') /\ Same(cycle', cycle) /\ cycle'.key = k
             /\ cycle'.todo = (cycle.todo \cap DOMAIN states) \ {k}
             /\ \/ /\ step' = "erase" /\ cycle'.back = "retire" /\ DOMAIN states' = DOMAIN states \ {k}
                   /\ states[k].status = "ok"
                \/ step' = "save" /\ cycle'.back = "drop" /\ DOMAIN states' = DOMAIN states
    BY <1>4
  <2>2. Place' \in {"retire", "drop"} BY <2>1 DEF Place, InDetour
  <2>3. k \in Keys /\ k \in cycle.off BY <1>2, KeyKinds
  <2>4. /\ DOMAIN states' \subseteq Keys /\ DOMAIN saved' \subseteq Keys
    BY <1>1, <1>2, <2>1
  <2> QED BY <1>2, <2>1, <2>2, <2>3, <2>4 DEF CycleTypes, Steps, Same, InDetour
<1> QED BY <1>3, <1>4, RetireSignalFacts

LEMMA DropRetiredFacts ==
  ASSUME RegTypes, DropRetired
  PROVE  /\ step = "drop" /\ cycle.key \in cycle.off /\ IsCycle(cycle') /\ Same(cycle', cycle)
         /\ cycle'.key = cycle.key /\ cycle'.todo = cycle.todo /\ step' = "erase" /\ cycle'.back = "retire"
         /\ DOMAIN states' = DOMAIN states \ {cycle.key}
<1>1. PICK d : d = [cycle EXCEPT !.back = "retire"] OBVIOUS
<1>2. IsCycle(cycle) BY DEF RegTypes, CycleTypes
<1>3. IsCycle(d) /\ Same(d, cycle) /\ d.todo = cycle.todo /\ d.back = "retire" BY <1>1, <1>2 DEF IsCycle, Same
<1>4. step = "drop" /\ Discarded(cycle.key, d) BY <1>1 DEF DropRetired
<1>5. Place = "drop" BY <1>4 DEF Place, InDetour
<1>6. /\ DOMAIN states' = DOMAIN states \ {cycle.key} /\ step' = "erase" /\ IsCycle(cycle')
      /\ Same(cycle', d) /\ cycle'.key = cycle.key /\ cycle'.back = d.back /\ cycle'.todo = d.todo
  BY <1>3, <1>4, DiscardedFacts
<1>7. Same(cycle', cycle) BY <1>3, <1>6 DEF Same
<1> QED BY <1>3, <1>4, <1>5, <1>6, <1>7 DEF RegTypes, CycleTypes

LEMMA DropRetiredTypes ==
  ASSUME RegTypes, DropRetired PROVE CycleTypes'
<1>1. saved' = saved /\ Place = "drop" BY DropRetiredFacts DEF DropRetired, Place, InDetour
<1>2. /\ DOMAIN states \subseteq Keys /\ DOMAIN saved \subseteq Keys
      /\ cycle.part = "hosts" /\ DOMAIN cycle.hosts \subseteq Hosts /\ cycle.names \subseteq ServiceNames
      /\ cycle.off \subseteq HostKeys /\ cycle.todo \subseteq cycle.off
  BY <1>1 DEF RegTypes, CycleTypes
<1>3. Place' = "retire" /\ cycle.key \in Keys BY <1>2, DropRetiredFacts, KeyKinds DEF Place, InDetour
<1> QED BY <1>1, <1>2, <1>3, DropRetiredFacts DEF CycleTypes, Steps, Same, InDetour

LEMMA EraseRowFacts ==
  ASSUME RegTypes, EraseRow
  PROVE  /\ step = "erase" /\ cycle.back \in {"retire", "sweep"} /\ step' = cycle.back /\ IsCycle(cycle')
         /\ Same(cycle', cycle) /\ cycle'.todo = cycle.todo /\ states' = states
         /\ DOMAIN saved' \subseteq DOMAIN saved /\ strays \subseteq strays'
         /\ cycle.key \in strays' \/ cycle.key \notin DOMAIN saved'
<1>1. step = "erase" /\ Returns /\ IsCycle(cycle) /\ cycle.back \in {"retire", "sweep"} /\ states' = states
  BY DEF EraseRow, RegTypes, CycleTypes
<1>2. step' = cycle.back /\ IsCycle(cycle') /\ Same(cycle', cycle) /\ cycle'.todo = cycle.todo
  BY <1>1, ReturnsFacts
<1>3. CASE saved' = Without(saved, {cycle.key}) /\ UNCHANGED strays
  <2>1. DOMAIN saved' = DOMAIN saved \ {cycle.key} BY <1>3, Restricted
  <2> QED BY <1>1, <1>2, <1>3, <2>1
<1>4. CASE strays' = strays \cup {cycle.key} /\ UNCHANGED saved BY <1>1, <1>2, <1>4
<1> QED BY <1>3, <1>4 DEF EraseRow

LEMMA EraseRowTypes ==
  ASSUME RegTypes, EraseRow PROVE CycleTypes'
<1>1. Place = cycle.back /\ Place' = cycle.back /\ cycle.back \in {"retire", "sweep"}
  BY EraseRowFacts DEF Place, InDetour
<1>2. DOMAIN states' \subseteq Keys /\ DOMAIN saved' \subseteq Keys BY EraseRowFacts DEF RegTypes, CycleTypes
<1> QED BY <1>1, <1>2, EraseRowFacts DEF RegTypes, CycleTypes, Steps, Same, InDetour

Names == IF cycle.part = "hosts" THEN DOMAIN cycle.hosts ELSE cycle.names

LEMMA NextPartFacts ==
  ASSUME NextPart
  PROVE  /\ cycle' = NoCycle
         /\ step' = IF cycle.part = "hosts" THEN "services" ELSE "files"
BY DEF NextPart, Goes

LEMMA AtRest ==
  ASSUME CycleTypes, cycle' = NoCycle, step' \in {"services", "files", "idle"},
         DOMAIN states' \subseteq Keys, DOMAIN saved' \subseteq Keys
  PROVE  CycleTypes'
<1>1. Place' \in {"services", "files", "idle"} BY DEF Place, InDetour
<1> QED BY <1>1, NoCycleIs DEF CycleTypes, Steps

LEMMA SweepFacts ==
  ASSUME RegTypes, SweepUnmonitored
  PROVE  \/ \E k \in Shown(cycle.part) :
              /\ k[2] \notin Names /\ IsCycle(cycle') /\ Same(cycle', cycle) /\ cycle'.key = k
              /\ cycle'.back = "sweep" /\ cycle'.todo = cycle.todo /\ step' = "erase"
              /\ DOMAIN states' = DOMAIN states \ {k}
         \/ /\ \A k \in Shown(cycle.part) : k[2] \in Names
            /\ states' = states
            /\ \/ Names # {} /\ step' = "query" /\ cycle' = cycle
               \/ Names = {} /\ NextPart
<1> DEFINE gone == {k \in Shown(cycle.part) : k[2] \notin Names}
<1>1. \/ \E k \in gone : Discarded(k, [cycle EXCEPT !.back = "sweep"])
      \/ gone = {} /\ UNCHANGED states /\ IF Names # {} THEN Goes("query", cycle) ELSE NextPart
  BY DEF SweepUnmonitored, Names, Shown
<1>2. CASE \E k \in gone : Discarded(k, [cycle EXCEPT !.back = "sweep"])
  <2>1. PICK k \in gone : Discarded(k, [cycle EXCEPT !.back = "sweep"]) BY <1>2
  <2>2. PICK d : d = [cycle EXCEPT !.back = "sweep"] OBVIOUS
  <2>3. IsCycle(cycle) BY DEF RegTypes, CycleTypes
  <2>4. IsCycle(d) /\ Same(d, cycle) /\ d.todo = cycle.todo /\ d.back = "sweep" BY <2>2, <2>3 DEF IsCycle, Same
  <2>5. Discarded(k, d) BY <2>1, <2>2
  <2>6. /\ DOMAIN states' = DOMAIN states \ {k} /\ step' = "erase" /\ IsCycle(cycle')
        /\ Same(cycle', d) /\ cycle'.key = k /\ cycle'.back = d.back /\ cycle'.todo = d.todo
    BY <2>4, <2>5, DiscardedFacts
  <2>7. Same(cycle', cycle) BY <2>4, <2>6 DEF Same
  <2> QED BY <2>1, <2>4, <2>6, <2>7
<1>3. CASE gone = {} /\ UNCHANGED states /\ IF Names # {} THEN Goes("query", cycle) ELSE NextPart
  BY <1>3 DEF Goes
<1> QED BY <1>1, <1>2, <1>3

LEMMA SweepTypes ==
  ASSUME RegTypes, SweepUnmonitored PROVE CycleTypes'
<1>1. saved' = saved /\ step = "sweep" BY DEF SweepUnmonitored
<1>2. /\ DOMAIN states \subseteq Keys /\ DOMAIN saved \subseteq Keys /\ IsCycle(cycle)
      /\ cycle.part \in {"hosts", "services"} /\ DOMAIN cycle.hosts \subseteq Hosts
      /\ cycle.names \subseteq ServiceNames /\ cycle.off \subseteq HostKeys
  BY DEF RegTypes, CycleTypes
<1>3. ASSUME NEW k \in Shown(cycle.part), IsCycle(cycle'), Same(cycle', cycle), cycle'.key = k,
             cycle'.back = "sweep", step' = "erase", DOMAIN states' = DOMAIN states \ {k}
      PROVE  CycleTypes'
  <2>1. Place' = "sweep" BY <1>3 DEF Place, InDetour
  <2>2. k \in Keys BY <1>2 DEF Shown
  <2> QED BY <1>1, <1>2, <1>3, <2>1, <2>2 DEF CycleTypes, Steps, Same, InDetour
<1>4. CASE states' = states /\ step' = "query" /\ cycle' = cycle
  <2>1. Place' = "query" BY <1>4 DEF Place, InDetour
  <2> QED BY <1>1, <1>2, <1>4, <2>1 DEF CycleTypes, Steps, InDetour
<1>5. CASE states' = states /\ NextPart
  BY <1>1, <1>2, <1>5, NextPartFacts, AtRest DEF RegTypes
<1> QED BY <1>3, <1>4, <1>5, SweepFacts

LEMMA AskFacts ==
  ASSUME RegTypes, AskPrometheus
  PROVE  \E a \in Answers :
           LET obs == Observations(a)
               mark == Unobserved(DOMAIN obs)
           IN  /\ step' = "work" /\ IsCycle(cycle') /\ Same(cycle', cycle) /\ states' = states
               /\ cycle'.todo = {<<k, Unseen>> : k \in mark} \cup {<<k, obs[k]>> : k \in DOMAIN obs}
               /\ judged' = judged \cup IF calm THEN {k \in mark : Silent(a, k)} ELSE {}
<1>1. PICK a \in Answers :
        LET obs == Observations(a)
            mark == Unobserved(DOMAIN obs)
        IN  /\ Goes("work", [cycle EXCEPT !.todo = {<<k, Unseen>> : k \in mark}
                                                   \cup {<<k, obs[k]>> : k \in DOMAIN obs}])
            /\ judged' = judged \cup IF calm THEN {k \in mark : Silent(a, k)} ELSE {}
  BY DEF AskPrometheus
<1> DEFINE obs == Observations(a)
           mark == Unobserved(DOMAIN obs)
           due == {<<k, Unseen>> : k \in mark} \cup {<<k, obs[k]>> : k \in DOMAIN obs}
<1>2. step' = "work" /\ cycle' = [cycle EXCEPT !.todo = due] BY <1>1 DEF Goes
<1>3. IsCycle(cycle) BY DEF RegTypes, CycleTypes
<1>4. IsCycle(cycle') /\ Same(cycle', cycle) /\ cycle'.todo = due
  <2> HIDE DEF due
  <2> QED BY <1>2, <1>3 DEF IsCycle, Same
<1>5. states' = states BY DEF AskPrometheus
<1> WITNESS a \in Answers
<1> QED BY <1>1, <1>2, <1>4, <1>5

LEMMA ObservedKeys ==
  ASSUME RegTypes, NEW a
  PROVE  /\ DOMAIN Observations(a) \subseteq OfPart(cycle.part)
         /\ Unobserved(DOMAIN Observations(a)) \subseteq Shown(cycle.part)
<1>1. /\ cycle.part \in {"hosts", "services"} /\ DOMAIN cycle.hosts \subseteq Hosts
      /\ cycle.names \subseteq ServiceNames
  BY DEF RegTypes, CycleTypes
<1>2. CASE cycle.part = "hosts"
  <2>1. DOMAIN EvaluateHosts(cycle.hosts, cycle.s, a) \subseteq HostKeys BY <1>1 DEF EvaluateHosts, HostKeys
  <2> QED BY <1>2, <2>1 DEF Observations, OfPart, Unobserved, Shown
<1>3. CASE cycle.part = "services"
  <2>1. DOMAIN EvaluateServices(cycle.names, a) \subseteq ServiceKeys BY <1>1 DEF EvaluateServices, ServiceKeys
  <2> QED BY <1>3, <2>1 DEF Observations, OfPart, Unobserved, Shown
<1> QED BY <1>1, <1>2, <1>3

LEMMA AskTypes ==
  ASSUME RegTypes, AskPrometheus PROVE CycleTypes'
<1>1. PICK a \in Answers :
           LET obs == Observations(a)
               mark == Unobserved(DOMAIN obs)
           IN  /\ step' = "work" /\ IsCycle(cycle') /\ Same(cycle', cycle) /\ states' = states
               /\ cycle'.todo = {<<k, Unseen>> : k \in mark} \cup {<<k, obs[k]>> : k \in DOMAIN obs}
  BY AskFacts
<1>2. saved' = saved BY DEF AskPrometheus
<1>3. \A x \in cycle'.todo : x[1] \in OfPart(cycle.part) BY <1>1, ObservedKeys DEF Shown
<1>4. Place' = "work" /\ \A x \in cycle'.todo : x[1] \in OfPart(cycle'.part)
  BY <1>1, <1>3 DEF Place, InDetour, Same
<1>5. step' = "work" /\ IsCycle(cycle') /\ Same(cycle', cycle) /\ states' = states BY <1>1
<1> QED BY <1>2, <1>4, <1>5 DEF RegTypes, CycleTypes, Steps, Same, InDetour

LEMMA TakeFacts ==
  ASSUME RegTypes, TakeSignal
  PROVE  \/ cycle.todo = {} /\ NextPart /\ states' = states /\ judged' = judged
         \/ \E x \in cycle.todo :
              /\ IsCycle(cycle') /\ Same(cycle', cycle) /\ cycle'.todo = cycle.todo \ {x}
              /\ \/ /\ x[2] = Unseen /\ states' = states /\ judged' = judged
                    /\ \/ step' = "save" /\ cycle'.back = "work" /\ cycle'.key = x[1] /\ x[1] \in DOMAIN states
                       \/ step' = "work"
                 \/ /\ x[2] # Unseen /\ step' = "save" /\ cycle'.back = "work" /\ cycle'.key = x[1]
                    /\ DOMAIN states' = {x[1]} \cup DOMAIN states
                    /\ judged' = judged \cup IF calm THEN {x[1]} ELSE {}
<1> DEFINE marks == {x \in cycle.todo : x[2] = Unseen}
           pick == IF marks # {} THEN marks ELSE cycle.todo
           taken == NextOf(pick)
           c == [cycle EXCEPT !.todo = @ \ {taken}, !.back = "work"]
<1>0. IsCycle(cycle) BY DEF RegTypes, CycleTypes
<1>1. CASE cycle.todo = {} BY <1>1 DEF TakeSignal
<1>2. CASE cycle.todo # {}
  <2>1. taken \in cycle.todo
    <3>1. pick # {} /\ pick \subseteq cycle.todo BY <1>2
    <3> HIDE DEF pick
    <3> QED BY <3>1, Chosen
  <2>2. \/ /\ taken[2] = Unseen /\ UNCHANGED <<states, judged>>
           /\ IF taken[1] \in DOMAIN states
              THEN Goes("save", [c EXCEPT !.key = taken[1], !.entry = states[taken[1]], !.send = "none"])
              ELSE Goes("work", c)
        \/ /\ taken[2] # Unseen
           /\ Process(taken[1], Damped!Evaluated(EntryAt(states, taken[1]), taken[2], 0, FALSE), c)
           /\ judged' = judged \cup IF calm THEN {taken[1]} ELSE {}
    BY <1>2 DEF TakeSignal
  <2>3. PICK d : d = c OBVIOUS
  <2> HIDE DEF taken
  <2>4. IsCycle(d) /\ Same(d, cycle) /\ d.todo = cycle.todo \ {taken} /\ d.back = "work"
    BY <1>0, <2>3 DEF IsCycle, Same
  <2> HIDE DEF c
  <2>5. CASE /\ taken[2] = Unseen /\ UNCHANGED <<states, judged>>
             /\ IF taken[1] \in DOMAIN states
                THEN Goes("save", [c EXCEPT !.key = taken[1], !.entry = states[taken[1]], !.send = "none"])
                ELSE Goes("work", c)
    <3>1. CASE taken[1] \in DOMAIN states
      <4>1. step' = "save" /\ cycle' = [d EXCEPT !.key = taken[1], !.entry = states[taken[1]], !.send = "none"]
        BY <2>3, <2>5, <3>1 DEF Goes
      <4>2. IsCycle(cycle') /\ Same(cycle', cycle) /\ cycle'.todo = d.todo /\ cycle'.back = d.back /\ cycle'.key = taken[1]
        BY <2>4, <4>1 DEF IsCycle, Same
      <4> QED BY <2>1, <2>4, <2>5, <3>1, <4>1, <4>2
    <3>2. CASE taken[1] \notin DOMAIN states BY <2>1, <2>3, <2>4, <2>5, <3>2 DEF Goes
    <3> QED BY <3>1, <3>2
  <2>6. CASE /\ taken[2] # Unseen
             /\ Process(taken[1], Damped!Evaluated(EntryAt(states, taken[1]), taken[2], 0, FALSE), c)
             /\ judged' = judged \cup IF calm THEN {taken[1]} ELSE {}
    <3>1. Process(taken[1], Damped!Evaluated(EntryAt(states, taken[1]), taken[2], 0, FALSE), d) BY <2>3, <2>6
    <3>2. /\ DOMAIN states' = {taken[1]} \cup DOMAIN states /\ step' = "save" /\ IsCycle(cycle')
          /\ Same(cycle', d) /\ cycle'.key = taken[1] /\ cycle'.back = d.back /\ cycle'.todo = d.todo
      BY <2>4, <3>1, ProcessFacts
    <3>3. Same(cycle', cycle) BY <2>4, <3>2 DEF Same
    <3> QED BY <2>1, <2>4, <2>6, <3>2, <3>3
  <2> QED BY <2>2, <2>5, <2>6
<1> QED BY <1>1, <1>2

LEMMA TakeTypes ==
  ASSUME RegTypes, TakeSignal PROVE CycleTypes'
<1>1. saved' = saved /\ step = "work" /\ Place = "work" BY DEF TakeSignal, Place, InDetour
<1>2. /\ DOMAIN states \subseteq Keys /\ DOMAIN saved \subseteq Keys /\ IsCycle(cycle)
      /\ cycle.part \in {"hosts", "services"} /\ DOMAIN cycle.hosts \subseteq Hosts
      /\ cycle.names \subseteq ServiceNames /\ cycle.off \subseteq HostKeys
      /\ \A x \in cycle.todo : x[1] \in OfPart(cycle.part)
  BY <1>1 DEF RegTypes, CycleTypes
<1>3. CASE cycle.todo = {} /\ NextPart /\ states' = states
  BY <1>1, <1>2, <1>3, NextPartFacts, AtRest DEF RegTypes
<1>4. ASSUME NEW x \in cycle.todo, IsCycle(cycle'), Same(cycle', cycle), cycle'.todo = cycle.todo \ {x},
             \/ step' = "save" /\ cycle'.back = "work" /\ cycle'.key = x[1]
             \/ step' = "work",
             DOMAIN states' \subseteq {x[1]} \cup DOMAIN states
      PROVE  CycleTypes'
  <2>1. Place' = "work" BY <1>4 DEF Place, InDetour
  <2>2. x[1] \in Keys BY <1>2, KeyKinds
  <2>3. DOMAIN states' \subseteq Keys /\ DOMAIN saved' \subseteq Keys BY <1>1, <1>2, <1>4, <2>2
  <2>4. \A y \in cycle'.todo : y[1] \in OfPart(cycle'.part) BY <1>2, <1>4 DEF Same
  <2> QED BY <1>2, <1>4, <2>1, <2>2, <2>3, <2>4 DEF CycleTypes, Steps, Same, InDetour
<1> QED BY <1>3, <1>4, TakeFacts

(* What the detour for one entry leaves of the locals. *)
Detours ==
  /\ IsCycle(cycle') /\ Same(cycle', cycle) /\ cycle'.todo = cycle.todo /\ Place' = Place
  /\ step' \in Steps \ {"erase"} /\ (Place = "drop" => cycle'.key = cycle.key)
  /\ (step' \in {"save", "send"} => cycle'.back = cycle.back /\ cycle'.key = cycle.key)

LEMMA DetourTypes ==
  ASSUME RegTypes, step \in {"save", "send"}, Detours,
         DOMAIN states' \subseteq Keys, DOMAIN saved' \subseteq Keys
  PROVE  CycleTypes'
<1>1. Place \in {"drop", "work"} BY DEF RegTypes, CycleTypes, Place, InDetour
<1>2. step' = "drop" => Place = "drop" BY DEF Detours, Place, InDetour
<1>3. step' \notin {"services", "idle", "files"} BY <1>1 DEF Detours, Place, InDetour
<1> QED BY <1>1, <1>2, <1>3 DEF RegTypes, CycleTypes, Detours, Same, InDetour

LEMMA ReturnDetours ==
  ASSUME RegTypes, step \in {"save", "send"}, Returns
  PROVE  Detours
<1>1. IsCycle(cycle) /\ cycle.back \in {"drop", "work"} /\ Place = cycle.back
  BY DEF RegTypes, CycleTypes, Place, InDetour
<1>2. /\ step' = cycle.back /\ IsCycle(cycle') /\ Same(cycle', cycle) /\ cycle'.todo = cycle.todo
      /\ cycle.back = "drop" => cycle'.key = cycle.key /\ cycle'.back = "drop"
  BY <1>1, ReturnsFacts
<1>3. Place' = cycle.back BY <1>1, <1>2 DEF Place, InDetour
<1> QED BY <1>1, <1>2, <1>3 DEF Detours, Steps

LEMMA SaveFacts ==
  ASSUME RegTypes, SaveEntry
  PROVE  /\ step = "save" /\ Detours /\ states' = states /\ judged' = judged
         /\ DOMAIN saved' \subseteq DOMAIN saved \cup {cycle.key}
         /\ strays \subseteq strays' \cup DOMAIN states
         /\ \/ cycle.key \in DOMAIN states \cup strays'
            \/ saved' = saved /\ strays' = strays
<1>1. step = "save" /\ states' = states /\ judged' = judged BY DEF SaveEntry
<1>2. Detours
  <2>1. CASE Returns BY <1>1, <2>1, ReturnDetours
  <2>2. CASE Goes("send", cycle)
    <3>1. Place' = Place BY <1>1, <2>2 DEF Goes, Place, InDetour
    <3> QED BY <2>2, <3>1 DEF Goes, Detours, RegTypes, CycleTypes, Same, Steps, InDetour
  <2> QED BY <2>1, <2>2 DEF SaveEntry
<1>3. CASE /\ saved' = Put(saved, cycle.key, Plain!Row(cycle.entry))
           /\ strays' = IF cycle.key \in DOMAIN states THEN strays \ {cycle.key} ELSE strays \cup {cycle.key}
  <2>0. PICK row : row = Plain!Row(cycle.entry) OBVIOUS
  <2>1. DOMAIN saved' = {cycle.key} \cup DOMAIN saved BY <1>3, <2>0, Puts
  <2> QED BY <1>1, <1>2, <1>3, <2>1
<1>4. CASE saved' = saved /\ strays' = strays BY <1>1, <1>2, <1>4
<1> QED BY <1>3, <1>4 DEF SaveEntry

LEMMA SendFacts ==
  ASSUME RegTypes, SendMessage
  PROVE  step = "send" /\ Detours /\ DOMAIN states' = DOMAIN states /\ judged' = judged
<1> DEFINE k == cycle.key
           e == EntryAt(states, k)
           after(new) == /\ states' = IF k \in DOMAIN states THEN Put(states, k, new) ELSE states
                         /\ IF new = e THEN Returns
                            ELSE Goes("save", [cycle EXCEPT !.entry = new, !.send = "none"])
<1>1. step = "send" /\ judged' = judged BY DEF SendMessage
<1>2. PICK new : after(new) BY DEF SendMessage
<1>3. DOMAIN states' = DOMAIN states
  <2>1. CASE k \in DOMAIN states
    <3>1. states' = Put(states, k, new) BY <1>2, <2>1
    <3>2. DOMAIN states' = {k} \cup DOMAIN states BY <3>1, Puts
    <3> QED BY <2>1, <3>2
  <2>2. CASE k \notin DOMAIN states BY <1>2, <2>2
  <2> QED BY <2>1, <2>2
<1>4. CASE Returns BY <1>1, <1>3, <1>4, ReturnDetours
<1>5. CASE Goes("save", [cycle EXCEPT !.entry = new, !.send = "none"])
  <2>1. IsCycle(cycle) BY DEF RegTypes, CycleTypes
  <2>2. /\ step' = "save" /\ IsCycle(cycle') /\ Same(cycle', cycle) /\ cycle'.todo = cycle.todo
        /\ cycle'.key = cycle.key /\ cycle'.back = cycle.back
    BY <1>5, <2>1 DEF Goes, IsCycle, Same
  <2>3. Place' = Place BY <1>1, <2>2 DEF Place, InDetour
  <2> QED BY <1>1, <1>3, <2>2, <2>3 DEF Detours, Steps, InDetour
<1> QED BY <1>2, <1>4, <1>5

LEMMA SaveSendTypes ==
  ASSUME RegTypes, SaveEntry \/ SendMessage PROVE CycleTypes'
<1>1. DOMAIN states \subseteq Keys /\ DOMAIN saved \subseteq Keys /\ (step = "save" => cycle.key \in Keys)
  BY DEF RegTypes, CycleTypes
<1>2. CASE SaveEntry
  <2>1. DOMAIN states' \subseteq Keys /\ DOMAIN saved' \subseteq Keys BY <1>1, <1>2, SaveFacts
  <2> QED BY <1>2, <2>1, SaveFacts, DetourTypes
<1>3. CASE SendMessage
  <2>1. saved' = saved BY <1>3 DEF SendMessage
  <2>2. DOMAIN states' \subseteq Keys /\ DOMAIN saved' \subseteq Keys BY <1>1, <1>3, <2>1, SendFacts
  <2> QED BY <1>3, <2>2, SendFacts, DetourTypes
<1> QED BY <1>2, <1>3

LEMMA LoadServicesFacts ==
  ASSUME RegTypes, LoadServices
  PROVE  /\ step = "services" /\ cycle = NoCycle /\ states' = states /\ saved' = saved
         /\ \/ /\ step' = "sweep" /\ IsCycle(cycle') /\ cycle'.part = "services"
               /\ cycle'.names = EnabledNames(services) /\ cycle'.off = {} /\ DOMAIN cycle'.hosts = {}
               /\ calm' = calm /\ judged' = judged
            \/ step' = "files" /\ cycle' = NoCycle /\ calm' = FALSE
<1>1. step = "services" /\ cycle = NoCycle /\ states' = states /\ saved' = saved
  BY DEF LoadServices, RegTypes, CycleTypes
<1>2. CASE /\ Goes("sweep", [NoCycle EXCEPT !.part = "services", !.names = EnabledNames(services)])
           /\ UNCHANGED <<accidents, calm, judged>>
  <2>1. PICK names : names = EnabledNames(services) OBVIOUS
  <2>2. step' = "sweep" /\ cycle' = [NoCycle EXCEPT !.part = "services", !.names = names] BY <1>2, <2>1 DEF Goes
  <2>3. /\ IsCycle(cycle') /\ cycle'.part = "services" /\ cycle'.names = names /\ cycle'.off = {}
        /\ DOMAIN cycle'.hosts = {}
    BY <2>2, NoCycleIs DEF IsCycle
  <2> QED BY <1>1, <1>2, <2>1, <2>2, <2>3
<1>3. CASE Goes("files", NoCycle) /\ Disturbed BY <1>1, <1>3 DEF Goes, Disturbed
<1> QED BY <1>2, <1>3 DEF LoadServices

LEMMA LoadServicesTypes ==
  ASSUME RegTypes, LoadServices PROVE CycleTypes'
<1>1. DOMAIN states' \subseteq Keys /\ DOMAIN saved' \subseteq Keys
  BY LoadServicesFacts DEF RegTypes, CycleTypes
<1>2. CASE /\ step' = "sweep" /\ IsCycle(cycle') /\ cycle'.part = "services"
           /\ cycle'.names = EnabledNames(services) /\ cycle'.off = {} /\ DOMAIN cycle'.hosts = {}
  <2>1. Place' = "sweep" BY <1>2 DEF Place, InDetour
  <2> QED BY <1>1, <1>2, <2>1, HostsOn DEF RegTypes, CycleTypes, Steps
<1>3. CASE step' = "files" /\ cycle' = NoCycle BY <1>1, <1>3, AtRest DEF RegTypes
<1> QED BY <1>2, <1>3, LoadServicesFacts

LEMMA ReconcileFacts ==
  ASSUME RegTypes, Reconcile
  PROVE  /\ UNCHANGED <<tables, request, calm, states, saved, judged, strays>>
         /\ \/ /\ step = "files" /\ step' = "write" /\ IsCycle(cycle') /\ cycle'.part = cycle.part
               /\ cycle'.hosts = cycle.hosts /\ cycle'.names = cycle.names /\ cycle'.off = cycle.off
               /\ cycle'.content = Snapshot(cycle.part) /\ Acquire("here", "cycle", Snapshot(cycle.part))
            \/ /\ step = "write" /\ Write("here", cycle.content, calm)
               /\ \/ step' = "files" /\ cycle' = [NoCycle EXCEPT !.part = "services"]
                  \/ step' = "idle" /\ cycle' = NoCycle
            \/ step = "files" /\ step' = "idle" /\ cycle' = NoCycle /\ UNCHANGED <<files, lock, drift>>
<1>1. UNCHANGED <<tables, request, calm, states, saved, judged, strays>> BY DEF Reconcile
<1>2. CASE step = "files" /\ Acquire("here", "cycle", Snapshot(cycle.part))
           /\ Goes("write", [cycle EXCEPT !.content = Snapshot(cycle.part)])
  <2>1. IsCycle(cycle) BY DEF RegTypes, CycleTypes
  <2>2. PICK content : content = Snapshot(cycle.part) OBVIOUS
  <2>3. step' = "write" /\ cycle' = [cycle EXCEPT !.content = content] BY <1>2, <2>2 DEF Goes
  <2>4. /\ IsCycle(cycle') /\ cycle'.part = cycle.part /\ cycle'.content = content
        /\ cycle'.hosts = cycle.hosts /\ cycle'.names = cycle.names /\ cycle'.off = cycle.off
    BY <2>1, <2>3 DEF IsCycle
  <2> QED BY <1>1, <1>2, <2>2, <2>3, <2>4
<1>3. CASE step = "write" /\ Write("here", cycle.content, calm)
           /\ IF cycle.part = "hosts" THEN Goes("files", [NoCycle EXCEPT !.part = "services"])
                                      ELSE Goes("idle", NoCycle)
  BY <1>1, <1>3 DEF Goes
<1>4. CASE step = "files" /\ Goes("idle", NoCycle) /\ UNCHANGED <<files, lock, drift>>
  BY <1>1, <1>4 DEF Goes
<1> QED BY <1>2, <1>3, <1>4 DEF Reconcile

LEMMA ReconcileTypes ==
  ASSUME RegTypes, Reconcile PROVE CycleTypes'
<1>1. DOMAIN states' \subseteq Keys /\ DOMAIN saved' \subseteq Keys
  BY ReconcileFacts DEF RegTypes, CycleTypes
<1>2. CASE /\ step' = "write" /\ IsCycle(cycle') /\ cycle'.part = cycle.part
           /\ cycle'.hosts = cycle.hosts /\ cycle'.names = cycle.names /\ cycle'.off = cycle.off
  <2>1. Place' = "write" BY <1>2 DEF Place, InDetour
  <2> QED BY <1>1, <1>2, <2>1 DEF RegTypes, CycleTypes, Steps, InDetour
<1>3. CASE step' = "files" /\ cycle' = [NoCycle EXCEPT !.part = "services"]
  <2>1. Place' = "files" BY <1>3 DEF Place, InDetour
  <2>2. /\ IsCycle(cycle') /\ cycle'.part = "services" /\ DOMAIN cycle'.hosts = {} /\ cycle'.names = {}
        /\ cycle'.off = {}
    BY <1>3, NoCycleIs DEF IsCycle
  <2> QED BY <1>1, <1>3, <2>1, <2>2 DEF CycleTypes, Steps, InDetour
<1>4. CASE step' = "idle" /\ cycle' = NoCycle BY <1>1, <1>4, AtRest DEF RegTypes
<1> QED BY <1>2, <1>3, <1>4, ReconcileFacts

LEMMA CycleTyping ==
  ASSUME RegTypes, Cycle PROVE CycleTypes'
BY LoadHostsTypes, RetireSignalTypes, DropRetiredTypes, EraseRowTypes, SweepTypes, AskTypes, TakeTypes,
   SaveSendTypes, LoadServicesTypes, ReconcileTypes DEF Cycle
-------------------------------------------------------------------------------
(* What the handlers do to requests, tables and memory. *)
LEMMA NoRequestIs ==
  /\ IsRequest(NoRequest) /\ NoRequest.stage = "none" /\ NoRequest.op = "none"
BY DEF IsRequest, NoRequest, Stages

LEMMA ToSyncIs ==
  ASSUME NEW r, r.op \in {"hosts", "services"}
  PROVE  IsRequest(ToSync(r)) /\ ToSync(r).op = r.op /\ ToSync(r).stage = "sync"
<1>1. PICK d : d = ToSync(r) OBVIOUS
<1>2. d = [NoRequest EXCEPT !.op = r.op, !.stage = "sync"] BY <1>1 DEF ToSync
<1>3. IsRequest(d) /\ d.op = r.op /\ d.stage = "sync" BY <1>2 DEF IsRequest, NoRequest, Stages
<1> QED BY <1>1, <1>3

(* One request moves, to r. *)
Moves(c, r) == request' = [request EXCEPT ![c] = r] /\ IsRequest(r)

LEMMA MovesFacts ==
  ASSUME TableTypes, NEW c \in Handlers, NEW r, Moves(c, r)
  PROVE  /\ DOMAIN request' = Handlers /\ request'[c] = r /\ \A d \in Handlers \ {c} : request'[d] = request[d]
         /\ \A d \in Handlers : IsRequest(request'[d])
BY DEF TableTypes, Moves

Shrinks == DOMAIN states' \subseteq DOMAIN states /\ DOMAIN saved' \subseteq DOMAIN saved

LEMMA HandlerCycleTypes ==
  ASSUME CycleTypes, step' = step, cycle' = cycle, Shrinks PROVE CycleTypes'
<1>1. Place' = Place BY DEF Place
<1> QED BY <1>1 DEF CycleTypes, Shrinks

Beginning(c) == request[c] = NoRequest /\ asked' = asked + 1 /\ calm' = FALSE /\ accidents' = accidents

LEMMA SaveHostFacts ==
  ASSUME RegTypes, NEW c \in Handlers, NEW h \in Hosts, NEW body \in HostBodies, SaveHost(c, h, body)
  PROVE  /\ Beginning(c) /\ hosts' = [hosts EXCEPT ![h] = body] /\ UNCHANGED <<step, cycle>>
         /\ UNCHANGED <<services, settings, stateVars, files, lock, drift>>
         /\ \E r : Moves(c, r) /\ r.op = "hosts" /\ r.stage \in {"refresh", "sync"}
<1> DEFINE r == [NoRequest EXCEPT !.op = "hosts", !.of = h, !.had = hosts[h].gpu,
                      !.stage = IF IsRow(hosts[h]) THEN "refresh" ELSE "sync"]
<1>1. PICK d : d = r OBVIOUS
<1>2. IsRequest(d) /\ d.op = "hosts" /\ d.stage \in {"refresh", "sync"}
  <2>1. PICK had : had = hosts[h].gpu OBVIOUS
  <2>2. PICK stage \in {"refresh", "sync"} :
          d = [NoRequest EXCEPT !.op = "hosts", !.of = h, !.had = had, !.stage = stage]
    BY <1>1, <2>1
  <2> QED BY <2>2 DEF IsRequest, NoRequest, Stages
<1>3. Moves(c, d) BY <1>1, <1>2 DEF SaveHost, Moves
<1> QED BY <1>2, <1>3 DEF SaveHost, Begins, Beginning, Disturbed, cycleVars

LEMMA SaveServiceFacts ==
  ASSUME RegTypes, NEW c \in Handlers, NEW i \in Slots, NEW n \in ServiceNames, NEW on \in BOOLEAN,
         SaveService(c, i, n, on)
  PROVE  /\ Beginning(c) /\ services' = [services EXCEPT ![i] = ServiceRow(n, on)] /\ UNCHANGED <<step, cycle>>
         /\ UNCHANGED <<hosts, settings, stateVars, files, lock, drift>>
         /\ \E r : Moves(c, r) /\ r.op = "services" /\ r.stage \in {"refresh", "sync"}
<1> DEFINE r == [NoRequest EXCEPT !.op = "services", !.of = i,
                      !.stage = IF IsRow(services[i]) THEN "refresh" ELSE "sync",
                      !.was = IF IsRow(services[i]) THEN services[i].name ELSE n]
<1>1. PICK d : d = r OBVIOUS
<1>2. IsRequest(d) /\ d.op = "services" /\ d.stage \in {"refresh", "sync"}
  <2>1. IsRow(services[i]) => services[i].name \in ServiceNames
    <3>1. services[i] \in ServiceRows BY DEF RegTypes, TableTypes
    <3>2. CASE services[i] = Absent BY <3>2 DEF IsRow, Absent
    <3>3. CASE services[i] # Absent
      <4>1. PICK m \in ServiceNames, v \in BOOLEAN : services[i] = ServiceRow(m, v) BY <3>1, <3>3 DEF ServiceRows
      <4> QED BY <4>1 DEF ServiceRow, Absent
    <3> QED BY <3>2, <3>3
  <2>2. PICK stage \in {"refresh", "sync"}, was \in ServiceNames :
          d = [NoRequest EXCEPT !.op = "services", !.of = i, !.stage = stage, !.was = was]
    BY <1>1, <2>1
  <2> QED BY <2>2 DEF IsRequest, NoRequest, Stages
<1>3. Moves(c, d) BY <1>1, <1>2 DEF SaveService, Moves
<1> QED BY <1>2, <1>3 DEF SaveService, Begins, Beginning, Disturbed, cycleVars

Drops(c, r, keys) ==
  /\ r.keys = DOMAIN saved \cap keys
  /\ DOMAIN states' = IF c \in Near THEN DOMAIN states \ keys ELSE DOMAIN states

(* Clearing takes keys from memory, and remembers the rows to delete. *)
LEMMA ClearFacts ==
  ASSUME NEW c \in Handlers, NEW new, IsRequest(new), new.stage # "none", NEW keys, Clear(c, new, keys)
  PROVE  \E r : /\ Moves(c, r) /\ r.op = new.op /\ r.stage = new.stage /\ r.of = new.of /\ r.was = new.was
                /\ Drops(c, r, keys)
<1>1. PICK lost : lost = DOMAIN saved \cap keys OBVIOUS
<1>2. PICK r : r = [new EXCEPT !.keys = lost] OBVIOUS
<1>3. IsRequest(r) /\ r.op = new.op /\ r.stage = new.stage /\ r.of = new.of /\ r.was = new.was /\ r.keys = lost
  BY <1>2 DEF IsRequest
<1>4. Moves(c, r) BY <1>1, <1>2, <1>3 DEF Clear, Moves
<1>5. DOMAIN states' = IF c \in Near THEN DOMAIN states \ keys ELSE DOMAIN states
  BY Restricted DEF Clear
<1> QED BY <1>1, <1>3, <1>4, <1>5 DEF Drops

HandlerRest == <<step, cycle, saved, strays, files, lock, drift>>

LEMMA RefreshHostFacts ==
  ASSUME RegTypes, NEW c \in Handlers, RefreshHost(c)
  PROVE  /\ request[c].op = "hosts" /\ request[c].stage = "refresh" /\ request[c].of \in Hosts
         /\ UNCHANGED <<tables, HandlerRest, asked, accidents>> /\ calm' = FALSE
         /\ \E r : /\ Moves(c, r) /\ r.op = "hosts"
                  /\ \/ r.stage = "sync" /\ states' = states
                     \/ r.stage = "forget" /\ Drops(c, r, Cleared(request[c].of, request[c].had))
<1>1. /\ request[c].op = "hosts" /\ request[c].stage = "refresh" /\ IsRequest(request[c])
      /\ UNCHANGED <<tables, HandlerRest, asked, accidents>> /\ calm' = FALSE
  BY DEF RefreshHost, Disturbed, cycleVars, HandlerRest, RegTypes, TableTypes
<1>2. request[c].of \in Hosts BY <1>1 DEF IsRequest
<1> DEFINE keys == Cleared(request[c].of, request[c].had)
<1>3. CASE Syncs(c) /\ UNCHANGED states
  <2>1. IsRequest(ToSync(request[c])) /\ ToSync(request[c]).op = "hosts" /\ ToSync(request[c]).stage = "sync"
    BY <1>1, ToSyncIs
  <2>2. Moves(c, ToSync(request[c])) BY <1>3, <2>1 DEF Syncs, Moves
  <2> QED BY <1>1, <1>2, <1>3, <2>1, <2>2
<1>4. CASE Clear(c, [request[c] EXCEPT !.stage = "forget"], keys)
  <2>1. PICK new : new = [request[c] EXCEPT !.stage = "forget"] OBVIOUS
  <2>2. IsRequest(new) /\ new.stage = "forget" /\ new.op = "hosts" BY <1>1, <2>1 DEF IsRequest, Stages
  <2>3. Clear(c, new, keys) BY <1>4, <2>1
  <2>4. PICK r : /\ Moves(c, r) /\ r.op = new.op /\ r.stage = new.stage /\ Drops(c, r, keys)
    <3> HIDE DEF keys
    <3> QED BY <2>2, <2>3, ClearFacts
  <2> QED BY <1>1, <1>2, <2>2, <2>4
<1> QED BY <1>3, <1>4 DEF RefreshHost

LEMMA RefreshServiceFacts ==
  ASSUME RegTypes, NEW c \in Handlers, RefreshService(c)
  PROVE  /\ request[c].op = "services" /\ request[c].stage = "refresh" /\ request[c].of \in Slots
         /\ UNCHANGED <<tables, HandlerRest, asked, accidents>> /\ calm' = FALSE
         /\ \E r : /\ Moves(c, r) /\ r.op = "services"
                  /\ \/ r.stage = "sync" /\ states' = states
                     \/ /\ r.stage = "forget" /\ Drops(c, r, {<<ServiceType, request[c].was>>})
                        /\ r.was = request[c].was
<1>1. /\ request[c].op = "services" /\ request[c].stage = "refresh" /\ IsRequest(request[c])
      /\ UNCHANGED <<tables, HandlerRest, asked, accidents>> /\ calm' = FALSE
  BY DEF RefreshService, Disturbed, cycleVars, HandlerRest, RegTypes, TableTypes
<1>2. request[c].of \in Slots BY <1>1 DEF IsRequest
<1> DEFINE keys == {<<ServiceType, request[c].was>>}
<1>3. CASE Syncs(c) /\ UNCHANGED states
  <2>1. IsRequest(ToSync(request[c])) /\ ToSync(request[c]).op = "services" /\ ToSync(request[c]).stage = "sync"
    BY <1>1, ToSyncIs
  <2>2. Moves(c, ToSync(request[c])) BY <1>3, <2>1 DEF Syncs, Moves
  <2> QED BY <1>1, <1>2, <1>3, <2>1, <2>2
<1>4. CASE Clear(c, [request[c] EXCEPT !.stage = "forget"], keys)
  <2>1. PICK new : new = [request[c] EXCEPT !.stage = "forget"] OBVIOUS
  <2>2. IsRequest(new) /\ new.stage = "forget" /\ new.op = "services" /\ new.was = request[c].was
    BY <1>1, <2>1 DEF IsRequest, Stages
  <2>3. Clear(c, new, keys) BY <1>4, <2>1
  <2>4. PICK r : /\ Moves(c, r) /\ r.op = new.op /\ r.stage = new.stage /\ Drops(c, r, keys) /\ r.was = new.was
    <3> HIDE DEF keys
    <3> QED BY <2>2, <2>3, ClearFacts
  <2> QED BY <1>1, <1>2, <2>2, <2>4
<1> QED BY <1>3, <1>4 DEF RefreshService

LEMMA DeleteFacts ==
  ASSUME RegTypes, NEW c \in Handlers,
         (\E h \in Hosts : DeleteHost(c, h)) \/ (\E i \in Slots : DeleteService(c, i))
  PROVE  /\ Beginning(c) /\ UNCHANGED <<tables, HandlerRest>>
         /\ \E r : /\ Moves(c, r) /\ r.op \in {"hosts", "services"} /\ r.stage = "remove"
                  /\ \E keys : Drops(c, r, keys)
<1>1. CASE \E h \in Hosts : DeleteHost(c, h)
  <2>1. PICK h \in Hosts : DeleteHost(c, h) BY <1>1
  <2>2. Beginning(c) /\ UNCHANGED <<tables, HandlerRest>>
    BY <2>1 DEF DeleteHost, Begins, Beginning, Disturbed, HandlerRest, cycleVars
  <2>3. PICK new : new = [NoRequest EXCEPT !.op = "hosts", !.of = h, !.stage = "remove"] OBVIOUS
  <2>4. IsRequest(new) /\ new.op = "hosts" /\ new.stage = "remove" BY <2>3 DEF IsRequest, NoRequest, Stages
  <2>5. Clear(c, new, KeysOf(h)) BY <2>1, <2>3 DEF DeleteHost
  <2>6. PICK r : Moves(c, r) /\ r.op = new.op /\ r.stage = new.stage /\ Drops(c, r, KeysOf(h))
    BY <2>4, <2>5, ClearFacts
  <2> QED BY <2>2, <2>4, <2>6
<1>2. CASE \E i \in Slots : DeleteService(c, i)
  <2>1. PICK i \in Slots : DeleteService(c, i) BY <1>2
  <2>2. Beginning(c) /\ UNCHANGED <<tables, HandlerRest>>
    BY <2>1 DEF DeleteService, Begins, Beginning, Disturbed, HandlerRest, cycleVars
  <2>3. PICK new : new = [NoRequest EXCEPT !.op = "services", !.of = i, !.stage = "remove"] OBVIOUS
  <2>4. IsRequest(new) /\ new.op = "services" /\ new.stage = "remove" BY <2>3 DEF IsRequest, NoRequest, Stages
  <2> DEFINE keys == {<<ServiceType, services[i].name>>}
  <2>5. Clear(c, new, keys) BY <2>1, <2>3 DEF DeleteService
  <2> HIDE DEF keys
  <2>6. PICK r : Moves(c, r) /\ r.op = new.op /\ r.stage = new.stage /\ Drops(c, r, keys)
    BY <2>4, <2>5, ClearFacts
  <2> QED BY <2>2, <2>4, <2>6
<1> QED BY <1>1, <1>2

LEMMA ForgetFacts ==
  ASSUME RegTypes, NEW c \in Handlers, ForgetStates(c)
  PROVE  /\ request[c].stage = "forget" /\ UNCHANGED <<tables, states, files, lock, step, cycle, asked>> /\ calm' = FALSE
         /\ \E r : /\ Moves(c, r)
                  /\ \/ /\ r.stage = "sync" /\ r.op = request[c].op
                        /\ DOMAIN saved' = DOMAIN saved \ request[c].keys /\ UNCHANGED <<strays, drift, accidents>>
                     \/ /\ r.stage = "none" /\ saved' = saved /\ strays' = strays \cup request[c].keys
                        /\ drift' = drift \cup DOMAIN files /\ accidents' = accidents + 1
<1>1. /\ request[c].stage = "forget" /\ UNCHANGED <<tables, states, files, lock, step, cycle, asked>> /\ calm' = FALSE
      /\ IsRequest(request[c])
  BY DEF ForgetStates, Disturbed, cycleVars, RegTypes, TableTypes
<1>2. CASE saved' = Without(saved, request[c].keys) /\ Syncs(c) /\ UNCHANGED <<strays, drift, accidents>>
  <2>1. request[c].op \in {"hosts", "services"} BY <1>1 DEF IsRequest
  <2>2. IsRequest(ToSync(request[c])) /\ ToSync(request[c]).op = request[c].op /\ ToSync(request[c]).stage = "sync"
    BY <2>1, ToSyncIs
  <2>3. Moves(c, ToSync(request[c])) BY <1>2, <2>2 DEF Syncs, Moves
  <2>4. DOMAIN saved' = DOMAIN saved \ request[c].keys BY <1>2, Restricted
  <2> QED BY <1>1, <1>2, <2>2, <2>3, <2>4
<1>3. CASE Accident /\ Done(c) /\ UNCHANGED saved
           /\ strays' = strays \cup request[c].keys /\ drift' = drift \cup DOMAIN files
  <2>1. Moves(c, NoRequest) BY <1>3, NoRequestIs DEF Done, Moves
  <2> QED BY <1>1, <1>3, <2>1, NoRequestIs DEF Accident
<1> QED BY <1>2, <1>3 DEF ForgetStates

(* What the removal of a row makes of the other requests. *)
Overtaken(c, d) ==
  \/ request'[d] = request[d]
  \/ /\ request[d].stage = "refresh" /\ request[d].op = request[c].op /\ request'[d] = NoRequest
  \/ /\ request[d].stage = "remove" /\ request'[d].stage = "lost" /\ request'[d].op = request[d].op
     /\ request'[d].keys = request[d].keys

Removed(c) ==
  /\ request[c].stage = "remove"
  /\ DOMAIN request' = Handlers /\ \A d \in Handlers : IsRequest(request'[d])
  /\ request'[c].stage = "sync" /\ request'[c].op = request[c].op
  /\ \A d \in Handlers \ {c} : Overtaken(c, d)
  /\ \/ /\ request[c].op = "hosts" /\ request[c].of \in Hosts
        /\ hosts' = [hosts EXCEPT ![request[c].of] = Absent] /\ UNCHANGED services
     \/ /\ request[c].op = "services" /\ request[c].of \in Slots
        /\ services' = [services EXCEPT ![request[c].of] = Absent] /\ UNCHANGED hosts
  /\ DOMAIN saved' = DOMAIN saved \ request[c].keys /\ UNCHANGED <<strays, accidents>>

NotRemoved(c) ==
  /\ Moves(c, NoRequest) /\ strays' = strays \cup (request[c].keys \cap DOMAIN saved)
  /\ UNCHANGED <<hosts, services, saved>>

LEMMA RemoveRowFacts ==
  ASSUME RegTypes, NEW c \in Handlers, RemoveRow(c)
  PROVE  /\ request[c].stage \in {"remove", "lost"} /\ calm' = FALSE
         /\ UNCHANGED <<settings, states, files, lock, step, cycle, drift, asked>>
         /\ accidents' \in {accidents, accidents + 1}
         /\ Removed(c) \/ NotRemoved(c)
<1> DEFINE op == request[c].op
           of == request[c].of
           late(d, stage) == request[d].op = op /\ request[d].of = of /\ request[d].stage = stage
<1>1. /\ request[c].stage \in {"remove", "lost"} /\ calm' = FALSE
      /\ UNCHANGED <<settings, states, files, lock, step, cycle, drift, asked>>
  BY DEF RemoveRow, Disturbed, cycleVars
<1>2. /\ \A d \in Handlers : IsRequest(request[d])
      /\ \/ op = "hosts" /\ of \in Hosts
         \/ op = "services" /\ of \in Slots
  BY <1>1 DEF RegTypes, TableTypes, IsRequest
<1>3. CASE /\ request[c].stage = "remove"
           /\ IF op = "hosts" THEN hosts' = [hosts EXCEPT ![of] = Absent] /\ UNCHANGED services
                              ELSE services' = [services EXCEPT ![of] = Absent] /\ UNCHANGED hosts
           /\ saved' = Without(saved, request[c].keys)
           /\ request' = [d \in Handlers |->
                CASE d = c             -> ToSync(request[d])
                  [] late(d, "refresh") -> NoRequest
                  [] d # c /\ late(d, "remove") -> [request[d] EXCEPT !.stage = "lost"]
                  [] OTHER             -> request[d]]
           /\ UNCHANGED <<strays, accidents>>
  <2>1. DOMAIN saved' = DOMAIN saved \ request[c].keys BY <1>3, Restricted
  <2>2. IsRequest(ToSync(request[c])) /\ ToSync(request[c]).op = op /\ ToSync(request[c]).stage = "sync"
    BY <1>2, ToSyncIs
  <2>3. request'[c] = ToSync(request[c]) BY <1>3
  <2>4. ASSUME NEW d \in Handlers \ {c}
        PROVE  IsRequest(request'[d]) /\ Overtaken(c, d)
    <3>1. CASE late(d, "refresh") BY <1>3, <2>4, <3>1, NoRequestIs DEF Overtaken
    <3>2. CASE late(d, "remove")
      <4>1. request'[d] = [request[d] EXCEPT !.stage = "lost"] BY <1>3, <2>4, <3>2
      <4>2. IsRequest(request[d]) BY <1>2, <2>4
      <4>3. IsRequest(request'[d]) /\ request'[d].stage = "lost" /\ request'[d].op = request[d].op
            /\ request'[d].keys = request[d].keys
        BY <3>2, <4>1, <4>2 DEF IsRequest, Stages
      <4> QED BY <3>2, <4>3 DEF Overtaken
    <3>3. CASE ~late(d, "refresh") /\ ~late(d, "remove") BY <1>2, <1>3, <2>4, <3>3 DEF Overtaken
    <3> QED BY <3>1, <3>2, <3>3
  <2>5. \A d \in Handlers : IsRequest(request'[d]) BY <2>2, <2>3, <2>4
  <2>6. /\ DOMAIN request' = Handlers /\ request'[c].stage = "sync" /\ request'[c].op = op
    BY <1>3, <2>2, <2>3
  <2>7. Removed(c)
    <3>1. \/ /\ request[c].op = "hosts" /\ request[c].of \in Hosts
             /\ hosts' = [hosts EXCEPT ![request[c].of] = Absent] /\ UNCHANGED services
          \/ /\ request[c].op = "services" /\ request[c].of \in Slots
             /\ services' = [services EXCEPT ![request[c].of] = Absent] /\ UNCHANGED hosts
      BY <1>2, <1>3
    <3> QED BY <1>3, <2>1, <2>4, <2>5, <2>6, <3>1 DEF Removed
  <2> QED BY <1>1, <1>3, <2>7
<1>4. CASE /\ (request[c].stage = "lost" /\ UNCHANGED accidents) \/ Accident
           /\ Done(c) /\ strays' = strays \cup (request[c].keys \cap DOMAIN saved)
           /\ UNCHANGED <<hosts, services, saved>>
  <2>1. Moves(c, NoRequest) BY <1>4, NoRequestIs DEF Done, Moves
  <2> QED BY <1>1, <1>4, <2>1 DEF Accident, NotRemoved
<1> QED BY <1>3, <1>4 DEF RemoveRow

LEMMA SyncFacts ==
  ASSUME RegTypes, NEW c \in Handlers, SyncTargets(c)
  PROVE  /\ UNCHANGED <<tables, stateVars, step, cycle, asked>> /\ calm' = FALSE
         /\ request[c].op \in {"hosts", "services"} /\ request[c].stage \in {"sync", "write"}
         /\ \E r : /\ Moves(c, r)
                  /\ \/ /\ request[c].stage = "sync" /\ r.stage = "write" /\ r.op = request[c].op
                        /\ r.content = Snapshot(request[c].op)
                        /\ Acquire(Color(c), c, Snapshot(request[c].op))
                     \/ /\ request[c].stage = "sync" /\ r = NoRequest /\ UNCHANGED <<files, lock>>
                        /\ drift' = drift \cup DOMAIN Snapshot(request[c].op) /\ accidents' = accidents + 1
                     \/ /\ request[c].stage = "write" /\ r = NoRequest
                        /\ Write(Color(c), request[c].content, FALSE)
<1>1. UNCHANGED <<tables, stateVars, step, cycle, asked>> /\ calm' = FALSE
  BY DEF SyncTargets, Disturbed, cycleVars
<1>2. request[c].stage \in {"sync", "write"} /\ IsRequest(request[c])
  BY DEF SyncTargets, StartSync, FailSync, RegTypes, TableTypes
<1>3. request[c].op \in {"hosts", "services"} BY <1>2 DEF IsRequest
<1>4. CASE StartSync(c)
  <2>1. PICK content : content = Snapshot(request[c].op) OBVIOUS
  <2>2. /\ request[c].stage = "sync" /\ Acquire(Color(c), c, content)
        /\ request' = [request EXCEPT ![c].stage = "write", ![c].content = content]
    BY <1>4, <2>1 DEF StartSync
  <2>3. PICK r : r = [request[c] EXCEPT !.stage = "write", !.content = content] OBVIOUS
  <2>4. IsRequest(r) /\ r.stage = "write" /\ r.op = request[c].op /\ r.content = content
    BY <1>2, <1>3, <2>3 DEF IsRequest, Stages
  <2>5. request' = [request EXCEPT ![c] = r] BY <2>2, <2>3
  <2> QED BY <1>1, <1>3, <2>1, <2>2, <2>4, <2>5 DEF Moves
<1>5. CASE FailSync(c)
  <2>1. Moves(c, NoRequest) BY <1>5, NoRequestIs DEF FailSync, Done, Moves
  <2> QED BY <1>1, <1>3, <1>5, <2>1 DEF FailSync, Accident
<1>6. CASE request[c].stage = "write" /\ Write(Color(c), request[c].content, FALSE) /\ Done(c)
  <2>1. Moves(c, NoRequest) BY <1>6, NoRequestIs DEF Done, Moves
  <2> QED BY <1>1, <1>3, <1>6, <2>1
<1> QED BY <1>4, <1>5, <1>6 DEF SyncTargets

LEMMA RestartFacts ==
  ASSUME RegTypes, RestartColor
  PROVE  /\ UNCHANGED <<tables, asked>> /\ accidents' = accidents + 1 /\ calm' = FALSE /\ strays' = {}
         /\ DOMAIN saved' \subseteq DOMAIN saved /\ states' = saved' /\ step' = "idle" /\ cycle' = NoCycle
         /\ lock' = [lock EXCEPT !.here = "free"] /\ files' = Rendered
         /\ drift' = IF Beside("here") THEN DOMAIN files ELSE {}
         /\ DOMAIN request' = Handlers /\ \A d \in Handlers : IsRequest(request'[d])
         /\ \A d \in Handlers : request'[d] = IF d \in Near THEN NoRequest ELSE request[d]
<1>1. DOMAIN saved' \subseteq DOMAIN saved
  <2>1. PICK S : S = {k \in DOMAIN saved : Registered(k)} OBVIOUS
  <2>2. saved' = Restrict(saved, S) BY <2>1 DEF RestartColor
  <2> QED BY <2>1, <2>2, Restricted
<1>2. \A d \in Handlers : request'[d] = IF d \in Near THEN NoRequest ELSE request[d] BY DEF RestartColor
<1>3. \A d \in Handlers : IsRequest(request'[d]) BY <1>2, NoRequestIs DEF RegTypes, TableTypes
<1> QED BY <1>1, <1>2, <1>3 DEF RestartColor, Accident, Disturbed
-------------------------------------------------------------------------------
(* Types. *)
LEMMA CycleFrame ==
  ASSUME Cycle
  PROVE  /\ UNCHANGED <<tables, request, asked>>
         /\ accidents' \in {accidents, accidents + 1}
         /\ UNCHANGED <<files, lock, drift>> \/ Reconcile
<1>1. CASE LoadHosts BY <1>1 DEF LoadHosts, Accident, tables
<1>2. CASE RetireSignal \/ DropRetired \/ SweepUnmonitored \/ AskPrometheus \/ TakeSignal
  BY <1>2 DEF RetireSignal, DropRetired, SweepUnmonitored, AskPrometheus, TakeSignal, registryRest, tables
<1>3. CASE EraseRow BY <1>3 DEF EraseRow, registryRest, tables, Accident
<1>4. CASE SaveEntry BY <1>4 DEF SaveEntry, registryRest, tables, Accident
<1>5. CASE SendMessage BY <1>5 DEF SendMessage, registryRest, tables, Accident
<1>6. CASE LoadServices BY <1>6 DEF LoadServices, tables, Accident
<1>7. CASE Reconcile
  <2>1. UNCHANGED <<tables, request, asked>> BY <1>7 DEF Reconcile
  <2>2. accidents' \in {accidents, accidents + 1}
    BY <1>7 DEF Reconcile, Acquire, Write, Accident
  <2> QED BY <1>7, <2>1, <2>2
<1> QED BY <1>1, <1>2, <1>3, <1>4, <1>5, <1>6, <1>7 DEF Cycle

LEMMA LockDomain ==
  ASSUME DOMAIN lock = {"here", "there"}, NEW color, NEW who, NEW content, NEW current,
         Acquire(color, who, content) \/ Write(color, content, current)
  PROVE  DOMAIN lock' = {"here", "there"} /\ accidents' \in {accidents, accidents + 1}
BY DEF Acquire, TakeLock, Write, Accident

LEMMA CycleTables ==
  ASSUME RegTypes, Cycle PROVE TableTypes'
<1>1. /\ UNCHANGED <<tables, request, asked>>
      /\ accidents' \in {accidents, accidents + 1}
      /\ UNCHANGED <<files, lock, drift>> \/ Reconcile
  BY CycleFrame
<1>2. DOMAIN lock' = {"here", "there"}
  <2>1. CASE UNCHANGED lock BY <2>1 DEF RegTypes, TableTypes
  <2>2. CASE Reconcile
    <3>1. DOMAIN lock = {"here", "there"} BY DEF RegTypes, TableTypes
    <3>2. CASE Acquire("here", "cycle", Snapshot(cycle.part)) BY <3>1, <3>2, LockDomain
    <3>3. CASE Write("here", cycle.content, calm) BY <3>1, <3>3, LockDomain
    <3> QED BY <2>1, <2>2, <3>2, <3>3, ReconcileFacts
  <2> QED BY <1>1, <2>1, <2>2
<1> QED BY <1>1, <1>2 DEF RegTypes, TableTypes, tables

LEMMA MovesTables ==
  ASSUME TableTypes, NEW c \in Handlers, NEW r, Moves(c, r), DOMAIN lock' = {"here", "there"},
         hosts' \in [Hosts -> HostRows], services' \in [Slots -> ServiceRows], settings' = settings,
         asked' \in {asked, asked + 1}, accidents' \in {accidents, accidents + 1}
  PROVE  TableTypes'
<1>1. DOMAIN request' = Handlers /\ \A d \in Handlers : IsRequest(request'[d]) BY MovesFacts
<1> QED BY <1>1 DEF TableTypes

Asks == HostRequest \/ ServiceRequest \/ ChangeSettings \/ Advance

(* The actions of the handlers, one by one. *)
LEMMA AskCases ==
  ASSUME Asks
  PROVE  \/ ChangeSettings
         \/ \E c \in Handlers :
              \/ \E h \in Hosts, b \in HostBodies : SaveHost(c, h, b)
              \/ \E i \in Slots, n \in ServiceNames, on \in BOOLEAN : SaveService(c, i, n, on)
              \/ RefreshHost(c) \/ RefreshService(c)
              \/ (\E h \in Hosts : DeleteHost(c, h)) \/ (\E i \in Slots : DeleteService(c, i))
              \/ ForgetStates(c) \/ RemoveRow(c) \/ SyncTargets(c)
BY DEF Asks, HostRequest, ServiceRequest, Advance

LEMMA AskTables ==
  ASSUME RegTypes, Asks PROVE TableTypes'
<1>0. TableTypes /\ DOMAIN lock = {"here", "there"} BY DEF RegTypes, TableTypes
<1>1. CASE ChangeSettings
  BY <1>1 DEF ChangeSettings, RegTypes, TableTypes
<1>2. ASSUME NEW c \in Handlers, NEW h \in Hosts, NEW b \in HostBodies, SaveHost(c, h, b) PROVE TableTypes'
  <2>1. PICK r : Moves(c, r) BY <1>2, SaveHostFacts
  <2>0. /\ Beginning(c) /\ hosts' = [hosts EXCEPT ![h] = b]
        /\ UNCHANGED <<services, settings, stateVars, files, lock, drift>>
    BY <1>2, SaveHostFacts
  <2>2. /\ hosts' = [hosts EXCEPT ![h] = b] /\ UNCHANGED <<services, settings, lock>>
        /\ asked' = asked + 1 /\ accidents' = accidents
    BY <2>0 DEF Beginning
  <2>3. hosts' \in [Hosts -> HostRows] BY <2>2, <1>0 DEF TableTypes, HostRows
  <2> QED BY <1>0, <2>1, <2>2, <2>3, MovesTables DEF TableTypes
<1>3. ASSUME NEW c \in Handlers, NEW i \in Slots, NEW n \in ServiceNames, NEW on \in BOOLEAN, SaveService(c, i, n, on)
      PROVE  TableTypes'
  <2>1. PICK r : Moves(c, r) BY <1>3, SaveServiceFacts
  <2>0. /\ Beginning(c) /\ services' = [services EXCEPT ![i] = ServiceRow(n, on)]
        /\ UNCHANGED <<hosts, settings, stateVars, files, lock, drift>>
    BY <1>3, SaveServiceFacts
  <2>2. /\ services' = [services EXCEPT ![i] = ServiceRow(n, on)] /\ UNCHANGED <<hosts, settings, lock>>
        /\ asked' = asked + 1 /\ accidents' = accidents
    BY <2>0 DEF Beginning
  <2>3. services' \in [Slots -> ServiceRows]
    <3>1. ServiceRow(n, on) \in ServiceRows BY DEF ServiceRows
    <3> QED BY <2>2, <3>1, <1>0 DEF TableTypes
  <2> QED BY <1>0, <2>1, <2>2, <2>3, MovesTables DEF TableTypes
<1>4. ASSUME NEW c \in Handlers, RefreshHost(c) PROVE TableTypes'
  <2>1. PICK r : Moves(c, r) BY <1>4, RefreshHostFacts
  <2>2. UNCHANGED <<hosts, services, settings, lock, asked, accidents>>
    BY <1>4, RefreshHostFacts DEF tables, HandlerRest
  <2> QED BY <1>0, <2>1, <2>2, MovesTables DEF TableTypes
<1>5. ASSUME NEW c \in Handlers, RefreshService(c) PROVE TableTypes'
  <2>1. PICK r : Moves(c, r) BY <1>5, RefreshServiceFacts
  <2>2. UNCHANGED <<hosts, services, settings, lock, asked, accidents>>
    BY <1>5, RefreshServiceFacts DEF tables, HandlerRest
  <2> QED BY <1>0, <2>1, <2>2, MovesTables DEF TableTypes
<1>6. ASSUME NEW c \in Handlers, (\E h \in Hosts : DeleteHost(c, h)) \/ (\E i \in Slots : DeleteService(c, i))
      PROVE  TableTypes'
  <2>1. PICK r : Moves(c, r) BY <1>6, DeleteFacts
  <2>2. UNCHANGED <<hosts, services, settings, lock, accidents>> /\ asked' = asked + 1
    BY <1>6, DeleteFacts DEF tables, HandlerRest, Beginning
  <2> QED BY <1>0, <2>1, <2>2, MovesTables DEF TableTypes
<1>7. ASSUME NEW c \in Handlers, ForgetStates(c) PROVE TableTypes'
  <2>1. PICK r : Moves(c, r) /\ accidents' \in {accidents, accidents + 1} BY <1>7, ForgetFacts
  <2>2. UNCHANGED <<hosts, services, settings, lock, asked>>
    BY <1>7, ForgetFacts DEF tables, HandlerRest
  <2> QED BY <1>0, <2>1, <2>2, MovesTables DEF TableTypes
<1>8. ASSUME NEW c \in Handlers, RemoveRow(c) PROVE TableTypes'
  <2>1. UNCHANGED <<settings, lock, asked>> /\ accidents' \in {accidents, accidents + 1} BY <1>8, RemoveRowFacts
  <2>2. CASE NotRemoved(c)
    BY <1>0, <2>1, <2>2, MovesTables DEF TableTypes, NotRemoved
  <2>3. CASE Removed(c)
    <3>1. hosts' \in [Hosts -> HostRows] /\ services' \in [Slots -> ServiceRows]
      BY <1>0, <2>3 DEF Removed, TableTypes, HostRows, ServiceRows
    <3> QED BY <1>0, <2>1, <2>3, <3>1 DEF TableTypes, Removed
  <2> QED BY <1>8, <2>2, <2>3, RemoveRowFacts
<1>9. ASSUME NEW c \in Handlers, SyncTargets(c) PROVE TableTypes'
  <2>1. PICK r : /\ Moves(c, r)
                 /\ \/ Acquire(Color(c), c, Snapshot(request[c].op))
                    \/ UNCHANGED <<files, lock>> /\ accidents' = accidents + 1
                    \/ Write(Color(c), request[c].content, FALSE)
    BY <1>9, SyncFacts
  <2>2. UNCHANGED <<hosts, services, settings, asked>> BY <1>9, SyncFacts DEF tables
  <2>3. DOMAIN lock' = {"here", "there"} /\ accidents' \in {accidents, accidents + 1}
    BY <1>0, <2>1, LockDomain
  <2> QED BY <1>0, <2>1, <2>2, <2>3, MovesTables DEF TableTypes
<1> QED BY <1>1, <1>2, <1>3, <1>4, <1>5, <1>6, <1>7, <1>8, <1>9, AskCases

LEMMA AskShrinks ==
  ASSUME RegTypes, Asks
  PROVE  UNCHANGED <<step, cycle>> /\ Shrinks /\ calm' = FALSE
<1>1. CASE ChangeSettings BY <1>1 DEF ChangeSettings, Disturbed, cycleVars, stateVars, Shrinks
<1>2. ASSUME NEW c \in Handlers, NEW h \in Hosts, NEW b \in HostBodies, SaveHost(c, h, b)
      PROVE  UNCHANGED <<step, cycle>> /\ Shrinks /\ calm' = FALSE
  BY <1>2, SaveHostFacts DEF Beginning, stateVars, Shrinks
<1>3. ASSUME NEW c \in Handlers, NEW i \in Slots, NEW n \in ServiceNames, NEW on \in BOOLEAN, SaveService(c, i, n, on)
      PROVE  UNCHANGED <<step, cycle>> /\ Shrinks /\ calm' = FALSE
  BY <1>3, SaveServiceFacts DEF Beginning, stateVars, Shrinks
<1>4. ASSUME NEW c \in Handlers, RefreshHost(c) PROVE UNCHANGED <<step, cycle>> /\ Shrinks /\ calm' = FALSE
  BY <1>4, RefreshHostFacts DEF HandlerRest, Drops, Shrinks
<1>5. ASSUME NEW c \in Handlers, RefreshService(c) PROVE UNCHANGED <<step, cycle>> /\ Shrinks /\ calm' = FALSE
  BY <1>5, RefreshServiceFacts DEF HandlerRest, Drops, Shrinks
<1>6. ASSUME NEW c \in Handlers, (\E h \in Hosts : DeleteHost(c, h)) \/ (\E i \in Slots : DeleteService(c, i))
      PROVE  UNCHANGED <<step, cycle>> /\ Shrinks /\ calm' = FALSE
  BY <1>6, DeleteFacts DEF HandlerRest, Drops, Shrinks, Beginning
<1>7. ASSUME NEW c \in Handlers, ForgetStates(c) PROVE UNCHANGED <<step, cycle>> /\ Shrinks /\ calm' = FALSE
  BY <1>7, ForgetFacts DEF Shrinks
<1>8. ASSUME NEW c \in Handlers, RemoveRow(c) PROVE UNCHANGED <<step, cycle>> /\ Shrinks /\ calm' = FALSE
  BY <1>8, RemoveRowFacts DEF Shrinks, Removed, NotRemoved
<1>9. ASSUME NEW c \in Handlers, SyncTargets(c) PROVE UNCHANGED <<step, cycle>> /\ Shrinks /\ calm' = FALSE
  BY <1>9, SyncFacts DEF stateVars, Shrinks
<1> QED BY <1>1, <1>2, <1>3, <1>4, <1>5, <1>6, <1>7, <1>8, <1>9, AskCases

LEMMA RegNextCases ==
  ASSUME RegistryNext PROVE Cycle \/ Asks \/ RestartColor
BY DEF RegistryNext, Asks

LEMMA EmptyFunction == DOMAIN <<>> = {}
OBVIOUS

LEMMA RegistryTypesInit == RegistryInit => RegTypes
<1> SUFFICES ASSUME RegistryInit PROVE RegTypes
  OBVIOUS
<1>1. TableTypes
  <2>1. hosts \in [Hosts -> HostRows]
    BY RegistryAssumption DEF RegistryInit, HostRows
  <2>2. services \in [Slots -> ServiceRows]
    BY RegistryAssumption DEF RegistryInit, ServiceRows
  <2>3. DOMAIN request = Handlers /\ \A c \in Handlers : IsRequest(request[c])
    BY NoRequestIs DEF RegistryInit
  <2>4. settings \in Settings /\ DOMAIN lock = {"here", "there"} /\ asked \in Nat /\ accidents \in Nat
    BY DEF RegistryInit
  <2> QED BY <2>1, <2>2, <2>3, <2>4 DEF TableTypes
<1>2. CycleTypes
  <2>1. DOMAIN states = {} /\ DOMAIN saved = {} BY DEF RegistryInit
  <2>2. step = "idle" /\ cycle = NoCycle BY DEF RegistryInit
  <2>3. Place = "idle" BY <2>2 DEF Place, InDetour
  <2> QED BY <2>1, <2>2, <2>3, NoCycleIs DEF CycleTypes, Steps, InDetour
<1> QED BY <1>1, <1>2 DEF RegTypes

LEMMA RegistryTypesNext ==
  RegTypes /\ [RegistryNext]_registryVars => RegTypes'
<1> SUFFICES ASSUME RegTypes, [RegistryNext]_registryVars PROVE RegTypes'
  OBVIOUS
<1>1. CASE Cycle BY <1>1, CycleTyping, CycleTables DEF RegTypes
<1>2. CASE Asks
  <2>1. CycleTypes' BY <1>2, AskShrinks, HandlerCycleTypes DEF RegTypes
  <2> QED BY <1>2, <2>1, AskTables DEF RegTypes
<1>3. CASE RestartColor
  <2>1. TableTypes'
    <3>1. UNCHANGED <<hosts, services, settings, asked>> /\ accidents' = accidents + 1
      BY <1>3, RestartFacts DEF tables
    <3>2. DOMAIN request' = Handlers /\ \A d \in Handlers : IsRequest(request'[d]) BY <1>3, RestartFacts
    <3>3. lock' = [lock EXCEPT !.here = "free"] BY <1>3, RestartFacts
    <3> QED BY <3>1, <3>2, <3>3 DEF RegTypes, TableTypes
  <2>2. CycleTypes'
    <3>1. DOMAIN saved' \subseteq Keys /\ DOMAIN states' \subseteq Keys
      BY <1>3, RestartFacts DEF RegTypes, CycleTypes
    <3> QED BY <1>3, <3>1, RestartFacts, AtRest DEF RegTypes
  <2> QED BY <2>1, <2>2 DEF RegTypes
<1>4. CASE UNCHANGED registryVars
  <2>1. TableTypes' = TableTypes BY <1>4 DEF registryVars, TableTypes
  <2>2. CycleTypes' = CycleTypes
    <3>1. Place' = Place BY <1>4 DEF registryVars, Place
    <3> QED BY <1>4, <3>1 DEF registryVars, CycleTypes
  <2> QED BY <2>1, <2>2 DEF RegTypes
<1> QED BY <1>1, <1>2, <1>3, <1>4, RegNextCases
-------------------------------------------------------------------------------
(* The rows of the table. *)
LEMMA RowsInit == RegistryInit => RowsAreKnown
BY DEF RegistryInit, RowsAreKnown

LEMMA RowsCycle ==
  ASSUME RegTypes, RowsAreKnown, Cycle PROVE RowsAreKnown'
<1>1. \A k \in DOMAIN saved : Known(k) BY DEF RowsAreKnown
<1>2. request' = request BY CycleFrame
<1> SUFFICES ASSUME NEW k \in DOMAIN saved' PROVE Known(k)'
  BY DEF RowsAreKnown
<1>3. ASSUME k \in DOMAIN saved, strays' = strays, step # "erase",
             k \in DOMAIN states => k \in DOMAIN states' \/ (step' = "erase" /\ k = cycle'.key)
      PROVE  Known(k)'
  <2>1. Known(k) BY <1>1, <1>3
  <2> QED BY <1>2, <1>3, <2>1 DEF Known, Losing
<1>4. CASE LoadHosts BY <1>3, <1>4 DEF LoadHosts
<1>5. CASE RetireSignal
  <2>1. step = "retire" /\ saved' = saved /\ strays' = strays BY <1>5 DEF RetireSignal
  <2>2. k \in DOMAIN states => k \in DOMAIN states' \/ (step' = "erase" /\ k = cycle'.key)
    BY <1>5, RetireSignalFacts
  <2> QED BY <1>3, <2>1, <2>2
<1>6. CASE DropRetired
  <2>1. saved' = saved /\ strays' = strays BY <1>6 DEF DropRetired
  <2>2. k \in DOMAIN states => k \in DOMAIN states' \/ (step' = "erase" /\ k = cycle'.key)
    BY <1>6, DropRetiredFacts
  <2> QED BY <1>3, <1>6, <2>1, <2>2, DropRetiredFacts
<1>7. CASE EraseRow
  <2>1. /\ states' = states /\ DOMAIN saved' \subseteq DOMAIN saved /\ strays \subseteq strays'
        /\ cycle.key \in strays' \/ cycle.key \notin DOMAIN saved'
    BY <1>7, EraseRowFacts
  <2>2. Known(k) BY <1>1, <2>1
  <2> QED BY <1>2, <2>1, <2>2 DEF Known, Losing
<1>8. CASE SweepUnmonitored
  <2>1. step = "sweep" /\ saved' = saved /\ strays' = strays BY <1>8 DEF SweepUnmonitored
  <2>2. k \in DOMAIN states => k \in DOMAIN states' \/ (step' = "erase" /\ k = cycle'.key)
    BY <1>8, SweepFacts
  <2> QED BY <1>3, <2>1, <2>2
<1>9. CASE AskPrometheus BY <1>3, <1>9 DEF AskPrometheus
<1>10. CASE TakeSignal
  <2>1. step = "work" /\ saved' = saved /\ strays' = strays BY <1>10 DEF TakeSignal
  <2>2. DOMAIN states \subseteq DOMAIN states' BY <1>10, TakeFacts
  <2> QED BY <1>3, <2>1, <2>2
<1>11. CASE SaveEntry
  <2>1. /\ step = "save" /\ states' = states /\ DOMAIN saved' \subseteq DOMAIN saved \cup {cycle.key}
        /\ strays \subseteq strays' \cup DOMAIN states
        /\ \/ cycle.key \in DOMAIN states \cup strays'
           \/ saved' = saved /\ strays' = strays
    BY <1>11, SaveFacts
  <2>2. CASE k = cycle.key /\ cycle.key \in DOMAIN states \cup strays' BY <2>1, <2>2 DEF Known
  <2>3. CASE k \in DOMAIN saved
    <3>1. Known(k) BY <1>1, <2>3
    <3> QED BY <1>2, <2>1, <3>1 DEF Known, Losing
  <2> QED BY <2>1, <2>2, <2>3
<1>12. CASE SendMessage
  <2>1. saved' = saved /\ strays' = strays BY <1>12 DEF SendMessage
  <2> QED BY <1>3, <1>12, <2>1, SendFacts
<1>13. CASE LoadServices
  <2>1. strays' = strays BY <1>13 DEF LoadServices
  <2> QED BY <1>3, <1>13, <2>1, LoadServicesFacts
<1>14. CASE Reconcile
  <2>1. step # "erase" BY <1>14, ReconcileFacts
  <2> QED BY <1>3, <1>14, <2>1, ReconcileFacts
<1> QED BY <1>4, <1>5, <1>6, <1>7, <1>8, <1>9, <1>10, <1>11, <1>12, <1>13, <1>14 DEF Cycle

(* A row stays accounted for when one request moves. *)
LEMMA StillKnown ==
  ASSUME TableTypes, NEW c \in Handlers, NEW r, Moves(c, r), UNCHANGED <<step, cycle>>, NEW k, Known(k),
         strays \subseteq strays',
         k \in DOMAIN states => k \in DOMAIN states' \/ (c \in Near /\ r.stage \in {"forget", "remove"} /\ k \in r.keys),
         c \in Near /\ Losing(c) /\ k \in request[c].keys => k \in strays'
  PROVE  Known(k)'
<1>1. request'[c] = r /\ \A d \in Handlers \ {c} : request'[d] = request[d] BY MovesFacts
<1>2. CASE k \in DOMAIN states BY <1>1, <1>2 DEF Known, Losing
<1>3. CASE k \in strays \/ (step = "erase" /\ k = cycle.key) BY <1>3 DEF Known
<1>4. CASE \E d \in Near : Losing(d) /\ k \in request[d].keys
  <2>1. PICK d \in Near : Losing(d) /\ k \in request[d].keys BY <1>4
  <2>2. CASE d = c BY <2>1, <2>2 DEF Known
  <2>3. CASE d # c BY <1>1, <2>1, <2>3 DEF Known, Losing, Handlers
  <2> QED BY <2>2, <2>3
<1> QED BY <1>2, <1>3, <1>4 DEF Known

LEMMA RowsAsk ==
  ASSUME RegTypes, RowsAreKnown, Asks PROVE RowsAreKnown'
<1> SUFFICES ASSUME NEW k \in DOMAIN saved' PROVE Known(k)'
  BY DEF RowsAreKnown
<1>0. UNCHANGED <<step, cycle>> /\ k \in DOMAIN saved /\ Known(k) /\ TableTypes
  BY AskShrinks DEF RowsAreKnown, Shrinks, RegTypes
<1>1. CASE ChangeSettings BY <1>0, <1>1 DEF ChangeSettings, stateVars, Known, Losing
<1>2. ASSUME NEW c \in Handlers, NEW h \in Hosts, NEW b \in HostBodies, SaveHost(c, h, b) PROVE Known(k)'
  <2>1. PICK r : Moves(c, r) BY <1>2, SaveHostFacts
  <2>2. states' = states /\ strays' = strays BY <1>2 DEF SaveHost, stateVars
  <2>3. ~Losing(c)
    <3>1. Beginning(c) BY <1>2, SaveHostFacts
    <3> QED BY <3>1, NoRequestIs DEF Beginning, Losing
  <2> QED BY <1>0, <2>1, <2>2, <2>3, StillKnown
<1>3. ASSUME NEW c \in Handlers, NEW i \in Slots, NEW n \in ServiceNames, NEW on \in BOOLEAN, SaveService(c, i, n, on)
      PROVE  Known(k)'
  <2>1. PICK r : Moves(c, r) BY <1>3, SaveServiceFacts
  <2>2. states' = states /\ strays' = strays BY <1>3 DEF SaveService, stateVars
  <2>3. ~Losing(c)
    <3>1. Beginning(c) BY <1>3, SaveServiceFacts
    <3> QED BY <3>1, NoRequestIs DEF Beginning, Losing
  <2> QED BY <1>0, <2>1, <2>2, <2>3, StillKnown
<1>4. ASSUME NEW c \in Handlers, NEW r, Moves(c, r), strays' = strays, ~Losing(c),
             \/ states' = states
             \/ r.stage \in {"forget", "remove"} /\ \E keys : Drops(c, r, keys)
      PROVE  Known(k)'
  <2>1. k \in DOMAIN states => k \in DOMAIN states' \/ (c \in Near /\ r.stage \in {"forget", "remove"} /\ k \in r.keys)
    BY <1>0, <1>4 DEF Drops
  <2> QED BY <1>0, <1>4, <2>1, StillKnown
<1>5. ASSUME NEW c \in Handlers, RefreshHost(c) PROVE Known(k)'
  <2>1. request[c].stage = "refresh" /\ strays' = strays BY <1>5, RefreshHostFacts DEF HandlerRest
  <2>2. PICK r : /\ Moves(c, r)
                 /\ \/ states' = states
                    \/ r.stage = "forget" /\ Drops(c, r, Cleared(request[c].of, request[c].had))
    BY <1>5, RefreshHostFacts
  <2>3. ~Losing(c) BY <2>1 DEF Losing
  <2> QED BY <1>4, <2>1, <2>2, <2>3
<1>6. ASSUME NEW c \in Handlers, RefreshService(c) PROVE Known(k)'
  <2>1. request[c].stage = "refresh" /\ strays' = strays BY <1>6, RefreshServiceFacts DEF HandlerRest
  <2>2. PICK r : /\ Moves(c, r)
                 /\ \/ states' = states
                    \/ r.stage = "forget" /\ Drops(c, r, {<<ServiceType, request[c].was>>})
    BY <1>6, RefreshServiceFacts
  <2>3. ~Losing(c) BY <2>1 DEF Losing
  <2> QED BY <1>4, <2>1, <2>2, <2>3
<1>7. ASSUME NEW c \in Handlers, (\E h \in Hosts : DeleteHost(c, h)) \/ (\E i \in Slots : DeleteService(c, i))
      PROVE  Known(k)'
  <2>1. request[c] = NoRequest /\ strays' = strays BY <1>7, DeleteFacts DEF HandlerRest, Beginning
  <2>2. PICK r : Moves(c, r) /\ r.stage = "remove" /\ \E keys : Drops(c, r, keys) BY <1>7, DeleteFacts
  <2>3. ~Losing(c) BY <2>1, NoRequestIs DEF Losing
  <2> QED BY <1>4, <2>1, <2>2, <2>3
<1>8. ASSUME NEW c \in Handlers, ForgetStates(c) PROVE Known(k)'
  <2>1. PICK r : /\ Moves(c, r)
                 /\ \/ DOMAIN saved' = DOMAIN saved \ request[c].keys /\ UNCHANGED strays
                    \/ strays' = strays \cup request[c].keys
    BY <1>8, ForgetFacts
  <2>2. states' = states BY <1>8, ForgetFacts
  <2> QED BY <1>0, <2>1, <2>2, StillKnown
<1>9. ASSUME NEW c \in Handlers, RemoveRow(c) PROVE Known(k)'
  <2>1. states' = states BY <1>9, RemoveRowFacts
  <2>2. CASE NotRemoved(c)
    BY <1>0, <2>1, <2>2, StillKnown DEF NotRemoved
  <2>3. CASE Removed(c)
    <3>1. k \notin request[c].keys /\ strays' = strays BY <2>3 DEF Removed
    <3>2. ASSUME NEW d \in Near, Losing(d), k \in request[d].keys PROVE Losing(d)' /\ k \in request'[d].keys
      <4>1. d \in Handlers \ {c} BY <3>1, <3>2 DEF Handlers
      <4>2. Overtaken(c, d) BY <2>3, <4>1 DEF Removed
      <4> QED BY <3>2, <4>2 DEF Overtaken, Losing
    <3> QED BY <1>0, <2>1, <3>1, <3>2 DEF Known
  <2> QED BY <1>9, <2>2, <2>3, RemoveRowFacts
<1>10. ASSUME NEW c \in Handlers, SyncTargets(c) PROVE Known(k)'
  <2>1. PICK r : Moves(c, r) BY <1>10, SyncFacts
  <2>2. states' = states /\ strays' = strays /\ ~Losing(c) BY <1>10, SyncFacts DEF stateVars, Losing
  <2> QED BY <1>0, <2>1, <2>2, StillKnown
<1> QED BY <1>1, <1>2, <1>3, <1>5, <1>6, <1>7, <1>8, <1>9, <1>10, AskCases

LEMMA RowsNext ==
  RegTypes /\ RowsAreKnown /\ [RegistryNext]_registryVars => RowsAreKnown'
<1> SUFFICES ASSUME RegTypes, RowsAreKnown, [RegistryNext]_registryVars PROVE RowsAreKnown'
  OBVIOUS
<1>1. CASE RestartColor BY <1>1, RestartFacts DEF RowsAreKnown, Known
<1>2. CASE UNCHANGED registryVars BY <1>2 DEF registryVars, RowsAreKnown, Known, Losing
<1> QED BY <1>1, <1>2, RowsCycle, RowsAsk, RegNextCases
-------------------------------------------------------------------------------
(* What a signal says, is not switched off, and is missing only where Prometheus is silent. *)
LEMMA LevelsAreNatural ==
  ASSUME NEW row \in HostBodies, NEW s \in Settings, NEW f \in Levels
  PROVE  Effective(row, s, f) \in Nat /\ s.forecast \in Nat
BY RegistryAssumption DEF Effective

LEMMA ValuesAreIntegers ==
  ASSUME NEW a \in Answers, NEW q \in Queries, NEW target
  PROVE  Value(a, q, target) \in Int /\ (~a[q].ok => ~IsUp(a, q, target))
BY RegistryAssumption DEF Value, IsUp

LEMMA EmittedIsOn ==
  ASSUME NEW h, NEW row \in HostBodies, NEW s \in Settings, NEW a \in Answers, NEW t \in HostTypes,
         Emits(h, row, s, a, t)
  PROVE  t \notin DisabledSignals(row, s)
<1>1. /\ Effective(row, s, "disk_warn") \in Nat /\ Effective(row, s, "disk_crit") \in Nat
      /\ Effective(row, s, "cpu") \in Nat /\ Effective(row, s, "mem") \in Nat
      /\ Effective(row, s, "gpu_util") \in Nat /\ Effective(row, s, "gpu_mem") \in Nat
      /\ s.forecast \in Nat
  BY LevelsAreNatural DEF Levels
<1>2. t \in GpuTypes => row.gpu BY DEF Emits
<1>3. CASE t = "server_down" BY <1>3 DEF DisabledSignals, GpuTypes
<1>4. CASE t = "server_gpu_down" BY <1>2, <1>4 DEF DisabledSignals, GpuTypes
<1>5. CASE t = "server_disk" BY <1>1, <1>5 DEF Emits, DisabledSignals, GpuTypes
<1>6. CASE t = "server_disk_forecast" BY <1>1, <1>6 DEF Emits, DisabledSignals, GpuTypes
<1>7. CASE t = "server_cpu" BY <1>1, <1>7 DEF Emits, DisabledSignals, GpuTypes
<1>8. CASE t = "server_mem" BY <1>1, <1>8 DEF Emits, DisabledSignals, GpuTypes
<1>9. CASE t = "server_gpu_util" BY <1>1, <1>2, <1>9 DEF Emits, DisabledSignals, GpuTypes
<1>10. CASE t = "server_gpu_mem" BY <1>1, <1>2, <1>10 DEF Emits, DisabledSignals, GpuTypes
<1> QED BY <1>3, <1>4, <1>5, <1>6, <1>7, <1>8, <1>9, <1>10 DEF HostTypes, GpuTypes

LEMMA MissingIsSilent ==
  ASSUME NEW h, NEW row \in HostBodies, NEW s \in Settings, NEW a \in Answers, NEW t \in HostTypes,
         t \notin DisabledSignals(row, s), ~(a.up.ok /\ Emits(h, row, s, a, t))
  PROVE  Silent(a, <<t, h>>)
<1>1. /\ Effective(row, s, "disk_warn") \in Nat /\ Effective(row, s, "disk_crit") \in Nat
      /\ Effective(row, s, "cpu") \in Nat /\ Effective(row, s, "mem") \in Nat
      /\ Effective(row, s, "gpu_util") \in Nat /\ Effective(row, s, "gpu_mem") \in Nat
      /\ s.forecast \in Nat
  BY LevelsAreNatural DEF Levels
<1>2. \A q \in Queries : Value(a, q, h) \in Int /\ (~a[q].ok => ~IsUp(a, q, h)) BY ValuesAreIntegers
<1>3. CASE t = "server_down" BY <1>3 DEF Emits, Silent, GpuTypes, ServiceType
<1>4. t # "server_down" => ~IsUp(a, "up", h) \/ (a.up.ok /\ IsUp(a, "up", h)) BY <1>2 DEF Queries
<1>5. CASE t # "server_down" /\ ~IsUp(a, "up", h)
  BY <1>5 DEF Silent, ServiceType, HostTypes, GpuTypes
<1>6. CASE t # "server_down" /\ a.up.ok /\ IsUp(a, "up", h)
  <2>1. ~Emits(h, row, s, a, t) BY <1>6
  <2>2. t \in GpuTypes => row.gpu BY DEF DisabledSignals
  <2>3. CASE t = "server_disk" BY <1>1, <1>6, <2>1, <2>3 DEF Emits, Silent, DisabledSignals, GpuTypes, ServiceType
  <2>4. CASE t = "server_disk_forecast"
    BY <1>1, <1>2, <1>6, <2>1, <2>4 DEF Emits, Silent, DisabledSignals, GpuTypes, ServiceType, Queries
  <2>5. CASE t = "server_cpu"
    BY <1>1, <1>2, <1>6, <2>1, <2>5 DEF Emits, Silent, DisabledSignals, GpuTypes, ServiceType, Queries
  <2>6. CASE t = "server_mem"
    BY <1>1, <1>2, <1>6, <2>1, <2>6 DEF Emits, Silent, DisabledSignals, GpuTypes, ServiceType, Queries
  <2>7. CASE t = "server_gpu_down"
    BY <1>1, <1>2, <1>6, <2>1, <2>2, <2>7 DEF Emits, Silent, DisabledSignals, GpuTypes, ServiceType, Queries
  <2>8. CASE t = "server_gpu_util"
    BY <1>1, <1>2, <1>6, <2>1, <2>2, <2>8 DEF Emits, Silent, DisabledSignals, GpuTypes, ServiceType, Queries
  <2>9. CASE t = "server_gpu_mem"
    BY <1>1, <1>2, <1>6, <2>1, <2>2, <2>9 DEF Emits, Silent, DisabledSignals, GpuTypes, ServiceType, Queries
  <2> QED BY <1>6, <2>3, <2>4, <2>5, <2>6, <2>7, <2>8, <2>9 DEF HostTypes, GpuTypes
<1> QED BY <1>3, <1>4, <1>5, <1>6

LEMMA SeenIsNotUnseen ==
  ASSUME NEW h, NEW row, NEW s, NEW a, NEW t \in HostTypes
  PROVE  Sees(h, row, s, a, t) # Unseen
<1>1. \A v, warn, crit : Level(v, warn, crit) \in {-1, 1, 2} BY DEF Level, Well
<1>2. Sees(h, row, s, a, t) \in {-1, 1, 2}
  BY <1>1 DEF Sees, HostTypes, GpuTypes, Well
<1> QED BY <1>2 DEF Unseen
-------------------------------------------------------------------------------
(* An undisturbed cycle. *)
LEMMA LoadedStays ==
  ASSUME Same(cycle', cycle), UNCHANGED tables, HostsAreLoaded PROVE HostsAreLoaded'
BY DEF Same, tables, HostsAreLoaded

LEMMA PartStays ==
  ASSUME NEW part, UNCHANGED tables, judged \subseteq judged', PartIsTrue(part),
         DOMAIN states' \cap OfPart(part) \subseteq DOMAIN states
  PROVE  PartIsTrue(part)'
BY DEF PartIsTrue, Shown, WatchedNow, tables

LEMMA QuietStays == ASSUME request' = request, Quiet PROVE Quiet'
BY DEF Quiet

(* Detours change nothing that CalmInv speaks of. *)
LEMMA CalmDetours ==
  ASSUME RegTypes, CalmInv, calm' = calm, UNCHANGED <<tables, request>>, step \in InDetour,
         Place' = Place, Same(cycle', cycle), cycle'.todo = cycle.todo, Place = "drop" => cycle'.key = cycle.key,
         DOMAIN states' = DOMAIN states, judged' = judged
  PROVE  CalmInv'
<1> SUFFICES ASSUME calm' PROVE (Quiet /\ LoadedRight /\ RetiringRight /\ JudgingRight /\ PartsAreTrue)'
  BY DEF CalmInv
<1>0. Quiet /\ LoadedRight /\ RetiringRight /\ JudgingRight /\ PartsAreTrue BY DEF CalmInv
<1>1. Place \in {"retire", "drop", "sweep", "work"} BY DEF RegTypes, CycleTypes, Place, InDetour
<1>2. step' \notin {"query", "files", "write", "idle"} BY <1>1 DEF Place, InDetour
<1>3. \A p : In(p)' <=> In(p) BY DEF In, Same
<1>4. LoadedRight' BY <1>0, <1>3, LoadedStays DEF LoadedRight, tables, Same
<1>5. RetiringRight' BY <1>0, <1>1 DEF RetiringRight, Same
<1>6. JudgingRight' BY <1>0, <1>2 DEF JudgingRight, SeenOrDue, Shown, WatchedNow, tables, Same
<1>7. PartsAreTrue' BY <1>0, <1>2, <1>3, PartStays DEF PartsAreTrue
<1> QED BY <1>0, <1>4, <1>5, <1>6, <1>7, QuietStays

LEMMA WatchedHosts ==
  /\ \A k : k \in WatchedNow /\ k[1] # ServiceType <=>
         k \in HostTypes \X Enabled(hosts) /\ k[1] \notin DisabledSignals(hosts[k[2]], settings)
  /\ \A k : k \in WatchedNow /\ k[1] = ServiceType <=> k \in {ServiceType} \X EnabledNames(services)
BY DEF WatchedNow, Watched, HostTypes, GpuTypes, ServiceType

LEMMA CalmLoadHosts ==
  ASSUME RegTypes, LoadHosts, calm' PROVE CalmInv'
<1>1. /\ Quiet /\ UNCHANGED <<tables, request, states>>
      /\ step' = "retire" /\ cycle' = [NoCycle EXCEPT !.hosts = Restrict(hosts, Enabled(hosts)), !.s = settings,
                                                     !.off = SwitchedOff, !.todo = SwitchedOff]
  BY DEF LoadHosts, Goes
<1>2. PICK on, off : on = Restrict(hosts, Enabled(hosts)) /\ off = SwitchedOff OBVIOUS
<1>3. cycle' = [NoCycle EXCEPT !.hosts = on, !.s = settings, !.off = off, !.todo = off] BY <1>1, <1>2
<1>4. cycle'.hosts = on /\ cycle'.s = settings /\ cycle'.off = off /\ cycle'.todo = off /\ cycle'.part = "hosts"
  BY <1>3, NoCycleIs DEF IsCycle
<1>5. Place' = "retire" BY <1>1 DEF Place, InDetour
<1>6. HostsAreLoaded'
  <2>1. ASSUME NEW h \in Enabled(hosts), NEW t \in HostTypes
        PROVE  <<t, h>> \in SwitchedOff <=> t \in DisabledSignals(hosts[h], settings)
    <3>1. settings.forecast = 0 /\ t = "server_disk_forecast" => t \in DisabledSignals(hosts[h], settings)
      BY DEF DisabledSignals
    <3> QED BY <2>1, <3>1 DEF SwitchedOff
  <2> QED BY <1>1, <1>2, <1>4, <2>1 DEF HostsAreLoaded, tables
<1>7. LoadedRight' BY <1>4, <1>6 DEF LoadedRight, In
<1>8. RetiringRight' BY <1>4, <1>5 DEF RetiringRight
<1>9. JudgingRight' BY <1>1, <1>5 DEF JudgingRight
<1>10. PartsAreTrue' BY <1>1, <1>4, <1>5 DEF PartsAreTrue, In, Scan
<1> QED BY <1>1, <1>7, <1>8, <1>9, <1>10, QuietStays DEF CalmInv

LEMMA CalmRetire ==
  ASSUME RegTypes, CalmInv, calm, RetireSignal PROVE CalmInv'
<1>0. Quiet /\ LoadedRight /\ RetiringRight BY DEF CalmInv
<1>1. step = "retire" /\ UNCHANGED <<tables, request, judged, calm>> BY DEF RetireSignal, registryRest
<1>2. Place = "retire" /\ cycle.part = "hosts" /\ HostsAreLoaded
  <2>1. Place = "retire" BY <1>1 DEF Place, InDetour
  <2>2. cycle.part = "hosts" BY <2>1 DEF RegTypes, CycleTypes
  <2> QED BY <1>0, <2>1, <2>2 DEF LoadedRight, In, Scan
<1>3. ASSUME Same(cycle', cycle), Place' \in {"retire", "drop", "sweep"}, RetiringRight', step' # "query",
             step' \notin {"files", "write", "idle"}
      PROVE  CalmInv'
  <2>1. In("hosts")' /\ ~In("services")' BY <1>2, <1>3 DEF In, Scan, Same
  <2>2. LoadedRight' BY <1>1, <1>2, <1>3, <2>1, LoadedStays DEF LoadedRight
  <2>3. JudgingRight' /\ PartsAreTrue' BY <1>3, <2>1 DEF JudgingRight, PartsAreTrue
  <2> QED BY <1>0, <1>1, <1>3, <2>2, <2>3, QuietStays DEF CalmInv
<1>4. CASE cycle.todo \cap DOMAIN states = {} /\ step' = "sweep" /\ cycle' = cycle /\ states' = states
  <2>1. Place' = "sweep" /\ Same(cycle', cycle) BY <1>4 DEF Place, InDetour, Same
  <2>2. cycle.off \cap DOMAIN states = {} BY <1>0, <1>2, <1>4 DEF RetiringRight
  <2>3. RetiringRight' BY <1>4, <2>1, <2>2 DEF RetiringRight
  <2> QED BY <1>3, <1>4, <2>1, <2>3
<1>5. ASSUME NEW k \in cycle.todo \cap DOMAIN states,
             IsCycle(cycle'), Same(cycle', cycle), cycle'.key = k,
             cycle'.todo = (cycle.todo \cap DOMAIN states) \ {k},
             \/ step' = "erase" /\ cycle'.back = "retire" /\ DOMAIN states' = DOMAIN states \ {k}
             \/ step' = "save" /\ cycle'.back = "drop" /\ DOMAIN states' = DOMAIN states
      PROVE  CalmInv'
  <2>1. \A x \in cycle.off \cap DOMAIN states : x \in cycle.todo BY <1>0, <1>2 DEF RetiringRight
  <2>2. (step' = "erase" /\ Place' = "retire") \/ (step' = "save" /\ Place' = "drop") BY <1>5 DEF Place, InDetour
  <2>3. RetiringRight' BY <1>5, <2>1, <2>2 DEF RetiringRight, Same
  <2> QED BY <1>3, <1>5, <2>2, <2>3
<1> QED BY <1>4, <1>5, RetireSignalFacts

LEMMA CalmDrop ==
  ASSUME RegTypes, CalmInv, calm, DropRetired PROVE CalmInv'
<1>0. Quiet /\ LoadedRight /\ RetiringRight BY DEF CalmInv
<1>1. UNCHANGED <<tables, request, judged, calm>> BY DEF DropRetired, registryRest
<1>2. /\ step = "drop" /\ Same(cycle', cycle) /\ cycle'.todo = cycle.todo /\ step' = "erase"
      /\ cycle'.back = "retire" /\ DOMAIN states' = DOMAIN states \ {cycle.key}
  BY DropRetiredFacts
<1>3. Place = "drop" /\ Place' = "retire" BY <1>2 DEF Place, InDetour
<1>4. cycle.part = "hosts" BY <1>3 DEF RegTypes, CycleTypes
<1>5. In("hosts") /\ In("hosts")' /\ ~In("services")' BY <1>2, <1>3, <1>4 DEF In, Scan, Same
<1>6. LoadedRight' BY <1>0, <1>1, <1>2, <1>5, LoadedStays DEF LoadedRight
<1>7. RetiringRight' BY <1>0, <1>2, <1>3 DEF RetiringRight, Same
<1>8. JudgingRight' /\ PartsAreTrue' BY <1>2, <1>3, <1>5 DEF JudgingRight, PartsAreTrue
<1> QED BY <1>0, <1>1, <1>6, <1>7, <1>8, QuietStays DEF CalmInv

(* Between the parts, and when a cycle ends. *)
LEMMA CalmAtRest ==
  ASSUME Quiet, request' = request, cycle' = NoCycle, step' \in {"services", "files", "idle"},
         PartIsTrue("hosts")', step' # "services" => PartIsTrue("services")'
  PROVE  CalmInv'
<1>1. Place' \in {"services", "files", "idle"} BY DEF Place, InDetour
<1>2. LoadedRight' BY <1>1 DEF LoadedRight, In, Scan
<1>3. RetiringRight' /\ JudgingRight' BY <1>1 DEF RetiringRight, JudgingRight
<1>4. PartsAreTrue' BY DEF PartsAreTrue
<1> QED BY <1>2, <1>3, <1>4, QuietStays DEF CalmInv

LEMMA CalmSweep ==
  ASSUME RegTypes, CalmInv, calm, SweepUnmonitored PROVE CalmInv'
<1>0. Quiet /\ LoadedRight /\ RetiringRight /\ PartsAreTrue BY DEF CalmInv
<1>1. step = "sweep" /\ UNCHANGED <<tables, request, judged, calm>> BY DEF SweepUnmonitored, registryRest
<1>2. Place = "sweep" /\ In(cycle.part) /\ cycle.part \in {"hosts", "services"} /\ cycle.off \cap DOMAIN states = {}
  BY <1>0, <1>1 DEF Place, InDetour, In, Scan, RegTypes, CycleTypes, RetiringRight
<1>3. ASSUME NEW k \in Shown(cycle.part), Same(cycle', cycle), cycle'.back = "sweep", step' = "erase",
             DOMAIN states' = DOMAIN states \ {k}
      PROVE  CalmInv'
  <2>1. Place' = "sweep" BY <1>3 DEF Place, InDetour
  <2>2. \A p : In(p)' <=> In(p) BY <1>2, <1>3, <2>1 DEF In, Same, Scan
  <2>3. LoadedRight' BY <1>0, <1>1, <1>3, <2>2, LoadedStays DEF LoadedRight, Same, tables
  <2>4. RetiringRight' BY <1>2, <1>3, <2>1 DEF RetiringRight, Same
  <2>5. JudgingRight' BY <1>3, <2>1 DEF JudgingRight
  <2>6. PartsAreTrue' BY <1>0, <1>1, <1>3, <2>2, PartStays DEF PartsAreTrue
  <2> QED BY <1>0, <1>1, <2>3, <2>4, <2>5, <2>6, QuietStays DEF CalmInv
<1>4. ASSUME \A k \in Shown(cycle.part) : k[2] \in Names, states' = states, step' = "query", cycle' = cycle
      PROVE  CalmInv'
  <2>1. Place' = "query" BY <1>4 DEF Place, InDetour
  <2>2. Same(cycle', cycle) /\ \A p : In(p)' <=> In(p) BY <1>2, <1>4, <2>1 DEF In, Same, Scan
  <2>3. LoadedRight' BY <1>0, <1>1, <2>2, LoadedStays DEF LoadedRight, Same, tables
  <2>4. RetiringRight' BY <1>2, <1>4, <2>1 DEF RetiringRight
  <2>5. Shown(cycle.part) \subseteq WatchedNow
    <3>1. CASE cycle.part = "hosts"
      <4>1. HostsAreLoaded /\ Names = Enabled(hosts)
        BY <1>0, <1>2, <3>1, Restricted DEF LoadedRight, HostsAreLoaded, Names
      <4>2. ASSUME NEW k \in Shown("hosts") PROVE k \in WatchedNow
        <5>1. k \in HostKeys /\ k[2] \in Enabled(hosts) /\ k \notin cycle.off
          BY <1>2, <1>4, <3>1, <4>1, <4>2, KeyKinds DEF Shown
        <5>2. k[1] \in HostTypes /\ k = <<k[1], k[2]>> BY <5>1, KeyKinds
        <5>3. k[1] \notin DisabledSignals(hosts[k[2]], settings) BY <4>1, <5>1, <5>2 DEF HostsAreLoaded
        <5> QED BY <5>1, <5>2, <5>3 DEF WatchedNow, Watched
      <4> QED BY <3>1, <4>2
    <3>2. CASE cycle.part = "services"
      <4>1. Names = EnabledNames(services) BY <1>0, <1>2, <3>2 DEF LoadedRight, Names
      <4> QED BY <1>4, <3>2, <4>1, KeyKinds DEF Shown, WatchedNow, Watched
    <3> QED BY <1>2, <3>1, <3>2
  <2>6. JudgingRight' BY <1>1, <1>4, <2>1, <2>5 DEF JudgingRight, Shown, WatchedNow, tables
  <2>7. PartsAreTrue' BY <1>0, <1>1, <1>4, <2>2, PartStays DEF PartsAreTrue
  <2> QED BY <1>0, <1>1, <2>3, <2>4, <2>6, <2>7, QuietStays DEF CalmInv
<1>5. ASSUME \A k \in Shown(cycle.part) : k[2] \in Names, states' = states, Names = {}, NextPart
      PROVE  CalmInv'
  <2>0. cycle' = NoCycle /\ step' = IF cycle.part = "hosts" THEN "services" ELSE "files" BY <1>5, NextPartFacts
  <2>1. CASE cycle.part = "hosts"
    <3>1. Shown("hosts") = {} BY <1>5, <2>1
    <3>2. PartIsTrue("hosts")' BY <1>5, <3>1 DEF PartIsTrue, Shown
    <3> QED BY <1>0, <1>1, <2>0, <2>1, <3>2, CalmAtRest
  <2>2. CASE cycle.part = "services"
    <3>1. Shown("services") = {} BY <1>5, <2>2
    <3>2. PartIsTrue("services")' BY <1>5, <3>1 DEF PartIsTrue, Shown
    <3>3. PartIsTrue("hosts") BY <1>0, <2>2 DEF PartsAreTrue, In
    <3>4. PartIsTrue("hosts")' BY <1>1, <1>5, <3>3, PartStays
    <3> QED BY <1>0, <1>1, <2>0, <2>2, <3>2, <3>4, CalmAtRest
  <2> QED BY <1>2, <2>1, <2>2
<1> QED BY <1>3, <1>4, <1>5, SweepFacts

(* What Prometheus was asked of is observed, or it was silent. *)
LEMMA Answered ==
  ASSUME RegTypes, LoadedRight, In(cycle.part), NEW a \in Answers, Shown(cycle.part) \subseteq WatchedNow
  PROVE  LET obs == Observations(a)
         IN  /\ \A k \in DOMAIN obs : k \in WatchedNow /\ obs[k] # Unseen
             /\ \A k \in Shown(cycle.part) \ DOMAIN obs : k \in Unobserved(DOMAIN obs) /\ Silent(a, k)
<1> DEFINE obs == Observations(a)
<1>0. cycle.part \in {"hosts", "services"} BY DEF RegTypes, CycleTypes
<1>1. CASE cycle.part = "hosts"
  <2>1. HostsAreLoaded BY <1>1 DEF LoadedRight
  <2>2. /\ cycle.s = settings /\ DOMAIN cycle.hosts = Enabled(hosts)
        /\ \A h \in Enabled(hosts) : cycle.hosts[h] = hosts[h]
    <3>1. PICK S : S = Enabled(hosts) OBVIOUS
    <3>2. cycle.s = settings /\ cycle.hosts = Restrict(hosts, S) BY <2>1, <3>1 DEF HostsAreLoaded
    <3>3. DOMAIN Restrict(hosts, S) = S /\ \A k \in S : Restrict(hosts, S)[k] = hosts[k] BY Restricted
    <3> QED BY <3>1, <3>2, <3>3
  <2>3. settings \in Settings /\ \A h \in Enabled(hosts) : hosts[h] \in HostBodies
    BY HostsOn DEF RegTypes, TableTypes
  <2>4. /\ \A k : k \in DOMAIN obs <=>
              k \in HostTypes \X Enabled(hosts) /\ a.up.ok /\ Emits(k[2], hosts[k[2]], settings, a, k[1])
        /\ \A k \in DOMAIN obs : obs[k] = Sees(k[2], hosts[k[2]], settings, a, k[1])
    BY <1>1, <2>2 DEF Observations, EvaluateHosts
  <2>5. ASSUME NEW k \in DOMAIN obs PROVE k \in WatchedNow /\ obs[k] # Unseen
    <3>1. k \in HostTypes \X Enabled(hosts) /\ Emits(k[2], hosts[k[2]], settings, a, k[1]) BY <2>4
    <3>2. k[1] \notin DisabledSignals(hosts[k[2]], settings) BY <2>3, <3>1, EmittedIsOn
    <3>3. obs[k] # Unseen BY <2>4, <3>1, SeenIsNotUnseen
    <3> QED BY <3>1, <3>2, <3>3 DEF WatchedNow, Watched
  <2>6. ASSUME NEW k \in Shown("hosts"), k \notin DOMAIN obs PROVE k \in Unobserved(DOMAIN obs) /\ Silent(a, k)
    <3>1. k \in HostKeys /\ k \in WatchedNow BY <1>1, <2>6, KeyKinds DEF Shown
    <3>2. k[1] \in HostTypes /\ k = <<k[1], k[2]>> BY <3>1, KeyKinds
    <3>3. k[2] \in Enabled(hosts) /\ k[1] \notin DisabledSignals(hosts[k[2]], settings)
      BY <3>1, <3>2 DEF WatchedNow, Watched, HostTypes, GpuTypes, ServiceType
    <3>4. k \notin cycle.off BY <2>1, <3>2, <3>3 DEF HostsAreLoaded
    <3>5. k \in Unobserved(DOMAIN obs)
      BY <1>1, <2>2, <2>6, <3>1, <3>3, <3>4 DEF Unobserved, Shown, OfPart
    <3>6. Silent(a, <<k[1], k[2]>>)
      <4>1. ~(a.up.ok /\ Emits(k[2], hosts[k[2]], settings, a, k[1])) BY <2>4, <2>6, <3>2, <3>3
      <4>2. hosts[k[2]] \in HostBodies BY <2>3, <3>3
      <4> QED BY <2>3, <3>2, <3>3, <4>1, <4>2, MissingIsSilent
    <3> QED BY <3>2, <3>5, <3>6
  <2> QED BY <1>1, <2>5, <2>6
<1>2. CASE cycle.part = "services"
  <2>1. cycle.names = EnabledNames(services) BY <1>2 DEF LoadedRight
  <2>2. /\ DOMAIN obs = {ServiceType} \X (IF a.services.ok THEN cycle.names ELSE {})
        /\ \A k \in DOMAIN obs : obs[k] \in {Well, 2}
    BY <1>2 DEF Observations, EvaluateServices
  <2>3. \A k \in DOMAIN obs : k \in WatchedNow /\ obs[k] # Unseen
    BY <2>1, <2>2 DEF WatchedNow, Watched, Well, Unseen
  <2>4. ASSUME NEW k \in Shown("services"), k \notin DOMAIN obs PROVE k \in Unobserved(DOMAIN obs) /\ Silent(a, k)
    <3>1. k \in ServiceKeys /\ k \in WatchedNow BY <1>2, <2>4, KeyKinds DEF Shown
    <3>2. k[1] = ServiceType /\ k = <<k[1], k[2]>> BY <3>1, KeyKinds
    <3>3. k[2] \in cycle.names BY <2>1, <3>1, <3>2 DEF WatchedNow, Watched, HostTypes, GpuTypes, ServiceType
    <3>4. ~a.services.ok BY <2>2, <2>4, <3>2, <3>3
    <3>5. Silent(a, k) BY <3>2, <3>4 DEF Silent, ServiceType
    <3>6. DOMAIN obs = {} BY <2>2, <3>4
    <3>7. k \in Unobserved(DOMAIN obs) BY <1>2, <2>4, <3>1, <3>6 DEF Unobserved, Shown
    <3> QED BY <3>5, <3>7
  <2> QED BY <1>2, <2>3, <2>4
<1> QED BY <1>0, <1>1, <1>2

LEMMA CalmAsk ==
  ASSUME RegTypes, CalmInv, calm, AskPrometheus PROVE CalmInv'
<1>0. Quiet /\ LoadedRight /\ RetiringRight /\ JudgingRight /\ PartsAreTrue BY DEF CalmInv
<1>1. step = "query" /\ UNCHANGED <<tables, request, calm>> BY DEF AskPrometheus, registryRest
<1>2. /\ Place = "query" /\ In(cycle.part) /\ cycle.part \in {"hosts", "services"}
      /\ Shown(cycle.part) \subseteq WatchedNow
  BY <1>0, <1>1 DEF Place, InDetour, In, Scan, RegTypes, CycleTypes, JudgingRight
<1>3. PICK a \in Answers :
           LET obs == Observations(a)
               mark == Unobserved(DOMAIN obs)
           IN  /\ step' = "work" /\ IsCycle(cycle') /\ Same(cycle', cycle) /\ states' = states
               /\ cycle'.todo = {<<k, Unseen>> : k \in mark} \cup {<<k, obs[k]>> : k \in DOMAIN obs}
               /\ judged' = judged \cup IF calm THEN {k \in mark : Silent(a, k)} ELSE {}
  BY AskFacts
<1> DEFINE obs == Observations(a)
           mark == Unobserved(DOMAIN obs)
<1>4. /\ step' = "work" /\ Same(cycle', cycle) /\ states' = states
      /\ cycle'.todo = {<<k, Unseen>> : k \in mark} \cup {<<k, obs[k]>> : k \in DOMAIN obs}
      /\ judged' = judged \cup {k \in mark : Silent(a, k)}
  BY <1>3
<1>5. /\ \A k \in DOMAIN obs : k \in WatchedNow /\ obs[k] # Unseen
      /\ \A k \in Shown(cycle.part) \ DOMAIN obs : k \in mark /\ Silent(a, k)
  BY <1>0, <1>2, Answered
<1> HIDE DEF obs, mark
<1>6. Place' = "work" BY <1>4 DEF Place, InDetour
<1>7. \A p : In(p)' <=> In(p) BY <1>2, <1>4, <1>6 DEF In, Same, Scan
<1>8. LoadedRight' BY <1>0, <1>1, <1>4, <1>7, LoadedStays DEF LoadedRight, Same, tables
<1>9. RetiringRight' BY <1>6 DEF RetiringRight
<1>10. SeenOrDue'
  <2>1. Shown(cycle.part)' = Shown(cycle.part) /\ WatchedNow' = WatchedNow
    BY <1>1, <1>4 DEF Shown, WatchedNow, tables, Same
  <2>2. \A x \in cycle'.todo : x[1] \in WatchedNow \/ x[2] = Unseen BY <1>4, <1>5
  <2>3. ASSUME NEW k \in Shown(cycle.part) PROVE k \in judged' \/ \E x \in cycle'.todo : x[1] = k /\ x[2] # Unseen
    <3>1. CASE k \in DOMAIN obs
      <4>1. <<k, obs[k]>> \in cycle'.todo BY <1>4, <3>1
      <4> QED BY <1>5, <3>1, <4>1
    <3>2. CASE k \notin DOMAIN obs BY <1>4, <1>5, <2>3, <3>2
    <3> QED BY <3>1, <3>2
  <2> QED BY <1>2, <2>1, <2>2, <2>3 DEF SeenOrDue
<1>11. JudgingRight' BY <1>4, <1>10 DEF JudgingRight
<1>12. PartsAreTrue' BY <1>0, <1>1, <1>4, <1>7, PartStays DEF PartsAreTrue
<1> QED BY <1>0, <1>1, <1>8, <1>9, <1>11, <1>12, QuietStays DEF CalmInv

LEMMA CalmTake ==
  ASSUME RegTypes, CalmInv, calm, TakeSignal PROVE CalmInv'
<1>0. Quiet /\ LoadedRight /\ RetiringRight /\ JudgingRight /\ PartsAreTrue BY DEF CalmInv
<1>1. step = "work" /\ UNCHANGED <<tables, request, calm>> BY DEF TakeSignal, registryRest
<1>2. /\ Place = "work" /\ In(cycle.part) /\ cycle.part \in {"hosts", "services"} /\ SeenOrDue
      /\ \A x \in cycle.todo : x[1] \in OfPart(cycle.part)
  BY <1>0, <1>1 DEF Place, InDetour, In, Scan, RegTypes, CycleTypes, JudgingRight
<1>3. ASSUME cycle.todo = {}, NextPart, states' = states, judged' = judged PROVE CalmInv'
  <2>0. cycle' = NoCycle /\ step' = IF cycle.part = "hosts" THEN "services" ELSE "files" BY <1>3, NextPartFacts
  <2>1. PartIsTrue(cycle.part) BY <1>2, <1>3 DEF SeenOrDue, PartIsTrue
  <2>2. \A p \in {"hosts", "services"} : PartIsTrue(p) => PartIsTrue(p)' BY <1>1, <1>3, PartStays
  <2>3. CASE cycle.part = "hosts" BY <1>0, <1>1, <2>0, <2>1, <2>2, <2>3, CalmAtRest
  <2>4. CASE cycle.part = "services"
    <3>1. PartIsTrue("hosts") BY <1>0, <2>4 DEF PartsAreTrue, In
    <3> QED BY <1>0, <1>1, <2>0, <2>1, <2>2, <2>4, <3>1, CalmAtRest
  <2> QED BY <1>2, <2>3, <2>4
<1>4. ASSUME NEW x \in cycle.todo, IsCycle(cycle'), Same(cycle', cycle), cycle'.todo = cycle.todo \ {x},
             \/ /\ x[2] = Unseen /\ states' = states /\ judged' = judged
                /\ \/ step' = "save" /\ cycle'.back = "work"
                   \/ step' = "work"
             \/ /\ x[2] # Unseen /\ step' = "save" /\ cycle'.back = "work"
                /\ DOMAIN states' = {x[1]} \cup DOMAIN states /\ judged' = judged \cup {x[1]}
      PROVE  CalmInv'
  <2>1. Place' = "work" /\ step' \notin {"query", "files", "write", "idle"} BY <1>4 DEF Place, InDetour
  <2>2. \A p : In(p)' <=> In(p) BY <1>2, <1>4, <2>1 DEF In, Same, Scan
  <2>3. LoadedRight' BY <1>0, <1>1, <1>4, <2>2, LoadedStays DEF LoadedRight, Same, tables
  <2>4. RetiringRight' BY <2>1 DEF RetiringRight
  <2>5. x[1] \in OfPart(cycle.part) /\ (x[1] \in WatchedNow \/ x[2] = Unseen) BY <1>2 DEF SeenOrDue
  <2>6. SeenOrDue'
    <3>1. cycle'.part = cycle.part /\ WatchedNow' = WatchedNow BY <1>1, <1>4 DEF WatchedNow, tables, Same
    <3>2. ASSUME NEW k \in DOMAIN states' \cap OfPart(cycle.part)
          PROVE  k \in WatchedNow /\ (k \in judged' \/ \E y \in cycle'.todo : y[1] = k /\ y[2] # Unseen)
      <4>1. CASE k \in DOMAIN states
        <5>1. k \in Shown(cycle.part) BY <3>2, <4>1 DEF Shown
        <5>2. k \in WatchedNow /\ (k \in judged \/ \E y \in cycle.todo : y[1] = k /\ y[2] # Unseen)
          BY <1>2, <5>1 DEF SeenOrDue
        <5> QED BY <1>4, <5>2
      <4>2. CASE k \notin DOMAIN states BY <1>4, <2>5, <3>2, <4>2
      <4> QED BY <4>1, <4>2
    <3>3. \A y \in cycle'.todo : y[1] \in WatchedNow \/ y[2] = Unseen BY <1>2, <1>4 DEF SeenOrDue
    <3> QED BY <3>1, <3>2, <3>3 DEF SeenOrDue, Shown
  <2>7. JudgingRight' BY <2>1, <2>6 DEF JudgingRight
  <2>8. PartsAreTrue'
    <3>1. CASE cycle.part = "hosts" BY <1>2, <2>1, <2>2, <3>1 DEF PartsAreTrue
    <3>2. CASE cycle.part = "services"
      <4>1. PartIsTrue("hosts") BY <1>0, <3>2 DEF PartsAreTrue, In
      <4>2. DOMAIN states' \cap OfPart("hosts") \subseteq DOMAIN states BY <1>4, <2>5, <3>2, KeyKinds
      <4>3. judged \subseteq judged' BY <1>4
      <4> QED BY <1>1, <2>1, <4>1, <4>2, <4>3, PartStays DEF PartsAreTrue
    <3> QED BY <1>2, <3>1, <3>2
  <2> QED BY <1>0, <1>1, <2>3, <2>4, <2>7, <2>8, QuietStays DEF CalmInv
<1> QED BY <1>3, <1>4, TakeFacts

LEMMA CalmDetour ==
  ASSUME RegTypes, CalmInv, EraseRow \/ SaveEntry \/ SendMessage PROVE CalmInv'
<1>1. UNCHANGED <<tables, request, calm, judged>>
  BY DEF EraseRow, SaveEntry, SendMessage, registryRest
<1>2. CASE EraseRow
  <2>1. /\ step = "erase" /\ cycle.back \in {"retire", "sweep"} /\ step' = cycle.back
        /\ Same(cycle', cycle) /\ cycle'.todo = cycle.todo /\ states' = states
    BY <1>2, EraseRowFacts
  <2>2. Place' = Place /\ Place # "drop" /\ step \in InDetour BY <2>1 DEF Place, InDetour
  <2> QED BY <1>1, <2>1, <2>2, CalmDetours
<1>3. CASE SaveEntry
  <2>1. step = "save" /\ Detours /\ states' = states BY <1>3, SaveFacts
  <2> QED BY <1>1, <2>1, CalmDetours DEF Detours, InDetour
<1>4. CASE SendMessage
  <2>1. step = "send" /\ Detours /\ DOMAIN states' = DOMAIN states BY <1>4, SendFacts
  <2> QED BY <1>1, <2>1, CalmDetours DEF Detours, InDetour
<1> QED BY <1>2, <1>3, <1>4

LEMMA CalmLoadServices ==
  ASSUME RegTypes, CalmInv, LoadServices PROVE CalmInv'
<1>1. step = "services" /\ states' = states /\ UNCHANGED <<tables, request>>
  BY LoadServicesFacts DEF LoadServices
<1> SUFFICES ASSUME calm' PROVE (Quiet /\ LoadedRight /\ RetiringRight /\ JudgingRight /\ PartsAreTrue)'
  BY DEF CalmInv
<1>2. /\ step' = "sweep" /\ cycle'.part = "services" /\ cycle'.names = EnabledNames(services) /\ cycle'.off = {}
      /\ calm' = calm /\ judged' = judged
  BY LoadServicesFacts
<1>3. Quiet /\ PartsAreTrue BY <1>2 DEF CalmInv
<1>4. Place = "services" /\ Place' = "sweep" BY <1>1, <1>2 DEF Place, InDetour
<1>5. ~In("hosts") /\ ~In("hosts")' BY <1>2, <1>4 DEF In, Scan
<1>6. LoadedRight' BY <1>1, <1>2, <1>5 DEF LoadedRight, tables
<1>7. RetiringRight' /\ JudgingRight' BY <1>2, <1>4 DEF RetiringRight, JudgingRight
<1>8. PartIsTrue("hosts")' BY <1>1, <1>2, <1>3, <1>5, PartStays DEF PartsAreTrue
<1>9. PartsAreTrue' BY <1>2, <1>8 DEF PartsAreTrue
<1> QED BY <1>1, <1>3, <1>6, <1>7, <1>9, QuietStays

LEMMA CalmReconcile ==
  ASSUME RegTypes, CalmInv, Reconcile PROVE CalmInv'
<1>1. UNCHANGED <<tables, request, calm, states, judged>> BY ReconcileFacts
<1>2. step \in {"files", "write"} /\ step' \in {"files", "write", "idle"} BY ReconcileFacts
<1> SUFFICES ASSUME calm' PROVE (Quiet /\ LoadedRight /\ RetiringRight /\ JudgingRight /\ PartsAreTrue)'
  BY DEF CalmInv
<1>3. Quiet /\ PartsAreTrue BY <1>1 DEF CalmInv
<1>4. Place \in {"files", "write"} /\ Place' \in {"files", "write", "idle"} BY <1>2 DEF Place, InDetour
<1>5. \A p : ~In(p) /\ ~In(p)' BY <1>4 DEF In, Scan
<1>6. PartIsTrue("hosts") /\ PartIsTrue("services") BY <1>2, <1>3, <1>5 DEF PartsAreTrue
<1>7. PartIsTrue("hosts")' /\ PartIsTrue("services")' BY <1>1, <1>6, PartStays
<1>8. LoadedRight' BY <1>5 DEF LoadedRight
<1>9. RetiringRight' /\ JudgingRight' BY <1>2, <1>4 DEF RetiringRight, JudgingRight
<1>10. PartsAreTrue' BY <1>7 DEF PartsAreTrue
<1> QED BY <1>1, <1>3, <1>8, <1>9, <1>10, QuietStays

LEMMA CalmNext ==
  RegTypes /\ CalmInv /\ [RegistryNext]_registryVars => CalmInv'
<1> SUFFICES ASSUME RegTypes, CalmInv, [RegistryNext]_registryVars, calm' PROVE CalmInv'
  BY DEF CalmInv
<1>1. CASE LoadHosts BY <1>1, CalmLoadHosts
<1>2. CASE RetireSignal \/ DropRetired \/ SweepUnmonitored \/ AskPrometheus \/ TakeSignal
  <2>1. calm
    BY <1>2 DEF RetireSignal, DropRetired, SweepUnmonitored, AskPrometheus, TakeSignal, registryRest
  <2> QED BY <1>2, <2>1, CalmRetire, CalmDrop, CalmSweep, CalmAsk, CalmTake
<1>3. CASE EraseRow \/ SaveEntry \/ SendMessage BY <1>3, CalmDetour
<1>4. CASE LoadServices BY <1>4, CalmLoadServices
<1>5. CASE Reconcile BY <1>5, CalmReconcile
<1>6. CASE Asks BY <1>6, AskShrinks
<1>7. CASE RestartColor BY <1>7, RestartFacts
<1>8. CASE UNCHANGED registryVars
  <2>1. Place' = Place /\ WatchedNow' = WatchedNow BY <1>8 DEF registryVars, Place, WatchedNow
  <2>2. \A p : (In(p)' <=> In(p)) /\ (PartIsTrue(p)' <=> PartIsTrue(p))
    BY <1>8, <2>1 DEF registryVars, In, PartIsTrue, Shown
  <2>3. Quiet' = Quiet /\ LoadedRight' = LoadedRight /\ RetiringRight' = RetiringRight
    BY <1>8, <2>1, <2>2 DEF registryVars, Quiet, LoadedRight, RetiringRight, HostsAreLoaded
  <2>4. JudgingRight' = JudgingRight /\ PartsAreTrue' = PartsAreTrue
    BY <1>8, <2>1, <2>2 DEF registryVars, JudgingRight, PartsAreTrue, SeenOrDue, Shown
  <2> QED BY <1>8, <2>3, <2>4 DEF registryVars, CalmInv
<1> QED BY <1>1, <1>2, <1>3, <1>4, <1>5, <1>6, <1>7, <1>8, RegNextCases DEF Cycle

LEMMA StatusInvariant == RegistrySpec => [](RegTypes /\ RowsAreKnown /\ CalmInv)
<1>1. RegistryInit => RegTypes /\ RowsAreKnown /\ CalmInv
  BY RegistryTypesInit, RowsInit DEF CalmInv, RegistryInit
<1>2. RegTypes /\ RowsAreKnown /\ CalmInv /\ [RegistryNext]_registryVars => (RegTypes /\ RowsAreKnown /\ CalmInv)'
  BY RegistryTypesNext, RowsNext, CalmNext
<1> QED BY <1>1, <1>2, PTL DEF RegistrySpec

(* After a cycle no request disturbed, the status page has an entry of     *)
(* every monitored signal that is on and was seen, and no other, for any   *)
(* registry and any answers of Prometheus (evaluate_hosts,                 *)
(* disabled_signals, _discard_unmonitored_states, _clear_alert_state).     *)
THEOREM StatusPageIsTrue == RegistrySpec => []StatusIsTrue
<1>1. RegTypes /\ RowsAreKnown /\ CalmInv => StatusIsTrue
  <2> SUFFICES ASSUME RegTypes, RowsAreKnown, CalmInv, step = "idle", calm
               PROVE  /\ DOMAIN states \subseteq WatchedNow
                      /\ DOMAIN states \subseteq judged
                      /\ DOMAIN saved \ strays \subseteq DOMAIN states
    BY DEF StatusIsTrue, WatchedNow
  <2>1. Place = "idle" BY DEF Place, InDetour
  <2>2. Quiet /\ PartIsTrue("hosts") /\ PartIsTrue("services")
    BY <2>1 DEF CalmInv, PartsAreTrue, In, Scan
  <2>3. DOMAIN states \subseteq HostKeys \cup ServiceKeys BY DEF RegTypes, CycleTypes, Keys
  <2>4. \A c \in Near : ~Losing(c) BY <2>2, NoRequestIs DEF Quiet, Losing, Handlers
  <2> QED BY <2>2, <2>3, <2>4, KeyKinds DEF PartIsTrue, Shown, RowsAreKnown, Known
<1> QED BY <1>1, StatusInvariant, PTL
-------------------------------------------------------------------------------
(* The targets files. *)
Ops == {"hosts", "services"}

LEMMA SnapshotKinds ==
  /\ \A op \in Ops : DOMAIN Snapshot(op) = KindsOf(op) /\ KindsOf(op) \subseteq Kinds
  /\ \A op \in Ops : \A f \in KindsOf(op) : Snapshot(op)[f] = Rendered[f]
  /\ DOMAIN Rendered = Kinds /\ KindsOf("hosts") \cap KindsOf("services") = {}
  /\ Kinds = KindsOf("hosts") \cup KindsOf("services")
<1>1. DOMAIN HostTargets(hosts) = {"node", "gpu"} /\ DOMAIN ServiceTargets(services) = {"service"}
  BY DEF HostTargets, ServiceTargets
<1>2. PICK m, n : m = HostTargets(hosts) /\ n = ServiceTargets(services) OBVIOUS
<1>3. DOMAIN Over(m, n) = DOMAIN m \cup DOMAIN n
      /\ \A x \in DOMAIN m \cup DOMAIN n : Over(m, n)[x] = IF x \in DOMAIN m THEN m[x] ELSE n[x]
  BY DEF Over
<1>4. Rendered = Over(m, n) /\ Snapshot("hosts") = m /\ Snapshot("services") = n
  BY <1>2 DEF Rendered, Snapshot
<1> QED BY <1>1, <1>2, <1>3, <1>4 DEF Ops, KindsOf, Kinds

LEMMA RenderedStays ==
  /\ UNCHANGED hosts => \A f \in KindsOf("hosts") : Rendered'[f] = Rendered[f]
  /\ UNCHANGED services => \A f \in KindsOf("services") : Rendered'[f] = Rendered[f]
<1>1. \A f \in {"node", "gpu"} : Rendered[f] = HostTargets(hosts)[f]
  BY SnapshotKinds DEF Ops, KindsOf, Snapshot
<1>2. \A f \in {"service"} : Rendered[f] = ServiceTargets(services)[f]
  BY SnapshotKinds DEF Ops, KindsOf, Snapshot
<1>3. (\A f \in {"node", "gpu"} : Rendered[f] = HostTargets(hosts)[f])' BY <1>1, PTL
<1>4. (\A f \in {"service"} : Rendered[f] = ServiceTargets(services)[f])' BY <1>2, PTL
<1>5. UNCHANGED hosts => HostTargets(hosts)' = HostTargets(hosts) OBVIOUS
<1>6. UNCHANGED services => ServiceTargets(services)' = ServiceTargets(services) OBVIOUS
<1> QED BY <1>1, <1>2, <1>3, <1>4, <1>5, <1>6 DEF KindsOf

FileInv == LockInv /\ WriterInv /\ FilesInv

(* A step that writes no file. *)
LEMMA NoWrite ==
  ASSUME TableTypes, FileInv, files' = files, lock' = lock, drift \subseteq drift',
         \A d \in Handlers : /\ request'[d].stage = "write" <=> request[d].stage = "write"
                             /\ request[d].stage = "write" => request'[d] = request[d],
         step' = "write" <=> step = "write",
         step = "write" => cycle' = cycle /\ (calm' => calm /\ UNCHANGED tables),
         \A f \in Kinds : \/ f \in drift'
                          \/ \E e \in Handlers : Underway(e, f, ToRead)'
                          \/ /\ Rendered'[f] = Rendered[f]
                             /\ \A e \in Handlers : ~Underway(e, f, ToRead)
  PROVE  FileInv'
<1>1. LockInv' BY DEF FileInv, LockInv
<1>2. ASSUME NEW content, NEW f \in Kinds, NEW c, Fresh(content, f, c), c \in Handlers => request[c].stage = "write"
      PROVE  f \in drift' \/ content[f] = Rendered'[f] \/ \E d \in Handlers \ {c} : Underway(d, f, ToRead)'
  <2>1. CASE \E e \in Handlers : Underway(e, f, ToRead)'
    <3>1. PICK e \in Handlers : Underway(e, f, ToRead)' BY <2>1
    <3>2. e # c BY <1>2, <3>1 DEF Underway, ToRead
    <3> QED BY <3>1, <3>2
  <2> QED BY <1>2, <2>1 DEF Fresh
<1>3. \A op : KindsOf(op) \subseteq Kinds BY DEF KindsOf, Kinds
<1>4. WriterInv'
  <2>1. ASSUME NEW c \in Handlers, request'[c].stage = "write"
        PROVE  /\ DOMAIN request'[c].content = KindsOf(request'[c].op)
               /\ \A f \in DOMAIN request'[c].content : Fresh(request[c].content, f, c)'
    <3>1. request'[c] = request[c] /\ request[c].stage = "write" BY <2>1
    <3>2. /\ DOMAIN request[c].content = KindsOf(request[c].op)
          /\ \A f \in DOMAIN request[c].content : Fresh(request[c].content, f, c)
      BY <3>1 DEF FileInv, WriterInv
    <3>3. ASSUME NEW f \in DOMAIN request[c].content
          PROVE  \/ f \in drift' \/ request[c].content[f] = Rendered'[f]
                 \/ \E d \in Handlers \ {c} : Underway(d, f, ToRead)'
      BY <1>2, <1>3, <3>1, <3>2
    <3> QED BY <3>1, <3>2, <3>3 DEF Fresh
  <2>2. ASSUME step' = "write"
        PROVE  /\ DOMAIN cycle'.content = KindsOf(cycle'.part)
               /\ \A f \in DOMAIN cycle'.content : Fresh(cycle.content, f, "cycle")'
               /\ calm' => cycle'.content = Snapshot(cycle.part)'
    <3>1. cycle' = cycle /\ step = "write" /\ (calm' => calm /\ UNCHANGED tables) BY <2>2
    <3>2. /\ DOMAIN cycle.content = KindsOf(cycle.part)
          /\ \A f \in DOMAIN cycle.content : Fresh(cycle.content, f, "cycle")
          /\ calm => cycle.content = Snapshot(cycle.part)
      BY <3>1 DEF FileInv, WriterInv
    <3>3. "cycle" \notin Handlers BY RegistryAssumption
    <3>4. ASSUME NEW f \in DOMAIN cycle.content
          PROVE  \/ f \in drift' \/ cycle.content[f] = Rendered'[f]
                 \/ \E d \in Handlers \ {"cycle"} : Underway(d, f, ToRead)'
      BY <1>2, <1>3, <3>2, <3>3
    <3>5. calm' => cycle'.content = Snapshot(cycle.part)' BY <3>1, <3>2 DEF Snapshot, tables
    <3> QED BY <3>1, <3>2, <3>4, <3>5 DEF Fresh
  <2> QED BY <2>1, <2>2 DEF WriterInv
<1>5. FilesInv'
  <2> SUFFICES ASSUME NEW f \in Kinds
               PROVE  f \in drift' \/ files'[f] = Rendered'[f]
                      \/ \E c \in Handlers : Underway(c, f, ToRead \cup {"write"})'
    BY DEF FilesInv
  <2>1. CASE \E e \in Handlers : Underway(e, f, ToRead)' BY <2>1 DEF Underway
  <2>2. CASE Rendered'[f] = Rendered[f] /\ \A e \in Handlers : ~Underway(e, f, ToRead)
    <3>1. CASE \E c \in Handlers : Underway(c, f, ToRead \cup {"write"})
      <4>1. PICK c \in Handlers : request[c].stage = "write" /\ f \in KindsOf(request[c].op)
        BY <2>2, <3>1 DEF Underway
      <4>2. request'[c] = request[c] BY <4>1
      <4> QED BY <4>1, <4>2 DEF Underway
    <3> QED BY <2>2, <3>1 DEF FileInv, FilesInv
  <2> QED BY <2>1, <2>2
<1> QED BY <1>1, <1>4, <1>5 DEF FileInv

LEMMA RequestMoves ==
  ASSUME TableTypes, FileInv, NEW c \in Handlers, NEW r, Moves(c, r),
         request[c].stage # "write", r.stage # "write",
         UNCHANGED <<files, lock, step, cycle>>, calm' = FALSE, drift \subseteq drift',
         \A f \in Kinds : \/ f \in drift'
                          \/ f \in KindsOf(r.op) /\ r.stage \in ToRead
                          \/ Rendered'[f] = Rendered[f] /\ ~Underway(c, f, ToRead)
  PROVE  FileInv'
<1>1. request'[c] = r /\ \A d \in Handlers \ {c} : request'[d] = request[d] BY MovesFacts
<1>2. \A d \in Handlers : /\ request'[d].stage = "write" <=> request[d].stage = "write"
                          /\ request[d].stage = "write" => request'[d] = request[d]
  BY <1>1
<1>3. ASSUME NEW f \in Kinds
      PROVE  \/ f \in drift'
             \/ \E e \in Handlers : Underway(e, f, ToRead)'
             \/ /\ Rendered'[f] = Rendered[f]
                /\ \A e \in Handlers : ~Underway(e, f, ToRead)
  <2>1. CASE f \in KindsOf(r.op) /\ r.stage \in ToRead
    <3>1. Underway(c, f, ToRead)' BY <1>1, <2>1 DEF Underway, KindsOf, ToRead
    <3> QED BY <3>1
  <2>2. CASE Rendered'[f] = Rendered[f] /\ ~Underway(c, f, ToRead)
    <3>1. ASSUME NEW e \in Handlers, Underway(e, f, ToRead) PROVE Underway(e, f, ToRead)'
      <4>1. request'[e] = request[e] BY <1>1, <2>2, <3>1
      <4> QED BY <3>1, <4>1 DEF Underway, KindsOf, ToRead
    <3> QED BY <2>2, <3>1
  <2> QED BY <2>1, <2>2
<1> QED BY <1>2, <1>3, NoWrite

LEMMA TablesStay ==
  ASSUME UNCHANGED <<hosts, services>> PROVE \A f \in Kinds : Rendered'[f] = Rendered[f]
BY RenderedStays, SnapshotKinds

LEMMA FilesOfSaves ==
  ASSUME RegTypes, FileInv, NEW c \in Handlers,
         \/ \E h \in Hosts, b \in HostBodies : SaveHost(c, h, b)
         \/ \E i \in Slots, n \in ServiceNames, on \in BOOLEAN : SaveService(c, i, n, on)
  PROVE  FileInv'
<1>1. CASE \E h \in Hosts, b \in HostBodies : SaveHost(c, h, b)
  <2>1. PICK h \in Hosts, b \in HostBodies : SaveHost(c, h, b) BY <1>1
  <2>2. /\ Beginning(c) /\ UNCHANGED <<step, cycle>>
        /\ UNCHANGED <<services, settings, stateVars, files, lock, drift>>
        /\ \E r : Moves(c, r) /\ r.op = "hosts" /\ r.stage \in {"refresh", "sync"}
    BY <2>1, SaveHostFacts
  <2>3. PICK r : Moves(c, r) /\ r.op = "hosts" /\ r.stage \in {"refresh", "sync"} BY <2>2
  <2>4. request[c].stage = "none" /\ calm' = FALSE BY <2>2, NoRequestIs DEF Beginning
  <2>5. \A f \in KindsOf("services") : Rendered'[f] = Rendered[f] BY <2>2, RenderedStays
  <2>6. \A f \in Kinds : \/ f \in KindsOf(r.op) /\ r.stage \in ToRead
                         \/ Rendered'[f] = Rendered[f] /\ ~Underway(c, f, ToRead)
    BY <2>3, <2>4, <2>5, SnapshotKinds DEF Underway, ToRead
  <2>7. TableTypes /\ UNCHANGED <<files, lock, step, cycle, drift>> BY <2>2 DEF RegTypes
  <2> QED BY <2>3, <2>4, <2>6, <2>7, RequestMoves
<1>2. CASE \E i \in Slots, n \in ServiceNames, on \in BOOLEAN : SaveService(c, i, n, on)
  <2>1. PICK i \in Slots, n \in ServiceNames, on \in BOOLEAN : SaveService(c, i, n, on) BY <1>2
  <2>2. /\ Beginning(c) /\ UNCHANGED <<step, cycle>>
        /\ UNCHANGED <<hosts, settings, stateVars, files, lock, drift>>
        /\ \E r : Moves(c, r) /\ r.op = "services" /\ r.stage \in {"refresh", "sync"}
    BY <2>1, SaveServiceFacts
  <2>3. PICK r : Moves(c, r) /\ r.op = "services" /\ r.stage \in {"refresh", "sync"} BY <2>2
  <2>4. request[c].stage = "none" /\ calm' = FALSE BY <2>2, NoRequestIs DEF Beginning
  <2>5. \A f \in KindsOf("hosts") : Rendered'[f] = Rendered[f] BY <2>2, RenderedStays
  <2>6. \A f \in Kinds : \/ f \in KindsOf(r.op) /\ r.stage \in ToRead
                         \/ Rendered'[f] = Rendered[f] /\ ~Underway(c, f, ToRead)
    BY <2>3, <2>4, <2>5, SnapshotKinds DEF Underway, ToRead
  <2>7. TableTypes /\ UNCHANGED <<files, lock, step, cycle, drift>> BY <2>2 DEF RegTypes
  <2> QED BY <2>3, <2>4, <2>6, <2>7, RequestMoves
<1> QED BY <1>1, <1>2

LEMMA FilesOfRefresh ==
  ASSUME RegTypes, FileInv, NEW c \in Handlers, RefreshHost(c) \/ RefreshService(c)
  PROVE  FileInv'
<1>1. /\ request[c].stage = "refresh"
      /\ UNCHANGED <<tables, HandlerRest, asked, accidents>> /\ calm' = FALSE
      /\ \E r : Moves(c, r) /\ r.op = request[c].op /\ r.stage \in {"sync", "forget"}
  BY RefreshHostFacts, RefreshServiceFacts
<1>2. PICK r : Moves(c, r) /\ r.op = request[c].op /\ r.stage \in {"sync", "forget"} BY <1>1
<1>3. \A f \in Kinds : Rendered'[f] = Rendered[f] BY <1>1, TablesStay DEF tables
<1>4. \A f \in Kinds : \/ f \in KindsOf(r.op) /\ r.stage \in ToRead
                       \/ Rendered'[f] = Rendered[f] /\ ~Underway(c, f, ToRead)
  BY <1>2, <1>3 DEF Underway, ToRead
<1>5. TableTypes /\ UNCHANGED <<files, lock, step, cycle, drift>> BY <1>1 DEF RegTypes, HandlerRest
<1> QED BY <1>1, <1>2, <1>4, <1>5, RequestMoves

LEMMA FilesOfDelete ==
  ASSUME RegTypes, FileInv, NEW c \in Handlers,
         (\E h \in Hosts : DeleteHost(c, h)) \/ (\E i \in Slots : DeleteService(c, i))
  PROVE  FileInv'
<1>1. /\ Beginning(c) /\ UNCHANGED <<tables, HandlerRest>>
      /\ \E r : Moves(c, r) /\ r.stage = "remove"
  BY DeleteFacts
<1>2. PICK r : Moves(c, r) /\ r.stage = "remove" BY <1>1
<1>3. request[c].stage = "none" /\ calm' = FALSE BY <1>1, NoRequestIs DEF Beginning
<1>4. \A f \in Kinds : Rendered'[f] = Rendered[f] BY <1>1, TablesStay DEF tables
<1>5. \A f \in Kinds : Rendered'[f] = Rendered[f] /\ ~Underway(c, f, ToRead)
  BY <1>3, <1>4 DEF Underway, ToRead
<1>6. TableTypes /\ UNCHANGED <<files, lock, step, cycle, drift>> BY <1>1 DEF RegTypes, HandlerRest
<1> QED BY <1>2, <1>3, <1>5, <1>6, RequestMoves

LEMMA FilesOfForget ==
  ASSUME RegTypes, FileInv, NEW c \in Handlers, ForgetStates(c)
  PROVE  FileInv'
<1>1. /\ request[c].stage = "forget" /\ UNCHANGED <<tables, files, lock, step, cycle>> /\ calm' = FALSE
      /\ \E r : /\ Moves(c, r)
                /\ \/ r.stage = "sync" /\ r.op = request[c].op /\ UNCHANGED drift
                   \/ r.stage = "none" /\ drift' = drift \cup DOMAIN files
  BY ForgetFacts
<1>2. PICK r : /\ Moves(c, r)
               /\ \/ r.stage = "sync" /\ r.op = request[c].op /\ UNCHANGED drift
                  \/ r.stage = "none" /\ drift' = drift \cup DOMAIN files
  BY <1>1
<1>3. \A f \in Kinds : Rendered'[f] = Rendered[f] BY <1>1, TablesStay DEF tables
<1>4. DOMAIN files = Kinds BY DEF FileInv, LockInv
<1>5. \A f \in Kinds : \/ f \in drift'
                       \/ f \in KindsOf(r.op) /\ r.stage \in ToRead
                       \/ Rendered'[f] = Rendered[f] /\ ~Underway(c, f, ToRead)
  BY <1>2, <1>3, <1>4 DEF Underway, ToRead
<1>6. TableTypes /\ UNCHANGED <<files, lock, step, cycle>> /\ drift \subseteq drift' BY <1>1, <1>2 DEF RegTypes
<1> QED BY <1>1, <1>2, <1>5, <1>6, RequestMoves

LEMMA FilesOfRemove ==
  ASSUME RegTypes, FileInv, NEW c \in Handlers, RemoveRow(c)
  PROVE  FileInv'
<1>1. /\ request[c].stage \in {"remove", "lost"} /\ calm' = FALSE
      /\ UNCHANGED <<files, lock, step, cycle, drift>> /\ TableTypes
  BY RemoveRowFacts DEF RegTypes
<1>2. CASE NotRemoved(c)
  <2>1. Moves(c, NoRequest) /\ UNCHANGED <<hosts, services>> BY <1>2 DEF NotRemoved
  <2>2. \A f \in Kinds : Rendered'[f] = Rendered[f] /\ ~Underway(c, f, ToRead)
    BY <1>1, <2>1, TablesStay DEF Underway, ToRead
  <2> QED BY <1>1, <2>1, <2>2, NoRequestIs, RequestMoves
<1>3. CASE Removed(c)
  <2> DEFINE op == request[c].op
  <2>1. /\ op \in Ops /\ request'[c].stage = "sync" /\ request'[c].op = op
        /\ \A d \in Handlers \ {c} : Overtaken(c, d)
    BY <1>3 DEF Removed, Ops
  <2>2. \A f \in Kinds \ KindsOf(op) : Rendered'[f] = Rendered[f]
    BY <1>3, RenderedStays, SnapshotKinds DEF Removed
  <2>3. \A d \in Handlers : /\ request'[d].stage = "write" <=> request[d].stage = "write"
                            /\ request[d].stage = "write" => request'[d] = request[d]
    BY <1>1, <2>1, NoRequestIs DEF Overtaken
  <2>4. ASSUME NEW f \in Kinds
        PROVE  \/ f \in drift'
               \/ \E e \in Handlers : Underway(e, f, ToRead)'
               \/ /\ Rendered'[f] = Rendered[f]
                  /\ \A e \in Handlers : ~Underway(e, f, ToRead)
    <3>1. CASE f \in KindsOf(op)
      <4>1. Underway(c, f, ToRead)' BY <2>1, <3>1 DEF Underway, KindsOf, ToRead
      <4> QED BY <4>1
    <3>2. CASE f \notin KindsOf(op)
      <4>1. ASSUME NEW e \in Handlers, Underway(e, f, ToRead) PROVE Underway(e, f, ToRead)'
        <5>1. e # c BY <1>1, <4>1 DEF Underway, ToRead
        <5>2. Overtaken(c, e) BY <2>1, <5>1
        <5>3. request'[e] = request[e] BY <3>2, <4>1, <5>2 DEF Overtaken, Underway, ToRead
        <5> QED BY <4>1, <5>3 DEF Underway, KindsOf, ToRead
      <4> QED BY <2>2, <3>2, <4>1
    <3> QED BY <3>1, <3>2
  <2> QED BY <1>1, <2>3, <2>4, NoWrite
<1> QED BY <1>2, <1>3, RemoveRowFacts

LEMMA FilesOfCycle ==
  ASSUME RegTypes, FileInv, Cycle, ~Reconcile
  PROVE  FileInv'
<1>1. UNCHANGED <<tables, request, files, lock, drift>> BY CycleFrame
<1>2. step # "write" /\ step' # "write"
  <2>1. CASE LoadHosts BY <2>1 DEF LoadHosts, Goes
  <2>2. CASE RetireSignal
    <3>1. step' \in {"sweep", "erase", "save"} BY <2>2, RetireSignalFacts
    <3> QED BY <2>2, <3>1 DEF RetireSignal
  <2>3. CASE DropRetired BY <2>3, DropRetiredFacts
  <2>4. CASE EraseRow BY <2>4, EraseRowFacts
  <2>5. CASE SweepUnmonitored
    <3>1. step' \in {"erase", "query"} \/ NextPart BY <2>5, SweepFacts
    <3> QED BY <2>5, <3>1, NextPartFacts DEF SweepUnmonitored
  <2>6. CASE AskPrometheus BY <2>6 DEF AskPrometheus, Goes
  <2>7. CASE TakeSignal
    <3>1. step' \in {"save", "work"} \/ NextPart BY <2>7, TakeFacts
    <3> QED BY <2>7, <3>1, NextPartFacts DEF TakeSignal
  <2>8. CASE SaveEntry \/ SendMessage
    <3>1. step \in {"save", "send"} /\ Detours BY <2>8, SaveFacts, SendFacts
    <3>2. Place \in {"drop", "work"} /\ Place' = Place BY <3>1 DEF RegTypes, CycleTypes, Place, InDetour, Detours
    <3> QED BY <3>1, <3>2 DEF Place, InDetour
  <2>9. CASE LoadServices BY <2>9, LoadServicesFacts
  <2> QED BY <2>1, <2>2, <2>3, <2>4, <2>5, <2>6, <2>7, <2>8, <2>9 DEF Cycle
<1>3. \A f \in Kinds : Rendered'[f] = Rendered[f] BY <1>1, TablesStay DEF tables
<1>4. ASSUME NEW f \in Kinds
      PROVE  \/ f \in drift'
             \/ \E e \in Handlers : Underway(e, f, ToRead)'
             \/ /\ Rendered'[f] = Rendered[f]
                /\ \A e \in Handlers : ~Underway(e, f, ToRead)
  <2>1. \A e \in Handlers : Underway(e, f, ToRead)' <=> Underway(e, f, ToRead)
    BY <1>1 DEF Underway, KindsOf, ToRead
  <2> QED BY <1>3, <2>1
<1> QED BY <1>1, <1>2, <1>4, NoWrite DEF RegTypes

Colors == {"here", "there"}
Other(color) == IF color = "here" THEN "there" ELSE "here"

LEMMA Coloring ==
  /\ \A c \in Handlers : Color(c) \in Colors /\ c # "free" /\ c # "cycle"
  /\ \A c \in Handlers : Color(c) = "here" <=> c \in Near
BY RegistryAssumption DEF Color, Colors, Handlers

(* Who writes holds the lock; two writers are of different colors. *)
LEMMA Writers ==
  ASSUME FileInv, NEW color \in Colors, NEW c \in Handlers, request[c].stage = "write"
  PROVE  /\ lock[color] \in {"free", "cycle"} => color # Color(c) /\ Beside(color)
         /\ \A d \in Handlers : d # c /\ lock[color] = d => color # Color(c) /\ Beside(color)
<1>1. lock[Color(c)] = c BY DEF FileInv, LockInv
<1>2. color # Color(c) => Color(c) = Other(color) BY Coloring DEF Colors, Other
<1> QED BY <1>1, <1>2, Coloring DEF Beside, Other

LEMMA FilesOfCycleLock ==
  ASSUME RegTypes, FileInv, Reconcile, step = "files", step' = "write",
         cycle'.part = cycle.part, cycle'.content = Snapshot(cycle.part),
         Acquire("here", "cycle", Snapshot(cycle.part))
  PROVE  FileInv'
<1>1. UNCHANGED <<tables, request, calm>> BY ReconcileFacts
<1> DEFINE content == Snapshot(cycle.part)
<1>2. /\ lock["here"] = "free" /\ lock' = [lock EXCEPT !["here"] = "cycle"]
      /\ drift' = IF Beside("here") THEN drift \cup DOMAIN content ELSE drift
      /\ files' = files
  BY DEF Acquire, TakeLock
<1>3. \A f \in Kinds : Rendered'[f] = Rendered[f] BY <1>1, TablesStay DEF tables
<1>4. cycle.part \in Ops BY DEF RegTypes, CycleTypes, Ops
<1>5. DOMAIN lock = Colors BY DEF RegTypes, TableTypes, Colors
<1>6. LockInv'
  <2>1. \A c \in Handlers : lock'[Color(c)] = c <=> request'[c].stage = "write"
    BY <1>1, <1>2, <1>5, Coloring DEF FileInv, LockInv
  <2> QED BY <1>2, <1>5, <2>1 DEF FileInv, LockInv, Colors
<1>7. \A op : KindsOf(op) \subseteq Kinds BY DEF KindsOf, Kinds
<1>8. \A d \in Handlers, f \in Kinds : Underway(d, f, ToRead)' <=> Underway(d, f, ToRead)
  BY <1>1 DEF Underway, KindsOf, ToRead
<1>9. WriterInv'
  <2>1. ASSUME NEW c \in Handlers, request'[c].stage = "write"
        PROVE  /\ DOMAIN request'[c].content = KindsOf(request'[c].op)
               /\ \A f \in DOMAIN request'[c].content : Fresh(request[c].content, f, c)'
    <3>1. /\ DOMAIN request[c].content = KindsOf(request[c].op)
          /\ \A f \in DOMAIN request[c].content : Fresh(request[c].content, f, c)
      BY <1>1, <2>1 DEF FileInv, WriterInv
    <3> QED BY <1>1, <1>2, <1>3, <1>7, <1>8, <3>1 DEF Fresh
  <2>2. /\ DOMAIN cycle'.content = KindsOf(cycle'.part)
        /\ \A f \in DOMAIN cycle'.content : cycle'.content[f] = Rendered'[f]
        /\ cycle'.content = Snapshot(cycle.part)'
    <3>1. Snapshot(cycle.part)' = Snapshot(cycle.part) BY <1>1 DEF Snapshot, tables
    <3> QED BY <1>3, <1>4, <3>1, SnapshotKinds
  <2> QED BY <2>1, <2>2 DEF WriterInv, Fresh
<1>10. FilesInv'
  <2>1. \A c \in Handlers, f \in Kinds : Underway(c, f, ToRead \cup {"write"})' <=> Underway(c, f, ToRead \cup {"write"})
    BY <1>1 DEF Underway, KindsOf, ToRead
  <2> QED BY <1>2, <1>3, <2>1 DEF FileInv, FilesInv
<1> QED BY <1>6, <1>9, <1>10 DEF FileInv

LEMMA FilesOfStart ==
  ASSUME RegTypes, FileInv, NEW c \in Handlers, NEW r, Moves(c, r),
         request[c].op \in Ops, request[c].stage = "sync", r.stage = "write", r.op = request[c].op,
         r.content = Snapshot(request[c].op), Acquire(Color(c), c, Snapshot(request[c].op)),
         UNCHANGED <<tables, step, cycle>>, calm' = FALSE
  PROVE  FileInv'
<1> DEFINE content == Snapshot(request[c].op)
           color == Color(c)
<1>1. request'[c] = r /\ \A d \in Handlers \ {c} : request'[d] = request[d] BY MovesFacts DEF RegTypes
<1>2. /\ lock[color] = "free" /\ lock' = [lock EXCEPT ![color] = c]
      /\ drift' = IF Beside(color) THEN drift \cup DOMAIN content ELSE drift
      /\ files' = files
  BY DEF Acquire, TakeLock
<1>3. \A f \in Kinds : Rendered'[f] = Rendered[f] BY TablesStay DEF tables
<1>4. DOMAIN lock = Colors /\ color \in Colors BY Coloring DEF RegTypes, TableTypes, Colors
<1>5. DOMAIN content = KindsOf(r.op) /\ (\A f \in DOMAIN content : content[f] = Rendered[f]) BY SnapshotKinds
<1>6. \A op : KindsOf(op) \subseteq Kinds BY DEF KindsOf, Kinds
<1> HIDE DEF content
<1>7. LockInv'
  <2>1. ASSUME NEW d \in Handlers PROVE lock'[Color(d)] = d <=> request'[d].stage = "write"
    <3>1. CASE d = c BY <1>1, <1>2, <1>4, <3>1
    <3>2. CASE d # c
      <4>1. lock[Color(d)] = d <=> request[d].stage = "write" BY DEF FileInv, LockInv
      <4> QED BY <1>1, <1>2, <1>4, <3>2, <4>1, Coloring
    <3> QED BY <3>1, <3>2
  <2> QED BY <1>2, <1>4, <2>1, Coloring DEF FileInv, LockInv, Colors
<1>8. \A d \in Handlers \ {c}, f \in Kinds : Underway(d, f, ToRead)' <=> Underway(d, f, ToRead)
  BY <1>1 DEF Underway, KindsOf, ToRead
<1>9. ASSUME NEW b, NEW f \in Kinds, NEW who, Fresh(b, f, who), Beside(color)
      PROVE  f \in drift' \/ b[f] = Rendered'[f] \/ \E d \in Handlers \ {who} : Underway(d, f, ToRead)'
  <2>1. CASE Underway(c, f, ToRead) BY <1>2, <1>5, <1>9, <2>1 DEF Underway
  <2>2. CASE \E d \in Handlers \ {who} : Underway(d, f, ToRead) /\ d # c BY <1>8, <2>2
  <2> QED BY <1>2, <1>3, <1>9, <2>1, <2>2 DEF Fresh
<1>10. WriterInv'
  <2>1. ASSUME NEW d \in Handlers, request'[d].stage = "write"
        PROVE  /\ DOMAIN request'[d].content = KindsOf(request'[d].op)
               /\ \A f \in DOMAIN request'[d].content : Fresh(request[d].content, f, d)'
    <3>1. CASE d = c BY <1>1, <1>3, <1>5, <1>6, <3>1 DEF Fresh, content
    <3>2. CASE d # c
      <4>1. request'[d] = request[d] /\ request[d].stage = "write" BY <1>1, <2>1, <3>2
      <4>2. /\ DOMAIN request[d].content = KindsOf(request[d].op)
            /\ \A f \in DOMAIN request[d].content : Fresh(request[d].content, f, d)
        BY <4>1 DEF FileInv, WriterInv
      <4>3. Beside(color) BY <1>2, <1>4, <4>1, Writers
      <4>4. ASSUME NEW f \in DOMAIN request[d].content
            PROVE  \/ f \in drift' \/ request[d].content[f] = Rendered'[f]
                   \/ \E e \in Handlers \ {d} : Underway(e, f, ToRead)'
        BY <1>6, <1>9, <4>2, <4>3
      <4> QED BY <4>1, <4>2, <4>4 DEF Fresh
    <3> QED BY <3>1, <3>2
  <2>2. ASSUME step' = "write"
        PROVE  /\ DOMAIN cycle'.content = KindsOf(cycle'.part)
               /\ \A f \in DOMAIN cycle'.content : Fresh(cycle.content, f, "cycle")'
    <3>1. /\ DOMAIN cycle.content = KindsOf(cycle.part)
          /\ \A f \in DOMAIN cycle.content : Fresh(cycle.content, f, "cycle")
      BY <2>2 DEF FileInv, WriterInv
    <3>2. lock["here"] = "cycle" BY <2>2 DEF FileInv, LockInv
    <3>3. Beside(color) BY <1>2, <1>4, <3>2 DEF Beside, Colors
    <3>4. ASSUME NEW f \in DOMAIN cycle.content
          PROVE  \/ f \in drift' \/ cycle.content[f] = Rendered'[f]
                 \/ \E e \in Handlers \ {"cycle"} : Underway(e, f, ToRead)'
      BY <1>6, <1>9, <3>1, <3>3
    <3> QED BY <3>1, <3>4 DEF Fresh
  <2> QED BY <2>1, <2>2 DEF WriterInv
<1>11. FilesInv'
  <2>1. ASSUME NEW d \in Handlers, NEW f \in Kinds, Underway(d, f, ToRead \cup {"write"})
        PROVE  Underway(d, f, ToRead \cup {"write"})'
    BY <1>1, <2>1 DEF Underway, KindsOf, ToRead
  <2> QED BY <1>2, <1>3, <2>1 DEF FileInv, FilesInv
<1> QED BY <1>7, <1>10, <1>11 DEF FileInv

(* What a write leaves in the files, and which of them it sets right. *)
LEMMA WriteFacts ==
  ASSUME DOMAIN files = Kinds, NEW color, NEW content, DOMAIN content \subseteq Kinds, NEW current,
         Write(color, content, current)
  PROVE  /\ lock' = [lock EXCEPT ![color] = "free"] /\ DOMAIN files' = Kinds
         /\ \A f \in Kinds \ DOMAIN content : files'[f] = files[f] /\ (f \in drift => f \in drift')
         /\ \A f \in DOMAIN content :
              f \in drift' \/ (files'[f] = content[f] /\ (f \in drift => current /\ ~Beside(color)))
<1>1. CASE /\ files' = Over(content, files)
           /\ drift' = IF Beside(color) THEN drift \cup DOMAIN content
                       ELSE IF current THEN drift \ DOMAIN content ELSE drift
  <2>1. /\ DOMAIN files' = Kinds
        /\ \A f \in Kinds : files'[f] = IF f \in DOMAIN content THEN content[f] ELSE files[f]
    BY <1>1 DEF Over
  <2> QED BY <1>1, <2>1 DEF Write
<1>2. CASE \E g \in DOMAIN content : files' = Over(Without(content, {g}), files) /\ drift' = drift \cup {g}
  <2>1. PICK g \in DOMAIN content : files' = Over(Without(content, {g}), files) /\ drift' = drift \cup {g}
    BY <1>2
  <2>2. PICK S : S = DOMAIN content \ {g} OBVIOUS
  <2>3. PICK m : m = Restrict(content, S) OBVIOUS
  <2>4. DOMAIN Restrict(content, S) = S /\ (\A f \in S : Restrict(content, S)[f] = content[f])
    BY Restricted
  <2>5. DOMAIN m = S /\ \A f \in S : m[f] = content[f] BY <2>3, <2>4
  <2>6. /\ DOMAIN files' = Kinds
        /\ \A f \in Kinds : files'[f] = IF f \in DOMAIN m THEN m[f] ELSE files[f]
    BY <2>1, <2>2, <2>3, <2>5 DEF Over, Without
  <2> QED BY <2>1, <2>2, <2>5, <2>6 DEF Write
<1> QED BY <1>1, <1>2 DEF Write

LEMMA FilesOfCycleWrite ==
  ASSUME RegTypes, FileInv, Reconcile, step = "write", Write("here", cycle.content, calm), step' # "write"
  PROVE  FileInv'
<1>1. UNCHANGED <<tables, request, calm>> BY ReconcileFacts
<1> DEFINE content == cycle.content
<1>2. /\ DOMAIN content = KindsOf(cycle.part) /\ (\A f \in DOMAIN content : Fresh(content, f, "cycle"))
      /\ calm => content = Snapshot(cycle.part)
  BY DEF FileInv, WriterInv
<1>3. DOMAIN files = Kinds /\ lock["here"] = "cycle" BY DEF FileInv, LockInv
<1>4. \A op : KindsOf(op) \subseteq Kinds BY DEF KindsOf, Kinds
<1> HIDE DEF content
<1>5. /\ lock' = [lock EXCEPT !["here"] = "free"] /\ DOMAIN files' = Kinds
      /\ \A f \in Kinds \ DOMAIN content : files'[f] = files[f] /\ (f \in drift => f \in drift')
      /\ \A f \in DOMAIN content :
           f \in drift' \/ (files'[f] = content[f] /\ (f \in drift => calm /\ ~Beside("here")))
  BY <1>2, <1>3, <1>4, WriteFacts DEF content
<1>6. \A f \in Kinds : Rendered'[f] = Rendered[f] BY <1>1, TablesStay DEF tables
<1>7. DOMAIN lock = Colors BY DEF RegTypes, TableTypes, Colors
<1>8. LockInv'
  <2>1. \A c \in Handlers : lock'[Color(c)] = c <=> request'[c].stage = "write"
    BY <1>1, <1>3, <1>5, <1>7, Coloring DEF FileInv, LockInv
  <2> QED BY <1>5, <1>7, <2>1 DEF FileInv, LockInv, Colors
<1>9. \A d \in Handlers, f \in Kinds : Underway(d, f, ToRead)' <=> Underway(d, f, ToRead)
  BY <1>1 DEF Underway, KindsOf, ToRead
<1>10. WriterInv'
  <2>1. ASSUME NEW d \in Handlers, request'[d].stage = "write"
        PROVE  /\ DOMAIN request'[d].content = KindsOf(request'[d].op)
               /\ \A f \in DOMAIN request'[d].content : Fresh(request[d].content, f, d)'
    <3>1. /\ DOMAIN request[d].content = KindsOf(request[d].op)
          /\ \A f \in DOMAIN request[d].content : Fresh(request[d].content, f, d)
      BY <1>1, <2>1 DEF FileInv, WriterInv
    <3>2. Beside("here") BY <1>1, <1>3, <2>1, Writers DEF Colors
    <3>3. \A f \in Kinds : f \in drift => f \in drift' BY <1>5, <3>2
    <3> QED BY <1>1, <1>4, <1>6, <1>9, <3>1, <3>3 DEF Fresh
  <2> QED BY <2>1 DEF WriterInv
<1>11. FilesInv'
  <2> SUFFICES ASSUME NEW f \in Kinds, f \notin drift'
               PROVE  files'[f] = Rendered'[f] \/ \E c \in Handlers : Underway(c, f, ToRead \cup {"write"})'
    BY DEF FilesInv
  <2>1. \A c \in Handlers : Underway(c, f, ToRead \cup {"write"})' <=> Underway(c, f, ToRead \cup {"write"})
    BY <1>1 DEF Underway, KindsOf, ToRead
  <2>2. CASE f \notin DOMAIN content BY <1>5, <1>6, <2>1, <2>2 DEF FileInv, FilesInv
  <2>3. CASE f \in DOMAIN content
    <3>1. files'[f] = content[f] /\ (f \in drift => calm) BY <1>5, <2>3
    <3>2. cycle.part \in Ops BY DEF RegTypes, CycleTypes, Ops
    <3>3. CASE f \in drift BY <1>2, <1>6, <2>3, <3>1, <3>2, <3>3, SnapshotKinds
    <3>4. CASE content[f] = Rendered[f] BY <1>6, <3>1, <3>4
    <3>5. CASE \E d \in Handlers : Underway(d, f, ToRead) BY <2>1, <3>5 DEF Underway
    <3> QED BY <1>2, <2>3, <3>3, <3>4, <3>5 DEF Fresh
  <2> QED BY <2>2, <2>3
<1> QED BY <1>8, <1>10, <1>11 DEF FileInv

LEMMA FilesOfWrite ==
  ASSUME RegTypes, FileInv, NEW c \in Handlers, Moves(c, NoRequest), request[c].stage = "write",
         Write(Color(c), request[c].content, FALSE), UNCHANGED <<tables, step, cycle>>, calm' = FALSE
  PROVE  FileInv'
<1> DEFINE content == request[c].content
           color == Color(c)
<1>1. request'[c] = NoRequest /\ \A d \in Handlers \ {c} : request'[d] = request[d]
  BY MovesFacts DEF RegTypes
<1>2. /\ DOMAIN content = KindsOf(request[c].op) /\ \A f \in DOMAIN content : Fresh(content, f, c)
  BY DEF FileInv, WriterInv
<1>3. DOMAIN files = Kinds /\ lock[color] = c BY DEF FileInv, LockInv
<1>4. \A op : KindsOf(op) \subseteq Kinds BY DEF KindsOf, Kinds
<1>5. DOMAIN lock = Colors /\ color \in Colors BY Coloring DEF RegTypes, TableTypes, Colors
<1> HIDE DEF content
<1>6. /\ lock' = [lock EXCEPT ![color] = "free"] /\ DOMAIN files' = Kinds
      /\ \A f \in Kinds \ DOMAIN content : files'[f] = files[f] /\ (f \in drift => f \in drift')
      /\ \A f \in DOMAIN content : f \in drift' \/ (files'[f] = content[f] /\ f \notin drift)
  <2>1. Write(color, content, FALSE) /\ DOMAIN content \subseteq Kinds BY <1>2, <1>4 DEF content
  <2>2. \A f \in DOMAIN content :
          f \in drift' \/ (files'[f] = content[f] /\ (f \in drift => FALSE /\ ~Beside(color)))
    BY <1>3, <2>1, WriteFacts
  <2>3. /\ lock' = [lock EXCEPT ![color] = "free"] /\ DOMAIN files' = Kinds
        /\ \A f \in Kinds \ DOMAIN content : files'[f] = files[f] /\ (f \in drift => f \in drift')
    BY <1>3, <2>1, WriteFacts
  <2> QED BY <2>2, <2>3
<1>7. \A f \in Kinds : Rendered'[f] = Rendered[f] BY TablesStay DEF tables
<1>8. drift \cap Kinds \subseteq drift' BY <1>6
<1>9. LockInv'
  <2>1. ASSUME NEW d \in Handlers PROVE lock'[Color(d)] = d <=> request'[d].stage = "write"
    <3>1. CASE d = c BY <1>1, <1>5, <1>6, <3>1, Coloring, NoRequestIs
    <3>2. CASE d # c
      <4>1. lock[Color(d)] = d <=> request[d].stage = "write" BY DEF FileInv, LockInv
      <4> QED BY <1>1, <1>3, <1>5, <1>6, <3>2, <4>1, Coloring
    <3> QED BY <3>1, <3>2
  <2>2. lock'["here"] = "cycle" <=> lock["here"] = "cycle" BY <1>3, <1>5, <1>6, Coloring DEF Colors
  <2> QED BY <1>5, <1>6, <2>1, <2>2 DEF FileInv, LockInv, Colors
<1>10. \A d \in Handlers, f \in Kinds : Underway(d, f, ToRead) => Underway(d, f, ToRead)'
  <2>1. \A f \in Kinds : ~Underway(c, f, ToRead) BY DEF Underway, ToRead
  <2> QED BY <1>1, <2>1 DEF Underway, KindsOf, ToRead
<1>11. WriterInv'
  <2>1. ASSUME NEW d \in Handlers, request'[d].stage = "write"
        PROVE  /\ DOMAIN request'[d].content = KindsOf(request'[d].op)
               /\ \A f \in DOMAIN request'[d].content : Fresh(request[d].content, f, d)'
    <3>1. request'[d] = request[d] BY <1>1, <2>1, NoRequestIs
    <3>2. /\ DOMAIN request[d].content = KindsOf(request[d].op)
          /\ \A f \in DOMAIN request[d].content : Fresh(request[d].content, f, d)
      BY <2>1, <3>1 DEF FileInv, WriterInv
    <3> QED BY <1>4, <1>7, <1>8, <1>10, <3>1, <3>2 DEF Fresh
  <2>2. ASSUME step' = "write"
        PROVE  /\ DOMAIN cycle'.content = KindsOf(cycle'.part)
               /\ \A f \in DOMAIN cycle'.content : Fresh(cycle.content, f, "cycle")'
    <3>1. /\ DOMAIN cycle.content = KindsOf(cycle.part)
          /\ \A f \in DOMAIN cycle.content : Fresh(cycle.content, f, "cycle")
      BY <2>2 DEF FileInv, WriterInv
    <3> QED BY <1>4, <1>7, <1>8, <1>10, <3>1 DEF Fresh
  <2> QED BY <2>1, <2>2 DEF WriterInv
<1>12. FilesInv'
  <2> SUFFICES ASSUME NEW f \in Kinds, f \notin drift'
               PROVE  files'[f] = Rendered'[f] \/ \E d \in Handlers : Underway(d, f, ToRead \cup {"write"})'
    BY DEF FilesInv
  <2>2. CASE f \notin DOMAIN content
    <3>1. ~Underway(c, f, ToRead \cup {"write"}) BY <1>2, <2>2 DEF Underway
    <3>2. \A d \in Handlers : Underway(d, f, ToRead \cup {"write"}) => Underway(d, f, ToRead \cup {"write"})'
      BY <1>1, <3>1 DEF Underway, KindsOf, ToRead
    <3> QED BY <1>6, <1>7, <2>2, <3>2 DEF FileInv, FilesInv
  <2>3. CASE f \in DOMAIN content
    <3>1. files'[f] = content[f] /\ f \notin drift BY <1>6, <2>3
    <3>2. CASE \E d \in Handlers : Underway(d, f, ToRead) BY <1>10, <3>2 DEF Underway
    <3> QED BY <1>2, <1>7, <2>3, <3>1, <3>2 DEF Fresh
  <2> QED BY <2>2, <2>3
<1> QED BY <1>9, <1>11, <1>12 DEF FileInv

LEMMA FilesOfFailure ==
  ASSUME RegTypes, FileInv, NEW c \in Handlers, Moves(c, NoRequest), request[c].stage = "sync",
         request[c].op \in Ops, UNCHANGED <<tables, files, lock, step, cycle>>,
         drift' = drift \cup DOMAIN Snapshot(request[c].op), calm' = FALSE
  PROVE  FileInv'
<1>1. \A f \in Kinds : Rendered'[f] = Rendered[f] BY TablesStay DEF tables
<1>2. DOMAIN Snapshot(request[c].op) = KindsOf(request[c].op) BY SnapshotKinds
<1>3. \A f \in Kinds : f \in drift' \/ (Rendered'[f] = Rendered[f] /\ ~Underway(c, f, ToRead))
  BY <1>1, <1>2 DEF Underway
<1> QED BY <1>3, NoRequestIs, RequestMoves DEF RegTypes

LEMMA FilesOfRestart ==
  ASSUME RegTypes, FileInv, RestartColor PROVE FileInv'
<1>1. /\ UNCHANGED tables /\ step' = "idle" /\ cycle' = NoCycle /\ lock' = [lock EXCEPT !.here = "free"]
      /\ files' = Rendered /\ drift' = IF Beside("here") THEN DOMAIN files ELSE {}
      /\ \A d \in Handlers : request'[d] = IF d \in Near THEN NoRequest ELSE request[d]
  BY RestartFacts
<1>2. DOMAIN lock = Colors BY DEF RegTypes, TableTypes, Colors
<1>3. DOMAIN files = Kinds /\ DOMAIN Rendered = Kinds BY SnapshotKinds DEF FileInv, LockInv
<1>4. LockInv'
  <2>1. ASSUME NEW d \in Handlers PROVE lock'[Color(d)] = d <=> request'[d].stage = "write"
    <3>1. lock[Color(d)] = d <=> request[d].stage = "write" BY DEF FileInv, LockInv
    <3> QED BY <1>1, <1>2, <3>1, Coloring, NoRequestIs
  <2> QED BY <1>1, <1>2, <1>3, <2>1 DEF FileInv, LockInv, Colors
<1>5. WriterInv'
  <2>1. ASSUME NEW d \in Handlers, request'[d].stage = "write"
        PROVE  /\ DOMAIN request'[d].content = KindsOf(request'[d].op)
               /\ \A f \in DOMAIN request'[d].content : f \in drift'
    <3>1. d \notin Near /\ request'[d] = request[d] BY <1>1, <2>1, NoRequestIs
    <3>2. DOMAIN request[d].content = KindsOf(request[d].op) BY <2>1, <3>1 DEF FileInv, WriterInv
    <3>3. lock[Color(d)] = d BY <2>1, <3>1 DEF FileInv, LockInv
    <3>4. Beside("here") BY <3>1, <3>3, Coloring DEF Beside, Colors
    <3>5. KindsOf(request[d].op) \subseteq Kinds BY DEF KindsOf, Kinds
    <3> QED BY <1>1, <1>3, <3>1, <3>2, <3>4, <3>5
  <2> QED BY <1>1, <2>1 DEF WriterInv, Fresh
<1>6. FilesInv'
  <2>1. \A f \in Kinds : Rendered'[f] = Rendered[f] BY <1>1, TablesStay DEF tables
  <2> QED BY <1>1, <2>1 DEF FilesInv
<1> QED BY <1>4, <1>5, <1>6 DEF FileInv

LEMMA FilesInit == RegistryInit => FileInv
<1> SUFFICES ASSUME RegistryInit PROVE FileInv
  OBVIOUS
<1>1. files = Rendered /\ lock = [here |-> "free", there |-> "free"] /\ step = "idle"
      /\ \A c \in Handlers : request[c] = NoRequest
  BY DEF RegistryInit
<1>2. \A c \in Handlers : lock[Color(c)] = "free" BY <1>1, Coloring DEF Colors
<1>3. LockInv BY <1>1, <1>2, NoRequestIs, SnapshotKinds, Coloring DEF LockInv
<1>4. WriterInv BY <1>1, NoRequestIs DEF WriterInv
<1>5. FilesInv BY <1>1 DEF FilesInv
<1> QED BY <1>3, <1>4, <1>5 DEF FileInv

LEMMA FilesOfAsk ==
  ASSUME RegTypes, FileInv, Asks PROVE FileInv'
<1>1. CASE ChangeSettings
  <2>1. /\ UNCHANGED <<hosts, services, files, lock, request, step, cycle, drift>> /\ calm' = FALSE
    BY <1>1 DEF ChangeSettings, Disturbed, cycleVars
  <2>2. \A f \in Kinds : Rendered'[f] = Rendered[f] BY <2>1, TablesStay
  <2>3. ASSUME NEW f \in Kinds
        PROVE  \/ \E e \in Handlers : Underway(e, f, ToRead)'
               \/ Rendered'[f] = Rendered[f] /\ \A e \in Handlers : ~Underway(e, f, ToRead)
    <3>1. \A e \in Handlers : Underway(e, f, ToRead)' <=> Underway(e, f, ToRead)
      BY <2>1 DEF Underway, KindsOf, ToRead
    <3> QED BY <2>2, <3>1
  <2> QED BY <2>1, <2>3, NoWrite DEF RegTypes
<1>2. ASSUME NEW c \in Handlers, SyncTargets(c) PROVE FileInv'
  <2>1. /\ UNCHANGED <<tables, step, cycle>> /\ calm' = FALSE /\ request[c].op \in Ops
    BY <1>2, SyncFacts DEF Ops
  <2>2. PICK r :
          /\ Moves(c, r)
          /\ \/ /\ request[c].stage = "sync" /\ r.stage = "write" /\ r.op = request[c].op
                /\ r.content = Snapshot(request[c].op)
                /\ Acquire(Color(c), c, Snapshot(request[c].op))
             \/ /\ request[c].stage = "sync" /\ r = NoRequest /\ UNCHANGED <<files, lock>>
                /\ drift' = drift \cup DOMAIN Snapshot(request[c].op)
             \/ /\ request[c].stage = "write" /\ r = NoRequest
                /\ Write(Color(c), request[c].content, FALSE)
    BY <1>2, SyncFacts
  <2> QED BY <2>1, <2>2, FilesOfStart, FilesOfFailure, FilesOfWrite
<1> QED BY <1>1, <1>2, AskCases, FilesOfSaves, FilesOfRefresh, FilesOfDelete, FilesOfForget, FilesOfRemove

LEMMA FilesNext ==
  RegTypes /\ FileInv /\ [RegistryNext]_registryVars => FileInv'
<1> SUFFICES ASSUME RegTypes, FileInv, [RegistryNext]_registryVars PROVE FileInv'
  OBVIOUS
<1>1. CASE Reconcile
  <2>1. CASE UNCHANGED <<files, lock, drift>> /\ step = "files" /\ step' = "idle"
    <3>1. UNCHANGED <<tables, request>> BY <1>1, ReconcileFacts
    <3>2. \A f \in Kinds : Rendered'[f] = Rendered[f] BY <3>1, TablesStay DEF tables
    <3>3. ASSUME NEW f \in Kinds
          PROVE  \/ \E e \in Handlers : Underway(e, f, ToRead)'
                 \/ Rendered'[f] = Rendered[f] /\ \A e \in Handlers : ~Underway(e, f, ToRead)
      <4>1. \A e \in Handlers : Underway(e, f, ToRead)' <=> Underway(e, f, ToRead)
        BY <3>1 DEF Underway, KindsOf, ToRead
      <4> QED BY <3>2, <4>1
    <3> QED BY <2>1, <3>1, <3>3, NoWrite DEF RegTypes
  <2> QED BY <1>1, <2>1, ReconcileFacts, FilesOfCycleLock, FilesOfCycleWrite
<1>2. CASE Cycle /\ ~Reconcile BY <1>2, FilesOfCycle
<1>3. CASE Asks BY <1>3, FilesOfAsk
<1>4. CASE RestartColor BY <1>4, FilesOfRestart
<1>5. CASE UNCHANGED registryVars
  <2>1. /\ UNCHANGED <<hosts, services, settings, files, lock, request, step, cycle, drift, calm>>
    BY <1>5 DEF registryVars
  <2>2. \A f \in Kinds : Rendered'[f] = Rendered[f] BY <2>1, TablesStay
  <2>3. ASSUME NEW f \in Kinds
        PROVE  \/ \E e \in Handlers : Underway(e, f, ToRead)'
               \/ Rendered'[f] = Rendered[f] /\ \A e \in Handlers : ~Underway(e, f, ToRead)
    <3>1. \A e \in Handlers : Underway(e, f, ToRead)' <=> Underway(e, f, ToRead)
      BY <2>1 DEF Underway, KindsOf, ToRead
    <3> QED BY <2>2, <3>1
  <2> QED BY <2>1, <2>3, NoWrite DEF RegTypes, tables
<1> QED BY <1>1, <1>2, <1>3, <1>4, <1>5, RegNextCases

LEMMA FilesInvariant == RegistrySpec => [](RegTypes /\ FileInv)
<1>1. RegistryInit => RegTypes /\ FileInv BY RegistryTypesInit, FilesInit
<1>2. RegTypes /\ FileInv /\ [RegistryNext]_registryVars => (RegTypes /\ FileInv)'
  BY RegistryTypesNext, FilesNext
<1> QED BY <1>1, <1>2, PTL DEF RegistrySpec

(* With no request in progress a targets file has what the registry has,   *)
(* unless a write failed or met the other color's, however requests,       *)
(* cycles and restarts run side by side (_SYNC_LOCK,                       *)
(* sync_targets_from_db, reconcile_scrape_targets).                        *)
THEOREM TargetsAreFollowed == RegistrySpec => []TargetsFollow
<1>1. RegTypes /\ FileInv => TargetsFollow
  <2> SUFFICES ASSUME FileInv, Quiet, NEW f \in DOMAIN files \ drift PROVE files[f] = Rendered[f]
    BY DEF TargetsFollow
  <2>1. f \in Kinds BY DEF FileInv, LockInv
  <2>2. \A c \in Handlers : ~Underway(c, f, ToRead \cup {"write"})
    BY NoRequestIs DEF Quiet, Underway, ToRead
  <2> QED BY <2>1, <2>2 DEF FileInv, FilesInv
<1> QED BY <1>1, FilesInvariant, PTL
-------------------------------------------------------------------------------
(* Why an entry may be dropped. *)
Excused(k) ==
  \/ k \notin Watched(hosts, services, settings)
  \/ step' = "erase" /\ LetGo(k)
  \/ \E c \in Handlers : \/ request'[c].stage = "remove"
                        \/ (request'[c].stage = "forget" /\ Reused(request'[c].was))
  \/ accidents' # accidents

LEMMA CycleDrops ==
  ASSUME RegTypes, Cycle, NEW k \in DOMAIN states \ DOMAIN states', states[k].status = "alert"
  PROVE  Excused(k)
<1>1. CASE LoadHosts \/ LoadServices \/ Reconcile
  BY <1>1, LoadServicesFacts, ReconcileFacts DEF LoadHosts
<1>2. CASE RetireSignal
  <2>1. PICK j \in cycle.todo \cap DOMAIN states :
          \/ DOMAIN states' = DOMAIN states \ {j} /\ states[j].status = "ok"
          \/ DOMAIN states' = DOMAIN states
    BY <1>2, RetireSignalFacts
  <2> QED BY <2>1
<1>3. CASE DropRetired
  <2>1. k = cycle.key /\ cycle.key \in cycle.off /\ step' = "erase" BY <1>3, DropRetiredFacts
  <2>2. k[1] # ServiceType BY <2>1, KeyKinds DEF RegTypes, CycleTypes
  <2> QED BY <2>1, <2>2 DEF Excused, LetGo
<1>4. CASE EraseRow \/ SaveEntry \/ SendMessage BY <1>4, EraseRowFacts, SaveFacts, SendFacts
<1>5. CASE SweepUnmonitored
  <2>1. k \in Shown(cycle.part) /\ k[2] \notin Names /\ step' = "erase" BY <1>5, SweepFacts
  <2>2. CASE cycle.part = "hosts"
    <3>1. k[1] # ServiceType /\ k[2] \notin DOMAIN cycle.hosts BY <2>1, <2>2, KeyKinds DEF Shown, Names
    <3> QED BY <2>1, <3>1 DEF Excused, LetGo
  <2>3. CASE cycle.part = "services"
    <3>1. k[1] = ServiceType /\ k[2] \notin cycle.names BY <2>1, <2>3, KeyKinds DEF Shown, Names
    <3> QED BY <2>1, <2>3, <3>1 DEF Excused, LetGo
  <2> QED BY <2>2, <2>3 DEF RegTypes, CycleTypes
<1>6. CASE AskPrometheus BY <1>6 DEF AskPrometheus
<1>7. CASE TakeSignal
  <2>1. DOMAIN states \subseteq DOMAIN states' BY <1>7, TakeFacts
  <2> QED BY <2>1
<1> QED BY <1>1, <1>2, <1>3, <1>4, <1>5, <1>6, <1>7 DEF Cycle

LEMMA AskDrops ==
  ASSUME RegTypes, Asks, NEW k \in DOMAIN states \ DOMAIN states'
  PROVE  Excused(k)
<1>1. CASE ChangeSettings BY <1>1 DEF ChangeSettings, stateVars
<1>2. ASSUME NEW c \in Handlers,
             \/ \E h \in Hosts, b \in HostBodies : SaveHost(c, h, b)
             \/ \E i \in Slots, n \in ServiceNames, on \in BOOLEAN : SaveService(c, i, n, on)
             \/ ForgetStates(c) \/ RemoveRow(c) \/ SyncTargets(c)
      PROVE  Excused(k)
  BY <1>2, SaveHostFacts, SaveServiceFacts, ForgetFacts, RemoveRowFacts, SyncFacts DEF stateVars
<1>3. ASSUME NEW c \in Handlers, RefreshHost(c) PROVE Excused(k)
  <2>1. PICK r : Drops(c, r, Cleared(request[c].of, request[c].had)) BY <1>3, RefreshHostFacts
  <2>2. PICK h : h = request[c].of OBVIOUS
  <2>3. h \in Hosts /\ k \in Cleared(h, request[c].had) BY <1>3, <2>1, <2>2, RefreshHostFacts DEF Drops
  <2>4. k[2] = h /\ k[1] \in HostTypes /\ (hosts[h].on => k[1] \in GpuTypes /\ ~hosts[h].gpu)
    BY <2>3 DEF Cleared, KeysOf, HostTypes
  <2>5. k[1] # ServiceType BY <2>4 DEF HostTypes, GpuTypes, ServiceType
  <2>6. hosts[h].on => k[1] \in DisabledSignals(hosts[h], settings) BY <2>4 DEF DisabledSignals
  <2> QED BY <2>4, <2>5, <2>6 DEF Excused, Watched, Enabled
<1>4. ASSUME NEW c \in Handlers, RefreshService(c) PROVE Excused(k)
  <2>1. PICK r : /\ Moves(c, r) /\ r.stage = "forget" /\ r.was = request[c].was
                 /\ Drops(c, r, {<<ServiceType, request[c].was>>})
    BY <1>4, RefreshServiceFacts
  <2>2. k = <<ServiceType, request[c].was>> BY <2>1 DEF Drops
  <2>3. request'[c] = r BY <2>1, MovesFacts DEF RegTypes
  <2>4. k \in Watched(hosts, services, settings) => Reused(request[c].was)
    <3>1. k[1] \notin HostTypes BY <2>2 DEF HostTypes, GpuTypes, ServiceType
    <3>2. k \in Watched(hosts, services, settings) => request[c].was \in EnabledNames(services)
      BY <2>2, <3>1 DEF Watched
    <3> QED BY <3>2, HostsOn DEF EnabledNames, Reused, RegTypes
  <2> QED BY <2>1, <2>3, <2>4 DEF Excused
<1>5. ASSUME NEW c \in Handlers, (\E h \in Hosts : DeleteHost(c, h)) \/ (\E i \in Slots : DeleteService(c, i))
      PROVE  Excused(k)
  <2>1. PICK r : Moves(c, r) /\ r.stage = "remove" BY <1>5, DeleteFacts
  <2>2. request'[c].stage = "remove" BY <2>1, MovesFacts DEF RegTypes
  <2> QED BY <2>2 DEF Excused
<1> QED BY <1>1, <1>2, <1>3, <1>4, <1>5, AskCases

(* An open incident is dropped without a word only when its target is let  *)
(* go: what the cycle found unmonitored or off, what a request found no    *)
(* longer watched or deletes, or what a restart does not find in the table *)
(* (_discard_unmonitored_states, _retire_disabled_host_signals,            *)
(* _clear_alert_state).                                                    *)
THEOREM IncidentsAreNotForgotten == RegistrySpec => IncidentsAreKept
<1> DEFINE Kept == \A k \in DOMAIN states \ DOMAIN states' : states[k].status = "alert" => Excused(k)
<1>1. RegTypes /\ [RegistryNext]_registryVars => [Kept]_registryVars
  <2> SUFFICES ASSUME RegTypes, RegistryNext, NEW k \in DOMAIN states \ DOMAIN states', states[k].status = "alert"
               PROVE  Excused(k)
    OBVIOUS
  <2>1. CASE RestartColor
    <3>1. accidents' = accidents + 1 /\ accidents \in Nat BY <2>1, RestartFacts DEF RegTypes, TableTypes
    <3> QED BY <3>1 DEF Excused
  <2> QED BY <2>1, RegNextCases, CycleDrops, AskDrops
<1>2. RegTypes /\ [RegistryNext]_registryVars =>
        [\A k \in DOMAIN states \ DOMAIN states' : states[k].status = "alert" =>
           \/ k \notin Watched(hosts, services, settings)
           \/ step' = "erase" /\ LetGo(k)
           \/ \E c \in Handlers : \/ request'[c].stage = "remove"
                                 \/ (request'[c].stage = "forget" /\ Reused(request'[c].was))
           \/ accidents' # accidents]_registryVars
  BY <1>1 DEF Excused
<1> QED BY <1>2, StatusInvariant, PTL DEF RegistrySpec, IncidentsAreKept
===============================================================================
