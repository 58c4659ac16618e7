-------------------------- MODULE AlertFailoverProofs --------------------------
(***************************************************************************)
(* What AlertFailover promises, for any number of colors, any damping and  *)
(* any number of handovers, outages, crashes and lost writes.              *)
(***************************************************************************)
EXTENDS AlertFailover, TLAPS

Announced(e) == e.status = "alert" /\ ~e.pending
Decisions == [send : {"none", "triggered", "resolved"}, announced : BOOLEAN]
Labels == {"down", "idle", "reload", "check", "save", "dispatch", "resave"}

-------------------------------------------------------------------------------
(* What one cycle over an ungraded, unmuted target decides: it pages for   *)
(* an incident that was not announced, sends the recovery of one that was, *)
(* and is silent when what recipients know stays true.                     *)
CycleContract(e, ev) ==
  /\ ev.entry \in Entry
  /\ [send |-> ev.send, announced |-> ev.announced] \in Decisions
  /\ ev.send = "none" => (Announced(ev.entry) <=> Announced(e))
  /\ ev.send = "triggered" => ~Announced(e) /\ Announced(ev.entry) /\ ~ev.announced
  /\ ev.send = "resolved" => Announced(e) /\ ev.entry.status # "alert"

(* _update with a binary signal and no repeat cadence. *)
UpdatedContract(e, u) ==
  /\ u.entry \in Entry /\ u.entry.pending = e.pending
  /\ \/ u.transition = "none" /\ (u.entry.status = "alert" <=> e.status = "alert")
     \/ u.transition = "triggered" /\ e.status # "alert" /\ u.entry.status = "alert"
     \/ u.transition = "resolved" /\ e.status = "alert" /\ u.entry.status = "ok"

LEMMA UpdateFacts ==
  ASSUME NEW e \in Entry, NEW obs \in {0, Up}
  PROVE  UpdatedContract(e, Update(e, obs, 0))
<1>1. /\ e.succ + 1 \in Nat /\ e.fail + 1 \in Nat /\ TriggerAfter \in Nat
      /\ 0 \in Severity /\ 0 \in Peak /\ Untracked \in Peak
  BY DampingAssumption DEF Entry, Severity, Peak, Untracked
<1>2. CASE obs = Up
  BY <1>1, <1>2 DEF UpdatedContract, Update, Healthy, Entry
<1>3. CASE obs # Up /\ e.status = "alert"
  BY <1>1, <1>3 DEF UpdatedContract, Update, StillFailing, Entry, Up
<1>4. CASE obs # Up /\ e.status # "alert"
  BY <1>1, <1>4 DEF UpdatedContract, Update, Failing, Entry, Up
<1>. QED
  BY <1>2, <1>3, <1>4

LEMMA CycleFacts ==
  ASSUME NEW e \in Entry, NEW obs \in {0, Up}
  PROVE  CycleContract(e, Evaluated(e, obs, 0, FALSE))
<1> DEFINE open == e.status = "alert"
           u    == Update(e, obs, 0)
           out  == Outbound(u.entry, u.transition, open, FALSE)
           ev   == Evaluated(e, obs, 0, FALSE)
<1>1. UpdatedContract(e, u)
  BY UpdateFacts
<1>2. ev = [entry |-> out.entry, send |-> out.send, announced |-> IsAnnounced(open, u.entry)]
  BY DEF Evaluated
<1>3. open \in BOOLEAN
  OBVIOUS
<1>. HIDE DEF u, open
<1>4. u.entry \in Entry /\ e.pending \in BOOLEAN /\ u.entry.pending = e.pending
  BY <1>1 DEF UpdatedContract, Entry
<1>5. /\ out.entry \in Entry
      /\ out.entry.status = u.entry.status /\ out.entry.pending \in BOOLEAN
      /\ out.send = "none" => out.entry.pending = e.pending \/ u.transition = "resolved"
      /\ out.send = "triggered" => out.entry.pending = FALSE /\ u.transition # "resolved"
      /\ u.transition = "none" /\ out.send = "triggered" => e.pending /\ u.entry.status = "alert"
      /\ u.transition = "triggered" => out.send = "triggered"
      /\ u.transition = "resolved" => out.send = IF e.pending THEN "none" ELSE "resolved"
      /\ out.send = "resolved" => u.transition = "resolved"
      /\ out.send \in {"none", "triggered", "resolved"}
  BY <1>1, <1>4 DEF UpdatedContract, Outbound, Notify, Withhold, Entry
<1>. HIDE DEF out, ev
<1>6. ev.announced = (open /\ ~e.pending)
  BY <1>2, <1>4 DEF IsAnnounced
<1>7. ev.entry = out.entry /\ ev.send = out.send
  BY <1>2
<1>8. ev.announced \in BOOLEAN
  BY <1>3, <1>4, <1>6
<1>9. ev.entry \in Entry /\ [send |-> ev.send, announced |-> ev.announced] \in Decisions
  BY <1>5, <1>7, <1>8 DEF Decisions
<1>10. CASE u.transition = "none"
  BY <1>1, <1>4, <1>5, <1>6, <1>7, <1>9, <1>10 DEF CycleContract, UpdatedContract, Announced, open, ev
<1>11. CASE u.transition = "triggered"
  BY <1>1, <1>4, <1>5, <1>6, <1>7, <1>9, <1>11 DEF CycleContract, UpdatedContract, Announced, open, ev
<1>12. CASE u.transition = "resolved"
  BY <1>1, <1>4, <1>5, <1>6, <1>7, <1>9, <1>12 DEF CycleContract, UpdatedContract, Announced, open, ev
<1>. QED
  BY <1>1, <1>10, <1>11, <1>12 DEF UpdatedContract

-------------------------------------------------------------------------------
FailoverTypeOK ==
  /\ mem \in [Colors -> Entry] /\ db \in Entry
  /\ pc \in [Colors -> Labels]
  /\ was \in [Colors -> {"unknown", "yes", "no"}]
  /\ cur \in [Colors -> Decisions]
  /\ routed \in Colors /\ apisix \in BOOLEAN /\ failing \in BOOLEAN
  /\ told \in BOOLEAN /\ ticked \subseteq Colors /\ torn \subseteq Cause

(* What the entry or row tells about the announcement is what recipients know. *)
Truth(e) == told <=> Announced(e)

(* Only the routed color is at work. *)
OthersRest == \A c \in Colors : pc[c] \notin {"idle", "down"} => c = routed

(* A color that has been through the gate since the last handover, and is  *)
(* not the routed one, knows that it is on standby: it will reload.        *)
StandbyIsKnown == \A c \in ticked \ {routed} : was[c] = "no"

(* What the routed color will decide on next: its memory, or the row that  *)
(* it will load.                                                           *)
WillLoad(c) ==
  pc[c] \in {"down", "reload"} \/ (pc[c] = "idle" /\ was[c] = "no")

RoutedKnows ==
  LET c == routed IN
  /\ WillLoad(c) => Truth(db)
  /\ pc[c] \notin {"down", "idle"} => (was[c] = "no" <=> pc[c] = "reload")
  /\ ~WillLoad(c) /\ pc[c] \notin {"save", "dispatch"} => Truth(mem[c])
  /\ pc[c] \in {"save", "dispatch"} =>
       /\ cur[c].send = "none" => Truth(mem[c])
       /\ cur[c].send = "triggered" => ~told /\ Announced(mem[c]) /\ ~cur[c].announced
       /\ cur[c].send = "resolved" => mem[c].status # "alert"
  /\ pc[c] = "dispatch" => cur[c].send # "none"

InOrderInv == torn = {} => OthersRest /\ StandbyIsKnown /\ RoutedKnows

-------------------------------------------------------------------------------
LEMMA FirstEntry == NoEntry \in Entry /\ ~Announced(NoEntry) /\ Idle \in Decisions
BY DEF NoEntry, Entry, Announced, Idle, Decisions, Severity, Peak, Untracked

LEMMA RowFacts ==
  ASSUME NEW e \in Entry
  PROVE  Row(e) \in Entry /\ (Announced(Row(e)) <=> Announced(e))
BY DEF Row, Entry, Announced

LEMMA RearmFacts ==
  ASSUME NEW e \in Entry
  PROVE  [e EXCEPT !.pending = TRUE] \in Entry /\ ~Announced([e EXCEPT !.pending = TRUE])
BY DEF Entry, Announced

LEMMA ObserveFacts ==
  ASSUME FailoverTypeOK, NEW c \in Colors, Observe(c)
  PROVE  \E ev : /\ CycleContract(mem[c], ev)
                 /\ mem' = [mem EXCEPT ![c] = ev.entry]
                 /\ cur' = [cur EXCEPT ![c] = [send |-> ev.send, announced |-> ev.announced]]
                 /\ pc[c] = "check" /\ pc' = [pc EXCEPT ![c] = "save"]
                 /\ UNCHANGED <<db, was, routed, apisix, failing, used, told, ticked, torn>>
<1> DEFINE ev == Evaluated(mem[c], IF failing THEN 0 ELSE Up, 0, FALSE)
<1>1. mem[c] \in Entry /\ (IF failing THEN 0 ELSE Up) \in {0, Up}
  BY DEF FailoverTypeOK
<1>2. CycleContract(mem[c], ev)
  BY <1>1, CycleFacts
<1>. QED
  BY <1>2 DEF Observe, Goto

(* The variables keep their types. *)
LEMMA FailoverTypes == Spec => []FailoverTypeOK
<1>1. Init => FailoverTypeOK
  BY FirstEntry, FailoverAssumption DEF Init, FailoverTypeOK, Labels, Cause
<1>2. FailoverTypeOK /\ [Next]_vars => FailoverTypeOK'
  <2> SUFFICES ASSUME FailoverTypeOK, [Next]_vars PROVE FailoverTypeOK'
    OBVIOUS
  <2> USE DEF FailoverTypeOK, Labels, Cause
  <2>1. ASSUME NEW c \in Colors, Tick(c) PROVE FailoverTypeOK'
    <3>1. /\ AfterGate(c) \in {"idle", "reload", "check"}
          /\ (told /\ ~(InOrder(c) /\ torn # {})) \in BOOLEAN
      BY DEF AfterGate
    <3>. QED
      BY <2>1, <3>1 DEF Tick, Goto, Tear
  <2>2. ASSUME NEW c \in Colors, NEW ok \in BOOLEAN, Reload(c, ok) PROVE FailoverTypeOK'
    BY <2>2 DEF Reload, Goto
  <2>3. ASSUME NEW c \in Colors, Observe(c) PROVE FailoverTypeOK'
    <3>1. PICK ev : /\ CycleContract(mem[c], ev)
                    /\ mem' = [mem EXCEPT ![c] = ev.entry]
                    /\ cur' = [cur EXCEPT ![c] = [send |-> ev.send, announced |-> ev.announced]]
                    /\ pc' = [pc EXCEPT ![c] = "save"]
                    /\ UNCHANGED <<db, was, routed, apisix, failing, used, told, ticked, torn>>
      BY <2>3, ObserveFacts
    <3>2. /\ ev.entry \in Entry
          /\ [send |-> ev.send, announced |-> ev.announced] \in Decisions
      BY <3>1 DEF CycleContract
    <3>. QED
      BY <3>1, <3>2
  <2>4. ASSUME NEW c \in Colors, NEW lost, Save(c, lost) \/ Resave(c, lost) PROVE FailoverTypeOK'
    <3>1. Row(mem[c]) \in Entry
      BY RowFacts
    <3>2. db' \in Entry /\ pc' \in [Colors -> Labels]
      BY <2>4, <3>1 DEF Save, Resave, Write, Goto
    <3>. QED
      BY <2>4, <3>2 DEF Save, Resave
  <2>5. ASSUME NEW c \in Colors, NEW ok \in BOOLEAN, Dispatched(c, ok) PROVE FailoverTypeOK'
    <3>1. told' \in BOOLEAN /\ cur' \in [Colors -> Decisions] /\ pc' \in [Colors -> Labels]
      BY <2>5, FirstEntry DEF Dispatched, Goto
    <3>2. mem' = mem \/ mem' = [mem EXCEPT ![c] = [mem[c] EXCEPT !.pending = TRUE]]
      BY <2>5 DEF Dispatched
    <3>3. mem' \in [Colors -> Entry]
      BY <3>2, RearmFacts
    <3>. QED
      BY <2>5, <3>1, <3>3 DEF Dispatched
  <2>6. ASSUME NEW c \in Colors, Restart(c) PROVE FailoverTypeOK'
    BY <2>6 DEF Restart, Goto
  <2>7. ASSUME NEW c \in Colors, Promote(c) PROVE FailoverTypeOK'
    BY <2>7 DEF Promote, Tear
  <2>8. ASSUME NEW c \in Colors, Crash(c) PROVE FailoverTypeOK'
    BY <2>8, FirstEntry DEF Crash, Tear, Goto
  <2>9. CASE ApisixFails \/ ApisixReturns \/ TargetChanges \/ UNCHANGED vars
    BY <2>9 DEF ApisixFails, ApisixReturns, TargetChanges, vars
  <2>. QED
    BY <2>1, <2>2, <2>3, <2>4, <2>5, <2>6, <2>7, <2>8, <2>9 DEF Next, Loop
<1>. QED
  BY <1>1, <1>2, PTL DEF Spec

-------------------------------------------------------------------------------
(* A step of one color's loop moves only that color. *)
LEMMA TickKeepsOrder ==
  ASSUME FailoverTypeOK, InOrderInv, NEW c \in Colors, Tick(c)
  PROVE  InOrderInv'
<1> SUFFICES ASSUME torn' = {} PROVE (OthersRest /\ StandbyIsKnown /\ RoutedKnows)'
  BY DEF InOrderInv
<1>1. /\ pc[c] = "idle" /\ pc' = [pc EXCEPT ![c] = AfterGate(c)]
      /\ was' = [was EXCEPT ![c] = IF AfterGate(c) = "check" THEN "yes" ELSE "no"]
      /\ ticked' = ticked \cup {c}
      /\ told' = (told /\ ~(InOrder(c) /\ torn # {}))
      /\ UNCHANGED <<mem, db, cur, routed>>
      /\ InOrder(c) \/ torn = {}
      /\ SeesItselfActive(c) => routed = c
  BY DEF Tick, Goto, Tear
<1>2. CASE torn = {}
  <2>1. OthersRest /\ StandbyIsKnown /\ RoutedKnows /\ (told' <=> told)
    BY <1>1, <1>2 DEF InOrderInv, FailoverTypeOK
  <2>2. CASE routed = c
    <3>1. AfterGate(c) = IF was[c] = "no" THEN "reload" ELSE "check"
      BY <2>2 DEF AfterGate, SeesItselfActive
    <3>. QED
      BY <1>1, <2>1, <2>2, <3>1
         DEF OthersRest, StandbyIsKnown, RoutedKnows, WillLoad, Truth, FailoverTypeOK
  <2>3. CASE routed # c
    <3>1. AfterGate(c) = "idle"
      BY <1>1, <2>3 DEF AfterGate
    <3>. QED
      BY <1>1, <2>1, <2>3, <3>1
         DEF OthersRest, StandbyIsKnown, RoutedKnows, WillLoad, Truth, FailoverTypeOK
  <2>. QED
    BY <2>2, <2>3
<1>3. CASE torn # {}
  <2>1. InOrder(c) /\ told' = FALSE
    BY <1>1, <1>3
  <2>2. /\ routed = c /\ ~Announced(mem[c]) /\ ~Announced(db)
        /\ \A o \in Colors \ {c} : pc[o] = "idle" /\ was[o] = "no"
    <3>1. mem[c] \in Entry /\ ~Announced(mem[c])
      BY <2>1 DEF InOrder, Announced, FailoverTypeOK
    <3>. QED
      BY <2>1, <3>1, RowFacts DEF InOrder
  <2>3. AfterGate(c) = IF was[c] = "no" THEN "reload" ELSE "check"
    BY <2>2 DEF AfterGate, SeesItselfActive
  <2>. QED
    BY <1>1, <2>1, <2>2, <2>3
       DEF OthersRest, StandbyIsKnown, RoutedKnows, WillLoad, Truth, FailoverTypeOK
<1>. QED
  BY <1>2, <1>3

(* In order, whatever a color does after the gate it does as the routed one. *)
LEMMA WorkKeepsOrder ==
  ASSUME FailoverTypeOK, InOrderInv, NEW c \in Colors,
         \/ Observe(c)
         \/ \E ok \in BOOLEAN : Reload(c, ok) \/ Dispatched(c, ok)
         \/ \E lost \in BOOLEAN : Save(c, lost) \/ Resave(c, lost)
  PROVE  InOrderInv'
<1> SUFFICES ASSUME torn' = {} PROVE (OthersRest /\ StandbyIsKnown /\ RoutedKnows)'
  BY DEF InOrderInv
<1>1. /\ torn = {} /\ routed' = routed /\ ticked' = ticked
      /\ pc[c] \notin {"idle", "down"} /\ \E l \in Labels : pc' = [pc EXCEPT ![c] = l]
      /\ was' = was \/ was' = [was EXCEPT ![c] = "yes"]
  BY DEF Observe, Reload, Dispatched, Save, Resave, Goto, Labels
<1>2. OthersRest /\ StandbyIsKnown /\ RoutedKnows /\ c = routed
  BY <1>1 DEF InOrderInv, OthersRest
<1>3. OthersRest' /\ StandbyIsKnown'
  BY <1>1, <1>2 DEF OthersRest, StandbyIsKnown, FailoverTypeOK
<1> USE DEF RoutedKnows, WillLoad, Truth
<1>4. CASE Observe(c)
  <2>1. PICK ev : /\ CycleContract(mem[c], ev)
                  /\ mem' = [mem EXCEPT ![c] = ev.entry]
                  /\ cur' = [cur EXCEPT ![c] = [send |-> ev.send, announced |-> ev.announced]]
                  /\ pc[c] = "check" /\ pc' = [pc EXCEPT ![c] = "save"]
                  /\ UNCHANGED <<db, was, routed, apisix, failing, used, told, ticked, torn>>
    BY <1>4, ObserveFacts
  <2>2. mem'[c] = ev.entry /\ cur'[c].send = ev.send /\ cur'[c].announced = ev.announced /\ pc'[c] = "save"
    BY <2>1 DEF FailoverTypeOK
  <2>3. Truth(mem[c])
    BY <1>2, <2>1
  <2>. QED
    BY <1>2, <1>3, <2>1, <2>2, <2>3 DEF CycleContract
<1>5. ASSUME NEW ok \in BOOLEAN, Reload(c, ok) PROVE RoutedKnows'
  BY <1>2, <1>5 DEF Reload, Goto, FailoverTypeOK
<1>6. ASSUME NEW ok \in BOOLEAN, Dispatched(c, ok) PROVE RoutedKnows'
  <2> DEFINE rearms == cur[c].send = "triggered" /\ ~ok /\ ~cur[c].announced
  <2>1. /\ pc[c] = "dispatch" /\ pc'[c] = (IF rearms THEN "resave" ELSE "idle") /\ was' = was /\ db' = db
        /\ mem'[c] = IF rearms THEN [mem[c] EXCEPT !.pending = TRUE] ELSE mem[c]
        /\ told' = (cur[c].send = "triggered" /\ (told \/ ok))
    BY <1>6 DEF Dispatched, Goto, FailoverTypeOK
  <2>2. was[c] # "no"
    BY <1>2, <2>1
  <2>3. mem[c] \in Entry /\ cur[c].send \in {"triggered", "resolved"}
    BY <1>2, <2>1 DEF FailoverTypeOK, Decisions
  <2>4. CASE rearms
    <3>1. mem'[c] \in Entry /\ ~Announced(mem'[c])
      BY <2>1, <2>3, <2>4, RearmFacts
    <3>2. ~told' /\ pc'[c] = "resave"
      BY <1>2, <2>1, <2>4
    <3>. QED
      BY <1>1, <1>2, <2>1, <2>2, <3>1, <3>2
  <2>5. CASE ~rearms
    BY <1>2, <2>1, <2>2, <2>3, <2>5, <1>1 DEF Announced
  <2>. QED
    BY <2>4, <2>5
<1>7. ASSUME NEW lost \in BOOLEAN, Save(c, lost) \/ Resave(c, lost) PROVE RoutedKnows'
  BY <1>2, <1>7 DEF Save, Resave, Goto, FailoverTypeOK
<1>. QED
  BY <1>3, <1>4, <1>5, <1>6, <1>7

LEMMA RestartKeepsOrder ==
  ASSUME FailoverTypeOK, InOrderInv, NEW c \in Colors, Restart(c)
  PROVE  InOrderInv'
<1> SUFFICES ASSUME torn = {} PROVE (OthersRest /\ StandbyIsKnown /\ RoutedKnows)'
  BY DEF InOrderInv, Restart
<1>1. OthersRest /\ StandbyIsKnown /\ RoutedKnows
  BY DEF InOrderInv
<1>2. /\ pc[c] = "down" /\ pc' = [pc EXCEPT ![c] = "idle"] /\ mem' = [mem EXCEPT ![c] = db]
      /\ was' = [was EXCEPT ![c] = "unknown"] /\ ticked' = ticked \ {c}
      /\ UNCHANGED <<db, cur, routed, told>>
  BY DEF Restart, Goto
<1>. QED
  BY <1>1, <1>2 DEF OthersRest, StandbyIsKnown, RoutedKnows, WillLoad, Truth, FailoverTypeOK

(* What a crash in order leaves in the row is what recipients know. *)
LEMMA CrashKeepsOrder ==
  ASSUME FailoverTypeOK, InOrderInv, NEW c \in Colors, Crash(c)
  PROVE  InOrderInv'
<1> SUFFICES ASSUME torn' = {} PROVE (OthersRest /\ StandbyIsKnown /\ RoutedKnows)'
  BY DEF InOrderInv
<1>1. /\ torn = {} /\ cur[c].send = "none" /\ pc[c] # "resave"
      /\ routed = c => db = Row(mem[c])
      /\ pc' = [pc EXCEPT ![c] = "down"] /\ mem' = [mem EXCEPT ![c] = NoEntry]
      /\ cur' = [cur EXCEPT ![c] = Idle]
      /\ UNCHANGED <<db, was, routed, told, ticked>>
  BY DEF Crash, Tear, Goto
<1>2. OthersRest /\ StandbyIsKnown /\ RoutedKnows
  BY <1>1 DEF InOrderInv
<1>3. routed = c => Truth(db)
  <2>1. routed = c => (Announced(db) <=> Announced(mem[c]))
    BY <1>1, RowFacts DEF FailoverTypeOK
  <2>2. pc[c] \in Labels
    BY DEF FailoverTypeOK
  <2>. QED
    BY <1>1, <1>2, <2>1, <2>2 DEF RoutedKnows, Truth, WillLoad, Labels
<1>. QED
  BY <1>1, <1>2, <1>3 DEF OthersRest, StandbyIsKnown, RoutedKnows, WillLoad, Truth, FailoverTypeOK

(* A handover in order: whoever works next loads a row that says the truth. *)
LEMMA PromoteKeepsOrder ==
  ASSUME FailoverTypeOK, InOrderInv, NEW c \in Colors, Promote(c)
  PROVE  InOrderInv'
<1> SUFFICES ASSUME torn' = {} PROVE (OthersRest /\ StandbyIsKnown /\ RoutedKnows)'
  BY DEF InOrderInv
<1>1. /\ c # routed /\ routed' = c /\ ticked' = {} /\ torn = {}
      /\ \A o \in Colors : pc[o] \in {"idle", "down"}
      /\ \A o \in Colors \ ticked : pc[o] = "down" \/ was[o] = "unknown"
      /\ \A o \in Colors : pc[o] = "down" \/ was[o] # "unknown"
      /\ pc[routed] = "down" \/ db = Row(mem[routed])
      /\ UNCHANGED <<mem, db, pc, was, cur, told>>
  BY DEF Promote, Tear
<1>2. OthersRest /\ StandbyIsKnown /\ RoutedKnows
  BY <1>1 DEF InOrderInv
<1>3. Truth(db)
  <2>1. CASE pc[routed] = "down"
    BY <1>2, <2>1 DEF RoutedKnows, WillLoad
  <2>2. CASE pc[routed] # "down"
    <3>1. pc[routed] = "idle" /\ (Announced(db) <=> Announced(mem[routed]))
      BY <1>1, <2>2, RowFacts DEF FailoverTypeOK
    <3>. QED
      BY <1>2, <3>1 DEF RoutedKnows, WillLoad, Truth
  <2>. QED
    BY <2>1, <2>2
<1>4. pc[c] = "down" \/ (pc[c] = "idle" /\ was[c] = "no")
  BY <1>1, <1>2 DEF StandbyIsKnown
<1>. QED
  BY <1>1, <1>3, <1>4 DEF OthersRest, StandbyIsKnown, RoutedKnows, WillLoad, Truth

LEMMA OrderNext ==
  ASSUME FailoverTypeOK, InOrderInv, [Next]_vars
  PROVE  InOrderInv'
<1>1. CASE ApisixFails \/ ApisixReturns \/ TargetChanges \/ UNCHANGED vars
  BY <1>1 DEF ApisixFails, ApisixReturns, TargetChanges, vars, InOrderInv,
              OthersRest, StandbyIsKnown, RoutedKnows, WillLoad, Truth
<1>. QED
  BY <1>1, TickKeepsOrder, WorkKeepsOrder, RestartKeepsOrder, PromoteKeepsOrder, CrashKeepsOrder
     DEF Next, Loop

(* As long as nothing has gone out of order since everything was last in    *)
(* order, only the routed color is at work, and what it decides on, in its  *)
(* memory or in the row it is to load, is what recipients know.             *)
THEOREM FailoverStaysInOrder == Spec => [](FailoverTypeOK /\ InOrderInv)
<1>1. Init => InOrderInv
  <2> SUFFICES ASSUME Init PROVE OthersRest /\ StandbyIsKnown /\ RoutedKnows
    BY DEF InOrderInv
  <2>1. routed \in Colors
    BY FailoverAssumption DEF Init
  <2>. QED
    BY <2>1, FirstEntry DEF Init, OthersRest, StandbyIsKnown, RoutedKnows, WillLoad, Truth
<1>2. FailoverTypeOK /\ InOrderInv /\ [Next]_vars => InOrderInv'
  BY OrderNext
<1>. QED
  BY <1>1, <1>2, FailoverTypes, PTL DEF Spec

(* Whichever color decides, it decides on what recipients were told, and no *)
(* incident is announced twice, through any number of handovers in order    *)
(* (start_checker, _reload_state_on_activation, is_active_instance).        *)
THEOREM HandoversAlwaysKeepTheTruth == Spec => []HandoversKeepTheTruth
<1>1. FailoverTypeOK /\ InOrderInv => HandoversKeepTheTruth
  <2> SUFFICES ASSUME FailoverTypeOK, InOrderInv, torn = {}, NEW c \in Colors
               PROVE  /\ pc[c] = "check" => (told <=> Announced(mem[c]))
                      /\ Paging(c) => ~told
    BY DEF HandoversKeepTheTruth, DecidesOnTheTruth, AnnouncedOnce, Announced
  <2>1. OthersRest /\ RoutedKnows
    BY DEF InOrderInv
  <2>2. pc[c] \notin {"idle", "down"} => c = routed
    BY <2>1 DEF OthersRest
  <2>. QED
    BY <2>1, <2>2 DEF RoutedKnows, WillLoad, Truth, Paging
<1>. QED
  BY <1>1, FailoverStaysInOrder, PTL
===============================================================================
