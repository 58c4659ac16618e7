------------------------------- MODULE GpuReport -------------------------------
(***************************************************************************)
(* The daily report on idle GPU hosts (services/gpu_report.py).  The color *)
(* that takes itself for the active one asks at the end of every cycle     *)
(* whether the report of the day is due, mails about one host after        *)
(* another, and then writes the marker that both colors read.              *)
(*                                                                         *)
(* Time passes in slots, DaySlots to a day; the day of Korea begins        *)
(* KstOffset slots before that of UTC.                                     *)
(***************************************************************************)
EXTENDS Naturals, FiniteSets

CONSTANTS
  Reporters,    \* the colors
  GpuHosts,     \* enabled hosts with a GPU exporter and a target
  DaySlots, KstOffset,
  ReportSlot,   \* GPU_UTIL_REPORT_HOUR_KST
  MaxSlot,      \* bound on time
  MaxHandovers,
  MaxMisfortunes  \* bound on crashes, failing calls and unreachable gates

ASSUME ReportAssumption ==
  /\ DaySlots \in Nat \ {0}
  /\ {KstOffset, ReportSlot, MaxSlot, MaxHandovers, MaxMisfortunes} \subseteq Nat
  /\ KstOffset < DaySlots /\ ReportSlot < DaySlots

VARIABLES
  slot,     \* the time, in UTC
  marker,   \* server_gpu_report_last_sent_at, or NeverSent
  serving,  \* the color the upstream points at
  report,   \* what each color is doing about the report
  handovers, misfortunes,
  (* History. *)
  mailed,   \* the mails: <<host, day>>
  twice,    \* those that have been sent twice
  excused   \* days whose report was cut off, not marked, or overlapped

reportVars == <<slot, marker, serving, report, handovers, misfortunes, mailed, twice, excused>>

NeverSent == MaxSlot + 1  \* no report has been sent
KstDay(t) == (t + KstOffset) \div DaySlots
UtcDay(t) == t \div DaySlots
KstHour(t) == (t + KstOffset) % DaySlots
Days == KstDay(0) .. KstDay(MaxSlot)

NoReport == [at |-> "idle", since |-> 0, todo |-> {}, any |-> FALSE]

ReportInit ==
  /\ slot = 0 /\ marker = NeverSent
  /\ serving \in Reporters
  /\ report = [c \in Reporters |-> NoReport]
  /\ handovers = 0 /\ misfortunes = 0
  /\ mailed = {} /\ twice = {} /\ excused = {}

Misfortune == misfortunes < MaxMisfortunes /\ misfortunes' = misfortunes + 1

(* Mutant: days are told apart by UTC. *)
DueByUtc(t, last) ==
  KstHour(t) >= ReportSlot /\ (last = NeverSent \/ UtcDay(last) < UtcDay(t))

(* is_report_due *)
IsReportDue(t, last) ==
  KstHour(t) >= ReportSlot /\ (last = NeverSent \/ KstDay(last) < KstDay(t))

(* The days of the reports under way at the colors. *)
UnderWay == {KstDay(report[c].since) : c \in {d \in Reporters : report[d].at # "idle"}}

(* maybe_send_gpu_util_report, up to the averages; a color that cannot     *)
(* reach the gateway takes itself for the active one.                      *)
StartReport(c) ==
  /\ report[c].at = "idle"
  /\ IF serving = c THEN UNCHANGED misfortunes ELSE Misfortune
  /\ IsReportDue(slot, marker)
  /\ report' = [report EXCEPT ![c] = [NoReport EXCEPT !.at = "averages", !.since = slot]]
  /\ excused' = IF UnderWay = {} THEN excused ELSE excused \cup UnderWay \cup {KstDay(slot)}
  /\ UNCHANGED <<slot, marker, serving, handovers, mailed, twice>>

(* Prometheus tells the averages: some hosts are below their targets, not  *)
(* muted and have data.  When it fails the cycle after this one retries.   *)
Averages(c) ==
  /\ report[c].at = "averages"
  /\ \/ /\ \E idle \in SUBSET GpuHosts :
             report' = [report EXCEPT ![c].at = "mails", ![c].todo = idle]
        /\ UNCHANGED misfortunes
     \/ Misfortune /\ report' = [report EXCEPT ![c] = NoReport]
  /\ UNCHANGED <<slot, marker, serving, handovers, mailed, twice, excused>>

(* dispatch_alert, which never fails for its caller. *)
MailAbout(c, h) ==
  LET letter == <<h, KstDay(report[c].since)>>
  IN  /\ report[c].at = "mails" /\ h \in report[c].todo
      /\ report' = [report EXCEPT ![c].todo = @ \ {h}, ![c].any = TRUE]
      /\ mailed' = mailed \cup {letter}
      /\ twice' = IF letter \in mailed THEN twice \cup {letter} ELSE twice
      /\ UNCHANGED <<slot, marker, serving, handovers, misfortunes, excused>>

Excuses(c) == IF report[c].any THEN {KstDay(report[c].since)} ELSE {}

(* _mark_report_sent: the time the report was begun at. *)
MarkReportSent(c) ==
  /\ report[c].at = "mails" /\ report[c].todo = {}
  /\ \/ marker' = report[c].since /\ UNCHANGED <<misfortunes, excused>>
     \/ Misfortune /\ excused' = excused \cup Excuses(c) /\ UNCHANGED marker
  /\ report' = [report EXCEPT ![c] = NoReport]
  /\ UNCHANGED <<slot, serving, handovers, mailed, twice>>

(* The color restarts: nothing but the marker is kept. *)
ReporterCrashes(c) ==
  /\ report[c].at # "idle" /\ Misfortune
  /\ report' = [report EXCEPT ![c] = NoReport]
  /\ excused' = excused \cup Excuses(c)
  /\ UNCHANGED <<slot, marker, serving, handovers, mailed, twice>>

Handover(c) ==
  /\ serving # c /\ serving' = c
  /\ handovers < MaxHandovers /\ handovers' = handovers + 1
  /\ UNCHANGED <<slot, marker, report, misfortunes, mailed, twice, excused>>

SlotPasses ==
  /\ slot < MaxSlot /\ slot' = slot + 1
  /\ UNCHANGED <<marker, serving, report, handovers, misfortunes, mailed, twice, excused>>

ReportNext ==
  \/ SlotPasses
  \/ \E c \in Reporters :
       \/ StartReport(c) \/ Averages(c) \/ MarkReportSent(c) \/ ReporterCrashes(c) \/ Handover(c)
       \/ \E h \in GpuHosts : MailAbout(c, h)

ReportSpec == ReportInit /\ [][ReportNext]_reportVars

-------------------------------------------------------------------------------
(* Nobody is mailed twice about a host on one day of Korea, however often  *)
(* the colors restart, fail to reach Prometheus or take over from one      *)
(* another, at whatever hour of UTC that day begins (is_report_due,        *)
(* maybe_send_gpu_util_report): unless a report was cut off among its      *)
(* mails, could not be marked, or ran beside another one.                  *)
ReportedOnceADay == \A letter \in twice : letter[2] \in excused
===============================================================================
