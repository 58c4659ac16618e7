---------------------------- MODULE AlertFailover -----------------------------
(***************************************************************************)
(* Two colors of unibridge-service run the health-check loop of            *)
(* AlertPipeline against one alert_states table.  Which one may work is    *)
(* decided at the start of each cycle by the APISIX upstream               *)
(* (is_active_instance, failing open), and a color that saw itself on      *)
(* standby reloads the table before it works again (start_checker).        *)
(*                                                                         *)
(* One monitored target with a binary signal and no mutes: what handovers  *)
(* break is the entry itself, and AlertPipeline covers the rest.           *)
(***************************************************************************)
EXTENDS AlertState

CONSTANTS
  Colors,         \* the app stacks: blue and green
  First,          \* the colors the upstream may point at in the beginning
  MaxPromotions,  \* bound on promotes and rollbacks
  MaxFaults       \* bound on APISIX outages, crashes and failed writes together

ASSUME FailoverAssumption ==
  /\ First # {} /\ First \subseteq Colors
  /\ MaxPromotions \in Nat /\ MaxFaults \in Nat

VARIABLES
  mem,      \* AlertStateManager of each color: the entry of the target
  db,       \* the target's row in alert_states
  pc,       \* where each color's loop is
  was,      \* was_active of each loop: "unknown" until its first tick
  cur,      \* what each color decided to send
  routed,   \* the color the unibridge-service upstream points at
  apisix,   \* APISIX answers
  failing,  \* the target is down
  used,     \* how much of each bound is used up
  (* History. *)
  told,     \* recipients were paged and have not been sent the recovery
  ticked,   \* colors that went through the gate since their boot and the
            \* last promote
  torn      \* what has gone wrong since everything was last in order

vars == <<mem, db, pc, was, cur, routed, apisix, failing, used, told, ticked, torn>>

Idle == [send |-> "none", announced |-> FALSE]
Cause == {"overlap", "flip", "boot", "write", "outage", "crash"}

(* Both colors are up on an empty table, and the loops are about to start. *)
Init ==
  /\ db = NoEntry
  /\ mem = [c \in Colors |-> NoEntry]
  /\ pc = [c \in Colors |-> "idle"]
  /\ was = [c \in Colors |-> "unknown"]
  /\ cur = [c \in Colors |-> Idle]
  /\ routed \in First
  /\ apisix = TRUE /\ failing = FALSE
  /\ used = [promotions |-> 0, faults |-> 0]
  /\ told = FALSE /\ ticked = {} /\ torn = {}

Fault == used.faults < MaxFaults /\ used' = [used EXCEPT !.faults = @ + 1]

Goto(c, label) == pc' = [pc EXCEPT ![c] = label]
Tear(cause, condition) == IF condition THEN {cause} ELSE {}

-------------------------------------------------------------------------------
(* is_active_instance: a color that cannot reach APISIX takes itself for   *)
(* the active one.                                                         *)
SeesItselfActive(c) == ~apisix \/ routed = c

(* Mutant: the gate is only asked at startup. *)
GateAtStartup(c) ==
  IF was[c] = "yes" \/ SeesItselfActive(c) THEN "check" ELSE "idle"

(* The loop goes on from the gate with a reload when it was on standby. *)
AfterGate(c) ==
  IF ~SeesItselfActive(c) THEN "idle" ELSE IF was[c] = "no" THEN "reload" ELSE "check"

(* Nothing is open or under way, the row says so, and every other color    *)
(* knows that it is on standby.                                            *)
InOrder(c) ==
  /\ apisix /\ routed = c
  /\ mem[c].status # "alert" /\ db = Row(mem[c])
  /\ \A o \in Colors \ {c} : pc[o] = "idle" /\ was[o] = "no"

(* The start of a cycle of the loop. *)
Tick(c) ==
  /\ pc[c] = "idle"
  /\ was' = [was EXCEPT ![c] = IF AfterGate(c) = "check" THEN "yes" ELSE "no"]
  /\ Goto(c, AfterGate(c))
  /\ ticked' = ticked \cup {c}
  /\ torn' = (IF InOrder(c) THEN {} ELSE torn)
               \cup Tear("outage", SeesItselfActive(c) /\ routed # c)
  /\ told' = (told /\ ~(InOrder(c) /\ torn # {}))
  /\ UNCHANGED <<mem, db, cur, routed, apisix, failing, used>>

(* Mutant: a failed reload does not stop the cycle. *)
CarryOn(c, ok) ==
  /\ pc[c] = "reload"
  /\ mem' = IF ok THEN [mem EXCEPT ![c] = db] ELSE mem
  /\ was' = [was EXCEPT ![c] = "yes"]
  /\ Goto(c, "check")
  /\ UNCHANGED <<db, cur, routed, apisix, failing, used, told, ticked, torn>>

(* _reload_state_on_activation: when the rows cannot be read the color     *)
(* stays on standby for this cycle.                                        *)
Reload(c, ok) ==
  /\ pc[c] = "reload"
  /\ mem' = IF ok THEN [mem EXCEPT ![c] = db] ELSE mem
  /\ was' = IF ok THEN [was EXCEPT ![c] = "yes"] ELSE was
  /\ Goto(c, IF ok THEN "check" ELSE "idle")
  /\ UNCHANGED <<db, cur, routed, apisix, failing, used, told, ticked, torn>>

(* The synchronous stretch of one cycle. *)
Observe(c) ==
  /\ pc[c] = "check"
  /\ LET ev == Evaluated(mem[c], IF failing THEN 0 ELSE Up, 0, FALSE)
     IN  /\ mem' = [mem EXCEPT ![c] = ev.entry]
         /\ cur' = [cur EXCEPT ![c] = [send |-> ev.send, announced |-> ev.announced]]
  /\ Goto(c, "save")
  /\ UNCHANGED <<db, was, routed, apisix, failing, used, told, ticked, torn>>

(* _persist_state_safely, whose failure is only logged. *)
Write(c, lost) ==
  \/ lost /\ Fault /\ UNCHANGED db
  \/ ~lost /\ db' = Row(mem[c]) /\ UNCHANGED used

Save(c, lost) ==
  /\ pc[c] = "save"
  /\ Write(c, lost)
  /\ Goto(c, IF cur[c].send = "none" THEN "idle" ELSE "dispatch")
  /\ UNCHANGED <<mem, was, cur, routed, apisix, failing, told, ticked, torn>>

(* dispatch_alert and _handle_dispatch_result. *)
Dispatched(c, delivered) ==
  LET rearms == cur[c].send = "triggered" /\ ~delivered /\ ~cur[c].announced
  IN  /\ pc[c] = "dispatch"
      /\ mem' = IF rearms THEN [mem EXCEPT ![c].pending = TRUE] ELSE mem
      /\ Goto(c, IF rearms THEN "resave" ELSE "idle")
      /\ told' = (cur[c].send = "triggered" /\ (told \/ delivered))
      /\ cur' = [cur EXCEPT ![c] = Idle]
      /\ UNCHANGED <<db, was, routed, apisix, failing, used, ticked, torn>>

Resave(c, lost) ==
  /\ pc[c] = "resave"
  /\ Write(c, lost)
  /\ Goto(c, "idle")
  /\ UNCHANGED <<mem, was, cur, routed, apisix, failing, told, ticked, torn>>

(* lifespan: the rows are loaded before the loop starts. *)
Restart(c) ==
  /\ pc[c] = "down"
  /\ mem' = [mem EXCEPT ![c] = db]
  /\ was' = [was EXCEPT ![c] = "unknown"]
  /\ ticked' = ticked \ {c}
  /\ Goto(c, "idle")
  /\ UNCHANGED <<db, cur, routed, apisix, failing, used, told, torn>>

Loop(c) ==
  \/ Tick(c) \/ Observe(c) \/ Restart(c)
  \/ \E ok \in BOOLEAN : Reload(c, ok) \/ Dispatched(c, ok)
  \/ \E lost \in BOOLEAN : Save(c, lost) \/ Resave(c, lost)

-------------------------------------------------------------------------------
(* promote_apisix, on a deploy, promote or rollback: the upstream is        *)
(* rewritten and no container restarted.  A handover is out of order when a *)
(* cycle is under way, when a color has not been through the gate since it  *)
(* booted or since the last handover, or when the row is not what the       *)
(* outgoing color knows.                                                    *)
Promote(c) ==
  /\ c # routed /\ apisix
  /\ used.promotions < MaxPromotions /\ used' = [used EXCEPT !.promotions = @ + 1]
  /\ routed' = c
  /\ ticked' = {}
  /\ torn' = torn
       \cup Tear("overlap", \E o \in Colors : pc[o] \notin {"idle", "down"})
       \cup Tear("flip", \E o \in Colors \ ticked : pc[o] # "down" /\ was[o] # "unknown")
       \cup Tear("boot", \E o \in Colors : pc[o] # "down" /\ was[o] = "unknown")
       \cup Tear("write", pc[routed] # "down" /\ db # Row(mem[routed]))
  /\ UNCHANGED <<mem, db, pc, was, cur, apisix, failing, told>>

ApisixFails ==
  /\ apisix /\ Fault
  /\ apisix' = FALSE
  /\ UNCHANGED <<mem, db, pc, was, cur, routed, failing, told, ticked, torn>>

ApisixReturns ==
  /\ ~apisix
  /\ apisix' = TRUE
  /\ UNCHANGED <<mem, db, pc, was, cur, routed, failing, used, told, ticked, torn>>

TargetChanges ==
  /\ failing' = ~failing
  /\ UNCHANGED <<mem, db, pc, was, cur, routed, apisix, used, told, ticked, torn>>

(* A crash between the save and the send loses what was to be sent. *)
Crash(c) ==
  /\ pc[c] # "down" /\ Fault
  /\ Goto(c, "down")
  /\ mem' = [mem EXCEPT ![c] = NoEntry]
  /\ cur' = [cur EXCEPT ![c] = Idle]
  /\ torn' = torn \cup Tear("crash", \/ cur[c].send # "none"
                                     \/ pc[c] = "resave"
                                     \/ routed = c /\ db # Row(mem[c]))
  /\ UNCHANGED <<db, was, routed, apisix, failing, told, ticked>>

Next ==
  \/ \E c \in Colors : Loop(c) \/ Promote(c) \/ Crash(c)
  \/ ApisixFails \/ ApisixReturns \/ TargetChanges

Spec == Init /\ [][Next]_vars

(* Both loops keep turning and the table can be read now and then ... *)
LoopSpec ==
  Spec /\ \A c \in Colors : WF_vars(Loop(c)) /\ SF_vars(Reload(c, TRUE))

(* ... and so can a mail be sent. *)
FairSpec == LoopSpec /\ \A c \in Colors : SF_vars(Dispatched(c, TRUE))

-------------------------------------------------------------------------------
Paging(c) == pc[c] \in {"save", "dispatch"} /\ cur[c].send = "triggered"
Routed(c) == apisix /\ routed = c

(* What a color decides on is what recipients know: after any number of     *)
(* handovers made in order, its entry is open and announced exactly when    *)
(* they have been paged (start_checker, _reload_state_on_activation).       *)
DecidesOnTheTruth ==
  \A c \in Colors :
    torn = {} /\ pc[c] = "check"
      => (told <=> mem[c].status = "alert" /\ ~mem[c].pending)

(* No incident is announced twice, by one color or by both. *)
AnnouncedOnce == \A c \in Colors : torn = {} /\ Paging(c) => ~told

(* Together: a color that takes over knows what the other one has told.     *)
HandoversKeepTheTruth == DecidesOnTheTruth /\ AnnouncedOnce

(* Once routing stays put, the color it points at is the only one working,  *)
(* and it does work: never both, never none (is_active_instance).           *)
OneColorWorks ==
  \A c \in Colors :
    <>[]Routed(c) => /\ []<>(pc[c] = "check")
                     /\ <>[](\A o \in Colors \ {c} : pc[o] \in {"idle", "down"})

(* A target that stays down is announced in the end, whichever color had    *)
(* opened the incident and whatever sends failed before the handover.       *)
FiringIsAnnounced ==
  \A c \in Colors : <>[](failing /\ Routed(c) /\ torn = {}) => <>told

(* Together: a handover leaves one color working, and loses no incident.    *)
HandoversSettle == OneColorWorks /\ FiringIsAnnounced
===============================================================================
