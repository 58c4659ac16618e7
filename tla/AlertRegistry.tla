---------------------------- MODULE AlertRegistry ----------------------------
(***************************************************************************)
(* The registry of monitored hosts and services beside the checker that    *)
(* judges them: the handlers of app/routers/servers.py, which clear the    *)
(* alert state of what they remove, the host and service parts of a cycle  *)
(* of app/services/alert_checker.py, and the scrape targets that           *)
(* app/services/server_monitor.py writes for Prometheus.                   *)
(*                                                                         *)
(* This is the process of one color.  Requests of the other color reach    *)
(* the tables and the targets files, but not this process's memory.        *)
(* Nothing is muted: AlertPipeline has the mutes.                          *)
(***************************************************************************)
EXTENDS HostSignals, Functions

CONSTANTS
  Hosts,          \* names of hosts
  Slots,          \* rows of the service registry
  ServiceNames,   \* the names they may bear
  HostBodies,     \* what an administrator makes of a host: rows
  Settings,       \* the global thresholds an administrator chooses among
  FirstHosts, FirstServices,  \* the registries at the start
  Answers,        \* what Prometheus answers in a cycle
  Near, Far,      \* requests in progress at a time, in this process and in the other color's
  Recovery,       \* alert_settings.resolve_after_successes
  MaxRounds,
  MaxEvents       \* requests and accidents together

VARIABLES
  hosts,      \* monitored_hosts: rows by name, or Absent
  services,   \* monitored_services: rows by slot, or Absent
  settings,   \* alert_settings: the thresholds; 0 switches a signal off
  states,     \* AlertStateManager._states: entries by (type, target)
  saved,      \* the table alert_states: rows by (type, target)
  files,      \* the targets files
  lock,       \* _SYNC_LOCK of either color: who holds it
  request,    \* the requests in progress
  step, cycle, \* the await the cycle is at, and its locals
  judged,     \* history: the keys this cycle observed, or rightly called unavailable
  calm,       \* history: no request ran since the cycle began
  drift,      \* history: files that may have missed a write
  strays,     \* history: rows that a save left behind a deletion
  asked, rounds, accidents

Handlers == Near \cup Far
ServiceRow(n, on) == [Absent EXCEPT !.absent = FALSE, !.name = n, !.on = on]

ASSUME RegistryAssumption ==
  /\ Near \cap Far = {} /\ {"free", "cycle"} \cap Handlers = {}
  /\ \A r \in HostBodies : /\ IsRow(r) /\ {r.on, r.gpu} \subseteq BOOLEAN
                            /\ \A f \in DOMAIN r.own : r.own[f] \in Nat
  /\ \A s \in Settings : \A f \in Levels \cup {"forecast"} : s[f] \in Nat
  /\ \A a \in Answers : \A q \in Queries : \A x \in DOMAIN a[q].of : a[q].of[x] \in Nat
  /\ FirstHosts \subseteq [Hosts -> HostBodies \cup {Absent}]
  /\ FirstServices \subseteq [Slots -> {ServiceRow(n, on) : n \in ServiceNames, on \in BOOLEAN} \cup {Absent}]
  /\ {MaxRounds, MaxEvents} \subseteq Nat

registryVars == <<hosts, services, settings, states, saved, files, lock, request, step, cycle,
                  judged, calm, drift, strays, asked, rounds, accidents>>

Plain == INSTANCE AlertState WITH TriggerAfter <- 1, ResolveAfter <- 1
Damped == INSTANCE AlertState WITH TriggerAfter <- 1, ResolveAfter <- Recovery

Unseen == -2   \* an entry to be marked as unavailable

HostKeys == HostTypes \X Hosts
ServiceKeys == {ServiceType} \X ServiceNames

(* The order in which a cycle looks at its signals decides nothing. *)
NextOf(set) == CHOOSE x \in set : TRUE
Over(new, old) ==
  [k \in DOMAIN new \cup DOMAIN old |-> IF k \in DOMAIN new THEN new[k] ELSE old[k]]
Put(m, k, e) == Over([x \in {k} |-> e], m)
EntryAt(m, k) == IF k \in DOMAIN m THEN m[k] ELSE Plain!NoEntry
Without(m, keys) == Restrict(m, DOMAIN m \ keys)
Rendered == Over(HostTargets(hosts), ServiceTargets(services))
-------------------------------------------------------------------------------
NoCycle == [hosts |-> <<>>, names |-> {}, off |-> {}, s |-> <<>>, part |-> "hosts", todo |-> {},
            key |-> <<"-", "-">>, entry |-> Plain!NoEntry, send |-> "none", announced |-> FALSE,
            back |-> "-", content |-> <<>>]
NoRequest == [op |-> "none", of |-> "-", had |-> FALSE, was |-> "-", stage |-> "none",
           keys |-> {}, content |-> <<>>]
Quiet == \A c \in Handlers : request[c] = NoRequest
Accident == asked + accidents < MaxEvents /\ accidents' = accidents + 1

RegistryInit ==
  /\ hosts \in FirstHosts /\ services \in FirstServices /\ settings \in Settings
  /\ states = <<>> /\ saved = <<>>
  /\ files = Rendered /\ lock = [here |-> "free", there |-> "free"]
  /\ request = [c \in Handlers |-> NoRequest] /\ step = "idle" /\ cycle = NoCycle
  /\ judged = {} /\ calm = FALSE /\ drift = {} /\ strays = {}
  /\ asked = 0 /\ rounds = 0 /\ accidents = 0

(* The cycle goes on at `to`, with its locals changed as c says. *)
Goes(to, c) == step' = to /\ cycle' = c
tables == <<hosts, services, settings>>
registryRest == <<tables, files, lock, request, calm, drift, asked, rounds>>
Disturbed == calm' = FALSE /\ judged' = {}

(* What a cycle finds switched off: signals of enabled hosts, and any      *)
(* forecast in memory when there is no horizon.                            *)
SwitchedOff ==
  {k \in HostTypes \X Enabled(hosts) : k[1] \in DisabledSignals(hosts[k[2]], settings)}
  \cup {k \in DOMAIN states : k[1] = "server_disk_forecast" /\ settings.forecast = 0}

(* _load_server_monitoring.  When it fails, the hosts are passed over. *)
LoadHosts ==
  /\ step = "idle" /\ rounds < MaxRounds
  /\ LET on == Restrict(hosts, Enabled(hosts))
         c  == [NoCycle EXCEPT !.hosts = on, !.s = settings, !.off = SwitchedOff, !.todo = SwitchedOff]
     IN  \/ Goes("retire", c) /\ calm' = Quiet /\ UNCHANGED accidents
         \/ Accident /\ Goes("services", NoCycle) /\ calm' = FALSE
  /\ judged' = {} /\ rounds' = rounds + 1
  /\ UNCHANGED <<tables, states, saved, files, lock, request, drift, strays, asked>>

(* Back from a detour for one entry, which is then forgotten. *)
Returns == Goes(cycle.back, IF cycle.back = "drop" THEN cycle
                            ELSE [cycle EXCEPT !.key = NoCycle.key, !.entry = NoCycle.entry,
                                               !.send = "none", !.announced = FALSE, !.back = NoCycle.back])

(* One signal through the state machine, up to the entry that is saved     *)
(* (_process_host_signal); c says where the cycle goes on after it.        *)
Process(k, e, c) ==
  /\ states' = Put(states, k, e.entry)
  /\ Goes("save", [c EXCEPT !.key = k, !.entry = e.entry, !.send = e.send, !.announced = e.announced])

Discarded(k, c) == states' = Without(states, {k}) /\ Goes("erase", [c EXCEPT !.key = k])

(* _retire_disabled_host_signals: an open incident or a started streak is  *)
(* closed by a healthy signal, without recovery damping; then the entry is *)
(* dropped.                                                                *)
RetireSignal ==
  /\ step = "retire"
  /\ LET left == cycle.todo \cap DOMAIN states IN
     IF left = {} THEN Goes("sweep", cycle) /\ UNCHANGED states
     ELSE LET k == NextOf(left)
              c == [cycle EXCEPT !.todo = left \ {k}]
          IN  IF states[k].status = "ok" /\ states[k].fail = 0
              THEN Discarded(k, [c EXCEPT !.back = "retire"])
              ELSE Process(k, Plain!Evaluated(states[k], Well, 0, FALSE), [c EXCEPT !.back = "drop"])
  /\ UNCHANGED <<registryRest, saved, judged, strays, accidents>>

(* A retired signal is dropped whatever became of its recovery message. *)
DropRetired ==
  /\ step = "drop" /\ Discarded(cycle.key, [cycle EXCEPT !.back = "retire"])
  /\ UNCHANGED <<registryRest, saved, judged, strays, accidents>>

(* _discard_state_safely, its second half: the row, if the table answers. *)
EraseRow ==
  /\ step = "erase" /\ Returns
  /\ \/ saved' = Without(saved, {cycle.key}) /\ UNCHANGED <<strays, accidents>>
     \/ Accident /\ strays' = strays \cup {cycle.key} /\ UNCHANGED saved
  /\ UNCHANGED <<registryRest, states, judged>>

OfPart(part) == IF part = "hosts" THEN HostKeys ELSE ServiceKeys

(* After the hosts the services, after these the targets files. *)
NextPart == IF cycle.part = "hosts" THEN Goes("services", NoCycle) ELSE Goes("files", NoCycle)

(* _discard_unmonitored_states: entries whose target is not among those    *)
(* the cycle loaded.  Then, if any are, they are evaluated.                *)
SweepUnmonitored ==
  /\ step = "sweep"
  /\ LET names == IF cycle.part = "hosts" THEN DOMAIN cycle.hosts ELSE cycle.names
         gone  == {k \in DOMAIN states \cap OfPart(cycle.part) : k[2] \notin names}
     IN  \/ \E k \in gone : Discarded(k, [cycle EXCEPT !.back = "sweep"])
         \/ /\ gone = {} /\ UNCHANGED states
            /\ IF names # {} THEN Goes("query", cycle) ELSE NextPart
  /\ UNCHANGED <<registryRest, saved, judged, strays, accidents>>

Observations(a) ==
  IF cycle.part = "services" THEN EvaluateServices(cycle.names, a)
  ELSE EvaluateHosts(cycle.hosts, cycle.s, a)

(* What Prometheus left unobserved is marked as such: of the hosts, the    *)
(* entries of enabled ones that are not switched off; of the services, all *)
(* of them when there was no answer.                                       *)
Unobserved(seen) ==
  IF cycle.part = "services"
  THEN IF seen = {} THEN DOMAIN states \cap ServiceKeys ELSE {}
  ELSE {k \in DOMAIN states \cap HostKeys : k[2] \in DOMAIN cycle.hosts} \ (cycle.off \cup seen)

AskPrometheus ==
  /\ step = "query"
  /\ \E a \in Answers :
       LET obs == Observations(a)
           mark == Unobserved(DOMAIN obs)
       IN  /\ Goes("work", [cycle EXCEPT !.todo = {<<k, Unseen>> : k \in mark}
                                                  \cup {<<k, obs[k]>> : k \in DOMAIN obs}])
           /\ judged' = judged \cup IF calm THEN {k \in mark : Silent(a, k)} ELSE {}
  /\ UNCHANGED <<registryRest, states, saved, strays, accidents>>

(* mark_unavailable, and then the signals, one after the other. *)
TakeSignal ==
  /\ step = "work"
  /\ IF cycle.todo = {}
     THEN NextPart /\ UNCHANGED <<states, judged>>
     ELSE LET marks == {x \in cycle.todo : x[2] = Unseen}
              taken == NextOf(IF marks # {} THEN marks ELSE cycle.todo)
              k == taken[1]
              o == taken[2]
              c == [cycle EXCEPT !.todo = @ \ {taken}, !.back = "work"]
          IN  IF o = Unseen
              THEN /\ UNCHANGED states
                   /\ IF k \in DOMAIN states
                      THEN Goes("save", [c EXCEPT !.key = k, !.entry = states[k], !.send = "none"])
                      ELSE Goes("work", c)
                   /\ UNCHANGED judged
              ELSE /\ Process(k, Damped!Evaluated(EntryAt(states, k), o, 0, FALSE), c)
                   /\ judged' = judged \cup IF calm THEN {k} ELSE {}
  /\ UNCHANGED <<registryRest, saved, strays, accidents>>

(* save_alert_state_to_db writes the entry it read before it looked for    *)
(* the row; an update of a row that is deleted meanwhile fails, an insert  *)
(* does not.                                                               *)
SaveEntry ==
  /\ step = "save" /\ IF cycle.send = "none" THEN Returns ELSE Goes("send", cycle)
  /\ \/ /\ saved' = Put(saved, cycle.key, Plain!Row(cycle.entry))
        /\ strays' = IF cycle.key \in DOMAIN states THEN strays \ {cycle.key}
                     ELSE strays \cup {cycle.key}
        /\ UNCHANGED accidents
     \/ /\ cycle.key \notin DOMAIN states /\ cycle.key \notin DOMAIN saved
        /\ UNCHANGED <<saved, strays, accidents>>
     \/ Accident /\ UNCHANGED <<saved, strays>>
  /\ UNCHANGED <<registryRest, states, judged>>

(* dispatch_alert and _handle_dispatch_result.  An entry that was          *)
(* discarded meanwhile is neither marked nor re-armed.                     *)
SendMessage ==
  /\ step = "send"
  /\ LET k == cycle.key
         e == EntryAt(states, k)
         after(new) == /\ states' = IF k \in DOMAIN states THEN Put(states, k, new) ELSE states
                       /\ IF new = e THEN Returns
                          ELSE Goes("save", [cycle EXCEPT !.entry = new, !.send = "none"])
     IN  \/ /\ after(IF cycle.send = "triggered" THEN Plain!MarkAnnounced(e) ELSE e)
            /\ UNCHANGED accidents
         \/ /\ Accident
            /\ after(IF cycle.send = "triggered" /\ ~cycle.announced /\ k \in DOMAIN states
                     THEN [e EXCEPT !.pending = TRUE] ELSE e)
  /\ UNCHANGED <<registryRest, saved, judged, strays>>

(* _load_service_monitoring; when it fails, the services are passed over. *)
LoadServices ==
  /\ step = "services"
  /\ \/ /\ Goes("sweep", [NoCycle EXCEPT !.part = "services", !.names = EnabledNames(services)])
        /\ UNCHANGED <<accidents, calm, judged>>
     \/ Accident /\ Goes("files", NoCycle) /\ Disturbed
  /\ UNCHANGED <<tables, states, saved, files, lock, request, drift, strays, asked, rounds>>
-------------------------------------------------------------------------------
(* sync_targets_from_db and sync_service_targets_from_db: under the lock,  *)
(* read the registry, then write.  `part` says which.                      *)
Snapshot(part) == IF part = "hosts" THEN HostTargets(hosts) ELSE ServiceTargets(services)

(* Mutant: whoever comes takes the lock. *)
FreeForAll(color, who) == lock' = [lock EXCEPT ![color] = who]

TakeLock(color, who) == lock[color] = "free" /\ lock' = [lock EXCEPT ![color] = who]

(* Where both colors are at it, the older of two snapshots may be written  *)
(* last.                                                                   *)
Beside(color) == lock[IF color = "here" THEN "there" ELSE "here"] # "free"

Acquire(color, who, content) ==
  /\ TakeLock(color, who)
  /\ drift' = IF Beside(color) THEN drift \cup DOMAIN content ELSE drift
  /\ UNCHANGED <<files, accidents>>

(* Each file is written on its own, or that fails and is only logged. *)
Write(color, content, current) ==
  /\ lock' = [lock EXCEPT ![color] = "free"]
  /\ \/ /\ files' = Over(content, files) /\ UNCHANGED accidents
        /\ drift' = IF Beside(color) THEN drift \cup DOMAIN content
                    ELSE IF current THEN drift \ DOMAIN content ELSE drift
     \/ /\ Accident
        /\ \E f \in DOMAIN content :
             /\ files' = Over(Without(content, {f}), files)
             /\ drift' = drift \cup {f}

(* reconcile_scrape_targets, at the end of each cycle: the hosts, then the *)
(* services, up to a failure of the database.                              *)
Reconcile ==
  /\ \/ /\ step = "files"
        /\ LET content == Snapshot(cycle.part)
           IN  Acquire("here", "cycle", content) /\ Goes("write", [cycle EXCEPT !.content = content])
     \/ /\ step = "write" /\ Write("here", cycle.content, calm)
        /\ IF cycle.part = "hosts" THEN Goes("files", [NoCycle EXCEPT !.part = "services"])
                                   ELSE Goes("idle", NoCycle)
     \/ step = "files" /\ Accident /\ Goes("idle", NoCycle) /\ UNCHANGED <<files, lock, drift>>
  /\ UNCHANGED <<tables, request, calm, asked, rounds, states, saved, judged, strays>>

Cycle ==
  \/ LoadHosts \/ RetireSignal \/ DropRetired \/ EraseRow \/ SweepUnmonitored
  \/ AskPrometheus \/ TakeSignal \/ SaveEntry \/ SendMessage
  \/ LoadServices \/ Reconcile
-------------------------------------------------------------------------------
(* The handlers. *)
Color(c) == IF c \in Near THEN "here" ELSE "there"
ToSync(r) == [NoRequest EXCEPT !.op = r.op, !.stage = "sync"]
Syncs(c) == request' = [request EXCEPT ![c] = ToSync(@)]
Done(c) == request' = [request EXCEPT ![c] = NoRequest]

Begins(c) ==
  /\ request[c] = NoRequest /\ asked + accidents < MaxEvents /\ asked' = asked + 1 /\ Disturbed

cycleVars == <<step, cycle, rounds>>
stateVars == <<states, saved, strays>>

(* _clear_alert_state: from memory at once, from the table what rows there *)
(* are, when the transaction is committed.                                 *)
Clear(c, new, keys) ==
  /\ states' = IF c \in Near THEN Without(states, keys) ELSE states
  /\ request' = [request EXCEPT ![c] = [new EXCEPT !.keys = DOMAIN saved \cap keys]]

KeysOf(h) == HostTypes \X {h}

(* create_server, update_server: the thresholds are looked at, the row is  *)
(* committed.  A new row has nothing to clear.                             *)
SaveHost(c, h, body) ==
  /\ Begins(c) /\ ValidDisk(body, settings)
  /\ hosts' = [hosts EXCEPT ![h] = body]
  /\ request' = [request EXCEPT ![c] =
       [NoRequest EXCEPT !.op = "hosts", !.of = h, !.had = hosts[h].gpu,
                      !.stage = IF IsRow(hosts[h]) THEN "refresh" ELSE "sync"]]
  /\ UNCHANGED <<services, settings, stateVars, files, lock, cycleVars, drift, accidents>>

(* Mutant: a host whose GPU is monitored no longer loses all its states. *)
WholeHost(h, had) == IF hosts[h].on /\ (had => hosts[h].gpu) THEN {} ELSE KeysOf(h)

(* update_server, after the row was read back: which states go. *)
Cleared(h, had) ==
  IF ~hosts[h].on THEN KeysOf(h) ELSE IF had /\ ~hosts[h].gpu THEN GpuTypes \X {h} ELSE {}

RefreshHost(c) ==
  /\ request[c].op = "hosts" /\ request[c].stage = "refresh"
  /\ LET keys == Cleared(request[c].of, request[c].had) IN
     IF keys = {} THEN Syncs(c) /\ UNCHANGED states
     ELSE Clear(c, [request[c] EXCEPT !.stage = "forget"], keys)
  /\ Disturbed
  /\ UNCHANGED <<tables, saved, strays, files, lock, cycleVars, drift, asked, accidents>>

(* The second commit of an update.  Should it fail, the request ends with  *)
(* an error, the rows stay, and the targets are not written.               *)
ForgetStates(c) ==
  /\ request[c].stage = "forget" /\ Disturbed
  /\ \/ saved' = Without(saved, request[c].keys) /\ Syncs(c) /\ UNCHANGED <<strays, drift, accidents>>
     \/ /\ Accident /\ Done(c) /\ UNCHANGED saved
        /\ strays' = strays \cup request[c].keys /\ drift' = drift \cup DOMAIN files
  /\ UNCHANGED <<tables, states, files, lock, cycleVars, asked>>

(* delete_server, delete_external_service: states first, then one commit   *)
(* for the states and the row.  The loser of two deletions has no row left *)
(* to delete, and fails whole.                                             *)
DeleteHost(c, h) ==
  /\ Begins(c) /\ IsRow(hosts[h])
  /\ Clear(c, [NoRequest EXCEPT !.op = "hosts", !.of = h, !.stage = "remove"], KeysOf(h))
  /\ UNCHANGED <<tables, saved, strays, files, lock, cycleVars, drift, accidents>>

DeleteService(c, i) ==
  /\ Begins(c) /\ IsRow(services[i])
  /\ Clear(c, [NoRequest EXCEPT !.op = "services", !.of = i, !.stage = "remove"],
           {<<ServiceType, services[i].name>>})
  /\ UNCHANGED <<tables, saved, strays, files, lock, cycleVars, drift, accidents>>

(* The row goes; who was about to read it back finds nothing, and ends     *)
(* with an error, and who was about to delete it too has lost.             *)
RemoveRow(c) ==
  /\ request[c].stage \in {"remove", "lost"} /\ Disturbed
  /\ LET op == request[c].op
         of == request[c].of
         late(d, stage) == request[d].op = op /\ request[d].of = of /\ request[d].stage = stage
     IN  \/ /\ request[c].stage = "remove"
            /\ IF op = "hosts" THEN hosts' = [hosts EXCEPT ![of] = Absent] /\ UNCHANGED services
                               ELSE services' = [services EXCEPT ![of] = Absent] /\ UNCHANGED hosts
            /\ saved' = Without(saved, request[c].keys)
            /\ request' = [d \in Handlers |->
                 CASE d = c             -> ToSync(request[d])
                   [] late(d, "refresh") -> NoRequest
                   [] d # c /\ late(d, "remove") -> [request[d] EXCEPT !.stage = "lost"]
                   [] OTHER             -> request[d]]
            /\ UNCHANGED <<strays, accidents>>
         \/ /\ (request[c].stage = "lost" /\ UNCHANGED accidents) \/ Accident
            /\ Done(c) /\ strays' = strays \cup (request[c].keys \cap DOMAIN saved)
            /\ UNCHANGED <<hosts, services, saved>>
  /\ UNCHANGED <<settings, states, files, lock, cycleVars, drift, asked>>

Taken(n, i) == \E j \in Slots \ {i} : IsRow(services[j]) /\ services[j].name = n

(* create_external_service, update_external_service: a name is unique. *)
SaveService(c, i, n, on) ==
  /\ Begins(c) /\ ~Taken(n, i)
  /\ services' = [services EXCEPT ![i] = ServiceRow(n, on)]
  /\ request' = [request EXCEPT ![c] =
       [NoRequest EXCEPT !.op = "services", !.of = i,
                      !.stage = IF IsRow(services[i]) THEN "refresh" ELSE "sync",
                      !.was = IF IsRow(services[i]) THEN services[i].name ELSE n]]
  /\ UNCHANGED <<hosts, settings, stateVars, files, lock, cycleVars, drift, accidents>>

(* update_external_service, after the row was read back: a disabled or     *)
(* renamed service leaves no state under its old name.                     *)
RefreshService(c) ==
  /\ request[c].op = "services" /\ request[c].stage = "refresh"
  /\ LET row == services[request[c].of] IN
     IF row.on /\ row.name = request[c].was THEN Syncs(c) /\ UNCHANGED states
     ELSE Clear(c, [request[c] EXCEPT !.stage = "forget"], {<<ServiceType, request[c].was>>})
  /\ Disturbed
  /\ UNCHANGED <<tables, saved, strays, files, lock, cycleVars, drift, asked, accidents>>

StartSync(c) ==
  LET content == Snapshot(request[c].op) IN
  /\ request[c].stage = "sync" /\ Acquire(Color(c), c, content)
  /\ request' = [request EXCEPT ![c].stage = "write", ![c].content = content]

(* When the registry cannot be read the request ends with an error.        *)
FailSync(c) ==
  /\ request[c].stage = "sync" /\ Accident /\ Done(c)
  /\ drift' = drift \cup DOMAIN Snapshot(request[c].op) /\ UNCHANGED <<files, lock>>

SyncTargets(c) ==
  /\ \/ StartSync(c) \/ FailSync(c)
     \/ request[c].stage = "write" /\ Write(Color(c), request[c].content, FALSE) /\ Done(c)
  /\ Disturbed
  /\ UNCHANGED <<tables, stateVars, cycleVars, asked>>

(* The global thresholds (update_alert_settings). *)
ChangeSettings ==
  /\ asked + accidents < MaxEvents /\ asked' = asked + 1 /\ Disturbed
  /\ settings' \in Settings
  /\ UNCHANGED <<hosts, services, stateVars, files, lock, request, cycleVars, drift, accidents>>

(* A restart of this color: its memory is loaded from the table, without   *)
(* the states of targets that are registered no longer, and the targets    *)
(* are written.                                                            *)
Registered(k) ==
  IF k[1] = ServiceType THEN \E i \in Slots : IsRow(services[i]) /\ services[i].name = k[2]
  ELSE IsRow(hosts[k[2]])

RestartColor ==
  /\ Accident
  /\ saved' = Restrict(saved, {k \in DOMAIN saved : Registered(k)}) /\ states' = saved'
  /\ request' = [c \in Handlers |-> IF c \in Near THEN NoRequest ELSE request[c]]
  /\ lock' = [lock EXCEPT !.here = "free"]
  /\ files' = Rendered /\ drift' = IF Beside("here") THEN DOMAIN files ELSE {}
  /\ step' = "idle" /\ cycle' = NoCycle /\ Disturbed /\ strays' = {}
  /\ UNCHANGED <<tables, asked, rounds>>

HostRequest ==
  \E c \in Handlers :
    \/ \E h \in Hosts : DeleteHost(c, h) \/ \E b \in HostBodies : SaveHost(c, h, b)
    \/ RefreshHost(c)

ServiceRequest ==
  \E c \in Handlers :
    \/ \E i \in Slots :
         DeleteService(c, i) \/ \E n \in ServiceNames, on \in BOOLEAN : SaveService(c, i, n, on)
    \/ RefreshService(c)

Advance == \E c \in Handlers : ForgetStates(c) \/ RemoveRow(c) \/ SyncTargets(c)

RegistryNext == Cycle \/ HostRequest \/ ServiceRequest \/ ChangeSettings \/ Advance \/ RestartColor
RegistrySpec == RegistryInit /\ [][RegistryNext]_registryVars
-------------------------------------------------------------------------------
(* After a cycle that no request disturbed, the status page is true: it    *)
(* has entries of monitored targets and of signals that are switched on,   *)
(* and of no other; each was observed in this cycle or is marked as       *)
(* unavailable, and is marked so only where Prometheus had no value.  The  *)
(* table has no row that memory has not, but those that failed deletions   *)
(* and late saves left (disabled_signals, evaluate_hosts,                  *)
(* _discard_unmonitored_states, _clear_alert_state).                       *)
StatusIsTrue ==
  step = "idle" /\ calm =>
    LET shown == DOMAIN states IN
    /\ shown \subseteq Watched(hosts, services, settings)
    /\ shown \subseteq judged
    /\ DOMAIN saved \ strays \subseteq shown

(* When no request is in progress the targets files have what the registry *)
(* has, unless a write failed or the two colors wrote side by side, and    *)
(* then until the end of the next undisturbed cycle (_SYNC_LOCK,           *)
(* reconcile_scrape_targets).                                              *)
TargetsFollow ==
  Quiet => \A f \in DOMAIN files \ drift : files[f] = Rendered[f]

(* What this cycle found unmonitored or switched off. *)
LetGo(k) ==
  IF k[1] = ServiceType THEN cycle.part = "services" /\ k[2] \notin cycle.names
  ELSE k[2] \notin DOMAIN cycle.hosts \/ k \in cycle.off

(* A service takes a name that is just being given up. *)
Reused(n) == \E i \in Slots : IsRow(services[i]) /\ services[i].name = n

(* An open incident is dropped without a word only when its target is no   *)
(* longer monitored, or was not when the cycle or the request that drops   *)
(* it looked (SweepUnmonitored, RetireSignal, _clear_alert_state).                          *)
IncidentsAreKept ==
  [][\A k \in DOMAIN states \ DOMAIN states' : states[k].status = "alert" =>
       \/ k \notin Watched(hosts, services, settings)
       \/ step' = "erase" /\ LetGo(k)
       \/ \E c \in Handlers : \/ request'[c].stage = "remove"
                             \/ (request'[c].stage = "forget" /\ Reused(request'[c].was))
       \/ accidents' # accidents]_registryVars
===============================================================================
