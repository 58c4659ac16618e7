------------------------------- MODULE MCAlerts -------------------------------
(***************************************************************************)
(* The checker of one color in one run: its cycle over one graded target   *)
(* with mutes and crashes (AlertPipeline), and its host and service parts  *)
(* beside the handlers of the registry (AlertRegistry).  The two share the *)
(* state machine of an entry and nothing of the state, so that a behaviour *)
(* is about one of them and leaves the other where it starts.              *)
(***************************************************************************)
EXTENDS AlertPipeline, AlertRegistry, TLC

CONSTANTS disk, host, slot, a, b

VARIABLE focus  \* the part this behaviour is about, never changed

(* A host with a GPU exporter, or a service, is registered at the start.   *)
Body(on, gpu) == [Absent EXCEPT !.absent = FALSE, !.on = on, !.gpu = gpu]
MCBodies == {Body(TRUE, TRUE), Body(TRUE, FALSE), Body(FALSE, TRUE)}
MCFirstHosts == {[h \in Hosts |-> r] : r \in {Absent, Body(TRUE, TRUE)}}
MCFirstServices == {[i \in Slots |-> r] : r \in {Absent, [Body(TRUE, FALSE) EXCEPT !.name = a]}}

(* Disks are alerted at a critical level only, or not at all. *)
Thresholds(crit) == [disk_warn |-> 0, disk_crit |-> crit, cpu |-> 0, mem |-> 0,
                     gpu_util |-> 0, gpu_mem |-> 0, forecast |-> 0]
MCSettings == {Thresholds(2), Thresholds(0)}

AlertsInit ==
  /\ Init /\ RegistryInit
  /\ \/ focus = "pipeline" /\ ~IsRow(hosts[host]) /\ ~IsRow(services[slot])
     \/ focus = "hosts" /\ IsRow(hosts[host]) /\ ~IsRow(services[slot])
     \/ focus = "services" /\ ~IsRow(hosts[host]) /\ IsRow(services[slot])
  /\ settings = Thresholds(2) /\ (focus # "pipeline" => \A t \in Targets : db[t] = NoEntry)

Part(name, Step, others) == focus = name /\ Step /\ UNCHANGED <<focus, others>>

AlertsNext ==
  \/ Part("pipeline", Next, registryVars)
  \/ Part("hosts", HostRequest \/ ChangeSettings, vars)
  \/ Part("services", ServiceRequest, vars)
  \/ focus # "pipeline" /\ (Cycle \/ Advance \/ RestartColor) /\ UNCHANGED <<focus, vars>>

AlertsSpec == AlertsInit /\ [][AlertsNext]_<<focus, vars, registryVars>>

(* Prometheus sees a full disk, a dead GPU exporter and a dead service; or *)
(* all of them well; or it answers the queries of disks and GPUs only.     *)
Missing == [ok |-> FALSE, of |-> <<>>]
Answer(up, level, gpu, service) ==
  [q \in {"forecast", "cpu", "mem", "gpu_util", "gpu_mem"} |-> Missing]
  @@ [up |-> up, disk |-> [ok |-> TRUE, of |-> [h \in Hosts |-> level]],
      gpu_up |-> [ok |-> TRUE, of |-> [h \in Hosts |-> gpu]], services |-> service]
OfHosts(v) == [ok |-> TRUE, of |-> [h \in Hosts |-> v]]
OfServices(v) == [ok |-> TRUE, of |-> [n \in ServiceNames |-> v]]
MCAnswers == {Answer(OfHosts(1), 2, 0, OfServices(0)), Answer(OfHosts(1), 1, 1, OfServices(1)),
              Answer(Missing, 1, 1, Missing)}

Symmetry == Permutations(Near)
===============================================================================
