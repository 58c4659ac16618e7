------------------------------ MODULE HostSignals ------------------------------
(***************************************************************************)
(* What unibridge-service/app/services/server_monitor.py makes of the      *)
(* metrics of monitored hosts and services: which signals configuration    *)
(* switches off, which are emitted for an answer of Prometheus, and the    *)
(* scrape targets of a registry.                                           *)
(*                                                                         *)
(* Percentages are small numbers compared with thresholds only.  A row of  *)
(* a registry is Absent, or says whether it is switched on, whether it has *)
(* a GPU exporter, its own thresholds, and (a service) its name.           *)
(***************************************************************************)
EXTENDS Integers

Absent == [absent |-> TRUE, on |-> FALSE, gpu |-> FALSE, own |-> <<>>, name |-> "-"]
IsRow(r) == ~r.absent

GpuTypes == {"server_gpu_down", "server_gpu_util", "server_gpu_mem"}
HostTypes == GpuTypes \cup
  {"server_down", "server_disk", "server_disk_forecast", "server_cpu", "server_mem"}
ServiceType == "external_service_down"

(* An observation is Well, or a severity: 1 for warning, 2 for critical. *)
Well == -1

Levels == {"disk_warn", "disk_crit", "cpu", "mem", "gpu_util", "gpu_mem"}
Queries == {"up", "disk", "forecast", "cpu", "mem", "gpu_up", "gpu_util", "gpu_mem", "services"}

(* A host's own threshold comes before the global one. *)
Effective(row, s, f) == IF f \in DOMAIN row.own THEN row.own[f] ELSE s[f]

(* disk_warn_pct may not exceed disk_crit_pct when a host is saved. *)
ValidDisk(row, s) == Effective(row, s, "disk_warn") <= Effective(row, s, "disk_crit")

(* Mutant: disk alerting counts as off when it has no warning level. *)
OffWithoutWarning(row, s) ==
  {t \in HostTypes : \/ t = "server_disk_forecast" /\ s.forecast = 0
                     \/ t = "server_disk" /\ Effective(row, s, "disk_warn") = 0
                     \/ t \in GpuTypes /\ ~row.gpu}

(* disabled_signals: the types that configuration switches off for a host. *)
DisabledSignals(row, s) ==
  LET off(f) == Effective(row, s, f) = 0
  IN  {t \in HostTypes :
         \/ t = "server_disk_forecast" /\ s.forecast = 0
         \/ t = "server_disk" /\ off("disk_warn") /\ off("disk_crit")
         \/ t = "server_cpu" /\ off("cpu")
         \/ t = "server_mem" /\ off("mem")
         \/ t \in GpuTypes /\ ~row.gpu
         \/ t = "server_gpu_util" /\ off("gpu_util")
         \/ t = "server_gpu_mem" /\ off("gpu_mem")}
-------------------------------------------------------------------------------
(* An answer says of each query whether it succeeded, and the value of     *)
(* each target that has one (_map_by_host, _map_by_service).               *)
Value(a, q, target) == IF a[q].ok /\ target \in DOMAIN a[q].of THEN a[q].of[target] ELSE -1
IsUp(a, q, target) == Value(a, q, target) >= 1

(* The severity of a value at its thresholds, a threshold of 0 being off. *)
Level(v, warn, crit) ==
  IF crit > 0 /\ v >= crit THEN 2 ELSE IF warn > 0 /\ v >= warn THEN 1 ELSE Well

(* evaluate_hosts: the types emitted for one host.  A host that is down    *)
(* has no other signal, a GPU exporter that is down no other GPU signal.   *)
Emits(h, row, s, a, t) ==
  LET up      == IsUp(a, "up", h)
      has(q)  == Value(a, q, h) >= 0
      on(f)   == Effective(row, s, f) > 0
      gpu     == row.gpu /\ a.gpu_up.ok
  IN  /\ t = "server_down" \/ up
      /\ t \in GpuTypes => gpu /\ (t = "server_gpu_down" \/ IsUp(a, "gpu_up", h))
      /\ CASE t \in {"server_down", "server_gpu_down"} -> TRUE
           [] t = "server_disk" -> a.disk.ok /\ (on("disk_warn") \/ on("disk_crit"))
           [] t = "server_disk_forecast" -> has("disk") /\ s.forecast > 0 /\ has("forecast")
           [] t = "server_cpu" -> has("cpu") /\ on("cpu")
           [] t = "server_mem" -> has("mem") /\ on("mem")
           [] t = "server_gpu_util" -> has("gpu_util") /\ on("gpu_util")
           [] t = "server_gpu_mem" -> has("gpu_mem") /\ on("gpu_mem")

(* What a signal says.  Disks of which no filesystem matches are reported  *)
(* at the lowest level the host alerts at; a forecast of 0 is a disk that  *)
(* will be full within the horizon.                                        *)
Sees(h, row, s, a, t) ==
  LET v(q)    == Value(a, q, h)
      level(f) == Effective(row, s, f)
      down(q) == IF IsUp(a, q, h) THEN Well ELSE 2
  IN  CASE t = "server_down" -> down("up")
        [] t = "server_disk" -> IF v("disk") < 0 THEN IF level("disk_warn") > 0 THEN 1 ELSE 2
                                ELSE Level(v("disk"), level("disk_warn"), level("disk_crit"))
        [] t = "server_disk_forecast" -> IF v("forecast") = 0 THEN 1 ELSE Well
        [] t = "server_cpu" -> Level(v("cpu"), level("cpu"), 0)
        [] t = "server_mem" -> Level(v("mem"), level("mem"), 0)
        [] t = "server_gpu_down" -> down("gpu_up")
        [] t = "server_gpu_util" -> Level(v("gpu_util"), level("gpu_util"), 0)
        [] t = "server_gpu_mem" -> Level(v("gpu_mem"), level("gpu_mem"), 0)

(* evaluate_hosts for all hosts of a table: nothing without the query of   *)
(* who is up.                                                              *)
EvaluateHosts(table, s, a) ==
  LET emitted == {k \in HostTypes \X DOMAIN table : a.up.ok /\ Emits(k[2], table[k[2]], s, a, k[1])}
  IN  [k \in emitted |-> Sees(k[2], table[k[2]], s, a, k[1])]

(* evaluate_services. *)
EvaluateServices(names, a) ==
  [k \in {ServiceType} \X (IF a.services.ok THEN names ELSE {}) |->
     IF IsUp(a, "services", k[2]) THEN Well ELSE 2]

(* Prometheus tells nothing of this key: what it would be judged by is     *)
(* missing, or its target is down.                                         *)
Silent(a, k) ==
  LET none(q) == Value(a, q, k[2]) < 0
      up(q)   == IsUp(a, q, k[2])
  IN  CASE k[1] = ServiceType -> ~a.services.ok
        [] k[1] = "server_down" -> ~a.up.ok
        [] k[1] = "server_disk" -> ~up("up") \/ ~a.disk.ok
        [] k[1] = "server_disk_forecast" -> ~up("up") \/ none("disk") \/ none("forecast")
        [] k[1] = "server_cpu" -> ~up("up") \/ none("cpu")
        [] k[1] = "server_mem" -> ~up("up") \/ none("mem")
        [] k[1] = "server_gpu_down" -> ~up("up") \/ ~a.gpu_up.ok
        [] k[1] = "server_gpu_util" -> ~up("up") \/ ~up("gpu_up") \/ none("gpu_util")
        [] k[1] = "server_gpu_mem" -> ~up("up") \/ ~up("gpu_up") \/ none("gpu_mem")
-------------------------------------------------------------------------------
Enabled(table) == {i \in DOMAIN table : table[i].on}
EnabledNames(table) == {table[i].name : i \in Enabled(table)}

(* build_targets, build_gpu_targets, build_service_targets. *)
HostTargets(table) == [node |-> Enabled(table), gpu |-> {h \in Enabled(table) : table[h].gpu}]
ServiceTargets(table) == [service |-> EnabledNames(table)]

(* The keys that have a signal: their target is enabled and the signal on. *)
Watched(hs, ss, s) ==
  {k \in HostTypes \X Enabled(hs) : k[1] \notin DisabledSignals(hs[k[2]], s)}
  \cup {ServiceType} \X EnabledNames(ss)
===============================================================================
